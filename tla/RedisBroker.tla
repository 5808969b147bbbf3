----------------------------- MODULE RedisBroker -----------------------------
(***************************************************************************)
(* The Redis publish/subscribe channels between the servers, one channel   *)
(* per user id (src/server/redis/redis.cpp).                               *)
(*                                                                         *)
(* A server has two connections to Redis.  PUBLISH goes over the first and *)
(* waits for the reply, so it is atomic.  SUBSCRIBE and UNSUBSCRIBE are    *)
(* only written to the second one: the caller goes on while the command is *)
(* still on its way, so Redis executes it later.  The messages Redis       *)
(* pushes come back over that second connection and a detached thread      *)
(* reads them one by one.                                                  *)
(***************************************************************************)
EXTENDS ChatTypes

VARIABLES
  subs,     \* Redis' own table: the <<server, user>> pairs subscribed
  cmds,     \* for each server, the commands written but not executed yet
  pushed    \* for each server, the messages pushed but not read yet

redisVars == <<subs, cmds, pushed>>

Command == [op : {"SUBSCRIBE", "UNSUBSCRIBE"}, user : Users]

RedisTypeOK ==
  /\ subs \subseteq Servers \X Users
  /\ cmds \in [Servers -> Seq(Command)]
  /\ pushed \in [Servers -> Seq(Parcel)]

RedisInit ==
  /\ subs = {}
  /\ cmds = [s \in Servers |-> <<>>]
  /\ pushed = [s \in Servers |-> <<>>]

-----------------------------------------------------------------------------
WriteCommand(s, command) ==
  /\ cmds' = [cmds EXCEPT ![s] = Append(@, command)]
  /\ UNCHANGED <<subs, pushed>>

\* Redis::subscribe: redisAppendCommand and redisBufferWrite, no reply awaited.
Subscribe(s, u) == WriteCommand(s, [op |-> "SUBSCRIBE", user |-> u])

\* Redis::unsubscribe: likewise.
Unsubscribe(s, u) == WriteCommand(s, [op |-> "UNSUBSCRIBE", user |-> u])

\* Redis::publish: every server subscribed at that moment gets the message;
\* when there is none it is gone, and the caller does not look at the count.
Publish(u, m) ==
  /\ pushed' = [s \in Servers |->
                  IF <<s, u>> \in subs
                    THEN Append(pushed[s], [to |-> u, msg |-> m])
                    ELSE pushed[s]]
  /\ UNCHANGED <<subs, cmds>>

\* Redis executes the next command of server s.
Execute(s) ==
  /\ cmds[s] # <<>>
  /\ LET command == Head(cmds[s])
         channel == <<s, command.user>>
     IN subs' = IF command.op = "SUBSCRIBE"
                  THEN subs \cup {channel} ELSE subs \ {channel}
  /\ cmds' = [cmds EXCEPT ![s] = Tail(@)]
  /\ UNCHANGED pushed

\* Redis::receiveMessage: the receiving thread reads the next message.
Receive(s) ==
  /\ pushed[s] # <<>>
  /\ pushed' = [pushed EXCEPT ![s] = Tail(@)]
  /\ UNCHANGED <<subs, cmds>>

\* The process of server s is gone: both its connections close.
DropServer(s) ==
  /\ subs' = {channel \in subs : channel[1] # s}
  /\ cmds' = [cmds EXCEPT ![s] = <<>>]
  /\ pushed' = [pushed EXCEPT ![s] = <<>>]
=============================================================================
