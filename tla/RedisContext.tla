---------------------------- MODULE RedisContext ----------------------------
(***************************************************************************)
(* How Redis::subscribe and Redis::unsubscribe use _subscribeContext: what *)
(* RedisBroker's WriteCommand is made of.                                  *)
(*                                                                         *)
(* redisAppendCommand puts a command at the end of the context's output    *)
(* buffer, redisBufferWrite writes what it can of the buffer and takes     *)
(* that off its front, and the caller repeats the latter until the buffer  *)
(* is empty.  The receiving thread's redisGetReply does the same before it *)
(* reads.  No mutex protects the context: the handlers of several event    *)
(* loops and the receiving thread may be inside at the same time.  A step  *)
(* that replaces the buffer under another thread's feet is a data race:    *)
(* afterwards commands may be lost or doubled, or the process die.         *)
(*                                                                         *)
(* hiredis is modelled from how redis.cpp uses it.                         *)
(***************************************************************************)
EXTENDS Integers, Sequences, FiniteSets, Filter

CONSTANTS
  Callers,     \* threads of event loops
  Receiver,    \* the detached thread of Redis::connect
  Users, Msgs,
  NoCommand,
  Confirmation,   \* Redis' reply to a command
  MaxCalls,    \* bound: calls of subscribe and unsubscribe
  MaxPushes    \* bound: messages published to this server

Threads == Callers \cup {Receiver}
Command == [op : {"SUBSCRIBE", "UNSUBSCRIBE"}, user : Users]
Message == [to : Users, msg : Msgs]

ASSUME RedisContextAssumption ==
  /\ Receiver \notin Callers
  /\ Confirmation \notin Message
  /\ {MaxCalls, MaxPushes} \subseteq Nat

VARIABLES
  stage,      \* of ChatService's constructor
  obuf,       \* the context's output buffer
  begun,      \* a part of its first command is written already
  err,        \* the context's err
  socket,     \* commands written and not executed by Redis
  inbox,      \* replies and messages sent by Redis and not read
  subs,       \* Redis: the channels of this connection
  broken,     \* the connection is lost
  pc,         \* where each thread is
  job,        \* the command of a caller's call
  loaded,     \* the buffer a thread has read and is about to replace
  raced,      \* history: the buffer was replaced under another thread's feet
  died,       \* the process did not survive that
  calls, pushes   \* counters for the bounds

redis == <<socket, inbox, subs, broken, pushes>>
context == <<obuf, begun, err, raced>>
threads == <<pc, job, loaded, calls>>
contextVars == <<stage, context, redis, threads, died>>

RedisContextTypeOK ==
  /\ stage \in {"start", "connected", "ready"}
  /\ obuf \in Seq(Command) /\ socket \in Seq(Command)
  /\ inbox \in Seq(Message \cup {Confirmation})
  /\ subs \subseteq Users
  /\ {begun, err, broken, raced, died} \subseteq BOOLEAN
  /\ pc \in [Threads -> {"idle", "append", "write", "clear", "get", "read", "ended"}]
  /\ job \in [Callers -> Command \cup {NoCommand}]
  /\ loaded \in [Threads -> Seq(Command)]
  /\ calls \in 0..MaxCalls /\ pushes \in 0..MaxPushes

RedisContextInit ==
  /\ stage = "start"
  /\ obuf = <<>> /\ socket = <<>> /\ inbox = <<>> /\ subs = {}
  /\ begun = FALSE /\ err = FALSE /\ broken = FALSE /\ raced = FALSE /\ died = FALSE
  /\ pc = [t \in Threads |-> "idle"]
  /\ job = [t \in Callers |-> NoCommand]
  /\ loaded = [t \in Threads |-> <<>>]
  /\ calls = 0 /\ pushes = 0

-----------------------------------------------------------------------------
\* Construction of the ChatService

\* Redis::connect: the receiving thread starts before the handler is set.
\* redisConnect returns a context even without a connection, with err set.
Connect(fails) ==
  /\ stage = "start"
  /\ stage' = "connected"
  /\ err' = fails /\ broken' = fails
  /\ pc' = [pc EXCEPT ![Receiver] = "get"]
  /\ UNCHANGED <<obuf, begun, raced, socket, inbox, subs, pushes, job, loaded, calls, died>>

SetNotifyMessageHandler ==
  /\ stage = "connected"
  /\ stage' = "ready"
  /\ UNCHANGED <<context, redis, threads, died>>

-----------------------------------------------------------------------------
\* Threads inside the context

Goes(t, where) == pc' = [pc EXCEPT ![t] = where]

\* Another thread has read the buffer and is about to replace it.
Pending(t, where) == \E o \in Threads \ {t} : pc[o] \in where
Races(t, where) == raced' = (raced \/ Pending(t, where))

\* Mutation: any handler may run while the service is being constructed.
ServiceExists == stage # "start"

\* Handlers come from ChatService::instance(), whose construction they wait for.
Constructed == stage = "ready"

\* closing and logOut unsubscribe with _userConnMapMutex held.
MutexFree == \A t \in Callers : pc[t] # "idle" => job[t].op = "SUBSCRIBE"

\* redisAppendCommand reads the buffer ...
Call(t, command) ==
  /\ Constructed
  /\ pc[t] = "idle"
  /\ calls < MaxCalls
  /\ command.op = "UNSUBSCRIBE" => MutexFree
  /\ calls' = calls + 1
  /\ job' = [job EXCEPT ![t] = command]
  /\ loaded' = [loaded EXCEPT ![t] = obuf]
  /\ Goes(t, "append")
  /\ UNCHANGED <<stage, context, redis, died>>

\* Mutation: the new command alone.
AppendAlone(t) ==
  /\ pc[t] = "append"
  /\ obuf' = <<job[t]>>
  /\ Races(t, {"append", "clear"})
  /\ loaded' = [loaded EXCEPT ![t] = <<>>]
  /\ Goes(t, "write")
  /\ UNCHANGED <<stage, begun, err, redis, job, calls, died>>

\* ... and replaces it by a longer one.
AppendCommand(t) ==
  /\ pc[t] = "append"
  /\ obuf' = Append(loaded[t], job[t])
  /\ Races(t, {"append", "clear"})
  /\ loaded' = [loaded EXCEPT ![t] = <<>>]
  /\ Goes(t, "write")
  /\ UNCHANGED <<stage, begun, err, redis, job, calls, died>>

\* A call returns (whether true or false, nobody looks); the receiving thread
\* goes on to read, or ends.
Leave(t, ok) ==
  /\ loaded' = [loaded EXCEPT ![t] = <<>>]
  /\ IF t = Receiver
       THEN Goes(t, IF ok THEN "read" ELSE "ended") /\ UNCHANGED job
       ELSE Goes(t, "idle") /\ job' = [job EXCEPT ![t] = NoCommand]

Writes(t) == pc[t] = "write" \/ (t = Receiver /\ pc[t] = "get")

\* redisBufferWrite fails, and leaves what it did not write in the buffer.
BufferWriteFails(t) ==
  /\ Writes(t)
  /\ err \/ (broken /\ obuf # <<>>)
  /\ err' = TRUE
  /\ Leave(t, FALSE)
  /\ UNCHANGED <<stage, obuf, begun, raced, redis, calls, died>>

\* It has nothing to write: done.
BufferEmpty(t) ==
  /\ Writes(t)
  /\ ~err /\ obuf = <<>>
  /\ Leave(t, TRUE)
  /\ UNCHANGED <<stage, context, redis, calls, died>>

\* It writes the first n commands of the buffer, or a part of the first alone; on
\* a lost connection the kernel may still take them.
BufferWrite(t) ==
  /\ Writes(t)
  /\ ~err
  /\ \E n \in (IF begun THEN 1 ELSE 0)..Len(obuf) :
       /\ obuf # <<>>
       /\ socket' = IF broken THEN <<>> ELSE socket \o SubSeq(obuf, 1, n)
       /\ loaded' = [loaded EXCEPT ![t] = SubSeq(obuf, 1, n)]
  /\ Races(t, {"clear"})
  /\ Goes(t, "clear")
  /\ UNCHANGED <<stage, obuf, begun, err, inbox, subs, broken, pushes, job, calls, died>>

\* Mutations: redis.cpp without the loop until done; and with redisCommand, which
\* waits for the reply.
WriteOnce(t) == "leave"
AwaitReply(t) == IF t = Receiver THEN "write" ELSE "reply"

\* while(!done)
UntilDone(t) == "write"

\* It takes what was written off the buffer, and tells whether anything is left.
ClearWritten(t) ==
  /\ pc[t] = "clear"
  /\ LET rest == SubSeq(obuf, Len(loaded[t]) + 1, Len(obuf))
     IN /\ obuf' = rest
        /\ begun' = (loaded[t] = <<>>)
        /\ IF rest = <<>> \/ UntilDone(t) = "leave"
             THEN Leave(t, TRUE)
             ELSE /\ Goes(t, UntilDone(t))
                  /\ loaded' = [loaded EXCEPT ![t] = <<>>]
                  /\ UNCHANGED job
  /\ Races(t, {"append", "clear"})
  /\ UNCHANGED <<stage, err, redis, calls, died>>

-----------------------------------------------------------------------------
\* The receiving thread

\* redisGetReply returns a reply: one that an earlier read left in the reader,
\* or one it reads after it has written the buffer out.  A message is passed to
\* the notify handler.
GetReply ==
  /\ pc[Receiver] \in {"get", "read"}
  /\ inbox # <<>>
  /\ inbox' = Tail(inbox)
  /\ Goes(Receiver, "get")
  /\ UNCHANGED <<stage, context, socket, subs, broken, pushes, job, loaded, calls, died>>

\* It fails, and receiveMessage ends for good.
GetReplyFails ==
  /\ pc[Receiver] = "read"
  /\ inbox = <<>> /\ broken
  /\ err' = TRUE
  /\ Goes(Receiver, "ended")
  /\ UNCHANGED <<stage, obuf, begun, raced, redis, job, loaded, calls, died>>

\* After a race a thread may use memory that was freed.
Die ==
  /\ raced
  /\ died' = TRUE
  /\ UNCHANGED <<stage, context, redis, threads>>

-----------------------------------------------------------------------------
\* Redis

ExecuteCommand ==
  /\ socket # <<>> /\ ~broken
  /\ LET command == Head(socket)
     IN subs' = IF command.op = "SUBSCRIBE"
                  THEN subs \cup {command.user} ELSE subs \ {command.user}
  /\ socket' = Tail(socket)
  /\ inbox' = Append(inbox, Confirmation)
  /\ UNCHANGED <<stage, context, broken, pushes, threads, died>>

Push(u, m) ==
  /\ u \in subs /\ ~broken
  /\ pushes < MaxPushes
  /\ pushes' = pushes + 1
  /\ inbox' = Append(inbox, [to |-> u, msg |-> m])
  /\ UNCHANGED <<stage, context, socket, subs, broken, threads, died>>

Break ==
  /\ stage # "start" /\ ~broken
  /\ broken' = TRUE /\ socket' = <<>> /\ subs' = {}
  /\ UNCHANGED <<stage, context, inbox, pushes, threads, died>>

-----------------------------------------------------------------------------
InContext(t) ==
  AppendCommand(t) \/ BufferWriteFails(t) \/ BufferEmpty(t) \/ BufferWrite(t)
    \/ ClearWritten(t)

RedisContextNext ==
  /\ ~died
  /\ \/ \E fails \in BOOLEAN : Connect(fails)
     \/ SetNotifyMessageHandler
     \/ \E t \in Callers, op \in {"SUBSCRIBE", "UNSUBSCRIBE"}, u \in Users :
          Call(t, [op |-> op, user |-> u])
     \/ \E t \in Threads : InContext(t)
     \/ GetReply \/ GetReplyFails
     \/ Die
     \/ ExecuteCommand \/ Break
     \/ \E u \in Users, m \in Msgs : Push(u, m)

\* Threads are scheduled.  Of Redis nothing is assumed.
RedisContextSpec ==
  /\ RedisContextInit /\ [][RedisContextNext]_contextVars
  /\ \A t \in Callers : WF_contextVars(~died /\ InContext(t))

-----------------------------------------------------------------------------
\* Properties

\* What is written and still in the buffer counts once.
Unsent ==
  IF \E t \in Threads : pc[t] = "clear"
    THEN LET t == CHOOSE t \in Threads : pc[t] = "clear"
         IN SubSeq(obuf, Len(loaded[t]) + 1, Len(obuf))
    ELSE obuf

Broker == INSTANCE RedisBroker WITH
  Servers <- {Receiver},
  subs <- {<<Receiver, u>> : u \in subs},
  cmds <- [s \in {Receiver} |-> socket \o Unsent],
  pushed <- [s \in {Receiver} |-> Only(inbox, Message)]

BrokerStep ==
  \/ \E command \in Command : Broker!WriteCommand(Receiver, command)
  \/ \E u \in Users, m \in Msgs : Broker!Publish(u, m)
  \/ Broker!Execute(Receiver)
  \/ Broker!Receive(Receiver)
  \/ UNCHANGED Broker!redisVars

\* As long as no two threads collide in the context and the connection holds,
\* subscribe and unsubscribe are what RedisBroker takes them for: each puts its
\* command, once, behind those before it, although a write may take a part of
\* the buffer, or another thread's write the whole.
ImplementsBroker == [][raced' \/ broken' \/ BrokerStep]_contextVars

\* And then a call that has returned true has left nothing behind in the buffer,
\* where it would stay until the next call or reply comes.
NothingLeft ==
  ~raced /\ ~err /\ (\A t \in Callers : pc[t] = "idle") => Unsent = <<>>

\* "rediscommand ... would block waiting for the reply" (redis.cpp:50): a call
\* returns whatever Redis does, and whichever threads are inside.
CallsReturn == \A t \in Callers : pc[t] # "idle" ~> (pc[t] = "idle" \/ died)

\* No message comes before the handler it is for, although the thread that
\* receives messages is started first.
HandlerBeforeMessage == stage = "ready" \/ inbox = <<>>
=============================================================================
