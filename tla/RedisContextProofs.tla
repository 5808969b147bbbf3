-------------------------- MODULE RedisContextProofs --------------------------
(***************************************************************************)
(* Proofs about RedisContext: the types; no message before its handler;    *)
(* what a returned call has left in the buffer; and that the context       *)
(* implements RedisBroker for as long as no two threads collide in it.     *)
(***************************************************************************)
EXTENDS RedisContext, Counting

-----------------------------------------------------------------------------
\* Types

\* Who is about to append has a command to append.
Appenders ==
  \A t \in Threads : pc[t] = "append" => t \in Callers /\ job[t] \in Command

Typed == RedisContextTypeOK /\ Appenders

LEMMA TypedInit == RedisContextInit => Typed
<1> SUFFICES ASSUME RedisContextInit PROVE Typed
  OBVIOUS
<1> USE DEF RedisContextInit
<1>1. /\ {begun, err, broken, raced, died} \subseteq BOOLEAN
      /\ calls \in 0..MaxCalls /\ pushes \in 0..MaxPushes /\ subs \subseteq Users
  <2>1. {begun, err, broken, raced, died} \subseteq BOOLEAN
    OBVIOUS
  <2>2. MaxCalls \in Nat /\ MaxPushes \in Nat
    BY RedisContextAssumption
  <2>3. calls \in 0..MaxCalls /\ pushes \in 0..MaxPushes
    BY <2>2
  <2>4. QED
    BY <2>1, <2>3
<1>2. /\ obuf \in Seq(Command) /\ socket \in Seq(Command)
      /\ inbox \in Seq(Message \cup {Confirmation})
      /\ loaded \in [Threads -> Seq(Command)]
  OBVIOUS
<1>3. /\ stage \in {"start", "connected", "ready"}
      /\ pc \in [Threads -> {"idle", "append", "write", "clear", "get", "read", "ended"}]
      /\ job \in [Callers -> Command \cup {NoCommand}]
  OBVIOUS
<1>4. Appenders
  BY DEF Appenders
<1>5. QED
  BY <1>1, <1>2, <1>3, <1>4 DEF Typed, RedisContextTypeOK

\* A call that returns.
LEMMA TypedLeave ==
  ASSUME Typed, NEW t \in Threads, NEW ok \in BOOLEAN, Leave(t, ok)
  PROVE  /\ pc' \in [Threads -> {"idle", "append", "write", "clear", "get", "read", "ended"}]
         /\ job' \in [Callers -> Command \cup {NoCommand}]
         /\ loaded' \in [Threads -> Seq(Command)]
         /\ Appenders'
<1>1. t # Receiver => t \in Callers
  BY DEF Threads
<1>2. loaded' \in [Threads -> Seq(Command)]
  BY DEF Leave, Typed, RedisContextTypeOK
<1>3. CASE t = Receiver
  BY <1>2, <1>3 DEF Leave, Goes, Typed, RedisContextTypeOK, Appenders
<1>4. CASE t # Receiver
  BY <1>1, <1>2, <1>4 DEF Leave, Goes, Typed, RedisContextTypeOK, Appenders
<1>5. QED
  BY <1>3, <1>4

LEMMA TypedNext == Typed /\ [RedisContextNext]_contextVars => Typed'
<1> SUFFICES ASSUME Typed, [RedisContextNext]_contextVars PROVE Typed'
  OBVIOUS
<1> USE DEF Typed
<1>1. ASSUME NEW fails \in BOOLEAN, Connect(fails) PROVE Typed'
  BY <1>1, RedisContextAssumption DEF Connect, RedisContextTypeOK, Appenders, Threads
<1>2. CASE SetNotifyMessageHandler
  BY <1>2 DEF SetNotifyMessageHandler, RedisContextTypeOK, Appenders, context, redis, threads
<1>3. ASSUME NEW t \in Callers, NEW op \in {"SUBSCRIBE", "UNSUBSCRIBE"}, NEW u \in Users,
             Call(t, [op |-> op, user |-> u])
      PROVE  Typed'
  <2> DEFINE c == [op |-> op, user |-> u]
  <2>1. c \in Command /\ t \in Threads
    BY DEF Command, Threads
  <2> HIDE DEF c
  <2>2. Call(t, c)
    BY <1>3 DEF c
  <2>3. calls' \in 0..MaxCalls
    BY <2>2, RedisContextAssumption DEF Call, RedisContextTypeOK
  <2>4. pc' = [pc EXCEPT ![t] = "append"] /\ job' = [job EXCEPT ![t] = c]
        /\ loaded' = [loaded EXCEPT ![t] = obuf]
        /\ UNCHANGED <<stage, context, redis, died>>
    BY <2>2 DEF Call, Goes
  <2>5. RedisContextTypeOK'
    BY <2>1, <2>3, <2>4 DEF RedisContextTypeOK, context, redis
  <2>6. Appenders'
    BY <2>1, <2>4 DEF RedisContextTypeOK, Appenders
  <2>7. QED
    BY <2>5, <2>6
<1>4. ASSUME NEW t \in Threads, AppendCommand(t) PROVE Typed'
  <2>1. t \in Callers /\ job[t] \in Command
    BY <1>4 DEF AppendCommand, Appenders
  <2>2. raced' \in BOOLEAN /\ Append(loaded[t], job[t]) \in Seq(Command)
    BY <1>4, <2>1 DEF AppendCommand, Races, Pending, RedisContextTypeOK
  <2>3. QED
    BY <1>4, <2>1, <2>2 DEF AppendCommand, Goes, redis, RedisContextTypeOK, Appenders
<1>5. ASSUME NEW t \in Threads, BufferWriteFails(t) PROVE Typed'
  BY <1>5, TypedLeave DEF BufferWriteFails, RedisContextTypeOK, redis
<1>6. ASSUME NEW t \in Threads, BufferEmpty(t) PROVE Typed'
  BY <1>6, TypedLeave DEF BufferEmpty, RedisContextTypeOK, redis, context
<1>7. ASSUME NEW t \in Threads, BufferWrite(t) PROVE Typed'
  <2>1. PICK n \in 0..Len(obuf) :
          /\ socket' = IF broken THEN <<>> ELSE socket \o SubSeq(obuf, 1, n)
          /\ loaded' = [loaded EXCEPT ![t] = SubSeq(obuf, 1, n)]
    <3>1. PICK n \in (IF begun THEN 1 ELSE 0)..Len(obuf) :
            /\ socket' = IF broken THEN <<>> ELSE socket \o SubSeq(obuf, 1, n)
            /\ loaded' = [loaded EXCEPT ![t] = SubSeq(obuf, 1, n)]
      BY <1>7 DEF BufferWrite
    <3>2. n \in 0..Len(obuf)
      BY DEF RedisContextTypeOK
    <3>3. QED
      BY <3>1, <3>2
  <2>2. SubSeq(obuf, 1, n) \in Seq(Command)
    BY DEF RedisContextTypeOK
  <2>3. raced' \in BOOLEAN
    BY <1>7 DEF BufferWrite, Races, Pending, RedisContextTypeOK
  <2>4. QED
    BY <1>7, <2>1, <2>2, <2>3 DEF BufferWrite, Goes, RedisContextTypeOK, Appenders
<1>8. ASSUME NEW t \in Threads, ClearWritten(t) PROVE Typed'
  <2> DEFINE rest == SubSeq(obuf, Len(loaded[t]) + 1, Len(obuf))
  <2>1. rest \in Seq(Command)
    BY DEF RedisContextTypeOK
  <2> HIDE DEF rest
  <2>2. /\ obuf' = rest /\ begun' = (loaded[t] = <<>>)
        /\ \/ Leave(t, TRUE)
           \/ /\ Goes(t, "write") /\ UNCHANGED job
              /\ loaded' = [loaded EXCEPT ![t] = <<>>]
    BY <1>8 DEF ClearWritten, UntilDone, rest
  <2>3. raced' \in BOOLEAN
    BY <1>8 DEF ClearWritten, Races, Pending, RedisContextTypeOK
  <2>4. /\ pc' \in [Threads -> {"idle", "append", "write", "clear", "get", "read", "ended"}]
        /\ job' \in [Callers -> Command \cup {NoCommand}]
        /\ loaded' \in [Threads -> Seq(Command)]
        /\ Appenders'
    <3>1. CASE Leave(t, TRUE)
      BY <3>1, TypedLeave
    <3>2. CASE /\ Goes(t, "write") /\ UNCHANGED job
               /\ loaded' = [loaded EXCEPT ![t] = <<>>]
      BY <3>2 DEF Goes, RedisContextTypeOK, Appenders
    <3>3. QED
      BY <2>2, <3>1, <3>2
  <2>5. QED
    BY <1>8, <2>1, <2>2, <2>3, <2>4 DEF ClearWritten, RedisContextTypeOK, redis
<1>9. CASE GetReply
  BY <1>9 DEF GetReply, Goes, RedisContextTypeOK, Appenders, context, Threads
<1>10. CASE GetReplyFails
  BY <1>10 DEF GetReplyFails, Goes, RedisContextTypeOK, Appenders, redis, Threads
<1>11. CASE Die
  BY <1>11 DEF Die, RedisContextTypeOK, Appenders, redis, context, threads
<1>12. CASE ExecuteCommand
  <2>1. Head(socket) \in Command /\ Tail(socket) \in Seq(Command)
    BY <1>12 DEF ExecuteCommand, RedisContextTypeOK
  <2>2. Head(socket).user \in Users
    BY <2>1 DEF Command
  <2>3. Append(inbox, Confirmation) \in Seq(Message \cup {Confirmation})
    BY DEF RedisContextTypeOK
  <2>4. subs' \subseteq Users
    BY <1>12, <2>2 DEF ExecuteCommand, RedisContextTypeOK
  <2>5. QED
    BY <1>12, <2>1, <2>3, <2>4
       DEF ExecuteCommand, RedisContextTypeOK, Appenders, context, threads
<1>13. CASE Break
  BY <1>13 DEF Break, RedisContextTypeOK, Appenders, context, threads
<1>14. ASSUME NEW u \in Users, NEW m \in Msgs, Push(u, m) PROVE Typed'
  <2>1. [to |-> u, msg |-> m] \in Message
    BY DEF Message
  <2>2. pushes' \in 0..MaxPushes
    BY <1>14, RedisContextAssumption DEF Push, RedisContextTypeOK
  <2>3. QED
    BY <1>14, <2>1, <2>2 DEF Push, RedisContextTypeOK, Appenders, context, threads
<1>15. CASE UNCHANGED contextVars
  BY <1>15 DEF contextVars, RedisContextTypeOK, Appenders, redis, context, threads
<1>16. QED
  BY <1>1, <1>2, <1>3, <1>4, <1>5, <1>6, <1>7, <1>8, <1>9, <1>10, <1>11, <1>12,
     <1>13, <1>14, <1>15 DEF RedisContextNext, InContext

\* RedisContext's types hold in every state: in particular redisAppendCommand is
\* only ever given a command, and never called by the receiving thread.
THEOREM RedisContextTypeCorrect == RedisContextSpec => []RedisContextTypeOK
<1>1. RedisContextInit /\ [][RedisContextNext]_contextVars => []Typed
  BY TypedInit, TypedNext, PTL
<1>2. Typed => RedisContextTypeOK
  BY DEF Typed
<1>3. QED
  BY <1>1, <1>2, PTL DEF RedisContextSpec

-----------------------------------------------------------------------------
\* No message before its handler

\* Before the service is constructed nobody but the receiving thread uses the
\* context, and there is nothing in it.
Unused ==
  stage # "ready" =>
    /\ obuf = <<>> /\ socket = <<>> /\ inbox = <<>> /\ subs = {}
    /\ \A t \in Threads : pc[t] \in {"idle", "get", "read", "ended"}
    /\ \A t \in Callers : pc[t] = "idle"

LEMMA UnusedNext ==
  Typed /\ Unused /\ [RedisContextNext]_contextVars => Unused'
<1> SUFFICES ASSUME Typed, Unused, [RedisContextNext]_contextVars, stage' # "ready"
             PROVE  Unused'
  BY DEF Unused
<1>a. Receiver \in Threads /\ \A t \in Callers : t \in Threads /\ t # Receiver
  BY RedisContextAssumption DEF Threads
<1>b. stage # "ready"
  BY DEF RedisContextNext, InContext, Connect, SetNotifyMessageHandler, Call, AppendCommand,
     BufferWriteFails, BufferEmpty, BufferWrite, ClearWritten, GetReply, GetReplyFails, Die,
     ExecuteCommand, Break, Push, contextVars
<1>c. /\ obuf = <<>> /\ socket = <<>> /\ inbox = <<>> /\ subs = {}
      /\ \A t \in Threads : pc[t] \in {"idle", "get", "read", "ended"}
      /\ \A t \in Callers : pc[t] = "idle"
  BY <1>b DEF Unused
<1>d. \A t \in Threads : Writes(t) => t = Receiver
  BY <1>c DEF Writes
<1>p. pc \in [Threads -> {"idle", "append", "write", "clear", "get", "read", "ended"}]
  BY DEF Typed, RedisContextTypeOK
<1>1. ASSUME NEW fails \in BOOLEAN, Connect(fails) PROVE Unused'
  BY <1>1, <1>a, <1>c, <1>p DEF Connect, Unused
<1>2. CASE SetNotifyMessageHandler
  BY <1>2 DEF SetNotifyMessageHandler
<1>3. ASSUME NEW t \in Callers, NEW c, Call(t, c) PROVE FALSE
  BY <1>3, <1>b DEF Call, Constructed
<1>4. ASSUME NEW t \in Threads, AppendCommand(t) PROVE FALSE
  BY <1>4, <1>c DEF AppendCommand
<1>5. ASSUME NEW t \in Threads, BufferWriteFails(t) PROVE Unused'
  BY <1>5, <1>a, <1>c, <1>d, <1>p DEF BufferWriteFails, Leave, Goes, Unused, redis
<1>6. ASSUME NEW t \in Threads, BufferEmpty(t) PROVE Unused'
  BY <1>6, <1>a, <1>c, <1>d, <1>p DEF BufferEmpty, Leave, Goes, Unused, redis, context
<1>7. ASSUME NEW t \in Threads, BufferWrite(t) PROVE FALSE
  BY <1>7, <1>c DEF BufferWrite
<1>8. ASSUME NEW t \in Threads, ClearWritten(t) PROVE FALSE
  BY <1>8, <1>c DEF ClearWritten
<1>9. CASE GetReply
  BY <1>9, <1>c DEF GetReply
<1>10. CASE GetReplyFails
  BY <1>10, <1>a, <1>c, <1>p DEF GetReplyFails, Goes, Unused, redis
<1>11. CASE Die
  BY <1>11, <1>c DEF Die, Unused, context, redis, threads
<1>12. CASE ExecuteCommand
  BY <1>12, <1>c DEF ExecuteCommand
<1>13. CASE Break
  BY <1>13, <1>c DEF Break, Unused, context, threads
<1>14. ASSUME NEW u \in Users, NEW m \in Msgs, Push(u, m) PROVE FALSE
  BY <1>14, <1>c DEF Push
<1>15. CASE UNCHANGED contextVars
  BY <1>15, <1>c DEF contextVars, Unused, context, redis, threads
<1>16. QED
  BY <1>1, <1>2, <1>3, <1>4, <1>5, <1>6, <1>7, <1>8, <1>9, <1>10, <1>11, <1>12,
     <1>13, <1>14, <1>15 DEF RedisContextNext, InContext


LEMMA UnusedInit == RedisContextInit => Unused
BY RedisContextAssumption DEF RedisContextInit, Unused, Threads

\* Redis sends nothing to this server, and so no message, before the notify handler
\* is set, although the receiving thread is started before that (Redis::connect).
THEOREM HandlerBeforeMessageCorrect == RedisContextSpec => []HandlerBeforeMessage
<1>1. RedisContextInit /\ [][RedisContextNext]_contextVars => [](Typed /\ Unused)
  BY TypedInit, TypedNext, UnusedInit, UnusedNext, PTL
<1>2. Unused => HandlerBeforeMessage
  BY DEF Unused, HandlerBeforeMessage
<1>3. QED
  BY <1>1, <1>2, PTL DEF RedisContextSpec

-----------------------------------------------------------------------------
\* Threads that do not collide

\* One thread at a time is between its write and the taking off of what it wrote;
\* what it wrote is the front of the buffer still; and whoever is to append to
\* the buffer has read it as it is.
Orderly ==
  ~raced =>
    /\ \A t, o \in Threads : pc[t] = "clear" /\ pc[o] = "clear" => t = o
    /\ \A t \in Threads : pc[t] = "clear" =>
         /\ Len(loaded[t]) <= Len(obuf)
         /\ loaded[t] = SubSeq(obuf, 1, Len(loaded[t]))
    /\ \A t \in Threads : pc[t] = "append" => loaded[t] = obuf

LEMMA OrderlyInit == RedisContextInit => Orderly
BY DEF RedisContextInit, Orderly

\* A step that changes neither the buffer nor who is about to replace it, or lets
\* a thread go.
LEMMA OrderlySame ==
  ASSUME Orderly, raced' = raced, obuf' = obuf,
         \A t \in Threads : pc'[t] \in {"append", "clear"} =>
                             pc'[t] = pc[t] /\ loaded'[t] = loaded[t]
  PROVE  Orderly'
BY DEF Orderly

LEMMA LeaveSame ==
  ASSUME Typed, NEW t \in Threads, NEW ok \in BOOLEAN, Leave(t, ok)
  PROVE  /\ pc'[t] \notin {"append", "clear"}
         /\ \A o \in Threads \ {t} : pc'[o] = pc[o] /\ loaded'[o] = loaded[o]
BY DEF Leave, Goes, Typed, RedisContextTypeOK

\* Nobody else was about to replace the buffer, if there is no race now.
LEMMA NoRace ==
  ASSUME NEW t, NEW where, Races(t, where), ~raced'
  PROVE  ~raced /\ \A o \in Threads \ {t} : pc[o] \notin where
BY DEF Races, Pending

LEMMA OrderlyNext ==
  Typed /\ Orderly /\ [RedisContextNext]_contextVars => Orderly'
<1> SUFFICES ASSUME Typed, Orderly, [RedisContextNext]_contextVars PROVE Orderly'
  OBVIOUS
<1>a. Receiver \in Threads /\ \A t \in Callers : t \in Threads /\ t # Receiver
  BY RedisContextAssumption DEF Threads
<1>p. /\ pc \in [Threads -> {"idle", "append", "write", "clear", "get", "read", "ended"}]
      /\ loaded \in [Threads -> Seq(Command)] /\ obuf \in Seq(Command)
  BY DEF Typed, RedisContextTypeOK
<1>1. ASSUME NEW fails \in BOOLEAN, Connect(fails) PROVE Orderly'
  BY <1>1, <1>a, <1>p, OrderlySame DEF Connect
<1>2. CASE SetNotifyMessageHandler
  BY <1>2, OrderlySame DEF SetNotifyMessageHandler, context, threads
<1>3. ASSUME NEW t \in Callers, NEW c, Call(t, c) PROVE Orderly'
  <2>1. /\ raced' = raced /\ obuf' = obuf
        /\ pc' = [pc EXCEPT ![t] = "append"]
        /\ loaded' = [loaded EXCEPT ![t] = obuf]
    BY <1>3 DEF Call, Goes, context
  <2>2. QED
    BY <1>a, <1>p, <2>1 DEF Orderly
<1>4. ASSUME NEW t \in Threads, AppendCommand(t) PROVE Orderly'
  <2> SUFFICES ASSUME ~raced' PROVE Orderly'
    BY DEF Orderly
  <2>1. \A o \in Threads \ {t} : pc[o] \notin {"append", "clear"}
    BY <1>4, NoRace DEF AppendCommand
  <2>2. pc' = [pc EXCEPT ![t] = "write"]
    BY <1>4 DEF AppendCommand, Goes
  <2>3. \A o \in Threads : pc'[o] \notin {"append", "clear"}
    BY <1>p, <2>1, <2>2
  <2>4. QED
    BY <2>3 DEF Orderly
<1>5. ASSUME NEW t \in Threads, BufferWriteFails(t) PROVE Orderly'
  BY <1>5, LeaveSame, OrderlySame DEF BufferWriteFails
<1>6. ASSUME NEW t \in Threads, BufferEmpty(t) PROVE Orderly'
  BY <1>6, LeaveSame, OrderlySame DEF BufferEmpty, context
<1>7. ASSUME NEW t \in Threads, BufferWrite(t) PROVE Orderly'
  <2> SUFFICES ASSUME ~raced' PROVE Orderly'
    BY DEF Orderly
  <2>1. ~raced /\ \A o \in Threads \ {t} : pc[o] # "clear"
    BY <1>7, NoRace DEF BufferWrite
  <2>2. PICK n \in (IF begun THEN 1 ELSE 0)..Len(obuf) :
          loaded' = [loaded EXCEPT ![t] = SubSeq(obuf, 1, n)]
    BY <1>7 DEF BufferWrite
  <2>3. obuf' = obuf /\ pc' = [pc EXCEPT ![t] = "clear"]
    BY <1>7 DEF BufferWrite, Goes
  <2>4. n \in 0..Len(obuf)
    BY <1>p
  <2>5. Len(SubSeq(obuf, 1, n)) = n
    BY <1>p, <2>4
  <2>6. /\ pc'[t] = "clear" /\ loaded'[t] = SubSeq(obuf, 1, n)
        /\ Len(loaded'[t]) = n /\ n <= Len(obuf)
    BY <1>p, <2>2, <2>3, <2>4, <2>5
  <2>7. \A o \in Threads \ {t} : pc'[o] = pc[o] /\ loaded'[o] = loaded[o] /\ pc'[o] # "clear"
    BY <1>p, <2>1, <2>2, <2>3
  <2>8. \A o \in Threads : pc'[o] = "append" => loaded'[o] = obuf'
    BY <2>1, <2>3, <2>6, <2>7 DEF Orderly
  <2>9. \A o \in Threads : pc'[o] = "clear" => o = t
    BY <2>7
  <2>10. QED
    BY <2>3, <2>6, <2>8, <2>9 DEF Orderly
<1>8. ASSUME NEW t \in Threads, ClearWritten(t) PROVE Orderly'
  <2> SUFFICES ASSUME ~raced' PROVE Orderly'
    BY DEF Orderly
  <2>1. \A o \in Threads \ {t} : pc[o] \notin {"append", "clear"}
    BY <1>8, NoRace DEF ClearWritten
  <2>2. \/ Leave(t, TRUE)
        \/ pc' = [pc EXCEPT ![t] = "write"]
    BY <1>8 DEF ClearWritten, UntilDone, Goes
  <2>3. \A o \in Threads : pc'[o] \notin {"append", "clear"}
    BY <1>p, <2>1, <2>2, LeaveSame
  <2>4. QED
    BY <2>3 DEF Orderly
<1>9. CASE GetReply
  BY <1>9, <1>a, <1>p, OrderlySame DEF GetReply, Goes, context
<1>10. CASE GetReplyFails
  BY <1>10, <1>a, <1>p, OrderlySame DEF GetReplyFails, Goes
<1>11. CASE Die
  BY <1>11, OrderlySame DEF Die, context, threads
<1>12. CASE ExecuteCommand
  BY <1>12, OrderlySame DEF ExecuteCommand, context, threads
<1>13. CASE Break
  BY <1>13, OrderlySame DEF Break, context, threads
<1>14. ASSUME NEW u \in Users, NEW m \in Msgs, Push(u, m) PROVE Orderly'
  BY <1>14, OrderlySame DEF Push, context, threads
<1>15. CASE UNCHANGED contextVars
  BY <1>15, OrderlySame DEF contextVars, context, threads
<1>16. QED
  BY <1>1, <1>2, <1>3, <1>4, <1>5, <1>6, <1>7, <1>8, <1>9, <1>10, <1>11, <1>12,
     <1>13, <1>14, <1>15 DEF RedisContextNext, InContext


-----------------------------------------------------------------------------
\* The commands that are not written yet

Rest(t) == SubSeq(obuf, Len(loaded[t]) + 1, Len(obuf))

\* It is the one thread's rest, if there is one that has written, and otherwise the
\* buffer: now, and after a step.
LEMMA UnsentNow ==
  ASSUME Orderly, ~raced
  PROVE  /\ \A t \in Threads : pc[t] = "clear" => Unsent = Rest(t)
         /\ (\A t \in Threads : pc[t] # "clear") => Unsent = obuf
<1>1. ASSUME NEW t \in Threads, pc[t] = "clear" PROVE Unsent = Rest(t)
  <2>1. \A o \in Threads : pc[o] = "clear" => o = t
    BY <1>1 DEF Orderly
  <2>2. (CHOOSE o \in Threads : pc[o] = "clear") = t
    BY <1>1, <2>1
  <2>3. QED
    BY <1>1, <2>2 DEF Unsent, Rest
<1>2. QED
  BY <1>1 DEF Unsent

LEMMA UnsentNext ==
  ASSUME Orderly', ~raced'
  PROVE  /\ \A t \in Threads : pc'[t] = "clear" => Unsent' = Rest(t)'
         /\ (\A t \in Threads : pc'[t] # "clear") => Unsent' = obuf'
<1>1. ASSUME NEW t \in Threads, pc'[t] = "clear" PROVE Unsent' = Rest(t)'
  <2>1. \A o \in Threads : pc'[o] = "clear" => o = t
    BY <1>1 DEF Orderly
  <2>2. (CHOOSE o \in Threads : pc'[o] = "clear") = t
    BY <1>1, <2>1
  <2>3. QED
    BY <1>1, <2>2 DEF Unsent, Rest
<1>2. QED
  BY <1>1 DEF Unsent

\* A step that changes neither the buffer nor who has written of it.
LEMMA UnsentSame ==
  ASSUME Orderly, Orderly', ~raced, ~raced', obuf' = obuf,
         \A t \in Threads : (pc'[t] = "clear" <=> pc[t] = "clear")
                           /\ (pc[t] = "clear" => loaded'[t] = loaded[t])
  PROVE  Unsent' = Unsent
<1>1. CASE \A t \in Threads : pc[t] # "clear"
  BY <1>1, UnsentNow, UnsentNext
<1>2. ASSUME NEW t \in Threads, pc[t] = "clear" PROVE Unsent' = Unsent
  <2>1. Unsent = Rest(t) /\ Unsent' = Rest(t)'
    BY <1>2, UnsentNow, UnsentNext
  <2>2. QED
    BY <1>2, <2>1 DEF Rest
<1>3. QED
  BY <1>1, <1>2

\* What each step that touches the buffer does to them.
LEMMA UnsentAppended ==
  ASSUME Typed, Orderly, Orderly', ~raced', NEW t \in Threads, AppendCommand(t)
  PROVE  /\ ~raced /\ Unsent = obuf /\ Unsent' = Append(obuf, job[t])
         /\ \A o \in Threads : pc'[o] # "clear"
<1>1. ~raced /\ \A o \in Threads \ {t} : pc[o] \notin {"append", "clear"}
  BY NoRace DEF AppendCommand
<1>2. pc[t] = "append" /\ pc' = [pc EXCEPT ![t] = "write"] /\ obuf' = Append(loaded[t], job[t])
  BY DEF AppendCommand, Goes
<1>3. \A o \in Threads : pc[o] # "clear" /\ pc'[o] # "clear"
  BY <1>1, <1>2 DEF Typed, RedisContextTypeOK
<1>4. loaded[t] = obuf
  BY <1>1, <1>2 DEF Orderly
<1>5. QED
  BY <1>1, <1>2, <1>3, <1>4, UnsentNow, UnsentNext

LEMMA UnsentWritten ==
  ASSUME Typed, Orderly, Orderly', ~raced', NEW t \in Threads, BufferWrite(t)
  PROVE  /\ ~raced /\ Unsent = obuf
         /\ \E n \in 0..Len(obuf) :
              /\ socket' = IF broken THEN <<>> ELSE socket \o SubSeq(obuf, 1, n)
              /\ Unsent' = SubSeq(obuf, n + 1, Len(obuf))
<1>1. ~raced /\ \A o \in Threads \ {t} : pc[o] # "clear"
  BY NoRace DEF BufferWrite
<1>2. pc[t] # "clear"
  BY DEF BufferWrite, Writes
<1>3. Unsent = obuf
  BY <1>1, <1>2, UnsentNow
<1>4. PICK n \in (IF begun THEN 1 ELSE 0)..Len(obuf) :
        /\ socket' = IF broken THEN <<>> ELSE socket \o SubSeq(obuf, 1, n)
        /\ loaded' = [loaded EXCEPT ![t] = SubSeq(obuf, 1, n)]
  BY DEF BufferWrite
<1>5. obuf' = obuf /\ pc' = [pc EXCEPT ![t] = "clear"]
  BY DEF BufferWrite, Goes
<1>6. obuf \in Seq(Command) /\ n \in 0..Len(obuf)
  BY DEF Typed, RedisContextTypeOK
<1>7. Len(SubSeq(obuf, 1, n)) = n
  BY <1>6
<1>8. pc'[t] = "clear" /\ Len(loaded'[t]) = n
  BY <1>4, <1>5, <1>7 DEF Typed, RedisContextTypeOK
<1>9. Unsent' = SubSeq(obuf, n + 1, Len(obuf))
  BY <1>5, <1>8, UnsentNext DEF Rest
<1>10. QED
  BY <1>1, <1>3, <1>4, <1>6, <1>9

LEMMA UnsentCleared ==
  ASSUME Typed, Orderly, Orderly', ~raced', NEW t \in Threads, ClearWritten(t)
  PROVE  /\ ~raced /\ Unsent = Rest(t) /\ Unsent' = Rest(t)
         /\ \A o \in Threads : pc'[o] # "clear"
<1>1. ~raced /\ \A o \in Threads \ {t} : pc[o] \notin {"append", "clear"}
  BY NoRace DEF ClearWritten
<1>2. /\ pc[t] = "clear" /\ obuf' = Rest(t)
      /\ Leave(t, TRUE) \/ pc' = [pc EXCEPT ![t] = "write"]
  BY DEF ClearWritten, UntilDone, Goes, Rest
<1>3. \A o \in Threads : pc'[o] # "clear"
  BY <1>1, <1>2, LeaveSame DEF Typed, RedisContextTypeOK
<1>4. QED
  BY <1>1, <1>2, <1>3, UnsentNow, UnsentNext

LEMMA UnsentLeft ==
  ASSUME Typed, Orderly, Orderly', ~raced, ~raced', obuf' = obuf,
         NEW t \in Threads, Writes(t), NEW ok \in BOOLEAN, Leave(t, ok)
  PROVE  Unsent' = Unsent
<1>1. pc[t] # "clear"
  BY DEF Writes
<1>2. QED
  BY <1>1, LeaveSame, UnsentSame

-----------------------------------------------------------------------------
\* Nothing left behind

\* As long as a command is not written, the thread of some call is at it.
Attended ==
  ~raced /\ ~err /\ Unsent # <<>> => \E t \in Callers : pc[t] \in {"write", "clear"}

LEMMA AttendedInit == RedisContextInit => Attended
BY DEF RedisContextInit, Attended, Unsent

\* A call that ends well has left nothing.
LEMMA EmptyRest ==
  ASSUME Typed, Orderly, ~raced, obuf = <<>>
  PROVE  Unsent = <<>>
<1>1. CASE \A t \in Threads : pc[t] # "clear"
  BY <1>1, UnsentNow
<1>2. ASSUME NEW t \in Threads, pc[t] = "clear" PROVE Unsent = <<>>
  <2>1. Unsent = SubSeq(obuf, Len(loaded[t]) + 1, Len(obuf))
    BY <1>2, UnsentNow DEF Rest
  <2>2. loaded[t] \in Seq(Command) /\ Len(loaded[t]) \in Nat
    BY DEF Typed, RedisContextTypeOK
  <2>3. QED
    BY <2>1, <2>2
<1>3. QED
  BY <1>1, <1>2

\* What keeps the unwritten commands and everybody who was at them.
LEMMA AttendedSame ==
  ASSUME Attended, raced' = raced, err' = err, Unsent' = Unsent,
         \A t \in Callers : pc[t] \in {"write", "clear"} => pc'[t] = pc[t]
  PROVE  Attended'
BY DEF Attended

LEMMA AttendedNext ==
  ASSUME Typed, Unused, Orderly, Orderly', Attended, [RedisContextNext]_contextVars
  PROVE  Attended'
<1> SUFFICES ASSUME ~raced', ~err', Unsent' # <<>>
             PROVE  \E t \in Callers : pc'[t] \in {"write", "clear"}
  BY DEF Attended
<1> DEFINE Goal == \E t \in Callers : pc'[t] \in {"write", "clear"}
<1>a. Receiver \in Threads /\ \A t \in Callers : t \in Threads /\ t # Receiver
  BY RedisContextAssumption DEF Threads
<1>p. /\ pc \in [Threads -> {"idle", "append", "write", "clear", "get", "read", "ended"}]
      /\ loaded \in [Threads -> Seq(Command)] /\ obuf \in Seq(Command)
  BY DEF Typed, RedisContextTypeOK
<1>c. \A t \in Threads : t # Receiver => t \in Callers
  BY DEF Threads
\* It is enough that there was something unwritten before, and who was at it is.
<1>s. ASSUME ~raced, ~err, Unsent # <<>>,
             \A t \in Callers : pc[t] \in {"write", "clear"} => pc'[t] \in {"write", "clear"}
      PROVE  Goal
  BY <1>s DEF Attended
<1>1. ASSUME NEW fails \in BOOLEAN, Connect(fails) PROVE FALSE
  <2>1. obuf' = <<>> /\ raced' = raced /\ \A t \in Threads : pc[t] # "clear"
    BY <1>1 DEF Connect, Unused
  <2>2. pc' = [pc EXCEPT ![Receiver] = "get"] /\ loaded' = loaded
    BY <1>1 DEF Connect
  <2>3. \A t \in Threads : pc'[t] # "clear"
    BY <1>p, <2>1, <2>2
  <2>4. QED
    BY <2>1, <2>3, UnsentNext
<1>2. CASE SetNotifyMessageHandler
  <2>1. Unsent' = Unsent /\ raced' = raced /\ err' = err /\ pc' = pc
    BY <1>2, UnsentSame DEF SetNotifyMessageHandler, context, threads
  <2>2. QED
    BY <1>s, <2>1
<1>3. ASSUME NEW t \in Callers, NEW c, Call(t, c) PROVE Goal
  <2>1. /\ raced' = raced /\ err' = err /\ obuf' = obuf /\ pc[t] = "idle"
        /\ pc' = [pc EXCEPT ![t] = "append"]
        /\ loaded' = [loaded EXCEPT ![t] = obuf]
    BY <1>3 DEF Call, Goes, context
  <2>2. \A o \in Threads : o # t => pc'[o] = pc[o] /\ loaded'[o] = loaded[o]
    BY <1>p, <2>1
  <2>3. pc'[t] = "append"
    BY <1>a, <1>p, <2>1
  <2>4. Unsent' = Unsent
    BY <2>1, <2>2, <2>3, UnsentSame
  <2>5. QED
    BY <1>a, <1>s, <2>1, <2>2, <2>4
<1>4. ASSUME NEW t \in Threads, AppendCommand(t) PROVE Goal
  BY <1>4, <1>p DEF AppendCommand, Goes, Typed, Appenders
<1>5. ASSUME NEW t \in Threads, BufferWriteFails(t) PROVE FALSE
  BY <1>5 DEF BufferWriteFails
<1>6. ASSUME NEW t \in Threads, BufferEmpty(t) PROVE FALSE
  <2>1. Unsent' = Unsent /\ raced' = raced
    BY <1>6, UnsentLeft DEF BufferEmpty, context
  <2>2. QED
    BY <1>6, <2>1, EmptyRest DEF BufferEmpty
<1>7. ASSUME NEW t \in Threads, BufferWrite(t) PROVE Goal
  <2>1. ~raced /\ Unsent = obuf
    BY <1>7, UnsentWritten
  <2>2. obuf # <<>> /\ err' = err /\ pc' = [pc EXCEPT ![t] = "clear"]
    BY <1>7 DEF BufferWrite, Goes
  <2>3. QED
    BY <1>a, <1>p, <1>s, <2>1, <2>2
<1>8. ASSUME NEW t \in Threads, ClearWritten(t) PROVE Goal
  <2>1. ~raced /\ Unsent = Rest(t) /\ Unsent' = Rest(t)
    BY <1>8, UnsentCleared
  <2>2. err' = err /\ pc' = [pc EXCEPT ![t] = "write"]
    BY <1>8, <2>1 DEF ClearWritten, UntilDone, Goes, Rest
  <2>3. QED
    BY <1>a, <1>p, <1>s, <2>1, <2>2
<1>9. CASE GetReply
  <2>1. /\ raced' = raced /\ err' = err /\ obuf' = obuf /\ loaded' = loaded
        /\ pc[Receiver] \in {"get", "read"} /\ pc' = [pc EXCEPT ![Receiver] = "get"]
    BY <1>9 DEF GetReply, Goes, context
  <2>2. \A o \in Threads : o # Receiver => pc'[o] = pc[o]
    BY <1>p, <2>1
  <2>3. pc'[Receiver] = "get"
    BY <1>a, <1>p, <2>1
  <2>4. Unsent' = Unsent
    BY <2>1, <2>2, <2>3, UnsentSame
  <2>5. QED
    BY <1>a, <1>s, <2>1, <2>2, <2>4
<1>10. CASE GetReplyFails
  BY <1>10 DEF GetReplyFails
<1>11. CASE Die
  <2>1. Unsent' = Unsent /\ raced' = raced /\ err' = err /\ pc' = pc
    BY <1>11, UnsentSame DEF Die, context, threads
  <2>2. QED
    BY <1>s, <2>1
<1>12. CASE ExecuteCommand
  <2>1. Unsent' = Unsent /\ raced' = raced /\ err' = err /\ pc' = pc
    BY <1>12, UnsentSame DEF ExecuteCommand, context, threads
  <2>2. QED
    BY <1>s, <2>1
<1>13. CASE Break
  <2>1. Unsent' = Unsent /\ raced' = raced /\ err' = err /\ pc' = pc
    BY <1>13, UnsentSame DEF Break, context, threads
  <2>2. QED
    BY <1>s, <2>1
<1>14. ASSUME NEW u \in Users, NEW m \in Msgs, Push(u, m) PROVE Goal
  <2>1. Unsent' = Unsent /\ raced' = raced /\ err' = err /\ pc' = pc
    BY <1>14, UnsentSame DEF Push, context, threads
  <2>2. QED
    BY <1>s, <2>1
<1>15. CASE UNCHANGED contextVars
  <2>1. Unsent' = Unsent /\ raced' = raced /\ err' = err /\ pc' = pc
    BY <1>15, UnsentSame DEF contextVars, context, threads
  <2>2. QED
    BY <1>s, <2>1
<1>16. QED
  BY <1>1, <1>2, <1>3, <1>4, <1>5, <1>6, <1>7, <1>8, <1>9, <1>10, <1>11, <1>12,
     <1>13, <1>14, <1>15 DEF RedisContextNext, InContext

ContextInv == Typed /\ Unused /\ Orderly /\ Attended

LEMMA ContextInvariant == RedisContextSpec => []ContextInv
<1>1. RedisContextInit => ContextInv
  BY TypedInit, UnusedInit, OrderlyInit, AttendedInit DEF ContextInv
<1>2. ContextInv /\ [RedisContextNext]_contextVars => ContextInv'
  BY TypedNext, UnusedNext, OrderlyNext, AttendedNext DEF ContextInv
<1>3. QED
  BY <1>1, <1>2, PTL DEF RedisContextSpec

\* When no thread is inside subscribe or unsubscribe, no command is left in the
\* buffer, unless threads collided there or the connection failed: the loop over
\* redisBufferWrite ends only when it is done.
THEOREM NothingLeftCorrect == RedisContextSpec => []NothingLeft
<1>1. ContextInv => NothingLeft
  BY DEF ContextInv, Attended, NothingLeft
<1>2. QED
  BY <1>1, ContextInvariant, PTL


-----------------------------------------------------------------------------
\* The context implements RedisBroker

Waiting == socket \o Unsent
Channels == {<<Receiver, u>> : u \in subs}
Pushed == Only(inbox, Message)

\* RedisBroker's steps, in these terms.
LEMMA BrokerSame ==
  ASSUME Waiting' = Waiting, Channels' = Channels, Pushed' = Pushed
  PROVE  UNCHANGED Broker!redisVars
BY DEF Broker!redisVars, Waiting, Channels, Pushed

LEMMA BrokerWrites ==
  ASSUME NEW c \in Command, Waiting' = Append(Waiting, c),
         Channels' = Channels, Pushed' = Pushed
  PROVE  BrokerStep
<1>1. Broker!WriteCommand(Receiver, c)
  BY DEF Broker!WriteCommand, Waiting, Channels, Pushed
<1>2. QED
  BY <1>1 DEF BrokerStep

LEMMA BrokerExecutes ==
  ASSUME Waiting # <<>>, Waiting' = Tail(Waiting), Pushed' = Pushed,
         Channels' = IF Head(Waiting).op = "SUBSCRIBE"
                       THEN Channels \cup {<<Receiver, Head(Waiting).user>>}
                       ELSE Channels \ {<<Receiver, Head(Waiting).user>>}
  PROVE  BrokerStep
<1>1. Broker!Execute(Receiver)
  BY DEF Broker!Execute, Waiting, Channels, Pushed
<1>2. QED
  BY <1>1 DEF BrokerStep

LEMMA BrokerPublishes ==
  ASSUME NEW u \in subs, u \in Users, NEW m \in Msgs, Waiting' = Waiting,
         Channels' = Channels, Pushed' = Append(Pushed, [to |-> u, msg |-> m])
  PROVE  BrokerStep
<1>1. Broker!Publish(u, m)
  BY DEF Broker!Publish, Waiting, Channels, Pushed
<1>2. QED
  BY <1>1 DEF BrokerStep

LEMMA BrokerReceives ==
  ASSUME Pushed # <<>>, Pushed' = Tail(Pushed), Waiting' = Waiting, Channels' = Channels
  PROVE  BrokerStep
<1>1. Broker!Receive(Receiver)
  BY DEF Broker!Receive, Waiting, Channels, Pushed
<1>2. QED
  BY <1>1 DEF BrokerStep


\* Cutting the front off the second of two sequences and putting it behind the first.
LEMMA Regroup ==
  ASSUME NEW S, NEW p \in Seq(S), NEW q \in Seq(S), NEW n \in 0..Len(q)
  PROVE  (p \o SubSeq(q, 1, n)) \o SubSeq(q, n + 1, Len(q)) = p \o q
<1> DEFINE a == SubSeq(q, 1, n)
           b == SubSeq(q, n + 1, Len(q))
<1>1. a \in Seq(S) /\ b \in Seq(S)
  OBVIOUS
<1>2. 1 \in 1..Len(q) + 1 /\ n \in 1 - 1..Len(q) /\ Len(q) \in n..Len(q)
  OBVIOUS
<1>3. a \o b = SubSeq(q, 1, Len(q))
  BY <1>2, ConcatAdjacentSubSeq
<1>4. a \o b = q
  BY <1>3, SubSeqFull
<1> HIDE DEF a, b
<1>5. (p \o a) \o b = p \o (a \o b)
  BY <1>1, ConcatAssociative
<1>6. QED
  BY <1>4, <1>5 DEF a, b

LEMMA AppendSecond ==
  ASSUME NEW S, NEW p \in Seq(S), NEW q \in Seq(S), NEW e \in S
  PROVE  p \o Append(q, e) = Append(p \o q, e)
OBVIOUS

LEMMA TailFirst ==
  ASSUME NEW S, NEW p \in Seq(S), NEW q \in Seq(S), p # <<>>
  PROVE  /\ p \o q # <<>> /\ Head(p \o q) = Head(p)
         /\ Tail(p \o q) = Tail(p) \o q
OBVIOUS

LEMMA UnsentType ==
  ASSUME Typed, Orderly, ~raced
  PROVE  Unsent \in Seq(Command)
<1>1. obuf \in Seq(Command) /\ \A t \in Threads : loaded[t] \in Seq(Command)
  BY DEF Typed, RedisContextTypeOK
<1>2. ASSUME NEW t \in Threads, pc[t] = "clear" PROVE Unsent \in Seq(Command)
  <2>1. Unsent = SubSeq(obuf, Len(loaded[t]) + 1, Len(obuf))
    BY <1>2, UnsentNow DEF Rest
  <2>2. Len(loaded[t]) + 1 \in Nat \ {0}
    BY <1>1
  <2>3. QED
    BY <1>1, <2>1, <2>2
<1>3. QED
  BY <1>1, <1>2, UnsentNow

\* Each step of the context in which no threads collide and the connection is not
\* lost is one of RedisBroker, or none.
LEMMA ImplementsStep ==
  ASSUME Typed, Unused, Orderly, Orderly', [RedisContextNext]_contextVars,
         ~raced', ~broken'
  PROVE  BrokerStep
<1>a. Receiver \in Threads /\ \A t \in Callers : t \in Threads /\ t # Receiver
  BY RedisContextAssumption DEF Threads
<1>p. /\ pc \in [Threads -> {"idle", "append", "write", "clear", "get", "read", "ended"}]
      /\ loaded \in [Threads -> Seq(Command)] /\ obuf \in Seq(Command)
      /\ socket \in Seq(Command) /\ inbox \in Seq(Message \cup {Confirmation})
  BY DEF Typed, RedisContextTypeOK
\* What a step leaves as it was.
<1>s. ASSUME socket' = socket, Unsent' = Unsent, subs' = subs, inbox' = inbox PROVE BrokerStep
  <2>1. Waiting' = Waiting /\ Channels' = Channels /\ Pushed' = Pushed
    BY <1>s DEF Waiting, Channels, Pushed
  <2>2. QED
    BY <2>1, BrokerSame DEF BrokerStep
<1>1. ASSUME NEW fails \in BOOLEAN, Connect(fails) PROVE BrokerStep
  <2>1. /\ raced' = raced /\ obuf' = obuf /\ loaded' = loaded
        /\ socket' = socket /\ subs' = subs /\ inbox' = inbox
        /\ pc' = [pc EXCEPT ![Receiver] = "get"]
        /\ \A t \in Threads : pc[t] # "clear"
    BY <1>1 DEF Connect, Unused
  <2>2. \A t \in Threads : pc'[t] # "clear"
    BY <1>p, <2>1
  <2>3. QED
    BY <1>s, <2>1, <2>2, UnsentSame
<1>2. CASE SetNotifyMessageHandler
  BY <1>2, <1>s, UnsentSame DEF SetNotifyMessageHandler, context, threads, redis
<1>3. ASSUME NEW t \in Callers, NEW c, Call(t, c) PROVE BrokerStep
  <2>1. /\ raced' = raced /\ obuf' = obuf /\ pc[t] = "idle"
        /\ socket' = socket /\ subs' = subs /\ inbox' = inbox
        /\ pc' = [pc EXCEPT ![t] = "append"]
        /\ loaded' = [loaded EXCEPT ![t] = obuf]
    BY <1>3 DEF Call, Goes, context, redis
  <2>2. \A o \in Threads : o # t => pc'[o] = pc[o] /\ loaded'[o] = loaded[o]
    BY <1>p, <2>1
  <2>3. pc'[t] = "append"
    BY <1>a, <1>p, <2>1
  <2>4. QED
    BY <1>s, <2>1, <2>2, <2>3, UnsentSame
<1>4. ASSUME NEW t \in Threads, AppendCommand(t) PROVE BrokerStep
  <2>1. Unsent = obuf /\ Unsent' = Append(obuf, job[t])
    BY <1>4, UnsentAppended
  <2>2. job[t] \in Command
    BY <1>4 DEF AppendCommand, Typed, Appenders
  <2>3. socket' = socket /\ subs' = subs /\ inbox' = inbox
    BY <1>4 DEF AppendCommand, redis
  <2>4. Waiting' = Append(Waiting, job[t])
    BY <1>p, <2>1, <2>2, <2>3, AppendSecond DEF Waiting
  <2>5. Channels' = Channels /\ Pushed' = Pushed
    BY <2>3 DEF Channels, Pushed
  <2>6. QED
    BY <2>2, <2>4, <2>5, BrokerWrites
<1>5. ASSUME NEW t \in Threads, BufferWriteFails(t) PROVE BrokerStep
  BY <1>5, <1>s, UnsentLeft DEF BufferWriteFails, redis
<1>6. ASSUME NEW t \in Threads, BufferEmpty(t) PROVE BrokerStep
  BY <1>6, <1>s, UnsentLeft DEF BufferEmpty, redis, context
<1>7. ASSUME NEW t \in Threads, BufferWrite(t) PROVE BrokerStep
  <2>1. /\ broken' = broken /\ subs' = subs /\ inbox' = inbox
    BY <1>7 DEF BufferWrite
  <2>2. PICK n \in 0..Len(obuf) :
          /\ socket' = socket \o SubSeq(obuf, 1, n)
          /\ Unsent' = SubSeq(obuf, n + 1, Len(obuf))
    BY <1>7, <2>1, UnsentWritten
  <2>3. Unsent = obuf
    BY <1>7, UnsentWritten
  <2>4. Waiting' = Waiting
    BY <1>p, <2>2, <2>3, Regroup DEF Waiting
  <2>5. QED
    BY <2>1, <2>4, BrokerSame DEF Channels, Pushed, BrokerStep
<1>8. ASSUME NEW t \in Threads, ClearWritten(t) PROVE BrokerStep
  <2>1. Unsent' = Unsent
    BY <1>8, UnsentCleared
  <2>2. QED
    BY <1>8, <1>s, <2>1 DEF ClearWritten, redis
<1>9. CASE GetReply
  <2>1. /\ raced' = raced /\ obuf' = obuf /\ loaded' = loaded
        /\ socket' = socket /\ subs' = subs
        /\ inbox # <<>> /\ inbox' = Tail(inbox)
        /\ pc[Receiver] \in {"get", "read"} /\ pc' = [pc EXCEPT ![Receiver] = "get"]
    BY <1>9 DEF GetReply, Goes, context
  <2>2. \A o \in Threads : o # Receiver => pc'[o] = pc[o]
    BY <1>p, <2>1
  <2>3. pc'[Receiver] = "get"
    BY <1>a, <1>p, <2>1
  <2>4. Unsent' = Unsent
    BY <2>1, <2>2, <2>3, UnsentSame
  <2>5. Waiting' = Waiting /\ Channels' = Channels
    BY <2>1, <2>4 DEF Waiting, Channels
  <2>6. CASE Head(inbox) \in Message
    <3>1. Pushed # <<>> /\ Pushed' = Tail(Pushed)
      BY <1>p, <2>1, <2>6, OnlyTail DEF Pushed
    <3>2. QED
      BY <2>5, <3>1, BrokerReceives
  <2>7. CASE Head(inbox) \notin Message
    <3>1. Pushed' = Pushed
      BY <1>p, <2>1, <2>7, OnlyTail DEF Pushed
    <3>2. QED
      BY <2>5, <3>1, BrokerSame DEF BrokerStep
  <2>8. QED
    BY <2>6, <2>7
<1>10. CASE GetReplyFails
  <2>1. /\ raced' = raced /\ obuf' = obuf /\ loaded' = loaded
        /\ socket' = socket /\ subs' = subs /\ inbox' = inbox
        /\ pc[Receiver] = "read" /\ pc' = [pc EXCEPT ![Receiver] = "ended"]
    BY <1>10 DEF GetReplyFails, Goes, redis
  <2>2. \A o \in Threads : o # Receiver => pc'[o] = pc[o]
    BY <1>p, <2>1
  <2>3. pc'[Receiver] = "ended"
    BY <1>a, <1>p, <2>1
  <2>4. QED
    BY <1>s, <2>1, <2>2, <2>3, UnsentSame
<1>11. CASE Die
  BY <1>11, <1>s, UnsentSame DEF Die, context, threads, redis
<1>12. CASE ExecuteCommand
  <2> DEFINE c == Head(socket)
  <2>1. /\ socket # <<>> /\ socket' = Tail(socket)
        /\ inbox' = Append(inbox, Confirmation)
        /\ subs' = IF c.op = "SUBSCRIBE" THEN subs \cup {c.user} ELSE subs \ {c.user}
    BY <1>12 DEF ExecuteCommand
  <2>2. raced' = raced /\ Unsent' = Unsent
    BY <1>12, UnsentSame DEF ExecuteCommand, context, threads
  <2>3. Unsent \in Seq(Command)
    BY <2>2, UnsentType
  <2>4. Waiting # <<>> /\ Head(Waiting) = c /\ Waiting' = Tail(Waiting)
    BY <1>p, <2>1, <2>2, <2>3, TailFirst DEF Waiting
  <2>5. Pushed' = Pushed
    BY <1>p, <2>1, OnlyAppend, RedisContextAssumption DEF Pushed
  <2> HIDE DEF c
  <2>6. Channels' = IF c.op = "SUBSCRIBE" THEN Channels \cup {<<Receiver, c.user>>}
                                          ELSE Channels \ {<<Receiver, c.user>>}
    BY <2>1 DEF Channels
  <2>7. QED
    BY <2>4, <2>5, <2>6, BrokerExecutes
<1>13. CASE Break
  BY <1>13 DEF Break
<1>14. ASSUME NEW u \in Users, NEW m \in Msgs, Push(u, m) PROVE BrokerStep
  <2> DEFINE e == [to |-> u, msg |-> m]
  <2>1. /\ u \in subs /\ socket' = socket /\ subs' = subs /\ inbox' = Append(inbox, e)
    BY <1>14 DEF Push
  <2>2. raced' = raced /\ Unsent' = Unsent
    BY <1>14, UnsentSame DEF Push, context, threads
  <2>3. e \in Message
    BY DEF Message
  <2>4. Pushed' = Append(Pushed, e)
    BY <1>p, <2>1, <2>3, OnlyAppend DEF Pushed
  <2>5. Waiting' = Waiting /\ Channels' = Channels
    BY <2>1, <2>2 DEF Waiting, Channels
  <2>6. QED
    BY <2>1, <2>4, <2>5, BrokerPublishes
<1>15. CASE UNCHANGED contextVars
  BY <1>15, <1>s, UnsentSame DEF contextVars, context, threads, redis
<1>16. QED
  BY <1>1, <1>2, <1>3, <1>4, <1>5, <1>6, <1>7, <1>8, <1>9, <1>10, <1>11, <1>12,
     <1>13, <1>14, <1>15 DEF RedisContextNext, InContext

LEMMA ImplementsInit == RedisContextInit => Broker!RedisInit
<1> SUFFICES ASSUME RedisContextInit PROVE Broker!RedisInit
  OBVIOUS
<1>1. inbox = <<>> /\ socket = <<>> /\ subs = {} /\ Unsent = <<>>
  BY DEF RedisContextInit, Unsent
<1>2. Only(inbox, Message) = <<>>
  <2>1. Len(inbox) = 0 /\ inbox \in Seq(Message)
    BY <1>1
  <2>2. Places(inbox, Message) = {}
    BY <2>1 DEF Places
  <2>3. Only(inbox, Message) \in Seq(Message) /\ Len(Only(inbox, Message)) = 0
    <3>1. Only(inbox, Message) \in Seq(Message \cap Message)
      BY <2>1, OnlyType
    <3>2. Len(Only(inbox, Message)) = Cardinality({})
      BY <2>1, <2>2, OnlyType
    <3>3. Message \cap Message = Message
      OBVIOUS
    <3>4. QED
      BY <3>1, <3>2, <3>3, FS_EmptySet
  <2>4. QED
    BY <2>3
<1>3. QED
  BY <1>1, <1>2 DEF Broker!RedisInit

\* The subscribing connection starts as RedisBroker's and does only what RedisBroker
\* allows, as long as no two threads collide in it and it is not lost: a command
\* goes, once, behind those before it, whoever writes it out and in how many parts.
THEOREM ImplementsBrokerCorrect ==
  RedisContextSpec => Broker!RedisInit /\ ImplementsBroker
<1>1. ContextInv /\ ContextInv' /\ [RedisContextNext]_contextVars
        => [raced' \/ broken' \/ BrokerStep]_contextVars
  BY ImplementsStep DEF ContextInv
<1>2. RedisContextSpec => ImplementsBroker
  BY <1>1, ContextInvariant, PTL DEF RedisContextSpec, ImplementsBroker
<1>3. QED
  BY <1>2, ImplementsInit, PTL DEF RedisContextSpec

=============================================================================
