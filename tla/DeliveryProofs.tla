---------------------------- MODULE DeliveryProofs ----------------------------
(***************************************************************************)
(* What becomes of a chat message, for every cluster in which nothing      *)
(* fails and no user sends two logins at once (Quiet): any servers,        *)
(* connections, users and messages, groups of any size.                    *)
(***************************************************************************)
EXTENDS Delivery, SessionProofs

Quiet == SerialLogins = TRUE /\ Faults = {}

AllUp == dbUp = TRUE /\ \A s \in Servers : srv[s] = "up"

QuietInv == ChannelInv /\ AllUp

LEMMA AllUpStep ==
  ASSUME Quiet, ChannelInv, AllUp, [Next]_vars
  PROVE  AllUp'
<1> USE DEF Quiet, AllUp
<1>1. CASE Environment
  BY <1>1 DEF Environment, Connect, Disconnect, LogOut, Register, UserInsert, Login,
     CloseFault, PrivateChat, GroupChat, ChatRequest, SigInt, Crash, Restart, DbStops,
     DbAnswers, SetDb, UpdateState, dbVars
<1>2. ASSUME NEW c \in Conns, Handler(c) PROVE AllUp'
  BY <1>2 DEF Handler, LoginFetch, LoginRemove, LoginState, LoginMap, LoginSubscribe,
     RouteLocal, RouteRemote, Store, PublishRemote, LogOutUnsubscribe, CloseUnmapped,
     CloseState, CloseMapped, OfflineRemove, OfflineInsert, UpdateState, dbVars
<1>3. ASSUME NEW s \in Servers,
             Notify(s) \/ RedisExecute(s) \/ ResetStates(s) \/ Exit(s)
      PROVE  AllUp'
  BY <1>3 DEF Notify, NotifyLocal, NotifyStore, OfflineInsert, RedisExecute,
     ResetStates, Exit, dbVars
<1>4. CASE UNCHANGED vars
  BY <1>4 DEF vars, dbVars
<1>5. QED
  BY <1>1, <1>2, <1>3, <1>4 DEF Next

LEMMA QuietInvariant == Quiet => (Spec => []QuietInv)
<1> SUFFICES ASSUME Quiet PROVE Spec => []QuietInv
  OBVIOUS
<1>1. Serial
  BY DEF Quiet, Serial
<1>2. Init => AllUp
  BY DEF Init, DbInit, AllUp
<1>3. ChannelInv /\ AllUp /\ [Next]_vars => AllUp'
  BY AllUpStep
<1>4. ChannelInv /\ AllUp => QuietInv
  BY DEF QuietInv
<1>5. QED
  BY <1>1, <1>2, <1>3, <1>4, ChannelInvariant, PTL DEF Spec

-----------------------------------------------------------------------------
\* The four counts of a parcel, of any lists and queues

\* The places a parcel has in a handler's list of recipients.
Mine(m, list, p) == {i \in 1..Len(list) : m = p.msg /\ list[i] = p.to}

InLists(ms, lists, p) ==
  Cardinality(Stack(Conns, [c \in Conns |-> Mine(ms[c], lists[c], p)]))

InQueues(queues, p) ==
  Cardinality(Stack(Servers, [s \in Servers |-> Positions(p, queues[s])]))

LEMMA MineCount ==
  ASSUME NEW m, NEW list \in Seq(Users), NEW p \in Parcel
  PROVE  /\ IsFiniteSet(Mine(m, list, p))
         /\ Cardinality(Mine(m, list, p)) \in Nat
         /\ Cardinality(Mine(m, list, p)) =
              IF m = p.msg THEN Cardinality(Positions(p.to, list)) ELSE 0
<1>1. /\ IsFiniteSet(Positions(p.to, list))
      /\ Cardinality(Positions(p.to, list)) \in Nat
  BY PositionsFinite
<1>2. CASE m = p.msg
  <2>1. Mine(m, list, p) = Positions(p.to, list)
    BY <1>2 DEF Mine, Positions
  <2>2. QED
    BY <1>1, <1>2, <2>1
<1>3. CASE m # p.msg
  <2>1. Mine(m, list, p) = {}
    BY <1>3 DEF Mine
  <2>2. QED
    BY <1>3, <2>1, FS_EmptySet
<1>4. QED
  BY <1>2, <1>3

LEMMA HandlersCount ==
  ASSUME NEW p
  PROVE  /\ InHandlers(p) = InLists(msg, todo, p)
         /\ InHandlers(p)' = InLists(msg', todo', p)
<1> DEFINE F == [c \in Conns |-> Mine(msg[c], todo[c], p)]
           G == [c \in Conns |-> Mine(msg'[c], todo'[c], p)]
<1>1. \A c \in Conns :
        /\ F[c] = {i \in 1..Len(todo[c]) : msg[c] = p.msg /\ todo[c][i] = p.to}
        /\ G[c] = {i \in 1..Len(todo'[c]) : msg'[c] = p.msg /\ todo'[c][i] = p.to}
  BY DEF Mine
<1> HIDE DEF F, G
<1>2. /\ {{c} \X F[c] : c \in Conns} =
         {{c} \X {i \in 1..Len(todo[c]) : msg[c] = p.msg /\ todo[c][i] = p.to} : c \in Conns}
      /\ {{c} \X G[c] : c \in Conns} =
         {{c} \X {i \in 1..Len(todo'[c]) : msg'[c] = p.msg /\ todo'[c][i] = p.to} : c \in Conns}
  BY <1>1
<1>3. QED
  BY <1>2 DEF InHandlers, InLists, Stack, F, G

LEMMA ChannelsCount ==
  ASSUME NEW p
  PROVE  /\ InChannels(p) = InQueues(pushed, p)
         /\ InChannels(p)' = InQueues(pushed', p)
<1> DEFINE F == [s \in Servers |-> Positions(p, pushed[s])]
           G == [s \in Servers |-> Positions(p, pushed'[s])]
<1>1. \A s \in Servers : /\ F[s] = {i \in 1..Len(pushed[s]) : pushed[s][i] = p}
                         /\ G[s] = {i \in 1..Len(pushed'[s]) : pushed'[s][i] = p}
  BY DEF Positions
<1> HIDE DEF F, G
<1>2. /\ {{s} \X F[s] : s \in Servers} =
         {{s} \X {i \in 1..Len(pushed[s]) : pushed[s][i] = p} : s \in Servers}
      /\ {{s} \X G[s] : s \in Servers} =
         {{s} \X {i \in 1..Len(pushed'[s]) : pushed'[s][i] = p} : s \in Servers}
  BY <1>1
<1>3. QED
  BY <1>2 DEF InChannels, InQueues, Stack, F, G

LEMMA OccurrencesPositions ==
  ASSUME NEW x, NEW list
  PROVE  Occurrences(x, list) = Cardinality(Positions(x, list))
BY DEF Occurrences, Positions

LEMMA CountsNat ==
  ASSUME TypeOK, NEW p \in Parcel
  PROVE  /\ InHandlers(p) \in Nat
         /\ InChannels(p) \in Nat
         /\ KeptRows(p) \in Nat
         /\ Received(p) \in Nat
<1>1. InHandlers(p) \in Nat
  <2> DEFINE F == [c \in Conns |-> Mine(msg[c], todo[c], p)]
  <2>1. \A c \in Conns : IsFiniteSet(F[c])
    BY MineCount DEF TypeOK
  <2>2. InHandlers(p) = Cardinality(Stack(Conns, F))
    BY HandlersCount DEF InLists
  <2> HIDE DEF F
  <2>3. QED
    BY <2>1, <2>2, FiniteAssumption, StackFinite
<1>2. InChannels(p) \in Nat
  <2> DEFINE F == [s \in Servers |-> Positions(p, pushed[s])]
  <2>1. \A s \in Servers : IsFiniteSet(F[s])
    BY PositionsFinite DEF TypeOK, RedisTypeOK
  <2>2. InChannels(p) = Cardinality(Stack(Servers, F))
    BY ChannelsCount DEF InQueues
  <2> HIDE DEF F
  <2>3. QED
    BY <2>1, <2>2, FiniteAssumption, StackFinite
<1>3. KeptRows(p) \in Nat
  <2>1. offline[p.to] \in Seq(Msgs)
    BY DEF TypeOK, DbTypeOK, Parcel
  <2>2. Cardinality(Positions(p.msg, offline[p.to])) \in Nat
    BY <2>1, PositionsFinite
  <2>3. QED
    BY <2>2, OccurrencesPositions DEF KeptRows
<1>4. Received(p) \in Nat
  <2>1. received[p.to] \in Seq(Parcel)
    BY DEF TypeOK, Parcel
  <2>2. Cardinality(Positions(p, received[p.to])) \in Nat
    BY <2>1, PositionsFinite
  <2>3. QED
    BY <2>2, OccurrencesPositions DEF Received
<1>5. QED
  BY <1>1, <1>2, <1>3, <1>4

LEMMA CountsNatNext ==
  ASSUME TypeOK', NEW p \in Parcel
  PROVE  /\ InHandlers(p)' \in Nat
         /\ InChannels(p)' \in Nat
         /\ KeptRows(p)' \in Nat
         /\ Received(p)' \in Nat
<1>1. InHandlers(p)' \in Nat
  <2> DEFINE F == [c \in Conns |-> Mine(msg'[c], todo'[c], p)]
  <2>1. \A c \in Conns : IsFiniteSet(F[c])
    BY MineCount DEF TypeOK
  <2>2. InHandlers(p)' = Cardinality(Stack(Conns, F))
    BY HandlersCount DEF InLists
  <2> HIDE DEF F
  <2>3. QED
    BY <2>1, <2>2, FiniteAssumption, StackFinite
<1>2. InChannels(p)' \in Nat
  <2> DEFINE F == [s \in Servers |-> Positions(p, pushed'[s])]
  <2>1. \A s \in Servers : IsFiniteSet(F[s])
    BY PositionsFinite DEF TypeOK, RedisTypeOK
  <2>2. InChannels(p)' = Cardinality(Stack(Servers, F))
    BY ChannelsCount DEF InQueues
  <2> HIDE DEF F
  <2>3. QED
    BY <2>1, <2>2, FiniteAssumption, StackFinite
<1>3. KeptRows(p)' \in Nat
  <2>1. offline'[p.to] \in Seq(Msgs)
    BY DEF TypeOK, DbTypeOK, Parcel
  <2>2. Cardinality(Positions(p.msg, offline'[p.to])) \in Nat
    BY <2>1, PositionsFinite
  <2>3. QED
    BY <2>2, OccurrencesPositions DEF KeptRows
<1>4. Received(p)' \in Nat
  <2>1. received'[p.to] \in Seq(Parcel)
    BY DEF TypeOK, Parcel
  <2>2. Cardinality(Positions(p, received'[p.to])) \in Nat
    BY <2>1, PositionsFinite
  <2>3. QED
    BY <2>2, OccurrencesPositions DEF Received
<1>5. QED
  BY <1>1, <1>2, <1>3, <1>4

\* One handler's list changes.
LEMMA HandlersChange ==
  ASSUME TypeOK, TypeOK', NEW p \in Parcel, NEW c \in Conns,
         \A d \in Conns \ {c} : msg'[d] = msg[d] /\ todo'[d] = todo[d]
  PROVE  /\ InHandlers(p)' + Cardinality(Mine(msg[c], todo[c], p))
              = InHandlers(p) + Cardinality(Mine(msg'[c], todo'[c], p))
         /\ Cardinality(Mine(msg[c], todo[c], p)) <= InHandlers(p)
<1> DEFINE F == [d \in Conns |-> Mine(msg[d], todo[d], p)]
           G == [d \in Conns |-> Mine(msg'[d], todo'[d], p)]
<1>1. \A d \in Conns : IsFiniteSet(F[d]) /\ IsFiniteSet(G[d])
  BY MineCount DEF TypeOK
<1>2. \A d \in Conns \ {c} : G[d] = F[d]
  OBVIOUS
<1>3. /\ F[c] = Mine(msg[c], todo[c], p) /\ G[c] = Mine(msg'[c], todo'[c], p)
      /\ InHandlers(p) = Cardinality(Stack(Conns, F))
      /\ InHandlers(p)' = Cardinality(Stack(Conns, G))
  BY HandlersCount DEF InLists
<1> HIDE DEF F, G
<1>4. /\ Cardinality(Stack(Conns, G)) + Cardinality(F[c])
           = Cardinality(Stack(Conns, F)) + Cardinality(G[c])
      /\ Cardinality(F[c]) <= Cardinality(Stack(Conns, F))
  BY <1>1, <1>2, FiniteAssumption, StackChange
<1>5. QED
  BY <1>3, <1>4

\* One server's queue changes.
LEMMA ChannelsChange ==
  ASSUME TypeOK, TypeOK', NEW p \in Parcel, NEW s \in Servers,
         \A r \in Servers \ {s} : pushed'[r] = pushed[r]
  PROVE  /\ InChannels(p)' + Cardinality(Positions(p, pushed[s]))
              = InChannels(p) + Cardinality(Positions(p, pushed'[s]))
         /\ Cardinality(Positions(p, pushed[s])) <= InChannels(p)
<1> DEFINE F == [r \in Servers |-> Positions(p, pushed[r])]
           G == [r \in Servers |-> Positions(p, pushed'[r])]
<1>1. \A r \in Servers : IsFiniteSet(F[r]) /\ IsFiniteSet(G[r])
  BY PositionsFinite DEF TypeOK, RedisTypeOK
<1>2. \A r \in Servers \ {s} : G[r] = F[r]
  OBVIOUS
<1>3. /\ F[s] = Positions(p, pushed[s]) /\ G[s] = Positions(p, pushed'[s])
      /\ InChannels(p) = Cardinality(Stack(Servers, F))
      /\ InChannels(p)' = Cardinality(Stack(Servers, G))
  BY ChannelsCount DEF InQueues
<1> HIDE DEF F, G
<1>4. /\ Cardinality(Stack(Servers, G)) + Cardinality(F[s])
           = Cardinality(Stack(Servers, F)) + Cardinality(G[s])
      /\ Cardinality(F[s]) <= Cardinality(Stack(Servers, F))
  BY <1>1, <1>2, FiniteAssumption, StackChange
<1>5. QED
  BY <1>3, <1>4

-----------------------------------------------------------------------------
\* What each kind of step does to the counts

One(condition) == IF condition THEN 1 ELSE 0

\* The rows of user u were pushed to it and are about to be deleted.
Fetched(u) == \E c \in Conns : pc[c] = "login_remove" /\ job[c] = u

LEMMA KeptCount ==
  ASSUME NEW p
  PROVE  /\ KeptRows(p) = IF Fetched(p.to) THEN 0
                          ELSE Cardinality(Positions(p.msg, offline[p.to]))
         /\ KeptRows(p)' = IF Fetched(p.to)' THEN 0
                           ELSE Cardinality(Positions(p.msg, offline'[p.to]))
BY DEF KeptRows, Fetched, Occurrences, Positions

LEMMA ReceivedCount ==
  ASSUME NEW p
  PROVE  /\ Received(p) = Cardinality(Positions(p, received[p.to]))
         /\ Received(p)' = Cardinality(Positions(p, received'[p.to]))
BY DEF Received, Occurrences, Positions

LEMMA ParcelParts ==
  ASSUME NEW p \in Parcel, NEW u, NEW m
  PROVE  /\ p = [to |-> u, msg |-> m] <=> p.to = u /\ p.msg = m
         /\ p.to \in Users /\ p.msg \in Msgs
BY DEF Parcel

LEMMA DoneWithCount ==
  ASSUME TypeOK, TypeOK', NEW p \in Parcel, NEW c \in Conns, todo[c] # <<>>, DoneWith(c)
  PROVE  InHandlers(p) =
           InHandlers(p)' + One(p.to = Head(todo[c]) /\ p.msg = msg[c])
<1> DEFINE rest == Tail(todo[c])
           before == Cardinality(Positions(p.to, todo[c]))
           after == Cardinality(Positions(p.to, rest))
<1>1. todo[c] \in Seq(Users) /\ rest \in Seq(Users)
  BY DEF TypeOK
<1>2. /\ \A d \in Conns \ {c} : msg'[d] = msg[d] /\ todo'[d] = todo[d]
      /\ todo'[c] = rest
      /\ msg'[c] = IF rest = <<>> THEN NoMsg ELSE msg[c]
  BY DEF TypeOK, DoneWith
<1>3. before = after + One(p.to = Head(todo[c])) /\ before \in Nat /\ after \in Nat
  <2>1. before \in Nat /\ after \in Nat
    BY <1>1, PositionsFinite
  <2>2. before = after + (IF Head(todo[c]) = p.to THEN 1 ELSE 0)
    BY <1>1, PositionsTail
  <2>3. QED
    BY <2>1, <2>2 DEF One
<1>4. Cardinality(Mine(msg[c], todo[c], p)) = IF msg[c] = p.msg THEN before ELSE 0
  BY <1>1, MineCount
<1>5. Cardinality(Mine(msg'[c], todo'[c], p)) = IF msg[c] = p.msg THEN after ELSE 0
  <2>1. CASE rest = <<>>
    <3>1. Positions(p.to, rest) = {} /\ Mine(msg'[c], todo'[c], p) = {}
      BY <1>2, <2>1 DEF Positions, Mine
    <3>2. QED
      BY <3>1, FS_EmptySet
  <2>2. CASE rest # <<>>
    <3>1. Mine(msg'[c], todo'[c], p) = Mine(msg[c], rest, p)
      BY <1>2, <2>2
    <3>2. Cardinality(Mine(msg[c], rest, p)) = IF msg[c] = p.msg THEN after ELSE 0
      BY <1>1, MineCount
    <3>3. QED
      BY <3>1, <3>2
  <2>3. QED
    BY <2>1, <2>2
<1>6. InHandlers(p)' + Cardinality(Mine(msg[c], todo[c], p))
        = InHandlers(p) + Cardinality(Mine(msg'[c], todo'[c], p))
  BY <1>2, HandlersChange
<1>7. InHandlers(p) \in Nat /\ InHandlers(p)' \in Nat
  <2>1. InHandlers(p) \in Nat
    BY CountsNat
  <2>2. InHandlers(p)' \in Nat
    BY CountsNatNext
  <2>3. QED
    BY <2>1, <2>2
<1> HIDE DEF before, after, rest
<1>8. QED
  BY <1>3, <1>4, <1>5, <1>6, <1>7 DEF One

LEMMA HandCount ==
  ASSUME TypeOK, NEW p \in Parcel, NEW q \in Parcel, NEW conn \in Conns,
         auth[conn] = q.to, Hand(conn, <<q>>)
  PROVE  Received(p)' = Received(p) + One(p = q /\ conn \notin gone)
<1> DEFINE old == received[q.to]
<1>1. old \in Seq(Parcel) /\ q.to \in Users
  BY DEF TypeOK, Parcel
<1>2. Received(p) \in Nat
  BY CountsNat
<1>3. CASE conn \in gone
  BY <1>2, <1>3 DEF Hand, Received, One
<1>4. CASE conn \notin gone
  <2>1. received' = [received EXCEPT ![q.to] = old \o <<q>>]
    BY <1>4 DEF Hand
  <2>2. old \o <<q>> = Append(old, q)
    BY <1>1
  <2>3. CASE p.to = q.to
    <3>1. received'[p.to] = Append(old, q)
      BY <1>1, <2>1, <2>2, <2>3 DEF TypeOK
    <3>2. Cardinality(Positions(p, Append(old, q)))
            = Cardinality(Positions(p, old)) + (IF q = p THEN 1 ELSE 0)
      BY <1>1, PositionsAppend
    <3>3. Received(p) = Cardinality(Positions(p, old))
      BY <2>3, ReceivedCount
    <3>4. Received(p)' = Cardinality(Positions(p, Append(old, q)))
      BY <3>1, ReceivedCount
    <3>5. QED
      BY <1>4, <3>2, <3>3, <3>4 DEF One
  <2>4. CASE p.to # q.to
    <3>1. received'[p.to] = received[p.to]
      BY <1>1, <2>1, <2>4 DEF TypeOK, Parcel
    <3>2. p # q
      BY <2>4
    <3>3. QED
      BY <1>2, <3>1, <3>2, ReceivedCount DEF One
  <2>5. QED
    BY <2>3, <2>4
<1>5. QED
  BY <1>3, <1>4

LEMMA InsertCount ==
  ASSUME TypeOK, dbUp = TRUE, NEW p \in Parcel, NEW u \in Users, NEW m \in Msgs,
         OfflineInsert(u, m), \A v \in Users : Fetched(v)' <=> Fetched(v)
  PROVE  KeptRows(p)' = KeptRows(p) + One(p.to = u /\ p.msg = m /\ ~Fetched(u))
<1> DEFINE old == offline[u]
<1>1. old \in Seq(Msgs) /\ offline' = [offline EXCEPT ![u] = Append(old, m)]
  BY DEF TypeOK, DbTypeOK, OfflineInsert
<1>2. KeptRows(p) \in Nat /\ p.to \in Users
  BY CountsNat DEF Parcel
<1>3. Fetched(p.to)' <=> Fetched(p.to)
  BY <1>2
<1>4. CASE Fetched(p.to)
  <2>1. KeptRows(p) = 0 /\ KeptRows(p)' = 0
    BY <1>3, <1>4, KeptCount
  <2>2. QED
    BY <1>4, <2>1 DEF One
<1>5. CASE ~Fetched(p.to) /\ p.to = u
  <2>1. offline'[p.to] = Append(old, m)
    BY <1>1, <1>2, <1>5 DEF TypeOK, DbTypeOK
  <2>2. Cardinality(Positions(p.msg, Append(old, m)))
          = Cardinality(Positions(p.msg, old)) + (IF m = p.msg THEN 1 ELSE 0)
    BY <1>1, PositionsAppend
  <2>3. KeptRows(p) = Cardinality(Positions(p.msg, old))
    BY <1>5, KeptCount
  <2>4. KeptRows(p)' = Cardinality(Positions(p.msg, Append(old, m)))
    BY <1>3, <1>5, <2>1, KeptCount
  <2>5. QED
    BY <1>5, <2>2, <2>3, <2>4 DEF One
<1>6. CASE p.to # u
  <2>1. offline'[p.to] = offline[p.to]
    BY <1>1, <1>2, <1>6 DEF TypeOK, DbTypeOK
  <2>2. KeptRows(p)' = KeptRows(p)
    BY <1>3, <2>1, KeptCount
  <2>3. QED
    BY <1>2, <1>6, <2>2 DEF One
<1>7. QED
  BY <1>4, <1>5, <1>6

LEMMA ReceiveCount ==
  ASSUME TypeOK, TypeOK', NEW p \in Parcel, NEW s \in Servers, Receive(s)
  PROVE  InChannels(p) = InChannels(p)' + One(p = Head(pushed[s]))
<1> DEFINE queue == pushed[s]
           before == Cardinality(Positions(p, queue))
           after == Cardinality(Positions(p, Tail(queue)))
<1>1. /\ queue \in Seq(Parcel) /\ queue # <<>> /\ Tail(queue) \in Seq(Parcel)
      /\ pushed'[s] = Tail(queue)
      /\ \A r \in Servers \ {s} : pushed'[r] = pushed[r]
  BY DEF TypeOK, RedisTypeOK, Receive
<1>2. before \in Nat /\ after \in Nat
  BY <1>1, PositionsFinite
<1>3. before = after + (IF Head(queue) = p THEN 1 ELSE 0)
  BY <1>1, PositionsTail
<1>4. InChannels(p)' + before = InChannels(p) + after
  BY <1>1, ChannelsChange
<1>5. InChannels(p) \in Nat
  BY CountsNat
<1>6. InChannels(p)' \in Nat
  BY CountsNatNext
<1> HIDE DEF before, after
<1>7. QED
  BY <1>2, <1>3, <1>4, <1>5, <1>6 DEF One

\* A published message reaches the servers subscribed to its channel.
LEMMA PublishCount ==
  ASSUME TypeOK, TypeOK', NEW p \in Parcel, NEW u \in Users, NEW m \in Msgs,
         Publish(u, m), NEW home \in Servers,
         \A s \in Servers : <<s, u>> \in subs => s = home
  PROVE  InChannels(p)' =
           InChannels(p) + One(p.to = u /\ p.msg = m /\ <<home, u>> \in subs)
<1> DEFINE q == [to |-> u, msg |-> m]
           queue == pushed[home]
<1>1. queue \in Seq(Parcel) /\ q \in Parcel
  BY DEF TypeOK, RedisTypeOK, Parcel
<1>2. /\ \A r \in Servers \ {home} : pushed'[r] = pushed[r]
      /\ pushed'[home] = IF <<home, u>> \in subs THEN Append(queue, q) ELSE queue
  BY DEF Publish
<1>3. InChannels(p)' + Cardinality(Positions(p, queue))
        = InChannels(p) + Cardinality(Positions(p, pushed'[home]))
  BY <1>2, ChannelsChange
<1>4. /\ InChannels(p) \in Nat /\ InChannels(p)' \in Nat
      /\ Cardinality(Positions(p, queue)) \in Nat
  BY <1>1, CountsNat, CountsNatNext, PositionsFinite
<1>5. Cardinality(Positions(p, Append(queue, q)))
        = Cardinality(Positions(p, queue)) + (IF q = p THEN 1 ELSE 0)
  BY <1>1, PositionsAppend
<1>6. p = q <=> p.to = u /\ p.msg = m
  BY ParcelParts
<1> HIDE DEF q, queue
<1>7. QED
  BY <1>2, <1>3, <1>4, <1>5, <1>6 DEF One

\* The rows of u are pushed to the connection that logs in, if its client is
\* still there, and no longer counted as kept.
LEMMA FetchCount ==
  ASSUME TypeOK, dbUp = TRUE, NEW p \in Parcel, NEW c \in Conns, job[c] \in Users,
         LoginFetch(c), ~Fetched(job[c])
  PROVE  IF p.to = job[c]
           THEN /\ KeptRows(p)' = 0
                /\ Received(p)' = Received(p) + (IF c \in gone THEN 0 ELSE KeptRows(p))
           ELSE KeptRows(p)' = KeptRows(p) /\ Received(p)' = Received(p)
<1> DEFINE u == job[c]
           rows == offline[u]
           parcels == [i \in 1..Len(rows) |-> [to |-> u, msg |-> rows[i]]]
           old == received[u]
<1>1. /\ u \in Users /\ rows \in Seq(Msgs) /\ old \in Seq(Parcel)
      /\ pc' = [pc EXCEPT ![c] = "login_remove"]
      /\ UNCHANGED <<job, offline>>
      /\ received' = IF c \in gone THEN received
                     ELSE [received EXCEPT ![u] = old \o parcels]
  BY DEF TypeOK, DbTypeOK, LoginFetch, OfflineQuery, Advance, Goto, dbVars
<1>2. KeptRows(p) \in Nat /\ Received(p) \in Nat /\ p.to \in Users
  BY CountsNat DEF Parcel
<1>3. Fetched(p.to)' <=> Fetched(p.to) \/ p.to = u
  BY <1>1 DEF Fetched, TypeOK, LoginFetch
<1>4. CASE p.to = u
  <2>1. KeptRows(p)' = 0
    BY <1>3, <1>4, KeptCount
  <2>2. KeptRows(p) = Cardinality(Positions(p.msg, rows))
    BY <1>4, KeptCount
  <2>3. CASE c \in gone
    <3>1. Received(p)' = Received(p)
      BY <1>1, <2>3 DEF Received
    <3>2. QED
      BY <1>2, <1>4, <2>1, <2>3, <3>1
  <2>4. CASE c \notin gone
    <3>1. parcels \in Seq(Parcel) /\ Len(parcels) = Len(rows)
      BY <1>1 DEF Parcel
    <3>2. Positions(p, parcels) = Positions(p.msg, rows)
      <4>1. ASSUME NEW i \in 1..Len(rows) PROVE parcels[i] = p <=> rows[i] = p.msg
        <5>1. parcels[i] = [to |-> u, msg |-> rows[i]]
          OBVIOUS
        <5>2. p.to = u /\ p = [to |-> p.to, msg |-> p.msg]
          <6>1. p \in Parcel
            OBVIOUS
          <6>2. p = [to |-> p.to, msg |-> p.msg]
            BY ONLY <6>1, ParcelParts
          <6>3. QED
            BY ONLY <6>2, <1>4
        <5> HIDE DEF parcels, rows
        <5>3. ASSUME rows[i] = p.msg PROVE parcels[i] = p
          BY ONLY <5>1, <5>2, <5>3
        <5>4. ASSUME parcels[i] = p PROVE rows[i] = p.msg
          <6>1. parcels[i].msg = rows[i]
            BY ONLY <5>1
          <6>2. QED
            BY ONLY <6>1, <5>4
        <5>5. QED
          BY <5>3, <5>4
      <4> HIDE DEF parcels, rows
      <4>2. QED
        BY <3>1, <4>1 DEF Positions
    <3> HIDE DEF parcels, rows
    <3>3. received'[u] = old \o parcels
      BY <1>1, <2>4 DEF TypeOK
    <3> HIDE DEF old
    <3>4. Cardinality(Positions(p, old \o parcels))
            = Cardinality(Positions(p, old)) + Cardinality(Positions(p, parcels))
      BY <1>1, <3>1, PositionsConcat
    <3>5. Received(p) = Cardinality(Positions(p, old))
      BY <1>4, ReceivedCount DEF old
    <3>6. Received(p)' = Cardinality(Positions(p, old \o parcels))
      BY <1>4, <3>3, ReceivedCount
    <3>7. QED
      BY <1>4, <2>1, <2>2, <2>4, <3>2, <3>4, <3>5, <3>6
  <2>5. QED
    BY <2>3, <2>4
<1>5. CASE p.to # u
  <2>1. KeptRows(p)' = KeptRows(p)
    BY <1>1, <1>3, <1>5, KeptCount
  <2>2. received'[p.to] = received[p.to]
    BY <1>1, <1>2, <1>5 DEF TypeOK
  <2>3. Received(p)' = Received(p)
    BY <2>2, ReceivedCount
  <2>4. QED
    BY <1>5, <2>1, <2>3
<1>6. QED
  BY <1>4, <1>5

\* ... and deleted.
LEMMA RemoveCount ==
  ASSUME TypeOK, dbUp = TRUE, NEW p \in Parcel, NEW c \in Conns, job[c] \in Users,
         LoginRemove(c)
  PROVE  KeptRows(p)' = KeptRows(p)
<1> DEFINE u == job[c]
<1>1. /\ offline' = [offline EXCEPT ![u] = <<>>]
      /\ pc[c] = "login_remove"
      /\ pc' = [pc EXCEPT ![c] = "login_state"]
      /\ job' = job
  BY DEF LoginRemove, OfflineRemove, Advance, Goto
<1>2. p.to \in Users /\ KeptRows(p) \in Nat
  BY CountsNat DEF Parcel
<1>3. CASE p.to = u
  <2>1. KeptRows(p) = 0
    BY <1>1, <1>3, KeptCount DEF Fetched
  <2>2. Positions(p.msg, offline'[p.to]) = {}
    BY <1>1, <1>2, <1>3 DEF Positions, TypeOK, DbTypeOK
  <2>3. KeptRows(p)' = 0
    BY <2>2, KeptCount, FS_EmptySet
  <2>4. QED
    BY <2>1, <2>3
<1>4. CASE p.to # u
  <2>1. Fetched(p.to)' <=> Fetched(p.to)
    BY <1>1, <1>4 DEF Fetched, TypeOK
  <2>2. offline'[p.to] = offline[p.to]
    BY <1>1, <1>2, <1>4 DEF TypeOK, DbTypeOK
  <2>3. QED
    BY <2>1, <2>2, KeptCount
<1>5. QED
  BY <1>3, <1>4

\* A message comes in.
LEMMA RequestCount ==
  ASSUME TypeOK, TypeOK', NEW p \in Parcel, NEW c \in Conns, NEW m \in Msgs,
         NEW recipients \in Seq(Users), ChatRequest(c, m, recipients),
         msg[c] = NoMsg, todo[c] = <<>>
  PROVE  p.msg # m => InHandlers(p)' = InHandlers(p)
<1> SUFFICES ASSUME p.msg # m PROVE InHandlers(p)' = InHandlers(p)
  OBVIOUS
<1>1. /\ \A d \in Conns \ {c} : msg'[d] = msg[d] /\ todo'[d] = todo[d]
      /\ msg'[c] # p.msg
  BY SentinelAssumption DEF ChatRequest, TypeOK, Parcel
<1>2. Mine(msg[c], todo[c], p) = {} /\ Mine(msg'[c], todo'[c], p) = {}
  BY <1>1 DEF Mine
<1>3. Cardinality(Mine(msg[c], todo[c], p)) = 0 /\ Cardinality(Mine(msg'[c], todo'[c], p)) = 0
  BY <1>2, FS_EmptySet
<1>4. InHandlers(p)' + Cardinality(Mine(msg[c], todo[c], p))
        = InHandlers(p) + Cardinality(Mine(msg'[c], todo'[c], p))
  BY <1>1, HandlersChange
<1>5. InHandlers(p) \in Nat
  BY CountsNat
<1>6. InHandlers(p)' \in Nat
  BY CountsNatNext
<1>7. QED
  BY <1>3, <1>4, <1>5, <1>6

LEMMA PublishOther ==
  ASSUME TypeOK, NEW p \in Parcel, NEW u \in Users, NEW m \in Msgs,
         Publish(u, m), ~(p.to = u /\ p.msg = m)
  PROVE  InChannels(p)' = InChannels(p)
<1> DEFINE q == [to |-> u, msg |-> m]
<1>1. p # q /\ q \in Parcel
  BY ParcelParts DEF Parcel
<1>2. \A s \in Servers : pushed'[s] \in {Append(pushed[s], q), pushed[s]}
  BY DEF Publish
<1> HIDE DEF q
<1>3. ASSUME NEW queue \in Seq(Parcel)
      PROVE  Positions(p, Append(queue, q)) = Positions(p, queue)
  <2>1. /\ Len(Append(queue, q)) = Len(queue) + 1
        /\ Append(queue, q)[Len(queue) + 1] = q
        /\ \A i \in 1..Len(queue) : Append(queue, q)[i] = queue[i]
        /\ Len(queue) \in Nat
    BY <1>1
  <2>2. \A i \in 1..Len(queue) + 1 :
          Append(queue, q)[i] = p <=> i \in 1..Len(queue) /\ queue[i] = p
    BY <1>1, <2>1
  <2>3. 1..Len(queue) \subseteq 1..Len(queue) + 1
    BY <2>1
  <2>4. QED
    BY <2>1, <2>2, <2>3 DEF Positions
<1>4. \A s \in Servers : Positions(p, pushed'[s]) = Positions(p, pushed[s])
  BY <1>2, <1>3 DEF TypeOK, RedisTypeOK
<1>5. InQueues(pushed', p) = InQueues(pushed, p)
  BY <1>4 DEF InQueues
<1>6. QED
  BY <1>5, ChannelsCount

-----------------------------------------------------------------------------
(***************************************************************************)
(* A handler between two requests has no message and no recipients left;   *)
(* one that stores or publishes is at the first recipient of its list.     *)
(***************************************************************************)
Serving ==
  \A c \in Conns :
    /\ pc[c] \notin ChatSteps => msg[c] = NoMsg /\ todo[c] = <<>>
    /\ pc[c] \in {"store", "publish"} => job[c] = Head(todo[c])

\* A step that neither moves a message nor takes one in.
Calm ==
  /\ UNCHANGED <<pushed, offline, received, msg, todo, unsent>>
  /\ \A u \in Users : Fetched(u)' <=> Fetched(u)

\* With nothing failing, all others are these.
LEMMA StepCases ==
  ASSUME Quiet, QuietInv, [Next]_vars
  PROVE  \/ Calm
         \/ \E c \in Conns, m \in Msgs, recipients \in Seq(Users) :
              ChatRequest(c, m, recipients)
         \/ \E c \in Conns :
              \/ LoginFetch(c) \/ LoginRemove(c) \/ Store(c) \/ PublishRemote(c)
              \/ \E u \in Users : RouteLocal(c, u)
         \/ \E s \in Servers : Notify(s)
<1>t. pc \in [Conns -> Steps] /\ job \in [Conns -> Users \cup {NoUser}]
  BY DEF QuietInv, ChannelInv, SerialInv, SessionInv, TypeOK
<1>q. /\ \A s \in Servers : srv[s] = "up"
      /\ dbUp = TRUE
      /\ Faults = {}
  BY DEF QuietInv, AllUp, Quiet
<1>a. ASSUME UNCHANGED <<pushed, offline, received, msg, todo, unsent>>,
             NEW c \in Conns, pc[c] # "login_remove", pc'[c] # "login_remove",
             \A d \in Conns \ {c} : pc'[d] = pc[d] /\ job'[d] = job[d]
      PROVE  Calm
  BY <1>a DEF Calm, Fetched
<1>b. ASSUME UNCHANGED <<pushed, offline, received, msg, todo, unsent, pc, job>>
      PROVE  Calm
  BY <1>b DEF Calm, Fetched
<1>1. CASE Environment
  <2>1. ASSUME NEW c \in Conns, NEW s \in Servers, Connect(c, s) PROVE Calm
    BY <1>b, <2>1 DEF Connect, dbVars, redisVars, handlerVars, boundVars
  <2>2. ASSUME NEW c \in Conns, Disconnect(c) PROVE Calm
    BY <1>b, <2>2 DEF Disconnect, dbVars, redisVars, handlerVars, boundVars
  <2>3. ASSUME NEW c \in Conns, NEW u \in Users, Register(c, u) PROVE Calm
    BY <1>b, <2>3 DEF Register, UserInsert, redisVars, handlerVars, boundVars
  <2>4. ASSUME NEW c \in Conns, NEW u \in Users, Login(c, u) PROVE Calm
    <3>1. /\ UNCHANGED <<pushed, offline, received, msg, todo, unsent>>
          /\ pc[c] # "login_remove" /\ pc'[c] # "login_remove"
          /\ \A d \in Conns \ {c} : pc'[d] = pc[d] /\ job'[d] = job[d]
      BY <1>t, <2>4 DEF Login, Requests, Idle, Start, Goto, dbVars, redisVars
    <3>2. QED
      BY <1>a, <3>1
  <2>5. ASSUME NEW c \in Conns, LogOut(c) PROVE Calm
    <3>1. UNCHANGED <<pushed, offline, received, unsent>> /\ pc[c] = "idle"
      BY <2>5 DEF LogOut, Requests, Idle, UpdateState, dbVars, redisVars, boundVars
    <3>2. CASE UNCHANGED handlerVars
      BY <1>b, <3>1, <3>2 DEF handlerVars
    <3>3. CASE Start(c, "logout_unsub", auth[c])
      <4>1. /\ UNCHANGED <<msg, todo>>
            /\ pc'[c] # "login_remove"
            /\ \A d \in Conns \ {c} : pc'[d] = pc[d] /\ job'[d] = job[d]
        BY <1>t, <3>3 DEF Start, Goto
      <4>2. QED
        BY <1>a, <3>1, <4>1
    <3>4. QED
      BY <2>5, <3>2, <3>3 DEF LogOut
  <2>6. /\ \A s \in Servers : ~(SigInt(s) \/ Crash(s) \/ Restart(s))
        /\ \A c \in Conns, u \in Users : ~CloseFault(c, u)
        /\ ~DbStops
        /\ ~DbAnswers
    BY <1>q DEF SigInt, Crash, Restart, CloseFault, DbStops, DbAnswers, SetDb
  <2>7. QED
    BY <1>1, <2>1, <2>2, <2>3, <2>4, <2>5, <2>6, RequestCases DEF Environment
<1>2. ASSUME NEW c \in Conns, Handler(c)
      PROVE  \/ Calm
             \/ LoginFetch(c) \/ LoginRemove(c) \/ Store(c) \/ PublishRemote(c)
             \/ \E u \in Users : RouteLocal(c, u)
  <2>1. ASSUME LoginState(c) \/ LoginMap(c) PROVE Calm
    <3>1. /\ UNCHANGED <<pushed, offline, received, msg, todo, unsent>>
          /\ pc[c] # "login_remove" /\ pc'[c] # "login_remove"
          /\ \A d \in Conns \ {c} : pc'[d] = pc[d] /\ job'[d] = job[d]
      BY <1>t, <2>1 DEF LoginState, LoginMap, Advance, Goto, UpdateState, dbVars, redisVars,
         boundVars
    <3>2. QED
      BY <1>a, <3>1
  <2>2. ASSUME LoginSubscribe(c) \/ LogOutUnsubscribe(c) PROVE Calm
    <3>1. /\ UNCHANGED <<pushed, offline, received, msg, todo, unsent>>
          /\ pc[c] # "login_remove" /\ pc'[c] # "login_remove"
          /\ \A d \in Conns \ {c} : pc'[d] = pc[d] /\ job'[d] = job[d]
      BY <1>t, <2>2 DEF LoginSubscribe, LogOutUnsubscribe, Subscribe, Unsubscribe,
         WriteCommand, Return, Start, Goto, dbVars, boundVars
    <3>2. QED
      BY <1>a, <3>1
  <2>3. ASSUME NEW u \in Users, RouteRemote(c, u) PROVE Calm
    <3>1. /\ UNCHANGED <<pushed, offline, received, msg, todo, unsent>>
          /\ pc[c] # "login_remove" /\ pc'[c] # "login_remove"
          /\ \A d \in Conns \ {c} : pc'[d] = pc[d] /\ job'[d] = job[d]
      BY <1>t, <2>3 DEF RouteRemote, Start, Goto, dbVars, redisVars, boundVars
    <3>2. QED
      BY <1>a, <3>1
  <2>4. ASSUME CloseUnmapped(c) PROVE Calm
    BY <1>b, <2>4 DEF CloseUnmapped, dbVars, redisVars, handlerVars, boundVars
  <2>5. ASSUME CloseState(c) \/ \E u \in Users : CloseMapped(c, u) PROVE Calm
    <3>1. /\ UNCHANGED <<pushed, offline, received, msg, todo, unsent>>
          /\ pc[c] # "login_remove" /\ pc'[c] # "login_remove"
          /\ \A d \in Conns \ {c} : pc'[d] = pc[d] /\ job'[d] = job[d]
      BY <1>t, <2>5 DEF CloseState, CloseMapped, Idle, Unsubscribe, WriteCommand,
         UpdateState, Return, Start, Goto, dbVars, redisVars, boundVars
    <3>2. QED
      BY <1>a, <3>1
  <2>6. QED
    BY <1>2, <2>1, <2>2, <2>3, <2>4, <2>5 DEF Handler
<1>3. ASSUME NEW s \in Servers, RedisExecute(s) PROVE Calm
  BY <1>b, <1>3 DEF RedisExecute, Execute, dbVars, handlerVars, boundVars
<1>4. \A s \in Servers : ~(ResetStates(s) \/ Exit(s))
  BY <1>q DEF ResetStates, Exit
<1>5. CASE UNCHANGED vars
  BY <1>b, <1>5 DEF vars, dbVars, redisVars, handlerVars, boundVars
<1>6. QED
  BY <1>1, <1>2, <1>3, <1>4, <1>5 DEF Next

LEMMA ServingStep ==
  ASSUME Quiet, QuietInv, Serving, [Next]_vars
  PROVE  Serving'
<1>t. /\ pc \in [Conns -> Steps] /\ job \in [Conns -> Users \cup {NoUser}]
      /\ msg \in [Conns -> Msgs \cup {NoMsg}] /\ todo \in [Conns -> Seq(Users)]
  BY DEF QuietInv, ChannelInv, SerialInv, SessionInv, TypeOK
<1>q. /\ \A s \in Servers : srv[s] = "up"
      /\ Faults = {}
  BY DEF QuietInv, AllUp, Quiet
<1>o. \A c \in Conns :
        /\ pc[c] \notin ChatSteps => msg[c] = NoMsg /\ todo[c] = <<>>
        /\ pc[c] \in {"store", "publish"} => job[c] = Head(todo[c])
  BY DEF Serving
<1>g. Serving' <=> \A c \in Conns :
        /\ pc'[c] \notin ChatSteps => msg'[c] = NoMsg /\ todo'[c] = <<>>
        /\ pc'[c] \in {"store", "publish"} => job'[c] = Head(todo'[c])
  BY DEF Serving
<1>a. ASSUME UNCHANGED <<pc, job, msg, todo>> PROVE Serving'
  BY <1>o, <1>g, <1>a
\* Another handler goes on.
<1>b. ASSUME NEW c \in Conns, NEW step \in Steps \ ChatSteps, NEW u, Start(c, step, u) \/ Advance(c, step),
             pc[c] \notin ChatSteps
      PROVE  Serving'
  <2>1. /\ UNCHANGED <<msg, todo>>
        /\ pc'[c] \notin ChatSteps
        /\ \A d \in Conns \ {c} : pc'[d] = pc[d] /\ job'[d] = job[d]
    BY <1>t, <1>b DEF Start, Advance, Goto
  <2>2. QED
    BY <1>o, <1>g, <1>b, <2>1 DEF ChatSteps
<1>c. ASSUME NEW c \in Conns, DoneWith(c) PROVE Serving'
  <2>1. /\ pc'[c] = IF Tail(todo[c]) = <<>> THEN "idle" ELSE "route"
        /\ todo'[c] = Tail(todo[c])
        /\ msg'[c] = IF Tail(todo[c]) = <<>> THEN NoMsg ELSE msg[c]
        /\ \A d \in Conns \ {c} : /\ pc'[d] = pc[d] /\ job'[d] = job[d]
                                  /\ msg'[d] = msg[d] /\ todo'[d] = todo[d]
    BY <1>t, <1>c DEF DoneWith, Goto
  <2>2. QED
    BY <1>o, <1>g, <2>1 DEF ChatSteps
<1>s. LoginSteps \cup {"idle", "close_state", "logout_unsub"} \subseteq Steps \ ChatSteps
  BY DEF Steps, LoginSteps, ChatSteps
<1>1. CASE Environment
  <2>1. ASSUME NEW c \in Conns, NEW m \in Msgs, NEW recipients \in Seq(Users),
               ChatRequest(c, m, recipients)
        PROVE  Serving'
    <3>1. /\ pc[c] = "idle" /\ job' = job
          /\ todo' = [todo EXCEPT ![c] = recipients]
      BY <2>1 DEF ChatRequest, Requests, Idle
    <3>2. CASE recipients = <<>>
      BY <1>t, <1>o, <1>g, <2>1, <3>1, <3>2 DEF ChatRequest, ChatSteps
    <3>3. CASE recipients # <<>>
      <4>1. pc' = [pc EXCEPT ![c] = "route"] /\ msg' = [msg EXCEPT ![c] = m]
        BY <2>1, <3>3 DEF ChatRequest, Goto
      <4>2. QED
        BY <1>t, <1>o, <1>g, <3>1, <4>1 DEF ChatSteps
    <3>4. QED
      BY <3>2, <3>3
  <2>2. ASSUME NEW c \in Conns,
               Disconnect(c) \/ (\E s \in Servers : Connect(c, s))
                 \/ (\E u \in Users : Register(c, u))
        PROVE  Serving'
    BY <1>a, <2>2 DEF Disconnect, Connect, Register, handlerVars
  <2>3. ASSUME NEW c \in Conns, NEW u \in Users, Login(c, u) PROVE Serving'
    <3>1. pc[c] \notin ChatSteps /\ Start(c, "login_fetch", u)
      BY <2>3 DEF Login, Requests, Idle, ChatSteps
    <3>2. "login_fetch" \in Steps \ ChatSteps
      BY DEF Steps, LoginSteps, ChatSteps
    <3>3. QED
      BY <1>b, <3>1, <3>2
  <2>4. ASSUME NEW c \in Conns, LogOut(c) PROVE Serving'
    <3>1. pc[c] \notin ChatSteps
      BY <2>4 DEF LogOut, Requests, Idle, ChatSteps
    <3>2. CASE UNCHANGED handlerVars
      BY <1>a, <3>2 DEF handlerVars
    <3>3. CASE Start(c, "logout_unsub", auth[c])
      BY <1>b, <1>s, <3>1, <3>3
    <3>4. QED
      BY <2>4, <3>2, <3>3 DEF LogOut
  <2>5. /\ \A s \in Servers : ~(SigInt(s) \/ Crash(s) \/ Restart(s))
        /\ \A c \in Conns, u \in Users : ~CloseFault(c, u)
        /\ ~DbStops
    BY <1>q DEF SigInt, Crash, Restart, CloseFault, DbStops
  <2>6. ASSUME DbAnswers PROVE Serving'
    BY <1>a, <2>6 DEF DbAnswers, handlerVars
  <2>7. QED
    BY <1>1, <2>1, <2>2, <2>3, <2>4, <2>5, <2>6, RequestCases DEF Environment
<1>2. ASSUME NEW c \in Conns, Handler(c) PROVE Serving'
  <2>1. ASSUME NEW step \in LoginSteps, Advance(c, step), pc[c] \in LoginSteps
        PROVE  Serving'
    BY <1>b, <1>s, <2>1
  <2>2. ASSUME LoginFetch(c) \/ LoginRemove(c) \/ LoginState(c) \/ LoginMap(c)
        PROVE  Serving'
    BY <2>1, <2>2 DEF LoginFetch, LoginRemove, LoginState, LoginMap, LoginSteps
  <2>3. ASSUME LoginSubscribe(c) \/ LogOutUnsubscribe(c) \/ CloseState(c)
        PROVE  Serving'
    <3>1. pc[c] \notin ChatSteps /\ Start(c, "idle", NoUser)
      BY <2>3 DEF LoginSubscribe, LogOutUnsubscribe, CloseState, Return, ChatSteps
    <3>2. QED
      BY <1>b, <1>s, <3>1
  <2>4. ASSUME (\E u \in Users : RouteLocal(c, u)) \/ Store(c) \/ PublishRemote(c)
        PROVE  Serving'
    BY <1>c, <2>4 DEF RouteLocal, Store, PublishRemote
  <2>5. ASSUME NEW u \in Users, RouteRemote(c, u) PROVE Serving'
    <3>1. /\ UNCHANGED <<msg, todo>>
          /\ u = Head(todo[c])
          /\ pc'[c] \in {"store", "publish"} /\ job'[c] = u
          /\ \A d \in Conns \ {c} : pc'[d] = pc[d] /\ job'[d] = job[d]
      BY <1>t, <2>5 DEF RouteRemote, Start, Goto
    <3>2. QED
      BY <1>o, <1>g, <3>1 DEF ChatSteps
  <2>6. ASSUME CloseUnmapped(c) PROVE Serving'
    BY <1>a, <2>6 DEF CloseUnmapped, handlerVars
  <2>7. ASSUME NEW u \in Users, CloseMapped(c, u) PROVE Serving'
    <3>1. pc[c] \notin ChatSteps /\ Start(c, "close_state", u)
      BY <2>7 DEF CloseMapped, Idle, ChatSteps
    <3>2. QED
      BY <1>b, <1>s, <3>1
  <2>8. QED
    BY <1>2, <2>2, <2>3, <2>4, <2>5, <2>6, <2>7 DEF Handler
<1>3. ASSUME NEW s \in Servers,
             Notify(s) \/ RedisExecute(s) \/ ResetStates(s) \/ Exit(s)
      PROVE  Serving'
  BY <1>a, <1>q, <1>3 DEF Notify, NotifyLocal, NotifyStore, RedisExecute, ResetStates, Exit,
     handlerVars
<1>4. CASE UNCHANGED vars
  BY <1>a, <1>4 DEF vars, handlerVars
<1>5. QED
  BY <1>1, <1>2, <1>3, <1>4 DEF Next

-----------------------------------------------------------------------------
\* Whoever is in a list or a queue is counted.

LEMMA ListedCounts ==
  ASSUME NEW ms, NEW lists \in [Conns -> Seq(Users)], NEW p \in Parcel, NEW c \in Conns,
         ms[c] = p.msg, lists[c] # <<>>, Head(lists[c]) = p.to
  PROVE  InLists(ms, lists, p) \in Nat \ {0}
<1> DEFINE F == [d \in Conns |-> Mine(ms[d], lists[d], p)]
<1>1. \A d \in Conns : IsFiniteSet(F[d])
  BY MineCount
<1>2. Cardinality(F[c]) \in Nat \ {0}
  <2>1. /\ lists[c] \in Seq(Users)
        /\ Cardinality(Positions(p.to, lists[c])) \in Nat
        /\ Cardinality(Mine(ms[c], lists[c], p)) = Cardinality(Positions(p.to, lists[c]))
    BY PositionsFinite, MineCount
  <2>2. 1 \in 1..Len(lists[c]) /\ lists[c][1] = p.to
    BY <2>1
  <2>3. Cardinality(Positions(p.to, lists[c])) # 0
    BY <2>1, <2>2, PositionsNone
  <2>4. QED
    BY <2>1, <2>3
<1> HIDE DEF F
<1>3. /\ Cardinality(Stack(Conns, F)) = Cardinality(F[c]) + Cardinality(Stack(Conns \ {c}, F))
      /\ Cardinality(Stack(Conns \ {c}, F)) \in Nat
  BY <1>1, FiniteAssumption, StackSplit
<1>4. QED
  BY <1>2, <1>3 DEF InLists, F

LEMMA QueuedCounts ==
  ASSUME NEW queues \in [Servers -> Seq(Parcel)], NEW p \in Parcel, NEW s \in Servers,
         queues[s] # <<>>, Head(queues[s]) = p
  PROVE  InQueues(queues, p) \in Nat \ {0}
<1> DEFINE F == [r \in Servers |-> Positions(p, queues[r])]
<1>1. \A r \in Servers : IsFiniteSet(F[r])
  BY PositionsFinite
<1>2. Cardinality(F[s]) \in Nat \ {0}
  <2>1. queues[s] \in Seq(Parcel) /\ Cardinality(Positions(p, queues[s])) \in Nat
    BY PositionsFinite
  <2>2. 1 \in 1..Len(queues[s]) /\ queues[s][1] = p
    BY <2>1
  <2>3. Cardinality(Positions(p, queues[s])) # 0
    BY <2>1, <2>2, PositionsNone
  <2>4. QED
    BY <2>1, <2>3
<1> HIDE DEF F
<1>3. /\ Cardinality(Stack(Servers, F)) = Cardinality(F[s]) + Cardinality(Stack(Servers \ {s}, F))
      /\ Cardinality(Stack(Servers \ {s}, F)) \in Nat
  BY <1>1, FiniteAssumption, StackSplit
<1>4. QED
  BY <1>2, <1>3 DEF InQueues, F

-----------------------------------------------------------------------------
(***************************************************************************)
(* A message that goes over a channel was decided on long before: unless   *)
(* it is disturbed, its recipient is still online.  Then it has one home,  *)
(* the server whose map and whose subscription it is in.                   *)
(***************************************************************************)
Fresh == Disturbed \subseteq disturbed /\ disturbed \subseteq Parcel

PublishOnline ==
  \A c \in Conns :
    pc[c] = "publish" /\ [to |-> job[c], msg |-> msg[c]] \notin disturbed
      => userState[job[c]] = "online"

UnsentZero ==
  \A p \in Parcel : sent[p] \in Nat /\ (p.msg \in unsent => sent[p] = 0)

DeliveryInv == QuietInv /\ Serving /\ Fresh /\ PublishOnline /\ UnsentZero

LEMMA Undisturbed ==
  ASSUME TypeOK, Fresh, NEW p \in Parcel, p \notin disturbed
  PROVE  /\ InHandlers(p) # 0 \/ InChannels(p) # 0 => ~ComingOrGoing(p.to)
         /\ LeftWhileEntering(p.to) => Cardinality(Positions(p.msg, offline[p.to])) = 0
<1>1. InHandlers(p) \in Nat /\ InChannels(p) \in Nat
  BY CountsNat
<1>2. ASSUME InHandlers(p) # 0 \/ InChannels(p) # 0 PROVE ~ComingOrGoing(p.to)
  <2>1. InHandlers(p) + InChannels(p) > 0
    BY <1>1, <1>2
  <2>2. p \in UnderWay
    BY <2>1 DEF UnderWay
  <2>3. QED
    BY <2>2 DEF Fresh, Disturbed
<1>3. ASSUME LeftWhileEntering(p.to)
      PROVE  Cardinality(Positions(p.msg, offline[p.to])) = 0
  <2>1. p.to \in Users /\ offline[p.to] \in Seq(Msgs)
    BY DEF TypeOK, DbTypeOK, Parcel
  <2>2. p \notin Rows(p.to)
    BY <1>3, <2>1 DEF Fresh, Disturbed
  <2>3. \A i \in 1..Len(offline[p.to]) : offline[p.to][i] # p.msg
    BY <2>2 DEF Rows, Parcel
  <2>4. QED
    BY <2>1, <2>3, PositionsNone
<1>4. QED
  BY <1>2, <1>3

LEMMA FreshStep ==
  ASSUME TypeOK', Fresh, HNext
  PROVE  Fresh'
<1>1. Disturbed' \subseteq Parcel
  <2>1. UnderWay' \subseteq Parcel
    BY DEF UnderWay
  <2>2. ASSUME NEW u \in Users PROVE Rows(u)' \subseteq Parcel
    <3>1. offline'[u] \in Seq(Msgs)
      BY DEF TypeOK, DbTypeOK
    <3>2. \A i \in 1..Len(offline'[u]) : offline'[u][i] \in Msgs
      BY <3>1
    <3>3. QED
      BY <3>2 DEF Rows, Parcel
  <2>3. QED
    BY <2>1, <2>2 DEF Disturbed
<1>2. disturbed' = disturbed \cup Disturbed'
  BY DEF HNext
<1>3. QED
  BY <1>1, <1>2 DEF Fresh

LEMMA OneHome ==
  ASSUME Quiet, QuietInv, NEW u \in Users, userState[u] = "online", ~ComingOrGoing(u)
  PROVE  \E home \in Servers : \A s \in Servers : <<s, u>> \in subs <=> s = home
<1>1. PICK c \in Conns : Holds(c, u)
  <2>1. faults = {}
    BY DEF Quiet, QuietInv, ChannelInv, SerialInv, SessionInv, TypeOK
  <2>2. QED
    BY <2>1 DEF QuietInv, ChannelInv, SerialInv, Agreement, StateMatchesSessions
<1>2. PICK home \in Servers : userConnMap[home][u] = c
  BY <1>1 DEF Holds, ComingOrGoing, LoginSteps
<1>3. \A s \in Servers : userConnMap[s][u] # NoConn <=> s = home
  <2>1. c # NoConn
    BY SentinelAssumption
  <2>2. ASSUME NEW s \in Servers, userConnMap[s][u] # NoConn PROVE s = home
    <3>1. userConnMap[s][u] \in Conns
      BY <2>2 DEF QuietInv, ChannelInv, SerialInv, SessionInv, TypeOK
    <3>2. Holds(userConnMap[s][u], u)
      BY DEF Holds
    <3>3. userConnMap[s][u] = c
      BY <1>1, <3>1, <3>2 DEF QuietInv, ChannelInv, SerialInv, Agreement, OneSessionPerUser
    <3>4. QED
      BY <1>2, <2>1, <3>3 DEF QuietInv, ChannelInv, SerialInv, SessionInv, MapMatchesSession
  <2>3. QED
    BY <1>2, <2>1, <2>2
<1>4. ASSUME NEW s \in Servers PROVE <<s, u>> \in subs <=> userConnMap[s][u] # NoConn
  <2>1. ~Changing(s, u)
    BY DEF Changing, ComingOrGoing, LoginSteps
  <2>2. {i \in 1..Len(cmds[s]) : cmds[s][i].user = u} = {}
    BY DEF ComingOrGoing
  <2>3. WillBeSubscribed(s, u) = (<<s, u>> \in subs)
    BY <2>2 DEF WillBeSubscribed
  <2>4. QED
    BY <2>1, <2>3 DEF QuietInv, ChannelInv, MapSubscribed
<1>5. QED
  BY <1>3, <1>4

LEMMA PublishOnlineStep ==
  ASSUME Quiet, DeliveryInv, TypeOK', HNext
  PROVE  PublishOnline'
<1> USE SentinelAssumption
<1>t. /\ pc \in [Conns -> Steps] /\ job \in [Conns -> Users \cup {NoUser}]
      /\ msg \in [Conns -> Msgs \cup {NoMsg}] /\ todo \in [Conns -> Seq(Users)]
      /\ userState \in [Users -> States]
      /\ auth \in [Conns -> Users \cup {NoUser}]
  BY DEF DeliveryInv, QuietInv, ChannelInv, SerialInv, SessionInv, TypeOK, DbTypeOK
<1>u. TypeOK /\ Fresh
  BY DEF DeliveryInv, QuietInv, ChannelInv, SerialInv, SessionInv
<1>q. /\ \A s \in Servers : srv[s] = "up"
      /\ dbUp = TRUE
      /\ Faults = {}
  BY DEF DeliveryInv, QuietInv, ChannelInv, SerialInv, AllUp, Quiet
<1>h. \A c \in Conns : pc[c] = "publish" =>
        job[c] \in Users /\ msg[c] \in Msgs /\ todo[c] # <<>> /\ Head(todo[c]) = job[c]
  BY DEF DeliveryInv, QuietInv, ChannelInv, SerialInv, SessionInv, HandlerOK, Serving, ChatSteps
<1>n. Next /\ disturbed' = disturbed \cup Disturbed'
  BY DEF HNext
<1> SUFFICES ASSUME NEW d \in Conns, pc'[d] = "publish",
                    [to |-> job'[d], msg |-> msg'[d]] \notin disturbed'
             PROVE  userState'[job'[d]] = "online"
  BY DEF PublishOnline
\* The handler had decided already, and goes on as another step is taken.
<1>a. ASSUME pc[d] = "publish", UNCHANGED <<msg, todo>>, job'[d] = job[d]
      PROVE  /\ job[d] \in Users /\ userState[job[d]] = "online"
             /\ ~ComingOrGoing(job[d])
             /\ ~ComingOrGoing(job[d])'
  <2>0. PICK p \in Parcel : p = [to |-> job[d], msg |-> msg[d]]
    BY <1>h, <1>a DEF Parcel
  <2>1. p.to = job[d] /\ p.msg = msg[d]
    BY <2>0
  <2>2. InLists(msg, todo, p) \in Nat \ {0}
    BY <1>t, <1>h, <1>a, <2>1, ListedCounts
  <2>3. p \notin disturbed /\ p \notin Disturbed'
    BY <1>n, <1>a, <2>0
  <2>4. InHandlers(p) \in Nat \ {0} /\ InHandlers(p)' \in Nat \ {0}
    <3>1. InHandlers(p) = InLists(msg, todo, p) /\ InHandlers(p)' = InLists(msg', todo', p)
      BY HandlersCount
    <3>2. QED
      BY <1>a, <2>2, <3>1
  <2>5. ~ComingOrGoing(job[d])
    BY <1>u, <2>1, <2>3, <2>4, Undisturbed
  <2>6. ~ComingOrGoing(job[d])'
    <3>1. InChannels(p)' \in Nat
      BY <2>1, CountsNatNext
    <3>2. InHandlers(p)' + InChannels(p)' > 0
      BY <2>4, <3>1
    <3>3. p \in UnderWay'
      BY <2>1, <3>2 DEF UnderWay
    <3>4. ~ComingOrGoing(p.to)'
      BY <2>3, <3>3 DEF Disturbed
    <3>5. QED
      BY <1>a, <2>1, <3>4 DEF ComingOrGoing
  <2>7. userState[job[d]] = "online"
    BY <1>a, <2>0, <2>3 DEF DeliveryInv, PublishOnline
  <2>8. QED
    BY <1>h, <1>a, <2>5, <2>6, <2>7
<1>b. ASSUME pc[d] = "publish", UNCHANGED <<msg, todo, userState>>, job'[d] = job[d]
      PROVE  userState'[job'[d]] = "online"
  BY <1>a, <1>b
<1>c. ASSUME NEW c \in Conns, NEW step, step # "publish", Goto(c, step)
      PROVE  d # c /\ pc[d] = "publish"
  BY <1>t, <1>c DEF Goto
<1>1. CASE Environment
  <2>1. ASSUME NEW c \in Conns,
               Disconnect(c) \/ (\E s \in Servers : Connect(c, s))
        PROVE  userState'[job'[d]] = "online"
    BY <1>b, <2>1 DEF Disconnect, Connect, handlerVars, dbVars
  <2>2. ASSUME NEW c \in Conns, NEW u \in Users, Register(c, u)
        PROVE  userState'[job'[d]] = "online"
    <3>1. /\ userState[u] = "absent"
          /\ userState' = [userState EXCEPT ![u] = "offline"]
          /\ UNCHANGED <<pc, job, msg, todo>>
      BY <2>2 DEF Register, UserInsert, handlerVars
    <3>2. QED
      BY <1>a, <1>t, <3>1
  <2>3. ASSUME NEW c \in Conns, NEW u \in Users, Login(c, u)
        PROVE  userState'[job'[d]] = "online"
    <3>1. Start(c, "login_fetch", u) /\ UNCHANGED userState
      BY <2>3 DEF Login, dbVars
    <3>2. QED
      BY <1>b, <1>c, <1>t, <3>1 DEF Start
  <2>4. ASSUME NEW c \in Conns, LogOut(c)
        PROVE  userState'[job'[d]] = "online"
    <3>1. CASE UNCHANGED <<dbVars, userConnMap, mutex, handlerVars>>
      BY <1>b, <3>1 DEF dbVars, handlerVars
    <3>2. CASE UpdateState(auth[c], "offline") /\ Start(c, "logout_unsub", auth[c])
      <4>1. /\ d # c /\ pc[d] = "publish" /\ job'[d] = job[d] /\ UNCHANGED <<msg, todo>>
            /\ pc'[c] = "logout_unsub" /\ job'[c] = auth[c]
        BY <1>c, <1>t, <3>2 DEF Start, Goto
      <4>2. job[d] # auth[c]
        <5>1. ~ComingOrGoing(job[d])'
          BY <1>a, <4>1
        <5>2. QED
          BY <4>1, <5>1 DEF ComingOrGoing
      <4>3. userState'[job[d]] = userState[job[d]]
        BY <1>a, <1>t, <3>2, <4>1, <4>2 DEF UpdateState
      <4>4. QED
        BY <1>a, <4>1, <4>3
    <3>3. QED
      BY <2>4, <3>1, <3>2 DEF LogOut
  <2>5. ASSUME NEW c \in Conns, NEW m \in Msgs, NEW recipients \in Seq(Users),
               ChatRequest(c, m, recipients)
        PROVE  userState'[job'[d]] = "online"
    <3>1. /\ pc[c] = "idle" /\ job' = job /\ userState' = userState
          /\ d # c /\ pc[d] = "publish" /\ msg'[d] = msg[d]
      BY <1>t, <2>5 DEF ChatRequest, Requests, Idle, Goto, dbVars
    <3>2. [to |-> job[d], msg |-> msg[d]] \notin disturbed
      BY <1>n, <3>1
    <3>3. QED
      BY <3>1, <3>2 DEF DeliveryInv, PublishOnline
  <2>6. /\ \A s \in Servers : ~(SigInt(s) \/ Crash(s) \/ Restart(s))
        /\ \A c \in Conns, u \in Users : ~CloseFault(c, u)
        /\ ~DbStops /\ ~DbAnswers
    BY <1>q DEF SigInt, Crash, Restart, CloseFault, DbStops, DbAnswers, SetDb
  <2>7. QED
    BY <1>1, <2>1, <2>2, <2>3, <2>4, <2>5, <2>6, RequestCases DEF Environment
<1>2. ASSUME NEW c \in Conns, Handler(c)
      PROVE  userState'[job'[d]] = "online"
  <2>1. ASSUME LoginFetch(c) \/ LoginRemove(c) \/ LoginMap(c)
        PROVE  userState'[job'[d]] = "online"
    <3>1. \E step \in LoginSteps : Goto(c, step)
      BY <2>1 DEF LoginFetch, LoginRemove, LoginMap, Advance, LoginSteps
    <3>2. d # c /\ pc[d] = "publish"
      BY <1>c, <3>1 DEF LoginSteps
    <3>3. UNCHANGED <<job, msg, todo, userState>>
      BY <2>1 DEF LoginFetch, LoginRemove, LoginMap, Advance, OfflineRemove, dbVars
    <3>4. QED
      BY <1>b, <3>2, <3>3
  <2>2. ASSUME LoginState(c)
        PROVE  userState'[job'[d]] = "online"
    <3>1. UNCHANGED <<job, msg, todo>> /\ Goto(c, "login_map") /\ UpdateState(job[c], "online")
      BY <2>2 DEF LoginState, Advance
    <3>2. pc[d] = "publish"
      BY <1>c, <3>1
    <3>3. QED
      BY <1>a, <1>t, <3>1, <3>2 DEF UpdateState
  <2>3. ASSUME LoginSubscribe(c) \/ LogOutUnsubscribe(c)
        PROVE  userState'[job'[d]] = "online"
    <3>1. Start(c, "idle", NoUser) /\ UNCHANGED userState
      BY <2>3 DEF LoginSubscribe, LogOutUnsubscribe, Return, dbVars
    <3>2. QED
      BY <1>b, <1>c, <1>t, <3>1 DEF Start
  <2>4. ASSUME (\E u \in Users : RouteLocal(c, u)) \/ Store(c) \/ PublishRemote(c)
        PROVE  userState'[job'[d]] = "online"
    <3>1. DoneWith(c) /\ UNCHANGED userState
      BY <2>4 DEF RouteLocal, Store, PublishRemote, OfflineInsert, dbVars
    <3>2. /\ d # c /\ pc[d] = "publish"
          /\ job'[d] = job[d] /\ msg'[d] = msg[d]
      BY <1>t, <3>1 DEF DoneWith, Goto
    <3>3. [to |-> job[d], msg |-> msg[d]] \notin disturbed
      BY <1>n, <3>2
    <3>4. QED
      BY <3>1, <3>2, <3>3 DEF DeliveryInv, PublishOnline
  <2>5. ASSUME NEW u \in Users, RouteRemote(c, u)
        PROVE  userState'[job'[d]] = "online"
    <3>1. /\ Start(c, IF UserState(u) = "offline" THEN "store" ELSE "publish", u)
          /\ userState' = userState
      BY <2>5 DEF RouteRemote, dbVars
    <3>2. CASE d = c
      <4>1. UserState(u) # "offline" /\ job'[d] = u
        BY <1>t, <3>1, <3>2 DEF Start, Goto
      <4>2. userState[u] = "online"
        BY <1>t, <1>q, <4>1 DEF UserState, UserFound, States
      <4>3. QED
        BY <3>1, <4>1, <4>2
    <3>3. CASE d # c
      <4>1. pc[d] = "publish" /\ UNCHANGED <<msg, todo, userState>> /\ job'[d] = job[d]
        BY <1>t, <3>1, <3>3 DEF Start, Goto
      <4>2. QED
        BY <1>b, <4>1
    <3>4. QED
      BY <3>2, <3>3
  <2>6. ASSUME CloseUnmapped(c)
        PROVE  userState'[job'[d]] = "online"
    BY <1>b, <2>6 DEF CloseUnmapped, handlerVars, dbVars
  <2>7. ASSUME NEW u \in Users, CloseMapped(c, u)
        PROVE  userState'[job'[d]] = "online"
    <3>1. Start(c, "close_state", u) /\ UNCHANGED userState
      BY <2>7 DEF CloseMapped, dbVars
    <3>2. QED
      BY <1>b, <1>c, <1>t, <3>1 DEF Start
  <2>8. ASSUME CloseState(c)
        PROVE  userState'[job'[d]] = "online"
    <3>1. /\ pc[c] = "close_state"
          /\ UpdateState(job[c], "offline")
          /\ Start(c, "idle", NoUser)
      BY <2>8 DEF CloseState, Return
    <3>2. d # c /\ pc[d] = "publish" /\ job'[d] = job[d] /\ UNCHANGED <<msg, todo>>
      BY <1>c, <1>t, <3>1 DEF Start
    <3>3. job[c] # job[d]
      <4>1. ~ComingOrGoing(job[d])
        BY <1>a, <3>2
      <4>2. QED
        BY <3>1, <4>1 DEF ComingOrGoing
    <3>4. QED
      BY <1>a, <1>t, <3>1, <3>2, <3>3 DEF UpdateState
  <2>9. QED
    BY <1>2, <2>1, <2>2, <2>3, <2>4, <2>5, <2>6, <2>7, <2>8 DEF Handler
<1>3. ASSUME NEW s \in Servers, Notify(s) \/ RedisExecute(s)
      PROVE  userState'[job'[d]] = "online"
  <2>1. UNCHANGED handlerVars /\ UNCHANGED userState
    BY <1>3 DEF Notify, NotifyLocal, NotifyStore, OfflineInsert, RedisExecute, dbVars
  <2>2. QED
    BY <1>b, <2>1 DEF handlerVars
<1>4. \A s \in Servers : ~(ResetStates(s) \/ Exit(s))
  BY <1>q DEF ResetStates, Exit
<1>5. QED
  BY <1>n, <1>1, <1>2, <1>3, <1>4 DEF Next

-----------------------------------------------------------------------------
\* All the places of a parcel together.
Total(p) == InHandlers(p) + InChannels(p) + KeptRows(p) + Received(p)

OneServer == \A r, s \in Servers : r = s

(***************************************************************************)
(* A step that takes no message in moves each parcel from one place to     *)
(* another, or hands it over to user u; what is disturbed may be lost, but *)
(* with one server nothing is ever copied.                                 *)
(***************************************************************************)
Kept(p) ==
  /\ p \notin disturbed' => Total(p)' = Total(p)
  /\ OneServer => Total(p)' <= Total(p)

Carried(u) ==
  \A p \in Parcel :
    /\ Kept(p)
    /\ IF p.to = u THEN Received(p)' >= Received(p) ELSE Received(p)' = Received(p)

LEMMA SameTables ==
  ASSUME NEW p \in Parcel
  PROVE  /\ UNCHANGED <<msg, todo>> => InHandlers(p)' = InHandlers(p)
         /\ UNCHANGED pushed => InChannels(p)' = InChannels(p)
         /\ UNCHANGED offline /\ (Fetched(p.to)' <=> Fetched(p.to))
              => KeptRows(p)' = KeptRows(p)
         /\ UNCHANGED received => Received(p)' = Received(p)
<1>1. ASSUME UNCHANGED <<msg, todo>> PROVE InHandlers(p)' = InHandlers(p)
  BY <1>1, HandlersCount
<1>2. ASSUME UNCHANGED pushed PROVE InChannels(p)' = InChannels(p)
  BY <1>2, ChannelsCount
<1>3. ASSUME UNCHANGED offline, Fetched(p.to)' <=> Fetched(p.to)
      PROVE  KeptRows(p)' = KeptRows(p)
  BY <1>3, KeptCount
<1>4. ASSUME UNCHANGED received PROVE Received(p)' = Received(p)
  BY <1>4, ReceivedCount
<1>5. QED
  BY <1>1, <1>2, <1>3, <1>4

LEMMA RouteLocalCarries ==
  ASSUME DeliveryInv, TypeOK', HNext, NEW c \in Conns, NEW u \in Users, RouteLocal(c, u)
  PROVE  Carried(u)
<1>t. TypeOK /\ HandlerOK /\ MapMatchesSession /\ Fresh
  BY DEF DeliveryInv, QuietInv, ChannelInv, SerialInv, SessionInv
<1> SUFFICES ASSUME NEW p \in Parcel
             PROVE  /\ Kept(p)
                    /\ IF p.to = u THEN Received(p)' >= Received(p)
                                   ELSE Received(p)' = Received(p)
  BY DEF Carried
<1>1. /\ pc[c] = "route" /\ u = Head(todo[c]) /\ DoneWith(c)
      /\ UNCHANGED <<pushed, offline>>
  BY DEF RouteLocal, dbVars, redisVars
<1>2. at[c] \in Servers /\ msg[c] \in Msgs /\ todo[c] # <<>>
  BY <1>t, <1>1 DEF HandlerOK, ChatSteps
<1>3. PICK q \in Parcel : q = [to |-> u, msg |-> msg[c]]
  BY <1>2 DEF Parcel
<1>4. PICK conn \in Conns : auth[conn] = u /\ Hand(conn, <<q>>)
  <2>1. userConnMap[at[c]][u] \in Conns \cup {NoConn}
    BY <1>t, <1>2 DEF TypeOK
  <2>2. userConnMap[at[c]][u] # NoConn /\ Hand(userConnMap[at[c]][u], <<q>>)
    BY <1>3 DEF RouteLocal
  <2>3. auth[userConnMap[at[c]][u]] = u
    BY <1>t, <1>2, <2>2 DEF MapMatchesSession
  <2>4. QED
    BY <2>1, <2>2, <2>3
<1>5. InHandlers(p) = InHandlers(p)' + One(p = q)
  <2>1. InHandlers(p) = InHandlers(p)' + One(p.to = Head(todo[c]) /\ p.msg = msg[c])
    BY <1>t, <1>1, <1>2, DoneWithCount
  <2>2. p = q <=> p.to = Head(todo[c]) /\ p.msg = msg[c]
    BY <1>1, <1>3, ParcelParts
  <2>3. QED
    BY <2>1, <2>2
<1>6. Received(p)' = Received(p) + One(p = q /\ conn \notin gone)
  BY <1>t, <1>3, <1>4, HandCount
<1>7. InChannels(p)' = InChannels(p) /\ KeptRows(p)' = KeptRows(p)
  <2>1. Fetched(p.to)' <=> Fetched(p.to)
    <3>1. /\ pc'[c] # "login_remove"
          /\ \A d \in Conns \ {c} : pc'[d] = pc[d] /\ job'[d] = job[d]
      BY <1>t, <1>1 DEF TypeOK, DoneWith, Goto
    <3>2. QED
      BY <1>1, <3>1 DEF Fetched
  <2>2. QED
    BY <1>1, <2>1, SameTables
<1>8. p \notin disturbed /\ p = q => conn \notin gone
  <2>1. ASSUME p \notin disturbed, p = q PROVE ~ComingOrGoing(u)
    <3>1. InHandlers(p) \in Nat \ {0}
      <4>1. InLists(msg, todo, p) \in Nat \ {0}
        BY <1>t, <1>1, <1>2, <1>3, <2>1, ListedCounts DEF TypeOK
      <4>2. QED
        BY <4>1, HandlersCount
    <3>2. p.to = u
      BY <1>3, <2>1
    <3>3. QED
      BY <1>t, <2>1, <3>1, <3>2, Undisturbed
  <2>2. QED
    BY <1>4, <2>1 DEF ComingOrGoing
<1>9. /\ InHandlers(p)' \in Nat /\ InHandlers(p) \in Nat /\ InChannels(p) \in Nat
      /\ KeptRows(p) \in Nat /\ Received(p) \in Nat
  BY <1>t, CountsNat, CountsNatNext
<1>10. disturbed \subseteq disturbed'
  BY DEF HNext
<1>11. p = q => p.to = u
  BY <1>3
<1>12. Kept(p)
  BY <1>5, <1>6, <1>7, <1>8, <1>9, <1>10 DEF Kept, Total, One
<1>13. QED
  BY <1>6, <1>9, <1>11, <1>12 DEF One

LEMMA StoreCarries ==
  ASSUME Quiet, DeliveryInv, TypeOK', HNext, NEW c \in Conns, Store(c)
  PROVE  Carried(job[c])
<1>t. TypeOK /\ HandlerOK /\ Fresh /\ dbUp = TRUE /\ Serving
  BY DEF DeliveryInv, QuietInv, ChannelInv, SerialInv, SessionInv, AllUp
<1>1. /\ pc[c] = "store" /\ DoneWith(c) /\ OfflineInsert(job[c], msg[c])
      /\ UNCHANGED <<pushed, received>>
  BY DEF Store, redisVars
<1>2. /\ job[c] \in Users /\ msg[c] \in Msgs /\ todo[c] # <<>>
      /\ job[c] = Head(todo[c])
  BY <1>t, <1>1 DEF HandlerOK, ChatSteps, Serving
<1> SUFFICES ASSUME NEW p \in Parcel
             PROVE  Kept(p) /\ Received(p)' = Received(p)
  <2>1. ASSUME NEW p \in Parcel PROVE Received(p) \in Nat
    BY <1>t, CountsNat
  <2>2. QED
    BY <2>1 DEF Carried
<1>3. PICK q \in Parcel : q = [to |-> job[c], msg |-> msg[c]]
  BY <1>2 DEF Parcel
<1>4. p = q <=> p.to = job[c] /\ p.msg = msg[c]
  BY <1>3, ParcelParts
<1>5. InHandlers(p) = InHandlers(p)' + One(p = q)
  <2>1. InHandlers(p) = InHandlers(p)' + One(p.to = Head(todo[c]) /\ p.msg = msg[c])
    BY <1>t, <1>1, <1>2, DoneWithCount
  <2>2. QED
    BY <1>2, <1>4, <2>1
<1>6. KeptRows(p)' = KeptRows(p) + One(p = q /\ ~Fetched(job[c]))
  <2>1. \A v \in Users : Fetched(v)' <=> Fetched(v)
    <3>1. /\ pc'[c] # "login_remove"
          /\ \A d \in Conns \ {c} : pc'[d] = pc[d] /\ job'[d] = job[d]
      BY <1>t, <1>1 DEF TypeOK, DoneWith, Goto
    <3>2. QED
      BY <1>1, <3>1 DEF Fetched
  <2>2. KeptRows(p)' = KeptRows(p) + One(p.to = job[c] /\ p.msg = msg[c] /\ ~Fetched(job[c]))
    BY <1>t, <1>1, <1>2, <2>1, InsertCount
  <2>3. QED
    BY <1>4, <2>2
<1>7. InChannels(p)' = InChannels(p) /\ Received(p)' = Received(p)
  BY <1>1, SameTables
<1>8. p \notin disturbed /\ p = q => ~Fetched(job[c])
  <2>1. ASSUME p \notin disturbed, p = q PROVE ~ComingOrGoing(job[c])
    <3>1. InHandlers(p) \in Nat \ {0}
      <4>1. InLists(msg, todo, p) \in Nat \ {0}
        BY <1>t, <1>2, <1>4, <2>1, ListedCounts DEF TypeOK
      <4>2. QED
        BY <4>1, HandlersCount
    <3>2. QED
      BY <1>t, <1>4, <2>1, <3>1, Undisturbed
  <2>2. QED
    BY <2>1 DEF ComingOrGoing, Fetched, LoginSteps
<1>9. /\ InHandlers(p)' \in Nat /\ InHandlers(p) \in Nat /\ InChannels(p) \in Nat
      /\ KeptRows(p) \in Nat /\ Received(p) \in Nat
  BY <1>t, CountsNat, CountsNatNext
<1>10. disturbed \subseteq disturbed'
  BY DEF HNext
<1>11. Kept(p)
  BY <1>5, <1>6, <1>7, <1>8, <1>9, <1>10 DEF Kept, Total, One
<1>12. QED
  BY <1>7, <1>11

LEMMA PublishCarries ==
  ASSUME Quiet, DeliveryInv, TypeOK', HNext, NEW c \in Conns, PublishRemote(c)
  PROVE  Carried(job[c])
<1>t. TypeOK /\ HandlerOK /\ Fresh /\ Serving /\ QuietInv
  BY DEF DeliveryInv, QuietInv, ChannelInv, SerialInv, SessionInv
<1>1. /\ pc[c] = "publish" /\ DoneWith(c) /\ Publish(job[c], msg[c])
      /\ UNCHANGED <<offline, received>>
  BY DEF PublishRemote, dbVars
<1>2. /\ job[c] \in Users /\ msg[c] \in Msgs /\ todo[c] # <<>> /\ at[c] \in Servers
      /\ job[c] = Head(todo[c])
  BY <1>t, <1>1 DEF HandlerOK, ChatSteps, Serving
<1> SUFFICES ASSUME NEW p \in Parcel
             PROVE  Kept(p) /\ Received(p)' = Received(p)
  <2>1. ASSUME NEW p \in Parcel PROVE Received(p) \in Nat
    BY <1>t, CountsNat
  <2>2. QED
    BY <2>1 DEF Carried
<1>3. PICK q \in Parcel : q = [to |-> job[c], msg |-> msg[c]]
  BY <1>2 DEF Parcel
<1>4. p = q <=> p.to = job[c] /\ p.msg = msg[c]
  BY <1>3, ParcelParts
<1>5. InHandlers(p) = InHandlers(p)' + One(p = q)
  <2>1. InHandlers(p) = InHandlers(p)' + One(p.to = Head(todo[c]) /\ p.msg = msg[c])
    BY <1>t, <1>1, <1>2, DoneWithCount
  <2>2. QED
    BY <1>2, <1>4, <2>1
<1>6. KeptRows(p)' = KeptRows(p) /\ Received(p)' = Received(p)
  <2>1. Fetched(p.to)' <=> Fetched(p.to)
    <3>1. /\ pc'[c] # "login_remove"
          /\ \A d \in Conns \ {c} : pc'[d] = pc[d] /\ job'[d] = job[d]
      BY <1>t, <1>1 DEF TypeOK, DoneWith, Goto
    <3>2. QED
      BY <1>1, <3>1 DEF Fetched
  <2>2. QED
    BY <1>1, <2>1, SameTables
<1>7. p # q => InChannels(p)' = InChannels(p)
  BY <1>t, <1>1, <1>2, <1>4, PublishOther
<1>8. ASSUME NEW home \in Servers, \A s \in Servers : <<s, job[c]>> \in subs => s = home
      PROVE  InChannels(p)' = InChannels(p) + One(p = q /\ <<home, job[c]>> \in subs)
  <2>1. InChannels(p)' =
          InChannels(p) + One(p.to = job[c] /\ p.msg = msg[c] /\ <<home, job[c]>> \in subs)
    BY <1>t, <1>1, <1>2, <1>8, PublishCount
  <2>2. QED
    BY <1>4, <2>1
\* Not disturbed, it reaches the recipient's home and no other server.
<1>9. p \notin disturbed /\ p = q => InChannels(p)' = InChannels(p) + 1
  <2> SUFFICES ASSUME p \notin disturbed, p = q PROVE InChannels(p)' = InChannels(p) + 1
    OBVIOUS
  <2>1. ~ComingOrGoing(job[c])
    <3>1. InHandlers(p) \in Nat \ {0}
      <4>1. InLists(msg, todo, p) \in Nat \ {0}
        BY <1>t, <1>2, <1>4, ListedCounts DEF TypeOK
      <4>2. QED
        BY <4>1, HandlersCount
    <3>2. QED
      BY <1>t, <1>4, <3>1, Undisturbed
  <2>2. userState[job[c]] = "online"
    BY <1>1, <1>3 DEF DeliveryInv, PublishOnline
  <2>3. PICK home \in Servers : \A s \in Servers : <<s, job[c]>> \in subs <=> s = home
    BY <1>t, <1>2, <2>1, <2>2, OneHome
  <2>4. InChannels(p)' = InChannels(p) + One(p = q /\ <<home, job[c]>> \in subs)
    BY <1>8, <2>3
  <2>5. QED
    BY <2>3, <2>4 DEF One
\* There is only one server it could reach.
<1>10. OneServer => InChannels(p)' <= InChannels(p) + One(p = q)
  <2> SUFFICES ASSUME OneServer PROVE InChannels(p)' <= InChannels(p) + One(p = q)
    OBVIOUS
  <2>1. InChannels(p)' = InChannels(p) + One(p = q /\ <<at[c], job[c]>> \in subs)
    BY <1>2, <1>8 DEF OneServer
  <2>2. InChannels(p) \in Nat
    BY <1>t, CountsNat
  <2>3. QED
    BY <2>1, <2>2 DEF One
<1>11. /\ InHandlers(p)' \in Nat /\ InHandlers(p) \in Nat
       /\ InChannels(p) \in Nat /\ InChannels(p)' \in Nat
       /\ KeptRows(p) \in Nat /\ Received(p) \in Nat
  BY <1>t, CountsNat, CountsNatNext
<1>12. disturbed \subseteq disturbed'
  BY DEF HNext
<1>13. Kept(p)
  BY <1>5, <1>6, <1>7, <1>9, <1>10, <1>11, <1>12 DEF Kept, Total, One
<1>14. QED
  BY <1>6, <1>13

LEMMA NotifyCarries ==
  ASSUME Quiet, DeliveryInv, TypeOK', HNext, NEW s \in Servers, Notify(s)
  PROVE  \E u \in Users : Carried(u)
<1>t. TypeOK /\ MapMatchesSession /\ Fresh /\ dbUp = TRUE
  BY DEF DeliveryInv, QuietInv, ChannelInv, SerialInv, SessionInv, AllUp
<1>1. Receive(s) /\ UNCHANGED <<pc, job, msg, todo>>
  BY DEF Notify, NotifyLocal, NotifyStore, handlerVars
<1>2. pushed \in [Servers -> Seq(Parcel)] /\ pushed[s] # <<>>
  BY <1>t, <1>1 DEF TypeOK, RedisTypeOK, Receive
<1>3. PICK q \in Parcel : q = Head(pushed[s])
  BY <1>2
<1>4. q.to \in Users /\ q.msg \in Msgs
  BY DEF Parcel
<1>5. \A p \in Parcel : InHandlers(p)' = InHandlers(p)
  BY <1>1, SameTables
<1>6. \A p \in Parcel : InChannels(p) = InChannels(p)' + One(p = q)
  BY <1>t, <1>1, <1>3, ReceiveCount
<1>7. q \notin disturbed => ~ComingOrGoing(q.to)
  <2>1. InQueues(pushed, q) \in Nat \ {0}
    BY <1>2, <1>3, QueuedCounts
  <2>2. InChannels(q) # 0
    BY <2>1, ChannelsCount
  <2>3. QED
    BY <1>t, <2>2, Undisturbed
<1>8. \A p \in Parcel :
        /\ InHandlers(p) \in Nat /\ InChannels(p) \in Nat /\ InChannels(p)' \in Nat
        /\ KeptRows(p) \in Nat /\ Received(p) \in Nat
  BY <1>t, CountsNat, CountsNatNext
<1>9. disturbed \subseteq disturbed'
  BY DEF HNext
<1>10. ASSUME NotifyLocal(s) PROVE Carried(q.to)
  <2>1. PICK conn \in Conns : auth[conn] = q.to /\ Hand(conn, <<q>>)
    <3>1. userConnMap[s][q.to] \in Conns \cup {NoConn}
      BY <1>t, <1>4 DEF TypeOK
    <3>2. userConnMap[s][q.to] # NoConn /\ Hand(userConnMap[s][q.to], <<q>>)
      BY <1>3, <1>10 DEF NotifyLocal
    <3>3. auth[userConnMap[s][q.to]] = q.to
      BY <1>t, <1>4, <3>2 DEF MapMatchesSession
    <3>4. QED
      BY <3>1, <3>2, <3>3
  <2> SUFFICES ASSUME NEW p \in Parcel
               PROVE  /\ Kept(p)
                      /\ IF p.to = q.to THEN Received(p)' >= Received(p)
                                        ELSE Received(p)' = Received(p)
    BY DEF Carried
  <2>2. Received(p)' = Received(p) + One(p = q /\ conn \notin gone)
    BY <1>t, <2>1, HandCount
  <2>3. KeptRows(p)' = KeptRows(p)
    <3>1. UNCHANGED offline /\ (Fetched(p.to)' <=> Fetched(p.to))
      BY <1>1, <1>10 DEF NotifyLocal, dbVars, Fetched
    <3>2. QED
      BY <3>1, SameTables
  <2>4. p \notin disturbed /\ p = q => conn \notin gone
    BY <1>7, <2>1 DEF ComingOrGoing
  <2>5. Kept(p)
    BY <1>5, <1>6, <1>8, <1>9, <2>2, <2>3, <2>4 DEF Kept, Total, One
  <2>6. QED
    BY <1>8, <2>2, <2>5 DEF One
<1>11. ASSUME NotifyStore(s) PROVE Carried(q.to)
  <2>1. OfflineInsert(q.to, q.msg) /\ UNCHANGED received
    BY <1>3, <1>11 DEF NotifyStore
  <2> SUFFICES ASSUME NEW p \in Parcel
               PROVE  Kept(p) /\ Received(p)' = Received(p)
    BY <1>8 DEF Carried
  <2>2. KeptRows(p)' = KeptRows(p) + One(p = q /\ ~Fetched(q.to))
    <3>1. \A v \in Users : Fetched(v)' <=> Fetched(v)
      BY <1>1 DEF Fetched
    <3>2. KeptRows(p)' = KeptRows(p) + One(p.to = q.to /\ p.msg = q.msg /\ ~Fetched(q.to))
      BY <1>t, <1>4, <2>1, <3>1, InsertCount
    <3>3. p = q <=> p.to = q.to /\ p.msg = q.msg
      BY DEF Parcel
    <3>4. QED
      BY <3>2, <3>3
  <2>3. Received(p)' = Received(p)
    BY <2>1, SameTables
  <2>4. q \notin disturbed => ~Fetched(q.to)
    BY <1>7 DEF ComingOrGoing, Fetched, LoginSteps
  <2>5. Kept(p)
    BY <1>5, <1>6, <1>8, <1>9, <2>2, <2>3, <2>4 DEF Kept, Total, One
  <2>6. QED
    BY <2>3, <2>5
<1>12. QED
  BY <1>4, <1>10, <1>11 DEF Notify

LEMMA FetchCarries ==
  ASSUME Quiet, DeliveryInv, TypeOK', HNext, NEW c \in Conns, LoginFetch(c)
  PROVE  Carried(job[c])
<1>t. TypeOK /\ HandlerOK /\ LoginAlone /\ Fresh /\ dbUp = TRUE
  BY DEF DeliveryInv, QuietInv, ChannelInv, SerialInv, SessionInv, AllUp, Agreement
<1>1. pc[c] = "login_fetch" /\ UNCHANGED <<msg, todo, pushed>>
  BY DEF LoginFetch, Advance, redisVars
<1>2. job[c] \in Users
  BY <1>t, <1>1 DEF HandlerOK
<1>3. ~Fetched(job[c])
  BY <1>t, <1>1 DEF Fetched, LoginAlone, LoginSteps
<1> SUFFICES ASSUME NEW p \in Parcel
             PROVE  /\ Kept(p)
                    /\ IF p.to = job[c] THEN Received(p)' >= Received(p)
                                        ELSE Received(p)' = Received(p)
  BY DEF Carried
<1>4. /\ InHandlers(p) \in Nat /\ InChannels(p) \in Nat
      /\ KeptRows(p) \in Nat /\ Received(p) \in Nat
  BY <1>t, CountsNat
<1>5. IF p.to = job[c]
        THEN /\ KeptRows(p)' = 0
             /\ Received(p)' = Received(p) + (IF c \in gone THEN 0 ELSE KeptRows(p))
        ELSE KeptRows(p)' = KeptRows(p) /\ Received(p)' = Received(p)
  BY <1>t, <1>2, <1>3, FetchCount
<1>6. InHandlers(p)' = InHandlers(p) /\ InChannels(p)' = InChannels(p)
  BY <1>1, SameTables
<1>7. p \notin disturbed /\ p.to = job[c] /\ c \in gone => KeptRows(p) = 0
  <2> SUFFICES ASSUME p \notin disturbed, p.to = job[c], c \in gone PROVE KeptRows(p) = 0
    OBVIOUS
  <2>1. LeftWhileEntering(p.to)
    BY <1>1 DEF LeftWhileEntering
  <2>2. Cardinality(Positions(p.msg, offline[p.to])) = 0
    BY <1>t, <2>1, Undisturbed
  <2>3. QED
    BY <2>2, KeptCount
<1>8. disturbed \subseteq disturbed'
  BY DEF HNext
<1>9. Kept(p)
  BY <1>4, <1>5, <1>6, <1>7, <1>8 DEF Kept, Total
<1>10. QED
  BY <1>4, <1>5, <1>9

LEMMA RemoveCarries ==
  ASSUME Quiet, DeliveryInv, TypeOK', HNext, NEW c \in Conns, LoginRemove(c)
  PROVE  Carried(job[c])
<1>t. TypeOK /\ HandlerOK /\ dbUp = TRUE
  BY DEF DeliveryInv, QuietInv, ChannelInv, SerialInv, SessionInv, AllUp
<1>1. pc[c] = "login_remove" /\ UNCHANGED <<msg, todo, pushed, received>>
  BY DEF LoginRemove, Advance, redisVars
<1>2. job[c] \in Users
  BY <1>t, <1>1 DEF HandlerOK
<1> SUFFICES ASSUME NEW p \in Parcel
             PROVE  /\ Kept(p)
                    /\ IF p.to = job[c] THEN Received(p)' >= Received(p)
                                        ELSE Received(p)' = Received(p)
  BY DEF Carried
<1>3. /\ InHandlers(p) \in Nat /\ InChannels(p) \in Nat
      /\ KeptRows(p) \in Nat /\ Received(p) \in Nat
  BY <1>t, CountsNat
<1>4. KeptRows(p)' = KeptRows(p)
  BY <1>t, <1>2, RemoveCount
<1>5. /\ InHandlers(p)' = InHandlers(p) /\ InChannels(p)' = InChannels(p)
      /\ Received(p)' = Received(p)
  BY <1>1, SameTables
<1>6. QED
  BY <1>3, <1>4, <1>5 DEF Kept, Total

LEMMA CalmCarries ==
  ASSUME TypeOK, Calm, NEW u
  PROVE  Carried(u)
<1> SUFFICES ASSUME NEW p \in Parcel
             PROVE  /\ Kept(p)
                    /\ IF p.to = u THEN Received(p)' >= Received(p)
                                   ELSE Received(p)' = Received(p)
  BY DEF Carried
<1>1. /\ InHandlers(p) \in Nat /\ InChannels(p) \in Nat
      /\ KeptRows(p) \in Nat /\ Received(p) \in Nat
  BY CountsNat
<1>2. /\ InHandlers(p)' = InHandlers(p) /\ InChannels(p)' = InChannels(p)
      /\ KeptRows(p)' = KeptRows(p) /\ Received(p)' = Received(p)
  BY SameTables DEF Calm, Parcel
<1>3. QED
  BY <1>1, <1>2 DEF Kept, Total

-----------------------------------------------------------------------------
\* Every step either carries messages or takes one in.
TakesIn(m) ==
  /\ m \in unsent
  /\ unsent' = unsent \ {m}
  /\ \E u \in Users : [to |-> u, msg |-> m] \in Parcel
  /\ UNCHANGED received
  /\ \A p \in Parcel :
       /\ InChannels(p)' = InChannels(p)
       /\ KeptRows(p)' = KeptRows(p)
       /\ p.msg # m => InHandlers(p)' = InHandlers(p)

LEMMA DeliveryStep ==
  ASSUME Quiet, DeliveryInv, TypeOK', HNext
  PROVE  \/ unsent' = unsent /\ \E u : Carried(u)
         \/ \E m \in Msgs : TakesIn(m)
<1>t. TypeOK /\ HandlerOK /\ QuietInv /\ Serving
  BY DEF DeliveryInv, QuietInv, ChannelInv, SerialInv, SessionInv
<1>1. ASSUME NEW c \in Conns, NEW m \in Msgs, NEW recipients \in Seq(Users),
             ChatRequest(c, m, recipients)
      PROVE  TakesIn(m)
  <2>1. /\ pc[c] = "idle" /\ auth[c] \in Users
        /\ m \in unsent /\ unsent' = unsent \ {m}
        /\ UNCHANGED <<pushed, offline, received, job>>
    BY <1>t, <1>1 DEF ChatRequest, Requests, Idle, TypeOK, dbVars, redisVars
  <2>2. msg[c] = NoMsg /\ todo[c] = <<>>
    BY <1>t, <2>1 DEF Serving, ChatSteps
  <2>3. [to |-> auth[c], msg |-> m] \in Parcel
    BY <2>1 DEF Parcel
  <2>4. ASSUME NEW p \in Parcel
        PROVE  /\ InChannels(p)' = InChannels(p)
               /\ KeptRows(p)' = KeptRows(p)
               /\ p.msg # m => InHandlers(p)' = InHandlers(p)
    <3>1. Fetched(p.to)' <=> Fetched(p.to)
      <4>1. /\ pc'[c] # "login_remove"
            /\ \A d \in Conns \ {c} : pc'[d] = pc[d]
        BY <1>t, <1>1, <2>1 DEF ChatRequest, Goto, TypeOK
      <4>2. QED
        BY <2>1, <4>1 DEF Fetched
    <3>2. InChannels(p)' = InChannels(p) /\ KeptRows(p)' = KeptRows(p)
      BY <2>1, <3>1, SameTables
    <3>3. p.msg # m => InHandlers(p)' = InHandlers(p)
      BY <1>t, <1>1, <2>2, RequestCount
    <3>4. QED
      BY <3>2, <3>3
  <2>5. QED
    BY <2>1, <2>3, <2>4 DEF TakesIn
<1>2. ASSUME NEW c \in Conns, LoginFetch(c) \/ LoginRemove(c) \/ Store(c) \/ PublishRemote(c)
      PROVE  unsent' = unsent /\ Carried(job[c])
  <2>1. unsent' = unsent
    BY <1>2 DEF LoginFetch, LoginRemove, Store, PublishRemote, boundVars
  <2>2. QED
    BY <1>2, <2>1, FetchCarries, RemoveCarries, StoreCarries, PublishCarries
<1>3. ASSUME NEW c \in Conns, NEW u \in Users, RouteLocal(c, u)
      PROVE  unsent' = unsent /\ Carried(u)
  BY <1>3, RouteLocalCarries DEF RouteLocal, boundVars
<1>4. ASSUME NEW s \in Servers, Notify(s)
      PROVE  unsent' = unsent /\ \E u : Carried(u)
  BY <1>4, NotifyCarries DEF Notify, NotifyLocal, NotifyStore, boundVars
<1>5. ASSUME Calm PROVE unsent' = unsent /\ Carried(NoUser)
  BY <1>t, <1>5, CalmCarries DEF Calm
<1>6. [Next]_vars
  BY DEF HNext
<1>7. QED
  BY <1>t, <1>1, <1>2, <1>3, <1>4, <1>5, <1>6, StepCases

LEMMA UnsentZeroStep ==
  ASSUME Quiet, DeliveryInv, TypeOK', HNext
  PROVE  UnsentZero'
<1>1. unsent' \subseteq unsent
  BY DeliveryStep DEF TakesIn
<1>2. UnsentZero
  BY DEF DeliveryInv
<1>3. ASSUME NEW p \in Parcel
      PROVE  sent'[p] \in Nat /\ (p.msg \in unsent' => sent'[p] = 0)
  <2>1. sent'[p] = IF p.msg \in unsent \ unsent' THEN InHandlers(p)' ELSE sent[p]
    BY DEF HNext
  <2>2. InHandlers(p)' \in Nat
    BY CountsNatNext
  <2>3. QED
    BY <1>1, <1>2, <2>1, <2>2 DEF UnsentZero
<1>4. QED
  BY <1>3 DEF UnsentZero

LEMMA DeliveryInvStep ==
  ASSUME Quiet, DeliveryInv, QuietInv', [HNext]_hvars
  PROVE  DeliveryInv'
<1>1. TypeOK'
  BY DEF QuietInv, ChannelInv, SerialInv, SessionInv
<1>2. CASE HNext
  <2>1. Serving'
    BY <1>2, ServingStep DEF DeliveryInv, QuietInv, HNext
  <2>2. Fresh'
    BY <1>1, <1>2, FreshStep DEF DeliveryInv
  <2>3. PublishOnline' /\ UnsentZero'
    BY <1>1, <1>2, PublishOnlineStep, UnsentZeroStep
  <2>4. QED
    BY <2>1, <2>2, <2>3 DEF DeliveryInv
<1>3. CASE UNCHANGED hvars
  <2>1. UNCHANGED <<vars, sent, disturbed>>
    BY <1>3 DEF hvars
  <2>2. Serving'
    BY <2>1, ServingStep DEF DeliveryInv, QuietInv
  <2>3. Disturbed' = Disturbed
    BY <2>1 DEF Disturbed, UnderWay, InHandlers, InChannels, ComingOrGoing, Rows,
       LeftWhileEntering, vars, dbVars, redisVars, connVars, handlerVars
  <2>4. Fresh'
    BY <2>1, <2>3 DEF Fresh, DeliveryInv
  <2>5. PublishOnline' /\ UnsentZero'
    BY <2>1 DEF DeliveryInv, PublishOnline, UnsentZero, vars, dbVars, handlerVars, boundVars
  <2>6. QED
    BY <2>2, <2>4, <2>5 DEF DeliveryInv
<1>4. QED
  BY <1>2, <1>3

LEMMA DeliveryInit ==
  ASSUME HInit, QuietInv
  PROVE  /\ DeliveryInv
         /\ disturbed = {}
         /\ \A p \in Parcel : /\ sent[p] = 0 /\ InHandlers(p) = 0 /\ InChannels(p) = 0
                              /\ KeptRows(p) = 0 /\ Received(p) = 0
<1> USE DEF HInit
<1>1. /\ pc = [c \in Conns |-> "idle"] /\ todo = [c \in Conns |-> <<>>]
      /\ msg = [c \in Conns |-> NoMsg] /\ gone = {}
      /\ offline = [u \in Users |-> <<>>]
      /\ received = [u \in Users \cup {NoUser} |-> <<>>]
      /\ pushed = [s \in Servers |-> <<>>]
  BY DEF Init, DbInit, RedisInit
<1>2. ASSUME NEW p \in Parcel
      PROVE  InHandlers(p) = 0 /\ InChannels(p) = 0 /\ KeptRows(p) = 0 /\ Received(p) = 0
  <2>1. InHandlers(p) = 0
    <3>1. \A c \in Conns : {i \in 1..Len(todo[c]) : msg[c] = p.msg /\ todo[c][i] = p.to} = {}
      BY <1>1
    <3>2. UNION {{c} \X {i \in 1..Len(todo[c]) : msg[c] = p.msg /\ todo[c][i] = p.to} :
                   c \in Conns} = {}
      BY <3>1
    <3>3. QED
      BY <3>2, FS_EmptySet DEF InHandlers
  <2>2. InChannels(p) = 0
    <3>1. ASSUME NEW s \in Servers PROVE {i \in 1..Len(pushed[s]) : pushed[s][i] = p} = {}
      <4>1. pushed[s] = <<>>
        BY <1>1
      <4>2. 1..Len(pushed[s]) = {}
        BY <4>1
      <4>3. QED
        BY <4>2
    <3>2. UNION {{s} \X {i \in 1..Len(pushed[s]) : pushed[s][i] = p} : s \in Servers} = {}
      BY <3>1
    <3>3. QED
      BY <3>2, FS_EmptySet DEF InChannels
  <2>3. KeptRows(p) = 0
    <3>1. Positions(p.msg, offline[p.to]) = {}
      BY <1>1 DEF Positions, Parcel
    <3>2. QED
      BY <3>1, KeptCount, FS_EmptySet
  <2>4. Received(p) = 0
    <3>1. Positions(p, received[p.to]) = {}
      BY <1>1 DEF Positions, Parcel
    <3>2. QED
      BY <3>1, ReceivedCount, FS_EmptySet
  <2>5. QED
    BY <2>1, <2>2, <2>3, <2>4
<1>3. Serving /\ PublishOnline
  BY <1>1 DEF Serving, PublishOnline, ChatSteps
<1>4. Fresh
  <2>1. UnderWay = {}
    BY <1>2 DEF UnderWay
  <2>2. Disturbed = {}
    BY <1>1, <2>1 DEF Disturbed, LeftWhileEntering
  <2>3. QED
    BY <2>2 DEF Fresh
<1>5. UnsentZero
  BY DEF UnsentZero
<1>6. QED
  BY <1>2, <1>3, <1>4, <1>5 DEF DeliveryInv

LEMMA DeliveryInvariant == Quiet => (HSpec => []DeliveryInv)
<1> SUFFICES ASSUME Quiet PROVE HSpec => []DeliveryInv
  OBVIOUS
<1>1. HInit => Init
  BY DEF HInit
<1>2. [HNext]_hvars => [Next]_vars
  BY DEF HNext, hvars
<1>3. HInit /\ QuietInv => DeliveryInv
  BY DeliveryInit
<1>4. DeliveryInv /\ QuietInv' /\ [HNext]_hvars => DeliveryInv'
  BY DeliveryInvStep
<1>5. QED
  BY <1>1, <1>2, <1>3, <1>4, QuietInvariant, PTL DEF HSpec, Spec

-----------------------------------------------------------------------------
Exact == \A p \in Parcel \ disturbed : Total(p) = sent[p]

Bounded == OneServer => \A p \in Parcel : Total(p) <= sent[p]

LEMMA TotalNat ==
  ASSUME DeliveryInv, NEW p \in Parcel
  PROVE  /\ InHandlers(p) \in Nat /\ InChannels(p) \in Nat
         /\ KeptRows(p) \in Nat /\ Received(p) \in Nat
BY CountsNat DEF DeliveryInv, QuietInv, ChannelInv, SerialInv, SessionInv

LEMMA ReceivedSame ==
  ASSUME UNCHANGED received, NEW p \in Parcel
  PROVE  Received(p)' = Received(p)
BY SameTables

LEMMA HistoryStutters ==
  ASSUME UNCHANGED hvars, NEW p \in Parcel
  PROVE  /\ Total(p)' = Total(p) /\ sent' = sent /\ disturbed' = disturbed
         /\ InHandlers(p)' + InChannels(p)' + KeptRows(p)' = InHandlers(p) + InChannels(p) + KeptRows(p)
         /\ Received(p)' = Received(p)
<1>1. UNCHANGED <<pc, job, msg, todo, pushed, offline, received, sent, disturbed>>
  BY DEF hvars, vars, dbVars, redisVars, handlerVars
<1>2. /\ InHandlers(p)' = InHandlers(p) /\ InChannels(p)' = InChannels(p)
      /\ KeptRows(p)' = KeptRows(p) /\ Received(p)' = Received(p)
  BY <1>1, SameTables DEF Fetched
<1>3. QED
  BY <1>1, <1>2 DEF Total

LEMMA ExactStep ==
  ASSUME Quiet, DeliveryInv, DeliveryInv', Exact, [HNext]_hvars
  PROVE  Exact'
<1>t. TypeOK'
  BY DEF DeliveryInv, QuietInv, ChannelInv, SerialInv, SessionInv
<1> SUFFICES ASSUME NEW p \in Parcel, p \notin disturbed' PROVE Total(p)' = sent'[p]
  BY DEF Exact
<1>1. CASE HNext
  <2>1. p \notin disturbed
    BY <1>1 DEF HNext
  <2>2. Total(p) = sent[p]
    BY <2>1 DEF Exact
  <2>3. sent'[p] = IF p.msg \in unsent \ unsent' THEN InHandlers(p)' ELSE sent[p]
    BY <1>1 DEF HNext
  <2>4. CASE unsent' = unsent /\ \E u : Carried(u)
    BY <2>2, <2>3, <2>4 DEF Carried, Kept
  <2>5. ASSUME NEW m \in Msgs, TakesIn(m) PROVE Total(p)' = sent'[p]
    <3>1. /\ InChannels(p)' = InChannels(p) /\ KeptRows(p)' = KeptRows(p)
          /\ Received(p)' = Received(p)
          /\ p.msg # m => InHandlers(p)' = InHandlers(p)
          /\ p.msg \in unsent \ unsent' <=> p.msg = m
      BY <2>5, ReceivedSame DEF TakesIn
    <3>2. /\ InHandlers(p) \in Nat /\ InChannels(p) \in Nat
          /\ KeptRows(p) \in Nat /\ Received(p) \in Nat
      BY TotalNat
    <3>3. CASE p.msg = m
      <4>1. sent[p] = 0
        BY <2>5, <3>3 DEF DeliveryInv, UnsentZero, TakesIn
      <4>0. InHandlers(p) + InChannels(p) + KeptRows(p) + Received(p) = 0
        BY <2>2, <4>1 DEF Total
      <4>2. InChannels(p) = 0 /\ KeptRows(p) = 0 /\ Received(p) = 0
        <5>1. \A i, j, k, l \in Nat : i + j + k + l = 0 => j = 0 /\ k = 0 /\ l = 0
          OBVIOUS
        <5>2. QED
          BY <3>2, <4>0, <5>1
      <4>3. InHandlers(p)' \in Nat
        BY <1>t, CountsNatNext
      <4>4. QED
        BY <2>3, <3>1, <3>3, <4>2, <4>3 DEF Total
    <3>4. CASE p.msg # m
      BY <2>2, <2>3, <3>1, <3>4 DEF Total
    <3>5. QED
      BY <3>3, <3>4
  <2>6. QED
    BY <1>t, <1>1, <2>4, <2>5, DeliveryStep
<1>2. CASE UNCHANGED hvars
  BY <1>2, HistoryStutters DEF Exact
<1>3. QED
  BY <1>1, <1>2

LEMMA BoundedStep ==
  ASSUME Quiet, DeliveryInv, DeliveryInv', Bounded, [HNext]_hvars
  PROVE  Bounded'
<1>t. TypeOK'
  BY DEF DeliveryInv, QuietInv, ChannelInv, SerialInv, SessionInv
<1> SUFFICES ASSUME OneServer, NEW p \in Parcel PROVE Total(p)' <= sent'[p]
  BY DEF Bounded, OneServer
<1>0. Total(p) <= sent[p] /\ sent[p] \in Nat
  BY DEF Bounded, DeliveryInv, UnsentZero
<1>n. /\ InHandlers(p) \in Nat /\ InChannels(p) \in Nat
      /\ KeptRows(p) \in Nat /\ Received(p) \in Nat
  BY TotalNat
<1>m. /\ InHandlers(p)' \in Nat /\ InChannels(p)' \in Nat
      /\ KeptRows(p)' \in Nat /\ Received(p)' \in Nat
  BY <1>t, CountsNatNext
<1>1. CASE HNext
  <2>3. sent'[p] = IF p.msg \in unsent \ unsent' THEN InHandlers(p)' ELSE sent[p]
    BY <1>1 DEF HNext
  <2>4. CASE unsent' = unsent /\ \E u : Carried(u)
    <3>1. Total(p)' <= Total(p)
      BY <2>4 DEF Carried, Kept
    <3>2. QED
      BY <1>0, <1>n, <1>m, <2>3, <2>4, <3>1 DEF Total
  <2>5. ASSUME NEW m \in Msgs, TakesIn(m) PROVE Total(p)' <= sent'[p]
    <3>1. /\ InChannels(p)' = InChannels(p) /\ KeptRows(p)' = KeptRows(p)
          /\ Received(p)' = Received(p)
          /\ p.msg # m => InHandlers(p)' = InHandlers(p)
          /\ p.msg \in unsent \ unsent' <=> p.msg = m
      BY <2>5, ReceivedSame DEF TakesIn
    <3>3. CASE p.msg = m
      <4>1. sent[p] = 0
        BY <2>5, <3>3 DEF DeliveryInv, UnsentZero, TakesIn
      <4>2. InChannels(p) = 0 /\ KeptRows(p) = 0 /\ Received(p) = 0
        BY <1>0, <1>n, <4>1 DEF Total
      <4>4. QED
        BY <1>m, <2>3, <3>1, <3>3, <4>2 DEF Total
    <3>4. CASE p.msg # m
      BY <1>0, <2>3, <3>1, <3>4 DEF Total
    <3>5. QED
      BY <3>3, <3>4
  <2>6. QED
    BY <1>t, <1>1, <2>4, <2>5, DeliveryStep
<1>2. CASE UNCHANGED hvars
  BY <1>0, <1>2, HistoryStutters
<1>3. QED
  BY <1>1, <1>2

\* The two totals, with what the other proofs know of every state.
LEMMA TotalInvariant == Quiet => (HSpec => [](DeliveryInv /\ Exact /\ Bounded))
<1> SUFFICES ASSUME Quiet PROVE HSpec => [](DeliveryInv /\ Exact /\ Bounded)
  OBVIOUS
<1>1. HInit /\ DeliveryInv => Exact /\ Bounded
  BY DeliveryInit DEF Exact, Bounded, Total, DeliveryInv
<1>2. /\ DeliveryInv /\ DeliveryInv' /\ Exact /\ Bounded /\ [HNext]_hvars
      => Exact' /\ Bounded'
  BY ExactStep, BoundedStep
<1>3. QED
  BY <1>1, <1>2, DeliveryInvariant, PTL DEF HSpec

\* ExactlyOnce: a message for a user that stays put is in a handler's list, in a
\* channel, in a row or handed over, as often as the user was on the sender's list
\* of recipients, whichever servers privateChat, groupChat, login and
\* redisNotifyMessageHandler run on and however their steps interleave.
THEOREM ExactlyOnceCorrect == Quiet => (HSpec => []ExactlyOnce)
<1> SUFFICES ASSUME Quiet PROVE HSpec => []ExactlyOnce
  OBVIOUS
<1>1. DeliveryInv /\ Exact => ExactlyOnce
  BY DEF Exact, ExactlyOnce, Total
<1>2. QED
  BY <1>1, TotalInvariant, PTL

\* NeverTooOften: on one server, where a channel has one subscriber, no user is
\* handed a message more often than it was addressed to it, also one that comes
\* and goes while handlers, login and redisNotifyMessageHandler move it about.
THEOREM NeverTooOftenCorrect == Quiet /\ OneServer => (HSpec => []NeverTooOften)
<1> SUFFICES ASSUME Quiet, OneServer PROVE HSpec => []NeverTooOften
  OBVIOUS
<1>1. DeliveryInv /\ Bounded => NeverTooOften
  <2> SUFFICES ASSUME DeliveryInv, Bounded, NEW p \in Parcel PROVE Received(p) <= sent[p]
    BY DEF NeverTooOften
  <2>1. /\ InHandlers(p) \in Nat /\ InChannels(p) \in Nat
        /\ KeptRows(p) \in Nat /\ Received(p) \in Nat
    BY TotalNat
  <2>2. Total(p) <= sent[p] /\ sent[p] \in Nat
    BY DEF Bounded, DeliveryInv, UnsentZero
  <2>3. QED
    BY <2>1, <2>2 DEF Total
<1>2. QED
  BY <1>1, TotalInvariant, PTL

-----------------------------------------------------------------------------
\* The mailbox: open is what has yet to be handed over.
Open(p) == InHandlers(p) + InChannels(p) + KeptRows(p)

LEMMA MailStep ==
  ASSUME Quiet, DeliveryInv, DeliveryInv', Exact, HNext, Parcel # {}
  PROVE  Mail!MailboxNext
<1>t. TypeOK' /\ Fresh'
  BY DEF DeliveryInv, QuietInv, ChannelInv, SerialInv, SessionInv
<1>1. disturbed \subseteq disturbed' /\ disturbed' \subseteq Parcel
  BY <1>t DEF HNext, Fresh
<1>2. Mail!Excuse
  BY <1>1 DEF Mail!Excuse, Fate
<1>3. ASSUME NEW p \in Parcel
      PROVE  /\ InHandlers(p) \in Nat /\ InChannels(p) \in Nat
             /\ KeptRows(p) \in Nat /\ Received(p) \in Nat
             /\ InHandlers(p)' \in Nat /\ InChannels(p)' \in Nat
             /\ KeptRows(p)' \in Nat /\ Received(p)' \in Nat
  BY <1>t, TotalNat, CountsNatNext
<1>4. ASSUME NEW m \in Msgs, TakesIn(m) PROVE Mail!MailboxNext
  <2>1. PICK u \in Users : [to |-> u, msg |-> m] \in Parcel
    BY <1>4 DEF TakesIn
  <2>2. ASSUME NEW p \in Parcel \ disturbed'
        PROVE  /\ Received(p)' = Received(p)
               /\ IF p.msg = m THEN Open(p) + Received(p) = 0 ELSE Open(p)' = Open(p)
    <3>1. Received(p)' = Received(p)
      BY <1>4, ReceivedSame DEF TakesIn
    <3>2. CASE p.msg = m
      <4>1. sent[p] = 0
        BY <1>4, <3>2 DEF TakesIn, DeliveryInv, UnsentZero
      <4>2. Total(p) = sent[p]
        BY <1>1 DEF Exact
      <4>3. QED
        BY <3>1, <3>2, <4>1, <4>2 DEF Total, Open
    <3>3. CASE p.msg # m
      BY <1>4, <3>1, <3>3 DEF TakesIn, Open
    <3>4. QED
      BY <3>2, <3>3
  <2>3. Mail!Accept(m)
    BY <1>1, <2>2 DEF Mail!Accept, Mail!Promised, Fate, Open
  <2>4. QED
    <3> DEFINE q == [to |-> u, msg |-> m]
    <3>1. q.msg = m /\ q \in Parcel
      BY <2>1
    <3>2. Mail!Accept(q.msg)
      BY <2>3, <3>1
    <3> HIDE DEF q
    <3>3. QED
      BY <1>2, <3>1, <3>2 DEF Mail!MailboxNext
<1>5. ASSUME NEW u, Carried(u) PROVE Mail!MailboxNext
  <2>1. PICK m \in Msgs, w \in Users : (u \in Users => w = u)
    BY DEF Parcel
  <2>2. [to |-> w, msg |-> m] \in Parcel
    BY DEF Parcel
  <2>3. ASSUME NEW p \in Parcel \ disturbed'
        PROVE  /\ Open(p)' + Received(p)' = Open(p) + Received(p)
               /\ IF p.to = w THEN Received(p)' >= Received(p)
                              ELSE Received(p)' = Received(p)
    <3>1. Total(p)' = Total(p)
      BY <1>5 DEF Carried, Kept
    <3>2. p.to \in Users
      BY DEF Parcel
    <3>3. IF p.to = u THEN Received(p)' >= Received(p) ELSE Received(p)' = Received(p)
      BY <1>5 DEF Carried
    <3>4. p.to = u => w = u
      BY <2>1, <3>2
    <3>5. IF p.to = w THEN Received(p)' >= Received(p) ELSE Received(p)' = Received(p)
      BY <1>3, <3>3, <3>4
    <3>6. QED
      BY <3>1, <3>5 DEF Total, Open
  <2>4. Mail!HandOver(w)
    BY <1>1, <2>3 DEF Mail!HandOver, Mail!Promised, Fate, Open
  <2>5. QED
    <3> DEFINE q == [to |-> w, msg |-> m]
    <3>1. q.to = w /\ q \in Parcel
      BY <2>2
    <3>2. Mail!HandOver(q.to)
      BY <2>4, <3>1
    <3> HIDE DEF q
    <3>3. QED
      BY <1>2, <3>1, <3>2 DEF Mail!MailboxNext
<1>6. QED
  BY <1>t, <1>4, <1>5, DeliveryStep

LEMMA MailStutters ==
  ASSUME (UNCHANGED hvars) \/ (Parcel = {} /\ Fresh /\ Fresh')
  PROVE  UNCHANGED (Mail!mailbox)
<1>1. CASE UNCHANGED hvars
  <2>1. disturbed' = disturbed
    BY <1>1 DEF hvars
  <2>2. \A p \in Parcel : Open(p)' = Open(p) /\ Received(p)' = Received(p)
    BY <1>1, HistoryStutters DEF Open
  <2>3. QED
    BY <2>1, <2>2 DEF Mail!mailbox, Fate, Open
<1>2. CASE Parcel = {} /\ Fresh /\ Fresh'
  BY <1>2 DEF Fresh, Mail!mailbox
<1>3. QED
  BY <1>1, <1>2

\* KeepsMail: every step of the cluster takes in one message, or hands one user some
\* of what is open for it, or does neither, of all that lies in handlers, channels
\* and rows: the three routes together are one mailbox.
THEOREM MailboxCorrect == Quiet => (HSpec => KeepsMail)
<1> SUFFICES ASSUME Quiet PROVE HSpec => KeepsMail
  OBVIOUS
<1>1. HInit /\ DeliveryInv => Mail!MailboxInit
  BY DeliveryInit DEF DeliveryInv, Mail!MailboxInit, Fate
<1>2. DeliveryInv /\ DeliveryInv' /\ Exact /\ [HNext]_hvars
        => [Mail!MailboxNext]_(Mail!mailbox)
  BY MailStep, MailStutters DEF DeliveryInv
<1>3. QED
  BY <1>1, <1>2, TotalInvariant, PTL DEF HSpec, KeepsMail, Mail!MailboxSpec
=============================================================================
