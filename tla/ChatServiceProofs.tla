-------------------------- MODULE ChatServiceProofs --------------------------
(***************************************************************************)
(* Theorems of ChatService, for every cluster: any servers, users,         *)
(* connections, messages, any number of logins and any failures, unless a  *)
(* theorem assumes otherwise.                                              *)
(***************************************************************************)
EXTENDS ChatService, SequenceTheorems, TLAPS

(***************************************************************************)
(* What a handler at each of its steps has already settled.  TypeOK alone  *)
(* is not inductive: a step writes job[c] and msg[c] into tables and       *)
(* queues.                                                                 *)
(***************************************************************************)
HandlerOK ==
  \A c \in Conns :
    /\ pc[c] # "idle" => at[c] \in Servers
    /\ pc[c] \notin {"idle", "route"} => job[c] \in Users
    /\ pc[c] \in ChatSteps => msg[c] \in Msgs /\ todo[c] # <<>>

LEMMA InitType == Init => TypeOK /\ HandlerOK
<1> SUFFICES ASSUME Init PROVE TypeOK /\ HandlerOK
  OBVIOUS
<1> USE RegisteredAssumption, SentinelAssumption, BoundAssumption DEF Init
<1>1. DbTypeOK
  BY DEF DbInit, DbTypeOK, States
<1>2. RedisTypeOK
  BY DEF RedisInit, RedisTypeOK
<1>3. /\ received \in [Users \cup {NoUser} -> Seq(Parcel)]
      /\ logins \in 0..MaxLogins
  OBVIOUS
<1>4. QED
  BY <1>1, <1>2, <1>3 DEF TypeOK, HandlerOK, Steps, ChatSteps, LoginSteps

\* The database and Redis keep their types under every operation.
LEMMA DbOpsType ==
  ASSUME DbTypeOK
  PROVE  /\ \A u \in Users : UserInsert(u) => DbTypeOK'
         /\ \A u \in Users, state \in {"online", "offline"} :
              UpdateState(u, state) => DbTypeOK'
         /\ UserReset => DbTypeOK'
         /\ \A u \in Users, m \in Msgs : OfflineInsert(u, m) => DbTypeOK'
         /\ \A u \in Users : OfflineRemove(u) => DbTypeOK'
         /\ \A up \in BOOLEAN : SetDb(up) => DbTypeOK'
<1> USE DEF DbTypeOK, States
<1>1. \A u \in Users : UserInsert(u) => DbTypeOK'
  BY DEF UserInsert
<1>2. \A u \in Users, state \in {"online", "offline"} : UpdateState(u, state) => DbTypeOK'
  BY DEF UpdateState, UserFound
<1>3. UserReset => DbTypeOK'
  BY DEF UserReset
<1>4. \A u \in Users, m \in Msgs : OfflineInsert(u, m) => DbTypeOK'
  BY DEF OfflineInsert
<1>5. \A u \in Users : OfflineRemove(u) => DbTypeOK'
  BY DEF OfflineRemove
<1>6. \A up \in BOOLEAN : SetDb(up) => DbTypeOK'
  BY DEF SetDb
<1>7. QED
  BY <1>1, <1>2, <1>3, <1>4, <1>5, <1>6

LEMMA RedisOpsType ==
  ASSUME RedisTypeOK, NEW s \in Servers
  PROVE  /\ \A u \in Users : Subscribe(s, u) => RedisTypeOK'
         /\ \A u \in Users : Unsubscribe(s, u) => RedisTypeOK'
         /\ \A u \in Users, m \in Msgs : Publish(u, m) => RedisTypeOK'
         /\ Execute(s) => RedisTypeOK'
         /\ Receive(s) => RedisTypeOK'
         /\ DropServer(s) => RedisTypeOK'
<1> USE DEF RedisTypeOK
<1>1. \A command \in Command : WriteCommand(s, command) => RedisTypeOK'
  <2> SUFFICES ASSUME NEW command \in Command, WriteCommand(s, command)
               PROVE  RedisTypeOK'
    OBVIOUS
  <2>1. Append(cmds[s], command) \in Seq(Command)
    OBVIOUS
  <2>2. QED
    BY <2>1 DEF WriteCommand
<1>2. \A u \in Users : /\ Subscribe(s, u) => RedisTypeOK'
                       /\ Unsubscribe(s, u) => RedisTypeOK'
  BY <1>1 DEF Subscribe, Unsubscribe, Command
<1>3. ASSUME NEW u \in Users, NEW m \in Msgs, Publish(u, m)
      PROVE  RedisTypeOK'
  <2>1. [to |-> u, msg |-> m] \in Parcel
    BY DEF Parcel
  <2>2. \A t \in Servers : Append(pushed[t], [to |-> u, msg |-> m]) \in Seq(Parcel)
    BY <2>1
  <2>3. QED
    BY <1>3, <2>2 DEF Publish
<1>4. ASSUME Execute(s) PROVE RedisTypeOK'
  <2>1. Head(cmds[s]) \in Command /\ Tail(cmds[s]) \in Seq(Command)
    BY <1>4 DEF Execute
  <2>2. <<s, Head(cmds[s]).user>> \in Servers \X Users
    BY <2>1 DEF Command
  <2>3. subs' \subseteq Servers \X Users
    BY <1>4, <2>2 DEF Execute
  <2>4. QED
    BY <1>4, <2>1, <2>3 DEF Execute
<1>5. Receive(s) => RedisTypeOK'
  BY DEF Receive
<1>6. DropServer(s) => RedisTypeOK'
  BY DEF DropServer
<1>7. QED
  BY <1>2, <1>3, <1>4, <1>5, <1>6

\* The steps that start, advance and end a handler, and the hand-over of a
\* message to a connection, keep the types of what they write.
LEMMA StartType ==
  ASSUME TypeOK, NEW c \in Conns, NEW step \in Steps, NEW u \in Users \cup {NoUser}
  PROVE  /\ Start(c, step, u) => /\ pc' \in [Conns -> Steps]
                                 /\ job' \in [Conns -> Users \cup {NoUser}]
                                 /\ msg' = msg
                                 /\ todo' = todo
         /\ Advance(c, step) => /\ pc' \in [Conns -> Steps]
                                /\ job' = job
                                /\ msg' = msg
                                /\ todo' = todo
BY ZenonT(60) DEF TypeOK, Start, Advance, Goto

LEMMA DoneWithType ==
  ASSUME TypeOK, NEW c \in Conns, todo[c] # <<>>, DoneWith(c)
  PROVE  /\ pc' \in [Conns -> Steps]
         /\ job' \in [Conns -> Users \cup {NoUser}]
         /\ msg' \in [Conns -> Msgs \cup {NoMsg}]
         /\ todo' \in [Conns -> Seq(Users)]
         /\ mutex' \in [Servers -> Conns \cup {NoConn}]
<1>1. Tail(todo[c]) \in Seq(Users)
  BY DEF TypeOK
<1>2. QED
  BY <1>1 DEF TypeOK, DoneWith, Goto, Steps, ChatSteps

\* The recipients of a private message and of a group's are a list of users.
LEMMA RequestCases ==
  ASSUME NEW c \in Conns, NEW m \in Msgs
  PROVE  /\ \A u \in Users : PrivateChat(c, u, m) =>
              \E recipients \in Seq(Users) : ChatRequest(c, m, recipients)
         /\ \A others \in GroupRows : GroupChat(c, others, m) =>
              \E recipients \in Seq(Users) : ChatRequest(c, m, recipients)
<1>1. ASSUME NEW u \in Users, PrivateChat(c, u, m)
      PROVE  \E recipients \in Seq(Users) : ChatRequest(c, m, recipients)
  <2>1. <<u>> \in Seq(Users)
    OBVIOUS
  <2>2. QED
    BY <1>1, <2>1 DEF PrivateChat
<1>2. ASSUME NEW others \in GroupRows, GroupChat(c, others, m)
      PROVE  \E recipients \in Seq(Users) : ChatRequest(c, m, recipients)
  <2> DEFINE recipients == IF dbUp THEN others ELSE <<>>
  <2>1. recipients \in Seq(Users)
    BY GroupAssumption
  <2>2. ChatRequest(c, m, recipients)
    BY <1>2 DEF GroupChat
  <2> HIDE DEF recipients
  <2>3. QED
    BY <2>1, <2>2
<1>3. QED
  BY <1>1, <1>2

LEMMA HandType ==
  ASSUME TypeOK, NEW c \in Conns, NEW p \in Parcel, Hand(c, <<p>>)
  PROVE  received' \in [Users \cup {NoUser} -> Seq(Parcel)]
<1>1. auth[c] \in Users \cup {NoUser}
  BY DEF TypeOK
<1>2. received[auth[c]] \o <<p>> \in Seq(Parcel)
  BY <1>1 DEF TypeOK
<1>3. QED
  BY <1>1, <1>2 DEF TypeOK, Hand

\* Every step keeps the types, one kind of step at a time.
LEMMA EnvironmentType ==
  ASSUME TypeOK, HandlerOK, Environment
  PROVE  TypeOK'
<1> USE DEF TypeOK, dbVars, redisVars, connVars, handlerVars, boundVars
<1> DEFINE DbSame == UNCHANGED dbVars => DbTypeOK'
           RedisSame == UNCHANGED redisVars => RedisTypeOK'
<1>0. DbSame /\ RedisSame
  BY DEF DbTypeOK, RedisTypeOK
<1> HIDE DEF DbSame, RedisSame
<1>1. ASSUME NEW c \in Conns, NEW s \in Servers, Connect(c, s)
      PROVE  TypeOK'
  BY <1>0, <1>1 DEF Connect, DbSame, RedisSame
<1>2. ASSUME NEW c \in Conns, Disconnect(c)
      PROVE  TypeOK'
  BY <1>0, <1>2 DEF Disconnect, DbSame, RedisSame
<1>3. ASSUME NEW c \in Conns, LogOut(c)
      PROVE  TypeOK'
  <2>1. auth[c] \in Users /\ at[c] \in Servers
    BY <1>3, SentinelAssumption DEF LogOut, Requests, Idle
  <2>2. DbTypeOK'
    BY <1>0, <1>3, <2>1, DbOpsType DEF LogOut, DbSame
  <2>3. RedisTypeOK'
    BY <1>0, <1>3 DEF LogOut, RedisSame
  <2>4. "logout_unsub" \in Steps
    BY DEF Steps
  <2>5. /\ userConnMap' \in [Servers -> [Users -> Conns \cup {NoConn}]]
        /\ mutex' \in [Servers -> Conns \cup {NoConn}]
    <3>1. CASE userConnMap[at[c]][auth[c]] = NoConn
      BY <1>3, <3>1 DEF LogOut
    <3>2. CASE userConnMap[at[c]][auth[c]] # NoConn
      <4>1. /\ userConnMap' = [userConnMap EXCEPT ![at[c]][auth[c]] = NoConn]
            /\ mutex' = [mutex EXCEPT ![at[c]] = c]
        BY <1>3, <3>2 DEF LogOut
      <4>2. QED
        BY <2>1, <4>1
    <3>3. QED
      BY <3>1, <3>2
  <2>6. /\ pc' \in [Conns -> Steps]
        /\ job' \in [Conns -> Users \cup {NoUser}]
        /\ msg' = msg
        /\ todo' = todo
    BY <1>3, <2>1, <2>4, StartType DEF LogOut
  <2>7. QED
    BY <1>3, <2>2, <2>3, <2>5, <2>6 DEF LogOut
<1>4. ASSUME NEW c \in Conns, NEW u \in Users, Register(c, u)
      PROVE  TypeOK'
  BY <1>0, <1>4, DbOpsType DEF Register, RedisSame
<1>5. ASSUME NEW c \in Conns, NEW u \in Users, Login(c, u)
      PROVE  TypeOK'
  <2>1. "login_fetch" \in Steps
    BY DEF Steps, LoginSteps
  <2>2. logins' \in 0..MaxLogins
    BY <1>5, BoundAssumption DEF Login
  <2>3. QED
    BY <1>0, <1>5, <2>1, <2>2, StartType DEF Login, DbSame, RedisSame
<1>6. ASSUME NEW c \in Conns, NEW u \in Users, CloseFault(c, u)
      PROVE  TypeOK'
  <2>1. at[c] \in Servers
    BY <1>6 DEF CloseFault, Idle
  <2>2. RedisTypeOK'
    BY <1>6, <2>1, RedisOpsType DEF CloseFault
  <2>3. "faulted" \in Steps
    BY DEF Steps
  <2>4. QED
    BY <1>0, <1>6, <2>1, <2>2, <2>3, StartType DEF CloseFault, DbSame
<1>7. ASSUME NEW c \in Conns, NEW m \in Msgs, NEW recipients \in Seq(Users),
             ChatRequest(c, m, recipients)
      PROVE  TypeOK'
  BY <1>0, <1>7, ZenonT(60) DEF ChatRequest, DbSame, RedisSame, Goto, Steps, ChatSteps
<1>8. ASSUME NEW s \in Servers, SigInt(s)
      PROVE  TypeOK'
  BY <1>0, <1>8 DEF SigInt, DbSame, RedisSame
<1>9. ASSUME NEW s \in Servers, Crash(s)
      PROVE  TypeOK'
  <2>1. RedisTypeOK'
    BY <1>9, RedisOpsType DEF Crash, EndProcess
  <2>2. QED
    BY <1>0, <1>9, <2>1 DEF Crash, EndProcess, DbSame, Steps
<1>10. ASSUME NEW s \in Servers, Restart(s)
       PROVE  TypeOK'
  BY <1>0, <1>10 DEF Restart, DbSame, RedisSame
<1>11. ASSUME DbStops \/ DbAnswers
       PROVE  TypeOK'
  BY <1>0, <1>11, DbOpsType DEF DbStops, DbAnswers, RedisSame
<1>12. QED
  BY <1>1, <1>2, <1>3, <1>4, <1>5, <1>6, <1>7, <1>8, <1>9, <1>10, <1>11,
     RequestCases DEF Environment

LEMMA HandlerType ==
  ASSUME TypeOK, HandlerOK, NEW c \in Conns, Handler(c)
  PROVE  TypeOK'
<1> USE DEF TypeOK, dbVars, redisVars, connVars, handlerVars, boundVars
<1> DEFINE DbSame == UNCHANGED dbVars => DbTypeOK'
           RedisSame == UNCHANGED redisVars => RedisTypeOK'
<1>0. DbSame /\ RedisSame
  BY DEF DbTypeOK, RedisTypeOK
<1>s. /\ LoginSteps \cup ChatSteps \subseteq Steps
      /\ {"idle", "close_state"} \subseteq Steps
  BY DEF Steps
<1>j. /\ pc[c] # "idle" => at[c] \in Servers
      /\ pc[c] \notin {"idle", "route"} => job[c] \in Users
      /\ pc[c] \in ChatSteps => msg[c] \in Msgs /\ todo[c] # <<>>
  BY DEF HandlerOK
<1> HIDE DEF DbSame, RedisSame
<1>1. ASSUME LoginFetch(c) PROVE TypeOK'
  <2> DEFINE u == job[c]
             rows == OfflineQuery(u)
  <2>1. u \in Users
    BY <1>1, <1>j DEF LoginFetch
  <2>2. rows \in Seq(Msgs)
    BY <2>1 DEF OfflineQuery, DbTypeOK
  <2> HIDE DEF rows
  <2>3. [i \in 1..Len(rows) |-> [to |-> u, msg |-> rows[i]]] \in Seq(Parcel)
    BY <2>1, <2>2 DEF Parcel
  <2>4. received' \in [Users \cup {NoUser} -> Seq(Parcel)]
    BY <1>1, <2>1, <2>3 DEF LoginFetch, rows
  <2>5. QED
    BY <1>0, <1>1, <1>s, <2>1, <2>4, StartType
       DEF LoginFetch, DbSame, RedisSame, LoginSteps
<1>2. ASSUME LoginRemove(c) PROVE TypeOK'
  <2>1. DbTypeOK'
    BY <1>2, <1>j, DbOpsType DEF LoginRemove
  <2>2. QED
    BY <1>0, <1>2, <1>s, <2>1, StartType DEF LoginRemove, RedisSame, LoginSteps
<1>3. ASSUME LoginState(c) PROVE TypeOK'
  <2>1. DbTypeOK'
    BY <1>3, <1>j, DbOpsType DEF LoginState
  <2>2. QED
    BY <1>0, <1>3, <1>s, <2>1, StartType DEF LoginState, RedisSame, LoginSteps
<1>4. ASSUME LoginMap(c) PROVE TypeOK'
  <2>1. userConnMap' \in [Servers -> [Users -> Conns \cup {NoConn}]]
    BY <1>4, <1>j DEF LoginMap
  <2>2. QED
    BY <1>0, <1>4, <1>s, <2>1, StartType DEF LoginMap, DbSame, RedisSame, LoginSteps
<1>5. ASSUME LoginSubscribe(c) PROVE TypeOK'
  <2>1. RedisTypeOK'
    BY <1>5, <1>j, RedisOpsType DEF LoginSubscribe
  <2>2. QED
    BY <1>0, <1>5, <1>s, <2>1, StartType DEF LoginSubscribe, DbSame, Return
<1>6. ASSUME NEW u \in Users, RouteLocal(c, u) PROVE TypeOK'
  <2>1. userConnMap[at[c]][u] \in Conns
    BY <1>6, <1>j, SentinelAssumption DEF RouteLocal
  <2>2. [to |-> u, msg |-> msg[c]] \in Parcel
    BY <1>6, <1>j DEF RouteLocal, Parcel, ChatSteps
  <2>3. received' \in [Users \cup {NoUser} -> Seq(Parcel)]
    BY <1>6, <2>1, <2>2, HandType DEF RouteLocal
  <2>4. QED
    BY <1>0, <1>6, <1>j, <2>3, DoneWithType DEF RouteLocal, DbSame, RedisSame, ChatSteps
<1>7. ASSUME NEW u \in Users, RouteRemote(c, u) PROVE TypeOK'
  BY <1>0, <1>7, <1>s, StartType DEF RouteRemote, DbSame, RedisSame, ChatSteps
<1>8. ASSUME Store(c) PROVE TypeOK'
  <2>1. DbTypeOK'
    BY <1>8, <1>j, DbOpsType DEF Store, ChatSteps
  <2>2. QED
    BY <1>0, <1>8, <1>j, <2>1, DoneWithType DEF Store, RedisSame, ChatSteps
<1>9. ASSUME PublishRemote(c) PROVE TypeOK'
  <2>1. RedisTypeOK'
    BY <1>9, <1>j, RedisOpsType DEF PublishRemote, ChatSteps
  <2>2. QED
    BY <1>0, <1>9, <1>j, <2>1, DoneWithType DEF PublishRemote, DbSame, ChatSteps
<1>10. ASSUME LogOutUnsubscribe(c) PROVE TypeOK'
  <2>1. RedisTypeOK'
    BY <1>10, <1>j, RedisOpsType DEF LogOutUnsubscribe
  <2>2. QED
    BY <1>0, <1>10, <1>s, <2>1, StartType DEF LogOutUnsubscribe, DbSame, Return
<1>11. ASSUME CloseUnmapped(c) PROVE TypeOK'
  BY <1>0, <1>11 DEF CloseUnmapped, DbSame, RedisSame
<1>12. ASSUME NEW u \in Users, CloseMapped(c, u) PROVE TypeOK'
  <2>1. at[c] \in Servers
    BY <1>12 DEF CloseMapped, Idle
  <2>2. RedisTypeOK'
    BY <1>12, <2>1, RedisOpsType DEF CloseMapped
  <2>3. QED
    BY <1>0, <1>12, <1>s, <2>1, <2>2, StartType DEF CloseMapped, DbSame
<1>13. ASSUME CloseState(c) PROVE TypeOK'
  <2>1. DbTypeOK'
    BY <1>13, <1>j, DbOpsType DEF CloseState
  <2>2. QED
    BY <1>0, <1>13, <1>s, <2>1, StartType DEF CloseState, RedisSame, Return
<1>14. QED
  BY <1>1, <1>2, <1>3, <1>4, <1>5, <1>6, <1>7, <1>8, <1>9, <1>10, <1>11, <1>12,
     <1>13 DEF Handler

LEMMA ServerType ==
  ASSUME TypeOK, NEW s \in Servers,
         Notify(s) \/ RedisExecute(s) \/ ResetStates(s) \/ Exit(s)
  PROVE  TypeOK'
<1> USE DEF TypeOK, dbVars, redisVars, connVars, handlerVars, boundVars
<1> DEFINE DbSame == UNCHANGED dbVars => DbTypeOK'
           RedisSame == UNCHANGED redisVars => RedisTypeOK'
<1>0. DbSame /\ RedisSame
  BY DEF DbTypeOK, RedisTypeOK
<1> HIDE DEF DbSame, RedisSame
<1>p. pushed[s] # <<>> => Head(pushed[s]) \in Parcel
  BY DEF RedisTypeOK
<1>1. ASSUME NotifyLocal(s) PROVE TypeOK'
  <2> DEFINE parcel == Head(pushed[s])
             conn == userConnMap[s][parcel.to]
  <2>1. parcel \in Parcel /\ parcel.to \in Users
    BY <1>1, <1>p DEF NotifyLocal, Receive, Parcel
  <2>2. conn \in Conns /\ Hand(conn, <<parcel>>)
    BY <1>1, <2>1 DEF NotifyLocal
  <2>3. received' \in [Users \cup {NoUser} -> Seq(Parcel)]
    BY <2>1, <2>2, HandType
  <2>4. RedisTypeOK'
    BY <1>1, RedisOpsType DEF NotifyLocal
  <2>5. QED
    BY <1>0, <1>1, <2>3, <2>4 DEF NotifyLocal, DbSame
<1>2. ASSUME NotifyStore(s) PROVE TypeOK'
  <2>1. Head(pushed[s]).to \in Users /\ Head(pushed[s]).msg \in Msgs
    BY <1>2, <1>p DEF NotifyStore, Receive, Parcel
  <2>2. DbTypeOK'
    BY <1>2, <2>1, DbOpsType DEF NotifyStore
  <2>3. RedisTypeOK'
    BY <1>2, RedisOpsType DEF NotifyStore
  <2>4. QED
    BY <1>2, <2>2, <2>3 DEF NotifyStore
<1>3. ASSUME RedisExecute(s) PROVE TypeOK'
  BY <1>0, <1>3, RedisOpsType DEF RedisExecute, DbSame
<1>4. ASSUME ResetStates(s) PROVE TypeOK'
  BY <1>0, <1>4, DbOpsType DEF ResetStates, RedisSame
<1>5. ASSUME Exit(s) PROVE TypeOK'
  <2>1. RedisTypeOK'
    BY <1>5, RedisOpsType DEF Exit, EndProcess
  <2>2. QED
    BY <1>0, <1>5, <2>1 DEF Exit, EndProcess, DbSame, Steps
<1>6. QED
  BY <1>1, <1>2, <1>3, <1>4, <1>5 DEF Notify

LEMMA TypeStep ==
  ASSUME TypeOK, HandlerOK, [Next]_vars
  PROVE  TypeOK'
<1>1. CASE Next
  BY <1>1, EnvironmentType, HandlerType, ServerType DEF Next
<1>2. CASE UNCHANGED vars
  BY <1>2 DEF vars, TypeOK, DbTypeOK, RedisTypeOK, dbVars, redisVars, connVars,
              handlerVars, boundVars
<1>3. QED
  BY <1>1, <1>2

\* One step of a handler disturbs what is settled for its connection only.
LEMMA HandlerStep ==
  ASSUME TypeOK, HandlerOK, [Next]_vars
  PROVE  HandlerOK'
<1> USE DEF HandlerOK
<1>a. ASSUME UNCHANGED <<at, pc, job, msg, todo>> PROVE HandlerOK'
  BY <1>a
<1>b. ASSUME NEW c \in Conns, NEW step \in Steps \ ChatSteps, NEW u \in Users \cup {NoUser},
             Start(c, step, u), at' = at,
             step # "idle" => at[c] \in Servers /\ u \in Users
      PROVE  HandlerOK'
  BY <1>b DEF Start, Goto, TypeOK
<1>c. ASSUME NEW c \in Conns, NEW step \in LoginSteps, Advance(c, step), at' = at,
             at[c] \in Servers, job[c] \in Users
      PROVE  HandlerOK'
  BY <1>c DEF Advance, Goto, TypeOK, LoginSteps, ChatSteps
<1>d. ASSUME NEW c \in Conns, DoneWith(c), at' = at,
             at[c] \in Servers, msg[c] \in Msgs
      PROVE  HandlerOK'
  BY <1>d DEF DoneWith, Goto, TypeOK, ChatSteps
<1>e. ASSUME NEW s \in Servers, EndProcess(s) PROVE HandlerOK'
  BY <1>e DEF EndProcess, TypeOK, ChatSteps
<1>f. /\ LoginSteps \cup {"idle", "close_state", "logout_unsub", "faulted"} \subseteq Steps \ ChatSteps
      /\ "idle" \notin LoginSteps
  BY DEF Steps, LoginSteps, ChatSteps
<1>1. CASE Environment
  <2>1. ASSUME NEW c \in Conns, NEW s \in Servers, Connect(c, s) PROVE HandlerOK'
    BY <2>1 DEF Connect, handlerVars, TypeOK
  <2>2. ASSUME NEW c \in Conns, Disconnect(c) PROVE HandlerOK'
    BY <2>2, <1>a DEF Disconnect, handlerVars
  <2>3. ASSUME NEW c \in Conns, LogOut(c) PROVE HandlerOK'
    <3>1. at[c] \in Servers /\ auth[c] \in Users /\ at' = at
      BY <2>3 DEF LogOut, Requests, Idle, TypeOK
    <3>2. CASE UNCHANGED handlerVars
      BY <1>a, <3>1, <3>2 DEF handlerVars
    <3>3. CASE Start(c, "logout_unsub", auth[c])
      BY <1>b, <1>f, <3>1, <3>3
    <3>4. QED
      BY <2>3, <3>2, <3>3 DEF LogOut
  <2>4. ASSUME NEW c \in Conns, NEW u \in Users, Register(c, u) PROVE HandlerOK'
    BY <2>4, <1>a DEF Register, handlerVars, connVars
  <2>5. ASSUME NEW c \in Conns, NEW u \in Users, Login(c, u) PROVE HandlerOK'
    <3>1. at[c] \in Servers /\ at' = at
      BY <2>5 DEF Login, Requests, Idle, TypeOK, connVars
    <3>2. QED
      BY <1>b, <1>f, <2>5, <3>1 DEF Login, LoginSteps
  <2>6. ASSUME NEW c \in Conns, NEW u \in Users, CloseFault(c, u) PROVE HandlerOK'
    <3>1. at[c] \in Servers /\ at' = at
      BY <2>6 DEF CloseFault, Idle, TypeOK, connVars
    <3>2. QED
      BY <1>b, <1>f, <2>6, <3>1 DEF CloseFault
  <2>7. ASSUME NEW c \in Conns, NEW m \in Msgs, NEW recipients \in Seq(Users),
               ChatRequest(c, m, recipients)
        PROVE  HandlerOK'
    <3>1. /\ at[c] \in Servers /\ at' = at /\ job' = job
          /\ pc[c] = "idle"
          /\ todo' = [todo EXCEPT ![c] = recipients]
      BY <2>7 DEF ChatRequest, Requests, Idle, TypeOK, connVars
    <3>2. CASE recipients = <<>>
      BY <2>7, <3>1, <3>2 DEF ChatRequest, TypeOK, ChatSteps
    <3>3. CASE recipients # <<>>
      <4>1. /\ pc' = [pc EXCEPT ![c] = "route"]
            /\ msg' = [msg EXCEPT ![c] = m]
        BY <2>7, <3>3 DEF ChatRequest, Goto
      <4>2. QED
        BY <3>1, <3>3, <4>1 DEF TypeOK, ChatSteps
    <3>4. QED
      BY <3>2, <3>3
  <2>8. ASSUME NEW s \in Servers, SigInt(s) \/ Restart(s) PROVE HandlerOK'
    BY <2>8, <1>a DEF SigInt, Restart, handlerVars, connVars
  <2>9. ASSUME NEW s \in Servers, Crash(s) PROVE HandlerOK'
    BY <2>9, <1>e DEF Crash
  <2>10. ASSUME DbStops \/ DbAnswers PROVE HandlerOK'
    BY <2>10, <1>a DEF DbStops, DbAnswers, handlerVars, connVars
  <2>11. QED
    BY <1>1, <2>1, <2>2, <2>3, <2>4, <2>5, <2>6, <2>7, <2>8, <2>9, <2>10,
       RequestCases DEF Environment
<1>2. ASSUME NEW c \in Conns, Handler(c) PROVE HandlerOK'
  <2> USE <1>f DEF connVars
  <2>1. ASSUME LoginFetch(c) \/ LoginRemove(c) \/ LoginState(c) \/ LoginMap(c)
        PROVE  HandlerOK'
    BY <2>1, <1>c DEF LoginFetch, LoginRemove, LoginState, LoginMap, LoginSteps
  <2>2. ASSUME LoginSubscribe(c) \/ LogOutUnsubscribe(c) PROVE HandlerOK'
    BY <2>2, <1>b DEF LoginSubscribe, LogOutUnsubscribe, Return
  <2>3. ASSUME NEW u \in Users, RouteLocal(c, u) PROVE HandlerOK'
    BY <2>3, <1>d DEF RouteLocal, ChatSteps
  <2>4. ASSUME NEW u \in Users, RouteRemote(c, u) PROVE HandlerOK'
    BY <2>4 DEF RouteRemote, Start, Goto, TypeOK, ChatSteps
  <2>5. ASSUME Store(c) \/ PublishRemote(c) PROVE HandlerOK'
    BY <2>5, <1>d DEF Store, PublishRemote, ChatSteps
  <2>6. ASSUME CloseUnmapped(c) PROVE HandlerOK'
    BY <2>6 DEF CloseUnmapped, Idle, handlerVars, TypeOK
  <2>7. ASSUME NEW u \in Users, CloseMapped(c, u) PROVE HandlerOK'
    BY <2>7, <1>b DEF CloseMapped, Idle, TypeOK
  <2>8. ASSUME CloseState(c) PROVE HandlerOK'
    BY <2>8 DEF CloseState, Return, Start, Goto, TypeOK, ChatSteps
  <2>9. QED
    BY <1>2, <2>1, <2>2, <2>3, <2>4, <2>5, <2>6, <2>7, <2>8 DEF Handler
<1>3. ASSUME NEW s \in Servers, Notify(s) \/ RedisExecute(s) \/ ResetStates(s)
      PROVE  HandlerOK'
  BY <1>3, <1>a DEF Notify, NotifyLocal, NotifyStore, RedisExecute, ResetStates,
                    handlerVars, connVars
<1>4. ASSUME NEW s \in Servers, Exit(s) PROVE HandlerOK'
  BY <1>4, <1>e DEF Exit
<1>5. CASE UNCHANGED vars
  BY <1>5, <1>a DEF vars, handlerVars, connVars
<1>6. QED
  BY <1>1, <1>2, <1>3, <1>4, <1>5 DEF Next

\* TypeOK: every variable keeps its type, in particular no handler runs without
\* the user, the message and the server its next access needs.
THEOREM TypeCorrect == Spec => []TypeOK
<1>1. Init => TypeOK /\ HandlerOK
  BY InitType
<1>2. TypeOK /\ HandlerOK /\ [Next]_vars => (TypeOK /\ HandlerOK)'
  BY TypeStep, HandlerStep
<1>3. QED
  BY <1>1, <1>2, PTL DEF Spec

(***************************************************************************)
(* Why the map never names a wrong connection.  login writes the entry     *)
(* long after it acknowledged the user, so what the connection is between  *)
(* the two must be known, and a connection being closed must have left the *)
(* map for good.                                                           *)
(***************************************************************************)
SessionOK ==
  \A c \in Conns :
    /\ pc[c] = "login_fetch" => auth[c] = NoUser
    /\ pc[c] \in LoginSteps \ {"login_fetch"} => auth[c] = job[c]
    /\ pc[c] = "close_state" => \A s \in Servers, u \in Users : userConnMap[s][u] # c

SessionInv == TypeOK /\ HandlerOK /\ SessionOK /\ MapMatchesSession

LEMMA SessionStep ==
  ASSUME SessionInv, [Next]_vars
  PROVE  SessionOK' /\ MapMatchesSession'
<1> DEFINE Goal == SessionOK' /\ MapMatchesSession'
<1> USE SentinelAssumption
<1>i. SessionOK /\ MapMatchesSession /\ HandlerOK
  BY DEF SessionInv
<1>t. /\ at \in [Conns -> Servers \cup {NoServer}]
      /\ auth \in [Conns -> Users \cup {NoUser}]
      /\ pc \in [Conns -> Steps]
      /\ job \in [Conns -> Users \cup {NoUser}]
      /\ userConnMap \in [Servers -> [Users -> Conns \cup {NoConn}]]
  BY DEF SessionInv, TypeOK
<1> USE <1>i, <1>t
<1>a. ASSUME UNCHANGED <<at, auth, pc, job, userConnMap>> PROVE Goal
  BY <1>a DEF SessionOK, MapMatchesSession
\* A handler goes on that neither logs in nor closes.
<1>b. ASSUME NEW c \in Conns, UNCHANGED <<at, auth, userConnMap>>,
             pc'[c] \in Steps \ (LoginSteps \cup {"close_state"}),
             \A d \in Conns \ {c} : pc'[d] = pc[d] /\ job'[d] = job[d]
      PROVE  Goal
  BY <1>b DEF SessionOK, MapMatchesSession, LoginSteps
<1>c. ASSUME NEW s \in Servers, EndProcess(s) PROVE Goal
  BY <1>c DEF EndProcess, SessionOK, MapMatchesSession, LoginSteps
\* A login goes on after its acknowledgement.
<1>d. ASSUME NEW c \in Conns, NEW step \in LoginSteps \ {"login_fetch"},
             Advance(c, step), UNCHANGED <<at, auth, userConnMap>>,
             pc[c] \in LoginSteps \ {"login_fetch"}
      PROVE  Goal
  BY <1>d DEF Advance, Goto, SessionOK, MapMatchesSession, LoginSteps
<1> HIDE DEF Goal
<1>1. CASE Environment
  <2>1. ASSUME NEW c \in Conns, NEW s \in Servers, Connect(c, s) PROVE Goal
    BY <2>1 DEF Connect, handlerVars, SessionOK, MapMatchesSession, Goal
  <2>2. ASSUME NEW c \in Conns, Disconnect(c) PROVE Goal
    BY <2>2, <1>a DEF Disconnect, handlerVars
  <2>3. ASSUME NEW c \in Conns, LogOut(c) PROVE Goal
    <3>1. /\ pc[c] = "idle" /\ at[c] \in Servers /\ auth[c] \in Users
          /\ at' = at
          /\ auth' = [auth EXCEPT ![c] = NoUser]
      BY <2>3 DEF LogOut, Requests, Idle
    <3>2. CASE userConnMap[at[c]][auth[c]] = NoConn
      <4>1. UNCHANGED <<pc, job, userConnMap>>
        BY <2>3, <3>2 DEF LogOut, handlerVars
      <4>2. QED
        BY <3>1, <3>2, <4>1 DEF SessionOK, MapMatchesSession, LoginSteps, Goal
    <3>3. CASE userConnMap[at[c]][auth[c]] # NoConn
      <4>1. /\ userConnMap' = [userConnMap EXCEPT ![at[c]][auth[c]] = NoConn]
            /\ pc' = [pc EXCEPT ![c] = "logout_unsub"]
            /\ job' = [job EXCEPT ![c] = auth[c]]
        BY <2>3, <3>3 DEF LogOut, Start, Goto
      <4>2. QED
        BY <3>1, <4>1 DEF SessionOK, MapMatchesSession, LoginSteps, Goal
    <3>4. QED
      BY <3>2, <3>3
  <2>4. ASSUME NEW c \in Conns, NEW u \in Users, Register(c, u) PROVE Goal
    BY <2>4, <1>a DEF Register, handlerVars, connVars
  <2>5. ASSUME NEW c \in Conns, NEW u \in Users, Login(c, u) PROVE Goal
    BY <2>5 DEF Login, Start, Goto, connVars, SessionOK, MapMatchesSession,
                LoginSteps, Goal
  <2>6. ASSUME NEW c \in Conns, NEW u \in Users, CloseFault(c, u) PROVE Goal
    BY <2>6 DEF CloseFault, Idle, Start, Goto, connVars, SessionOK,
                MapMatchesSession, LoginSteps, Goal
  <2>7. ASSUME NEW c \in Conns, NEW m \in Msgs, NEW recipients \in Seq(Users),
               ChatRequest(c, m, recipients)
        PROVE  Goal
    <3>1. CASE recipients = <<>>
      BY <2>7, <3>1, <1>a DEF ChatRequest, connVars
    <3>2. CASE recipients # <<>>
      BY <2>7, <3>2, <1>b DEF ChatRequest, Goto, connVars, LoginSteps, Steps, ChatSteps
    <3>3. QED
      BY <3>1, <3>2
  <2>8. ASSUME NEW s \in Servers, SigInt(s) \/ Restart(s) PROVE Goal
    BY <2>8, <1>a DEF SigInt, Restart, handlerVars, connVars
  <2>9. ASSUME NEW s \in Servers, Crash(s) PROVE Goal
    BY <2>9, <1>c DEF Crash
  <2>10. ASSUME DbStops \/ DbAnswers PROVE Goal
    BY <2>10, <1>a DEF DbStops, DbAnswers, handlerVars, connVars
  <2>11. QED
    BY <1>1, <2>1, <2>2, <2>3, <2>4, <2>5, <2>6, <2>7, <2>8, <2>9, <2>10,
       RequestCases DEF Environment, Goal
<1>2. ASSUME NEW c \in Conns, Handler(c) PROVE Goal
  <2>j. pc[c] \notin {"idle", "route"} => job[c] \in Users
    BY DEF HandlerOK
  <2>1. ASSUME LoginFetch(c) PROVE Goal
    BY <2>1, <2>j DEF LoginFetch, Advance, Goto, SessionOK, MapMatchesSession, LoginSteps, Goal
  <2>2. ASSUME LoginRemove(c) \/ LoginState(c) PROVE Goal
    BY <2>2, <1>d DEF LoginRemove, LoginState, connVars, LoginSteps
  <2>3. ASSUME LoginMap(c) PROVE Goal
    BY <2>3, <2>j DEF LoginMap, Advance, Goto, connVars, SessionOK,
                MapMatchesSession, LoginSteps, Goal
  <2>4. ASSUME LoginSubscribe(c) \/ LogOutUnsubscribe(c) PROVE Goal
    BY <2>4, <1>b DEF LoginSubscribe, LogOutUnsubscribe, Return, Start, Goto, connVars,
                      LoginSteps, Steps
  <2>5. ASSUME DoneWith(c), UNCHANGED <<at, auth, userConnMap>> PROVE Goal
    <3>1. pc'[c] \in {"idle", "route"}
      BY <2>5 DEF DoneWith, Goto
    <3>2. \A d \in Conns \ {c} : pc'[d] = pc[d] /\ job'[d] = job[d]
      BY <2>5 DEF DoneWith, Goto
    <3>3. QED
      BY <2>5, <3>1, <3>2, <1>b DEF LoginSteps, Steps, ChatSteps
  <2>6. ASSUME \/ \E u \in Users : RouteLocal(c, u)
               \/ Store(c)
               \/ PublishRemote(c)
        PROVE  Goal
    BY <2>5, <2>6 DEF RouteLocal, Store, PublishRemote, connVars
  <2>r. ASSUME NEW u \in Users, RouteRemote(c, u) PROVE Goal
    BY <2>r, <1>b DEF RouteRemote, Start, Goto, connVars, LoginSteps, Steps, ChatSteps
  <2>7. ASSUME CloseUnmapped(c) PROVE Goal
    BY <2>7 DEF CloseUnmapped, Idle, handlerVars, SessionOK, MapMatchesSession,
                LoginSteps, Goal
  <2>8. ASSUME NEW u \in Users, CloseMapped(c, u) PROVE Goal
    BY <2>8 DEF CloseMapped, Idle, Start, Goto, connVars, SessionOK,
                MapMatchesSession, LoginSteps, Goal
  <2>9. ASSUME CloseState(c) PROVE Goal
    BY <2>9 DEF CloseState, Return, Start, Goto, SessionOK, MapMatchesSession,
                LoginSteps, Goal
  <2>10. QED
    BY <1>2, <2>1, <2>2, <2>3, <2>4, <2>6, <2>r, <2>7, <2>8, <2>9 DEF Handler
<1>3. ASSUME NEW s \in Servers, Notify(s) \/ RedisExecute(s) \/ ResetStates(s)
      PROVE  Goal
  BY <1>3, <1>a DEF Notify, NotifyLocal, NotifyStore, RedisExecute, ResetStates,
                    handlerVars, connVars
<1>4. ASSUME NEW s \in Servers, Exit(s) PROVE Goal
  BY <1>4, <1>c DEF Exit
<1>5. CASE UNCHANGED vars
  BY <1>5, <1>a DEF vars, handlerVars, connVars, Goal
<1>6. QED
  BY <1>1, <1>2, <1>3, <1>4, <1>5 DEF Next, Goal

LEMMA SessionInvariant == Spec => []SessionInv
<1>1. Init => SessionInv
  <2>1. Init => SessionOK /\ MapMatchesSession
    BY DEF Init, SessionOK, MapMatchesSession, LoginSteps
  <2>2. QED
    BY <2>1, InitType DEF SessionInv
<1>2. SessionInv /\ [Next]_vars => SessionInv'
  BY SessionStep, TypeStep, HandlerStep DEF SessionInv
<1>3. QED
  BY <1>1, <1>2, PTL DEF Spec

\* MapMatchesSession: an entry of the map names a live connection of that
\* server, logged in as that user.
THEOREM MapCorrect == Spec => []MapMatchesSession
<1>1. SessionInv => MapMatchesSession
  BY DEF SessionInv
<1>2. QED
  BY <1>1, SessionInvariant, PTL

LEMMA ConcatAddressee ==
  ASSUME NEW v, NEW old \in Seq(Parcel), NEW new \in Seq(Parcel),
         \A i \in 1..Len(old) : old[i].to = v,
         \A i \in 1..Len(new) : new[i].to = v
  PROVE  \A i \in 1..Len(old \o new) : (old \o new)[i].to = v
<1> SUFFICES ASSUME NEW i \in 1..Len(old \o new)
             PROVE  (old \o new)[i].to = v
  OBVIOUS
<1>1. /\ Len(old \o new) = Len(old) + Len(new)
      /\ Len(old) \in Nat /\ Len(new) \in Nat
  BY ConcatProperties
<1>2. CASE i <= Len(old)
  <2>1. (old \o new)[i] = old[i] /\ i \in 1..Len(old)
    BY <1>1, <1>2, ConcatProperties
  <2>2. QED
    BY <2>1
<1>3. CASE ~(i <= Len(old))
  <2>1. (old \o new)[i] = new[i - Len(old)] /\ i - Len(old) \in 1..Len(new)
    BY <1>1, <1>3, ConcatProperties
  <2>2. QED
    BY <2>1
<1>4. QED
  BY <1>2, <1>3

(***************************************************************************)
(* What is handed over is looked up in the map under the addressee's id,   *)
(* or read from the addressee's rows.                                      *)
(***************************************************************************)
LEMMA HandStep ==
  ASSUME TypeOK, NoMisdelivery, NEW c \in Conns, NEW p \in Parcel,
         Hand(c, <<p>>), auth[c] = p.to
  PROVE  NoMisdelivery'
<1>1. CASE c \in gone
  BY <1>1 DEF Hand, NoMisdelivery
<1>2. CASE c \notin gone
  <2> DEFINE v == auth[c]
             old == received[v]
  <2>1. /\ v \in Users \cup {NoUser}
        /\ received \in [Users \cup {NoUser} -> Seq(Parcel)]
        /\ received' = [received EXCEPT ![v] = old \o <<p>>]
    BY <1>2 DEF TypeOK, Hand
  <2>2. /\ old \in Seq(Parcel) /\ <<p>> \in Seq(Parcel)
        /\ \A i \in 1..Len(old) : old[i].to = v
        /\ \A i \in 1..Len(<<p>>) : <<p>>[i].to = v
    BY <2>1 DEF NoMisdelivery
  <2>3. \A i \in 1..Len(old \o <<p>>) : (old \o <<p>>)[i].to = v
    BY <2>2, ConcatAddressee
  <2>4. received'[v] = old \o <<p>>
    BY <2>1
  <2>5. \A u \in (Users \cup {NoUser}) \ {v} : received'[u] = received[u]
    BY <2>1
  <2>6. QED
    BY <2>3, <2>4, <2>5, SMTT(30) DEF NoMisdelivery
<1>3. QED
  BY <1>1, <1>2

LEMMA MisdeliveryStep ==
  ASSUME SessionInv, NoMisdelivery, [Next]_vars
  PROVE  NoMisdelivery'
<1> USE SentinelAssumption
<1>i. TypeOK /\ HandlerOK /\ MapMatchesSession
  BY DEF SessionInv
<1>a. ASSUME UNCHANGED received PROVE NoMisdelivery'
  BY <1>a DEF NoMisdelivery
<1>1. CASE Environment
  BY <1>1, <1>a DEF Environment, Connect, Disconnect, LogOut, Register, Login,
     CloseFault, PrivateChat, GroupChat, ChatRequest, SigInt, Crash, EndProcess,
     Restart, DbStops, DbAnswers
<1>2. ASSUME NEW c \in Conns, Handler(c) PROVE NoMisdelivery'
  <2>1. ASSUME LoginFetch(c) PROVE NoMisdelivery'
    <3> DEFINE u == job[c]
               rows == OfflineQuery(u)
               parcels == [i \in 1..Len(rows) |-> [to |-> u, msg |-> rows[i]]]
               old == received[u]
    <3>1. CASE c \in gone
      BY <2>1, <3>1, <1>a DEF LoginFetch
    <3>2. CASE c \notin gone
      <4>1. /\ u \in Users
            /\ rows \in Seq(Msgs)
            /\ received \in [Users \cup {NoUser} -> Seq(Parcel)]
        <5>1. u \in Users
          BY <1>i, <2>1 DEF HandlerOK, LoginFetch
        <5>2. QED
          BY <1>i, <5>1 DEF TypeOK, DbTypeOK, OfflineQuery
      <4>2. received' = [received EXCEPT ![u] = old \o parcels]
        BY <2>1, <3>2 DEF LoginFetch
      <4> HIDE DEF rows
      <4>3. parcels \in Seq(Parcel) /\ Len(parcels) = Len(rows)
        BY <4>1 DEF Parcel
      <4>4. \A i \in 1..Len(parcels) : parcels[i].to = u
        BY <4>1, <4>3
      <4> HIDE DEF parcels
      <4>5. old \in Seq(Parcel) /\ \A i \in 1..Len(old) : old[i].to = u
        BY <4>1 DEF NoMisdelivery
      <4>6. \A i \in 1..Len(old \o parcels) : (old \o parcels)[i].to = u
        BY <4>3, <4>4, <4>5, ConcatAddressee
      <4>7. \A v \in (Users \cup {NoUser}) \ {u} : received'[v] = received[v]
        BY <4>1, <4>2
      <4>8. received'[u] = old \o parcels
        BY <4>1, <4>2
      <4>9. QED
        BY <4>6, <4>7, <4>8 DEF NoMisdelivery
    <3>3. QED
      BY <3>1, <3>2
  <2>2. ASSUME NEW u \in Users, RouteLocal(c, u) PROVE NoMisdelivery'
    <3> DEFINE conn == userConnMap[at[c]][u]
               p == [to |-> u, msg |-> msg[c]]
    <3>1. at[c] \in Servers /\ msg[c] \in Msgs
      BY <1>i, <2>2 DEF HandlerOK, RouteLocal, ChatSteps
    <3>2. conn \in Conns /\ p \in Parcel
      BY <1>i, <2>2, <3>1 DEF RouteLocal, TypeOK, Parcel
    <3>3. auth[conn] = p.to
      BY <1>i, <3>1, <3>2 DEF MapMatchesSession
    <3>4. Hand(conn, <<p>>)
      BY <2>2 DEF RouteLocal
    <3>5. QED
      BY <1>i, <3>2, <3>3, <3>4, HandStep
  <2>3. QED
    BY <1>2, <1>a, <2>1, <2>2 DEF Handler, LoginRemove, LoginState, LoginMap,
       LoginSubscribe, RouteRemote, Store, PublishRemote, LogOutUnsubscribe,
       CloseUnmapped, CloseState, CloseMapped
<1>3. ASSUME NEW s \in Servers, NotifyLocal(s) PROVE NoMisdelivery'
  <2> DEFINE p == Head(pushed[s])
             conn == userConnMap[s][p.to]
  <2>1. p \in Parcel
    BY <1>i, <1>3 DEF NotifyLocal, Receive, TypeOK, RedisTypeOK
  <2>2. conn \in Conns /\ Hand(conn, <<p>>)
    BY <1>i, <1>3, <2>1 DEF NotifyLocal, TypeOK, Parcel
  <2>3. auth[conn] = p.to
    BY <1>i, <2>1, <2>2 DEF MapMatchesSession, Parcel
  <2>4. QED
    BY <1>i, <2>1, <2>2, <2>3, HandStep
<1>4. ASSUME NEW s \in Servers,
             NotifyStore(s) \/ RedisExecute(s) \/ ResetStates(s) \/ Exit(s)
      PROVE  NoMisdelivery'
  BY <1>4, <1>a DEF NotifyStore, RedisExecute, ResetStates, Exit, EndProcess, boundVars
<1>5. CASE UNCHANGED vars
  BY <1>5, <1>a DEF vars
<1>6. QED
  BY <1>1, <1>2, <1>3, <1>4, <1>5 DEF Next, Notify

\* NoMisdelivery: no client is handed a message for another user.
THEOREM DeliveryCorrect == Spec => []NoMisdelivery
<1>1. Init => NoMisdelivery
  BY DEF Init, NoMisdelivery
<1>2. SessionInv /\ NoMisdelivery /\ [Next]_vars => NoMisdelivery'
  BY MisdeliveryStep
<1>3. QED
  BY <1>1, <1>2, SessionInvariant, PTL DEF Spec

(***************************************************************************)
(* A handler sets the mutex only when it is free or its own, so it cannot  *)
(* take it from a handler in its critical section.                         *)
(***************************************************************************)
MutexStays ==
  \A s \in Servers, c \in Conns :
    mutex[s] = c => mutex'[s] = c \/ (mutex'[s] = NoConn /\ pc'[c] = "idle")

MutexGoesOn == MutexDiscipline' /\ MutexStays

LEMMA MutexStep ==
  ASSUME TypeOK, HandlerOK, MutexDiscipline, [Next]_vars
  PROVE  MutexGoesOn
<1> USE SentinelAssumption DEF Critical
<1>t. /\ at \in [Conns -> Servers \cup {NoServer}]
      /\ pc \in [Conns -> Steps]
      /\ mutex \in [Servers -> Conns \cup {NoConn}]
      /\ \A c \in Conns : pc[c] # "idle" => at[c] \in Servers
      /\ \A c \in Conns : pc[c] \in Critical => mutex[at[c]] = c
      /\ \A s \in Servers, c \in Conns :
           mutex[s] = c => at[c] = s /\ pc[c] \in Critical \cup {"route"}
  BY DEF TypeOK, HandlerOK, MutexDiscipline
<1>g. MutexGoesOn <=>
               /\ \A c \in Conns : pc'[c] \in Critical => mutex'[at'[c]] = c
               /\ \A s \in Servers, c \in Conns :
                    mutex'[s] = c => at'[c] = s /\ pc'[c] \in Critical \cup {"route"}
               /\ \A s \in Servers, c \in Conns :
                    mutex[s] = c => mutex'[s] = c \/ (mutex'[s] = NoConn /\ pc'[c] = "idle")
  BY DEF MutexGoesOn, MutexDiscipline, MutexStays
\* The mutex is left alone, and only handlers without it go on.
<1>a. ASSUME UNCHANGED <<at, mutex>>,
             \A c \in Conns : \/ pc'[c] = pc[c]
                              \/ /\ pc[c] \notin Critical /\ pc[c] # "route"
                                 /\ pc'[c] \notin Critical
      PROVE  MutexGoesOn
  BY <1>t, <1>g, <1>a
\* A handler in or entering its critical section goes on or leaves it.
<1>b. ASSUME NEW c \in Conns, at[c] \in Servers, Enters(c), at' = at,
             \A d \in Conns \ {c} : pc'[d] = pc[d],
             NEW holder \in {c, NoConn}, mutex' = [mutex EXCEPT ![at[c]] = holder],
             pc'[c] \in Critical => holder = c,
             IF holder = c THEN pc'[c] \in Critical \cup {"route"} ELSE pc'[c] = "idle"
      PROVE  MutexGoesOn
  <2>1. \A s \in Servers : mutex'[s] = IF s = at[c] THEN holder ELSE mutex[s]
    BY <1>t, <1>b
  <2>2. mutex[at[c]] \in {NoConn, c}
    BY <1>b DEF Enters
  <2>3. \A d \in Conns : pc'[d] \in Critical => mutex'[at'[d]] = d
    BY <1>t, <1>b, <2>1, <2>2
  <2>4. \A s \in Servers, d \in Conns :
          mutex'[s] = d => at'[d] = s /\ pc'[d] \in Critical \cup {"route"}
    BY <1>t, <1>b, <2>1
  <2>5. \A s \in Servers, d \in Conns :
          mutex[s] = d => mutex'[s] = d \/ (mutex'[s] = NoConn /\ pc'[d] = "idle")
    BY <1>t, <1>b, <2>1, <2>2
  <2>6. QED
    BY <1>g, <2>3, <2>4, <2>5
<1>d. ASSUME NEW c \in Conns, at[c] \in Servers, Enters(c), at' = at, DoneWith(c)
      PROVE  MutexGoesOn
  <2> DEFINE holder == IF Tail(todo[c]) = <<>> THEN NoConn ELSE c
  <2>1. /\ \A d \in Conns \ {c} : pc'[d] = pc[d]
        /\ pc'[c] \notin Critical
        /\ mutex' = [mutex EXCEPT ![at[c]] = holder]
        /\ holder \in {c, NoConn}
        /\ IF holder = c THEN pc'[c] \in Critical \cup {"route"} ELSE pc'[c] = "idle"
    BY <1>t, <1>d DEF DoneWith, Goto
  <2> HIDE DEF holder
  <2>2. QED
    BY <1>b, <1>d, <2>1
<1>e. ASSUME NEW s \in Servers, EndProcess(s) PROVE MutexGoesOn
  BY <1>t, <1>g, <1>e DEF EndProcess
<1>f. \A c \in Conns : pc[c] \in Critical => Enters(c) /\ at[c] \in Servers
  BY <1>t DEF Enters
<1>1. CASE Environment
  <2>1. ASSUME NEW c \in Conns, NEW s \in Servers, Connect(c, s) PROVE MutexGoesOn
    BY <2>1, <1>t, <1>g DEF Connect, handlerVars
  <2>2. ASSUME NEW c \in Conns, LogOut(c) PROVE MutexGoesOn
    <3>1. at[c] \in Servers /\ Enters(c) /\ at' = at /\ pc[c] = "idle"
      BY <1>t, <2>2 DEF LogOut, Requests, Idle, Free, Enters
    <3>2. CASE userConnMap[at[c]][auth[c]] = NoConn
      BY <1>a, <2>2, <3>1, <3>2 DEF LogOut, handlerVars
    <3>3. CASE userConnMap[at[c]][auth[c]] # NoConn
      <4>1. /\ mutex' = [mutex EXCEPT ![at[c]] = c]
            /\ \A d \in Conns \ {c} : pc'[d] = pc[d]
            /\ pc'[c] = "logout_unsub"
        BY <1>t, <2>2, <3>3 DEF LogOut, Start, Goto
      <4>2. QED
        BY <1>b, <3>1, <4>1
    <3>4. QED
      BY <3>2, <3>3
  <2>3. ASSUME NEW c \in Conns, NEW u \in Users, CloseFault(c, u) PROVE MutexGoesOn
    <3>1. at[c] \in Servers /\ Enters(c) /\ at' = at
      BY <1>t, <2>3 DEF CloseFault, Idle, Free, Enters, connVars
    <3>2. /\ mutex' = [mutex EXCEPT ![at[c]] = c]
          /\ \A d \in Conns \ {c} : pc'[d] = pc[d]
          /\ pc'[c] = "faulted"
      BY <1>t, <2>3 DEF CloseFault, Start, Goto
    <3>3. QED
      BY <1>b, <3>1, <3>2
  <2>4. ASSUME NEW c \in Conns, NEW u \in Users, Login(c, u) PROVE MutexGoesOn
    BY <2>4, <1>t, <1>a DEF Login, Requests, Idle, Start, Goto, connVars
  <2>5. ASSUME NEW c \in Conns, NEW m \in Msgs, NEW recipients \in Seq(Users),
               ChatRequest(c, m, recipients)
        PROVE  MutexGoesOn
    BY <2>5, <1>t, <1>a DEF ChatRequest, Requests, Idle, Goto, connVars
  <2>6. ASSUME NEW s \in Servers, Crash(s) PROVE MutexGoesOn
    BY <2>6, <1>e DEF Crash
  <2>7. ASSUME \/ \E c \in Conns : Disconnect(c) \/ \E u \in Users : Register(c, u)
               \/ \E s \in Servers : SigInt(s) \/ Restart(s)
               \/ DbStops \/ DbAnswers
        PROVE  MutexGoesOn
    BY <2>7, <1>a DEF Disconnect, Register, SigInt, Restart, DbStops, DbAnswers,
                      connVars, handlerVars
  <2>8. QED
    BY <1>1, <2>1, <2>2, <2>3, <2>4, <2>5, <2>6, <2>7,
       RequestCases DEF Environment
<1>2. ASSUME NEW c \in Conns, Handler(c) PROVE MutexGoesOn
  <2>1. ASSUME LoginFetch(c) \/ LoginRemove(c) \/ LoginState(c) \/ LoginMap(c)
        PROVE  MutexGoesOn
    BY <2>1, <1>t, <1>a DEF LoginFetch, LoginRemove, LoginState, LoginMap, Advance, Goto,
                            connVars
  <2>2. ASSUME LoginSubscribe(c) PROVE MutexGoesOn
    BY <2>2, <1>t, <1>a DEF LoginSubscribe, Return, Start, Goto, connVars
  <2>3. ASSUME NEW u \in Users, RouteLocal(c, u) PROVE MutexGoesOn
    BY <2>3, <1>t, <1>d DEF RouteLocal, connVars
  <2>4. ASSUME NEW u \in Users, RouteRemote(c, u) PROVE MutexGoesOn
    <3>1. at[c] \in Servers /\ Enters(c) /\ at' = at
      BY <1>t, <2>4 DEF RouteRemote, connVars
    <3>2. /\ mutex' = [mutex EXCEPT ![at[c]] = c]
          /\ \A d \in Conns \ {c} : pc'[d] = pc[d]
          /\ pc'[c] \in {"store", "publish"}
      BY <1>t, <2>4 DEF RouteRemote, Start, Goto
    <3>3. QED
      BY <1>b, <3>1, <3>2
  <2>5. ASSUME Store(c) \/ PublishRemote(c) PROVE MutexGoesOn
    BY <2>5, <1>f, <1>d DEF Store, PublishRemote, connVars
  <2>6. ASSUME LogOutUnsubscribe(c) PROVE MutexGoesOn
    <3>1. /\ mutex' = [mutex EXCEPT ![at[c]] = NoConn]
          /\ \A d \in Conns \ {c} : pc'[d] = pc[d]
          /\ pc'[c] = "idle" /\ at' = at
      BY <1>t, <2>6 DEF LogOutUnsubscribe, Return, Start, Goto, connVars
    <3>2. QED
      BY <1>b, <1>f, <2>6, <3>1 DEF LogOutUnsubscribe
  <2>7. ASSUME CloseUnmapped(c) PROVE MutexGoesOn
    BY <2>7, <1>t, <1>g DEF CloseUnmapped, Idle, handlerVars
  <2>8. ASSUME NEW u \in Users, CloseMapped(c, u) PROVE MutexGoesOn
    BY <2>8, <1>t, <1>a DEF CloseMapped, Idle, Start, Goto, connVars
  <2>9. ASSUME CloseState(c) PROVE MutexGoesOn
    BY <2>9, <1>t, <1>g DEF CloseState, Return, Start, Goto
  <2>10. QED
    BY <1>2, <2>1, <2>2, <2>3, <2>4, <2>5, <2>6, <2>7, <2>8, <2>9 DEF Handler
<1>3. ASSUME NEW s \in Servers, Notify(s) \/ RedisExecute(s) \/ ResetStates(s)
      PROVE  MutexGoesOn
  BY <1>3, <1>a DEF Notify, NotifyLocal, NotifyStore, RedisExecute, ResetStates,
                    handlerVars, connVars
<1>4. ASSUME NEW s \in Servers, Exit(s) PROVE MutexGoesOn
  BY <1>4, <1>e DEF Exit
<1>5. CASE UNCHANGED vars
  BY <1>5, <1>a DEF vars, handlerVars, connVars
<1>6. QED
  BY <1>1, <1>2, <1>3, <1>4, <1>5 DEF Next

\* MutexDiscipline: a handler in its critical section has the mutex, so two
\* never are in it at once, and no handler outside has it.
THEOREM MutexCorrect == Spec => []MutexDiscipline
<1>1. Init => MutexDiscipline
  BY SentinelAssumption DEF Init, MutexDiscipline, Critical
<1>2. TypeOK /\ HandlerOK /\ MutexDiscipline /\ [Next]_vars => MutexDiscipline'
  BY MutexStep DEF MutexGoesOn
<1>3. SessionInv => TypeOK /\ HandlerOK
  BY DEF SessionInv
<1>4. QED
  BY <1>1, <1>2, <1>3, SessionInvariant, PTL DEF Spec

\* MutexKept: the handler that has the mutex has it until it returns or its
\* process ends, from the first recipient of a group chat to the last.
THEOREM MutexKeptCorrect == Spec => MutexKept
<1>1. TypeOK /\ HandlerOK /\ MutexDiscipline /\ [Next]_vars => [MutexStays]_vars
  BY MutexStep DEF MutexGoesOn
<1>2. [MutexStays]_vars => [\A s \in Servers, c \in Conns :
        mutex[s] = c => mutex'[s] = c \/ (mutex'[s] = NoConn /\ pc'[c] = "idle")]_vars
  BY DEF MutexStays
<1>3. SessionInv => TypeOK /\ HandlerOK
  BY DEF SessionInv
<1>4. QED
  BY <1>1, <1>2, <1>3, MutexCorrect, SessionInvariant, PTL DEF Spec, MutexKept

\* redis.cpp: _publishContext has no lock of its own.  No two handlers of a
\* server are ever both about to publish on it, because both would have the
\* mutex of the map; the receiving thread never publishes.
PublishContextAlone ==
  \A c, d \in Conns :
    pc[c] = "publish" /\ pc[d] = "publish" /\ at[c] = at[d] => c = d

\* PublishContextAlone: the mutex of the map protects Redis' connection too.
THEOREM PublishCorrect == Spec => []PublishContextAlone
<1>1. MutexDiscipline => PublishContextAlone
  BY DEF MutexDiscipline, PublishContextAlone, Critical
<1>2. QED
  BY <1>1, MutexCorrect, PTL
=============================================================================
