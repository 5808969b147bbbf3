---------------------------- MODULE SessionProofs ----------------------------
(***************************************************************************)
(* The sessions of a cluster whose servers may be killed, but in which     *)
(* nothing else fails and no user sends two logins at once: at most one    *)
(* per user, and t_user.state tells which users have one.  Both hypotheses *)
(* are needed: overlapping logins, a reset and a database that is down     *)
(* each lead to a second session.                                          *)
(***************************************************************************)
EXTENDS ChatServiceProofs, Counting

Serial == SerialLogins = TRUE /\ Faults \subseteq {"crash"}

\* The database answers, and a server runs or is gone.
Answering == dbUp = TRUE /\ \A s \in Servers : srv[s] \in {"up", "down"}

(***************************************************************************)
(* login reads the state, and writes it two database accesses later: in    *)
(* between nobody may become a session of that user.  It enters the map    *)
(* later still, and must find no entry there.                              *)
(***************************************************************************)
LoginAlone ==
  \A c, d \in Conns :
    pc[c] \in LoginSteps /\ pc[d] \in LoginSteps /\ job[c] = job[d] => c = d

EnteringUnheld ==
  \A c \in Conns, u \in Users :
    Entering(c, u) => /\ userState[u] = "offline"
                      /\ \A d \in Conns : ~Holds(d, u)

EntryFree ==
  \A c \in Conns, s \in Servers :
    pc[c] = "login_map" => userConnMap[s][job[c]] = NoConn

Agreement ==
  /\ OneSessionPerUser
  /\ StateMatchesSessions
  /\ LoginAlone
  /\ EnteringUnheld
  /\ EntryFree

SerialInv == SessionInv /\ Answering /\ Agreement

(***************************************************************************)
(* What a step does to the sessions: nothing, one more, or one less.       *)
(***************************************************************************)
SameSessions == \A d \in Conns, v \in Users : Holds(d, v)' <=> Holds(d, v)

OneMore(c, u) ==
  /\ \A d \in Conns : ~Holds(d, u)
  /\ \A v \in Users : ~Holds(c, v)
  /\ \A d \in Conns, v \in Users : Holds(d, v)' <=> Holds(d, v) \/ (d = c /\ v = u)

OneLess(u) ==
  /\ \E c \in Conns : Holds(c, u)
  /\ \A d \in Conns, v \in Users : Holds(d, v)' <=> Holds(d, v) /\ v # u

\* A failure ends sessions.
Fewer ==
  /\ faults \subseteq faults' /\ faults' # faults
  /\ \A d \in Conns, v \in Users : Holds(d, v)' => Holds(d, v)

SessionsStep ==
  \/ SameSessions /\ faults' = faults
  \/ \E c \in Conns, u \in Users : OneMore(c, u) /\ faults' = faults
  \/ \E u \in Users : OneLess(u) /\ faults' = faults
  \/ Fewer

\* What AgreementStep establishes of a step.
StepOK == Agreement' /\ SessionsStep

LEMMA AnsweringStep ==
  ASSUME Serial, TypeOK, Answering, [Next]_vars
  PROVE  Answering'
<1> USE DEF Serial, Answering
<1>1. CASE Environment
  <2>1. srv \in [Servers -> {"up", "signalled", "exiting", "down"}]
    BY DEF TypeOK
  <2>2. ASSUME NEW s \in Servers, Crash(s) \/ Restart(s) PROVE Answering'
    BY <2>1, <2>2 DEF Crash, EndProcess, Restart, dbVars
  <2>3. /\ \A s \in Servers : ~SigInt(s)
        /\ \A c \in Conns, u \in Users : ~CloseFault(c, u)
        /\ ~DbStops
    BY DEF SigInt, CloseFault, DbStops
  <2>4. QED
    BY <1>1, <2>2, <2>3 DEF Environment, Connect, Disconnect, LogOut, Register, UserInsert,
       Login, PrivateChat, GroupChat, ChatRequest, DbAnswers, SetDb, UpdateState, dbVars
<1>2. ASSUME NEW c \in Conns, Handler(c) PROVE Answering'
  BY <1>2 DEF Handler, LoginFetch, LoginRemove, LoginState, LoginMap, LoginSubscribe,
     RouteLocal, RouteRemote, Store, PublishRemote, LogOutUnsubscribe, CloseUnmapped,
     CloseState, CloseMapped, OfflineRemove, OfflineInsert, UpdateState, dbVars
<1>3. ASSUME NEW s \in Servers,
             Notify(s) \/ RedisExecute(s) \/ ResetStates(s) \/ Exit(s)
      PROVE  Answering'
  BY <1>3 DEF Notify, NotifyLocal, NotifyStore, OfflineInsert, RedisExecute,
     ResetStates, Exit, dbVars
<1>4. CASE UNCHANGED vars
  BY <1>4 DEF vars, dbVars
<1>5. QED
  BY <1>1, <1>2, <1>3, <1>4 DEF Next

\* The steps at which a handler is a session or on its way to be one.
Watched == LoginSteps \cup {"close_state"}

\* A step that changes neither states nor maps, and no handler's standing.
LEMMA Unwatched ==
  ASSUME TypeOK, Agreement, UNCHANGED <<userState, userConnMap, faults>>,
         \A c \in Conns :
           \/ pc'[c] = pc[c] /\ job'[c] = job[c]
           \/ pc'[c] \notin Watched /\ pc[c] \notin Watched \ {"login_sub"}
           \/ /\ pc[c] \in {"login_fetch", "login_remove"}
              /\ pc'[c] \in {"login_remove", "login_state"}
              /\ job'[c] = job[c]
  PROVE  StepOK
<1> USE DEF Watched, LoginSteps
<1>1. \A c \in Conns, u \in Users : Holds(c, u)' <=> Holds(c, u)
  BY DEF Holds
<1>2. \A c \in Conns, u \in Users : Entering(c, u)' => Entering(c, u)
  BY DEF Entering
<1>3. OneSessionPerUser' /\ StateMatchesSessions' /\ EnteringUnheld'
  BY <1>1, <1>2 DEF Agreement, OneSessionPerUser, StateMatchesSessions, EnteringUnheld
<1>4. LoginAlone'
  <2>1. \A c \in Conns : pc'[c] \in LoginSteps => pc[c] \in LoginSteps /\ job'[c] = job[c]
    OBVIOUS
  <2>2. QED
    BY <2>1 DEF Agreement, LoginAlone
<1>5. EntryFree'
  BY DEF Agreement, EntryFree
<1>6. QED
  BY <1>1, <1>3, <1>4, <1>5 DEF Agreement, StepOK, SessionsStep, SameSessions

LEMMA CalmStep ==
  ASSUME Serial, SerialInv, Next, faults' = faults
  PROVE  StepOK
<1> USE SentinelAssumption
<1>t. /\ at \in [Conns -> Servers \cup {NoServer}]
      /\ auth \in [Conns -> Users \cup {NoUser}]
      /\ pc \in [Conns -> Steps]
      /\ job \in [Conns -> Users \cup {NoUser}]
      /\ userConnMap \in [Servers -> [Users -> Conns \cup {NoConn}]]
      /\ userState \in [Users -> States]
  BY DEF SerialInv, SessionInv, TypeOK, DbTypeOK
<1>h. \A c \in Conns : /\ pc[c] # "idle" => at[c] \in Servers
                       /\ pc[c] \notin {"idle", "route"} => job[c] \in Users
  BY DEF SerialInv, SessionInv, HandlerOK
<1>m. \A s \in Servers, u \in Users, c \in Conns :
        userConnMap[s][u] = c => at[c] = s /\ auth[c] = u
  BY DEF SerialInv, SessionInv, MapMatchesSession
<1>s. \A c \in Conns :
        /\ pc[c] \in LoginSteps \ {"login_fetch"} => auth[c] = job[c]
        /\ pc[c] = "close_state" => \A s \in Servers, u \in Users : userConnMap[s][u] # c
  BY DEF SerialInv, SessionInv, SessionOK
<1>u. \A u \in Users : UserFound(u) <=> userState[u] # "absent"
  BY DEF SerialInv, Answering, UserFound
<1>i. TypeOK /\ Agreement
  BY DEF SerialInv, SessionInv
<1>q. /\ \A s \in Servers : srv[s] \in {"up", "down"}
      /\ dbUp = TRUE
      /\ Faults \subseteq {"crash"}
  BY DEF SerialInv, Answering, Serial
<1>a. OneSessionPerUser /\ StateMatchesSessions /\ LoginAlone /\ EnteringUnheld /\ EntryFree
  BY DEF SerialInv, Agreement
\* The steps that change a state, a map or a standing, one by one.
<1>1. ASSUME NEW c \in Conns, NEW u \in Users, Register(c, u) PROVE StepOK
  <2>1. /\ userState[u] = "absent"
        /\ userState' = [userState EXCEPT ![u] = "offline"]
        /\ UNCHANGED <<userConnMap, pc, job>>
    BY <1>1 DEF Register, UserInsert, handlerVars
  <2>2. \A d \in Conns, v \in Users : /\ Holds(d, v)' <=> Holds(d, v)
                                      /\ Entering(d, v)' <=> Entering(d, v)
    BY <2>1 DEF Holds, Entering
  <2>3. \A v \in Users : /\ userState'[v] = "online" <=> userState[v] = "online"
                         /\ userState[v] = "offline" => userState'[v] = "offline"
    BY <1>t, <2>1
  <2>4. QED
    BY <1>a, <2>1, <2>2, <2>3 DEF Agreement, OneSessionPerUser, StateMatchesSessions,
       LoginAlone, EnteringUnheld, EntryFree, StepOK, SessionsStep, SameSessions
<1>2. ASSUME NEW c \in Conns, NEW u \in Users, Login(c, u) PROVE StepOK
  <2>1. /\ pc[c] = "idle"
        /\ userState[u] = "offline"
        /\ pc' = [pc EXCEPT ![c] = "login_fetch"]
        /\ job' = [job EXCEPT ![c] = u]
        /\ UNCHANGED <<userConnMap, userState>>
        /\ \A d \in Conns : ~(pc[d] \in LoginSteps /\ job[d] = u)
    BY <1>2, <1>u DEF Login, Requests, Idle, Start, Goto, dbVars, UserState, LoggingIn, Serial
  <2>2. \A d \in Conns, v \in Users :
          /\ Holds(d, v)' <=> Holds(d, v)
          /\ Entering(d, v)' => (Entering(d, v) \/ (d = c /\ v = u))
    <3>1. \A d \in Conns, v \in Users : Holds(d, v)' <=> Holds(d, v)
      BY <1>t, <2>1 DEF Holds
    <3>2. \A d \in Conns, v \in Users : Entering(d, v)' => (Entering(d, v) \/ (d = c /\ v = u))
      <4>1. /\ job'[c] = u
            /\ \A d \in Conns \ {c} : pc'[d] = pc[d] /\ job'[d] = job[d]
        BY <1>t, <2>1
      <4>2. QED
        BY <4>1 DEF Entering
    <3>3. QED
      BY <3>1, <3>2
  <2>3. \A d \in Conns : ~Holds(d, u)
    BY <1>a, <2>1 DEF StateMatchesSessions
  <2>4. EnteringUnheld' /\ OneSessionPerUser' /\ StateMatchesSessions'
    BY <1>a, <2>1, <2>2, <2>3 DEF EnteringUnheld, OneSessionPerUser, StateMatchesSessions
  <2>5. LoginAlone' /\ EntryFree'
    BY <1>t, <1>a, <2>1 DEF LoginAlone, EntryFree, LoginSteps
  <2>6. QED
    BY <2>2, <2>4, <2>5 DEF Agreement, StepOK, SessionsStep, SameSessions
<1>3. ASSUME NEW c \in Conns, LoginState(c) PROVE StepOK
  <2> DEFINE u == job[c]
  <2>1. /\ u \in Users /\ Entering(c, u)
        /\ pc[c] = "login_state"
        /\ pc' = [pc EXCEPT ![c] = "login_map"]
        /\ UNCHANGED <<job, userConnMap>>
    BY <1>3, <1>h DEF LoginState, Advance, Goto, Entering
  <2>2. userState' = [userState EXCEPT ![u] = "online"]
    BY <1>3, <1>a, <1>u, <2>1 DEF LoginState, UpdateState, EnteringUnheld
  <2>3. \A d \in Conns : ~Holds(d, u)
    BY <1>a, <2>1 DEF EnteringUnheld
  <2>4. \A d \in Conns, v \in Users :
          /\ Holds(d, v)' <=> (Holds(d, v) \/ (d = c /\ v = u))
          /\ Entering(d, v)' => Entering(d, v) /\ v # u
    <3>1. \A d \in Conns, v \in Users : Holds(d, v)' <=> (Holds(d, v) \/ (d = c /\ v = u))
      <4>1. \A v \in Users : ~(pc[c] \in {"login_map", "close_state"} /\ job[c] = v)
        BY <2>1
      <4>2. \A v \in Users : (pc'[c] \in {"login_map", "close_state"} /\ job'[c] = v) <=> v = u
        BY <1>t, <2>1
      <4>3. \A d \in Conns \ {c} : pc'[d] = pc[d] /\ job'[d] = job[d]
        BY <1>t, <2>1
      <4> HIDE DEF u
      <4>4. \A v \in Users : Holds(c, v)' <=> (Holds(c, v) \/ v = u)
        BY <2>1, <4>1, <4>2 DEF Holds
      <4>5. \A d \in Conns \ {c}, v \in Users : Holds(d, v)' <=> Holds(d, v)
        BY <2>1, <4>3 DEF Holds
      <4>6. QED
        BY <4>4, <4>5
    <3>2. \A d \in Conns, v \in Users : Entering(d, v)' => Entering(d, v) /\ v # u
      BY <1>t, <1>a, <2>1 DEF Entering, LoginAlone, LoginSteps
    <3>3. QED
      BY <3>1, <3>2
  <2>5. \A v \in Users : userState'[v] = IF v = u THEN "online" ELSE userState[v]
    BY <1>t, <2>1, <2>2
  <2> HIDE DEF u
  <2>6. OneSessionPerUser' /\ StateMatchesSessions' /\ EnteringUnheld'
    <3>1. OneSessionPerUser'
      BY <1>a, <2>3, <2>4 DEF OneSessionPerUser
    <3>2. StateMatchesSessions'
      <4>1. \A v \in Users : (\E d \in Conns : Holds(d, v)') <=> (v = u \/ \E d \in Conns : Holds(d, v))
        BY <2>4
      <4>2. \A v \in Users : userState'[v] = "online" <=> (v = u \/ userState[v] = "online")
        BY <2>5
      <4>3. QED
        BY <1>a, <4>1, <4>2 DEF StateMatchesSessions
    <3>3. EnteringUnheld'
      BY <1>a, <2>1, <2>3, <2>4, <2>5 DEF EnteringUnheld
    <3>4. QED
      BY <3>1, <3>2, <3>3
  <2>7. LoginAlone'
    BY <1>t, <1>a, <2>1 DEF LoginAlone, LoginSteps
  <2>8. EntryFree'
    <3>1. \A s \in Servers : userConnMap[s][u] = NoConn
      BY <1>t, <2>1, <2>3 DEF Holds
    <3>2. QED
      BY <1>t, <1>a, <2>1, <3>1 DEF EntryFree, u
  <2>9. OneMore(c, u)
    <3>1. \A v \in Users : Holds(c, v) => v = u
      BY <1>m, <1>s, <2>1 DEF Holds, LoginSteps, u
    <3>2. QED
      BY <2>1, <2>3, <2>4, <3>1 DEF OneMore
  <2>10. QED
    BY <2>1, <2>6, <2>7, <2>8, <2>9 DEF Agreement, StepOK, SessionsStep
<1>4. ASSUME NEW c \in Conns, LoginMap(c) PROVE StepOK
  <2> DEFINE u == job[c]
  <2>1. /\ u \in Users /\ at[c] \in Servers
        /\ pc[c] = "login_map"
        /\ pc' = [pc EXCEPT ![c] = "login_sub"]
        /\ UNCHANGED <<job, userState>>
    BY <1>4, <1>h DEF LoginMap, Advance, Goto, dbVars
  <2>2. userConnMap' = [userConnMap EXCEPT ![at[c]][u] = c]
    BY <1>4, <1>a, <2>1 DEF LoginMap, EntryFree
  <2>3. \A s \in Servers : userConnMap[s][u] = NoConn
    BY <1>a, <2>1 DEF EntryFree
  <2>4. \A d \in Conns, v \in Users : Holds(d, v)' <=> Holds(d, v)
    BY <1>t, <2>1, <2>2, <2>3 DEF Holds
  <2>5. \A d \in Conns, v \in Users : Entering(d, v)' <=> Entering(d, v)
    BY <1>t, <2>1 DEF Entering
  <2>6. OneSessionPerUser' /\ StateMatchesSessions' /\ EnteringUnheld'
    BY <1>a, <2>1, <2>4, <2>5 DEF OneSessionPerUser, StateMatchesSessions, EnteringUnheld
  <2>7. LoginAlone'
    BY <1>t, <1>a, <2>1 DEF LoginAlone, LoginSteps
  <2>8. EntryFree'
    <3>1. \A d \in Conns : pc'[d] = "login_map" => job[d] # u /\ pc[d] = "login_map"
      BY <1>t, <1>a, <2>1 DEF LoginAlone, LoginSteps
    <3>2. \A s \in Servers, v \in Users \ {u} : userConnMap'[s][v] = userConnMap[s][v]
      BY <1>t, <2>1, <2>2
    <3>3. QED
      BY <1>a, <1>h, <2>1, <3>1, <3>2 DEF EntryFree
  <2>9. QED
    BY <2>4, <2>6, <2>7, <2>8 DEF Agreement, StepOK, SessionsStep, SameSessions
<1>5. ASSUME NEW c \in Conns, LogOut(c) PROVE StepOK
  <2> DEFINE u == auth[c]
             s == at[c]
             d == userConnMap[s][u]
  <2>1. /\ u \in Users /\ s \in Servers
        /\ pc[c] = "idle"
        /\ userConnMap[s][u] \in Conns \cup {NoConn}
    BY <1>5, <1>t DEF LogOut, Requests, Idle
  <2>2. CASE d = NoConn
    <3>1. UNCHANGED <<userState, userConnMap, pc, job>>
      BY <1>5, <2>2 DEF LogOut, dbVars, handlerVars
    <3>2. QED
      BY <1>i, <3>1, Unwatched
  <2>3. CASE d # NoConn
    <3>1. /\ userConnMap' = [userConnMap EXCEPT ![s][u] = NoConn]
          /\ pc' = [pc EXCEPT ![c] = "logout_unsub"]
          /\ job' = [job EXCEPT ![c] = u]
          /\ UpdateState(u, "offline")
      BY <1>5, <2>3 DEF LogOut, Start, Goto
    <3>2. d \in Conns /\ Holds(d, u)
      BY <2>1, <2>3 DEF Holds
    <3>3. userState[u] = "online"
      BY <1>a, <2>1, <3>2 DEF StateMatchesSessions
    <3>4. userState' = [userState EXCEPT ![u] = "offline"]
      BY <1>u, <2>1, <3>1, <3>3 DEF UpdateState
    <3>5. \A e \in Conns : Holds(e, u) => e = d
      BY <1>a, <2>1, <3>2 DEF OneSessionPerUser
    <3>6. \A v \in Servers : userConnMap'[v][u] = NoConn
      <4>1. \A v \in Servers : userConnMap[v][u] # NoConn => v = s
        BY <1>t, <1>m, <2>1, <3>5 DEF Holds
      <4>2. QED
        BY <1>t, <2>1, <3>1, <4>1
    <3>7. ~(pc[d] \in {"login_map", "close_state"} /\ job[d] = u)
      BY <1>a, <1>s, <2>1, <2>3, <3>2 DEF EntryFree
    <3>8. \A e \in Conns, v \in Users :
            /\ Holds(e, v)' <=> Holds(e, v) /\ v # u
            /\ Entering(e, v)' <=> Entering(e, v)
      <4>1. \A e \in Conns, v \in Users : Entering(e, v)' <=> Entering(e, v)
        BY <1>t, <2>1, <3>1 DEF Entering
      <4>2. \A e \in Conns, v \in Users : v = u => ~Holds(e, v)'
        <5>1. \A e \in Conns : ~(pc[e] \in {"login_map", "close_state"} /\ job[e] = u)
          BY <3>5, <3>7 DEF Holds
        <5>2. \A e \in Conns : ~(pc'[e] \in {"login_map", "close_state"} /\ job'[e] = u)
          BY <1>t, <3>1, <5>1
        <5> HIDE DEF u
        <5>3. QED
          BY <3>6, <5>2 DEF Holds
      <4>3. \A e \in Conns, v \in Users \ {u} : Holds(e, v)' <=> Holds(e, v)
        BY <1>t, <2>1, <3>1 DEF Holds
      <4> HIDE DEF u
      <4>4. QED
        BY <4>1, <4>2, <4>3
    <3>9. \A v \in Users : userState'[v] = IF v = u THEN "offline" ELSE userState[v]
      BY <1>t, <2>1, <3>4
    <3> HIDE DEF u, s, d
    <3>10. OneSessionPerUser' /\ StateMatchesSessions' /\ EnteringUnheld'
      BY <1>a, <2>1, <3>8, <3>9 DEF OneSessionPerUser, StateMatchesSessions, EnteringUnheld
    <3>11. LoginAlone' /\ EntryFree'
      BY <1>t, <1>a, <1>h, <2>1, <3>1 DEF LoginAlone, EntryFree, LoginSteps
    <3>12. OneLess(u)
      BY <3>2, <3>8 DEF OneLess
    <3>13. QED
      BY <2>1, <3>10, <3>11, <3>12 DEF Agreement, StepOK, SessionsStep
  <2>4. QED
    BY <2>2, <2>3
<1>6. ASSUME NEW c \in Conns, NEW u \in Users, CloseMapped(c, u) PROVE StepOK
  <2>1. /\ at[c] \in Servers
        /\ pc[c] = "idle"
        /\ userConnMap[at[c]][u] = c
        /\ userConnMap' = [userConnMap EXCEPT ![at[c]][u] = NoConn]
        /\ pc' = [pc EXCEPT ![c] = "close_state"]
        /\ job' = [job EXCEPT ![c] = u]
        /\ UNCHANGED userState
    BY <1>6, <1>t DEF CloseMapped, Idle, Start, Goto, dbVars
  <2>2. \A d \in Conns, v \in Users : /\ Holds(d, v)' <=> Holds(d, v)
                                      /\ Entering(d, v)' <=> Entering(d, v)
    <3>1. \A d \in Conns, v \in Users : Entering(d, v)' <=> Entering(d, v)
      BY <1>t, <2>1 DEF Entering
    <3>2. \A v \in Users : Holds(c, v)' <=> Holds(c, v)
      BY <1>t, <1>m, <2>1 DEF Holds
    <3>3. \A d \in Conns \ {c}, v \in Users : Holds(d, v)' <=> Holds(d, v)
      BY <1>t, <2>1 DEF Holds
    <3>4. QED
      BY <3>1, <3>2, <3>3
  <2>3. OneSessionPerUser' /\ StateMatchesSessions' /\ EnteringUnheld'
    BY <1>a, <2>1, <2>2 DEF OneSessionPerUser, StateMatchesSessions, EnteringUnheld
  <2>4. LoginAlone' /\ EntryFree'
    BY <1>t, <1>a, <1>h, <2>1 DEF LoginAlone, EntryFree, LoginSteps
  <2>5. QED
    BY <2>2, <2>3, <2>4 DEF Agreement, StepOK, SessionsStep, SameSessions
<1>7. ASSUME NEW c \in Conns, CloseState(c) PROVE StepOK
  <2> DEFINE u == job[c]
  <2>1. /\ u \in Users
        /\ pc[c] = "close_state"
        /\ pc' = [pc EXCEPT ![c] = "idle"]
        /\ job' = [job EXCEPT ![c] = NoUser]
        /\ UpdateState(u, "offline")
        /\ UNCHANGED userConnMap
    BY <1>7, <1>h DEF CloseState, Return, Start, Goto
  <2>2. Holds(c, u)
    BY <2>1 DEF Holds
  <2>3. userState[u] = "online"
    BY <1>a, <2>1, <2>2 DEF StateMatchesSessions
  <2>4. userState' = [userState EXCEPT ![u] = "offline"]
    BY <1>u, <2>1, <2>3 DEF UpdateState
  <2>5. \A d \in Conns : Holds(d, u) => d = c
    BY <1>a, <2>1, <2>2 DEF OneSessionPerUser
  <2>6. \A d \in Conns, v \in Users : /\ Holds(d, v)' <=> Holds(d, v) /\ v # u
                                      /\ Entering(d, v)' <=> Entering(d, v)
    <3>1. \A d \in Conns, v \in Users : Entering(d, v)' <=> Entering(d, v)
      BY <1>t, <2>1 DEF Entering
    <3>2. \A v \in Users : ~Holds(c, v)' /\ (Holds(c, v) => v = u)
      BY <1>t, <1>s, <2>1 DEF Holds
    <3>3. \A d \in Conns \ {c}, v \in Users : Holds(d, v)' <=> Holds(d, v)
      BY <1>t, <2>1 DEF Holds
    <3>4. QED
      BY <2>5, <3>1, <3>2, <3>3
  <2>7. \A v \in Users : userState'[v] = IF v = u THEN "offline" ELSE userState[v]
    BY <1>t, <2>1, <2>4
  <2> HIDE DEF u
  <2>8. OneSessionPerUser' /\ StateMatchesSessions' /\ EnteringUnheld'
    BY <1>a, <2>1, <2>6, <2>7 DEF OneSessionPerUser, StateMatchesSessions, EnteringUnheld
  <2>9. LoginAlone' /\ EntryFree'
    BY <1>t, <1>a, <2>1 DEF LoginAlone, EntryFree, LoginSteps
  <2>10. OneLess(u)
    BY <2>2, <2>6 DEF OneLess
  <2>11. QED
    BY <2>1, <2>8, <2>9, <2>10 DEF Agreement, StepOK, SessionsStep
\* All others leave every standing as it is.
<1>8. CASE Environment
  <2>1. ASSUME NEW c \in Conns, NEW m \in Msgs, NEW recipients \in Seq(Users),
               ChatRequest(c, m, recipients)
        PROVE  StepOK
    BY <1>i, <1>t, <2>1, Unwatched
       DEF ChatRequest, Requests, Idle, Goto, dbVars, Watched, LoginSteps
  <2>2. ASSUME \E c \in Conns : Disconnect(c) \/ \E s \in Servers : Connect(c, s)
        PROVE  StepOK
    BY <1>i, <2>2, Unwatched DEF Disconnect, Connect, dbVars, handlerVars
  <2>3. ASSUME NEW s \in Servers, Restart(s) PROVE StepOK
    BY <1>i, <2>3, Unwatched DEF Restart, dbVars, handlerVars
  <2>4. /\ \A s \in Servers : ~(SigInt(s) \/ Crash(s))
        /\ \A c \in Conns, u \in Users : ~CloseFault(c, u)
        /\ ~DbStops
        /\ ~DbAnswers
    BY <1>q DEF SigInt, Crash, CloseFault, DbStops, DbAnswers, SetDb
  <2>5. QED
    BY <1>1, <1>2, <1>5, <1>8, <2>1, <2>2, <2>3, <2>4, RequestCases DEF Environment
<1>9. ASSUME NEW c \in Conns, Handler(c) PROVE StepOK
  <2> USE <1>i, <1>t, Unwatched DEF Watched, LoginSteps, dbVars
  <2>1. ASSUME LoginFetch(c) \/ LoginRemove(c) PROVE StepOK
    BY <2>1 DEF LoginFetch, LoginRemove, OfflineRemove, Advance, Goto
  <2>2. ASSUME LoginSubscribe(c) \/ LogOutUnsubscribe(c) PROVE StepOK
    BY <2>2 DEF LoginSubscribe, LogOutUnsubscribe, Return, Start, Goto
  <2>3. ASSUME NEW u \in Users, RouteLocal(c, u) PROVE StepOK
    BY <2>3 DEF RouteLocal, DoneWith, Goto
  <2>4. ASSUME NEW u \in Users, RouteRemote(c, u) PROVE StepOK
    BY <2>4 DEF RouteRemote, Start, Goto
  <2>5. ASSUME Store(c) \/ PublishRemote(c) PROVE StepOK
    BY <2>5 DEF Store, PublishRemote, OfflineInsert, DoneWith, Goto
  <2>6. ASSUME CloseUnmapped(c) PROVE StepOK
    BY <2>6 DEF CloseUnmapped, handlerVars
  <2>7. QED
    BY <1>3, <1>4, <1>6, <1>7, <1>9, <2>1, <2>2, <2>3, <2>4, <2>5, <2>6 DEF Handler
<1>10. ASSUME NEW s \in Servers,
              Notify(s) \/ RedisExecute(s) \/ ResetStates(s) \/ Exit(s)
       PROVE  StepOK
  BY <1>i, <1>q, <1>10, Unwatched DEF Notify, NotifyLocal, NotifyStore, OfflineInsert,
     RedisExecute, ResetStates, Exit, dbVars, handlerVars
<1>11. QED
  BY <1>8, <1>9, <1>10 DEF Next

\* A server that is killed takes its sessions with it and leaves the others alone.
LEMMA CrashStep ==
  ASSUME SerialInv, NEW s \in Servers, Crash(s)
  PROVE  StepOK
<1> USE SentinelAssumption
<1>t. /\ at \in [Conns -> Servers \cup {NoServer}]
      /\ pc \in [Conns -> Steps]
      /\ job \in [Conns -> Users \cup {NoUser}]
      /\ userConnMap \in [Servers -> [Users -> Conns \cup {NoConn}]]
  BY DEF SerialInv, SessionInv, TypeOK
<1>m. \A r \in Servers, u \in Users, c \in Conns : userConnMap[r][u] = c => at[c] = r
  BY DEF SerialInv, SessionInv, MapMatchesSession
<1>a. OneSessionPerUser /\ StateMatchesSessions /\ LoginAlone /\ EnteringUnheld /\ EntryFree
  BY DEF SerialInv, Agreement
<1>1. /\ userState' = userState
      /\ faults \subseteq faults' /\ faults' # faults /\ faults' # {}
      /\ \A c \in Conns : at[c] = s => pc'[c] = "idle" /\ job'[c] = NoUser
      /\ \A c \in Conns : at[c] # s => pc'[c] = pc[c] /\ job'[c] = job[c]
      /\ \A r \in Servers, u \in Users :
           userConnMap'[r][u] = IF r = s THEN NoConn ELSE userConnMap[r][u]
  BY <1>t DEF Crash, EndProcess, dbVars
<1>2. \A c \in Conns, u \in Users : Holds(c, u)' => Holds(c, u)
  BY <1>1 DEF Holds
<1>3. \A c \in Conns, u \in Users : Entering(c, u)' => Entering(c, u)
  BY <1>1 DEF Entering
<1>4. OneSessionPerUser' /\ StateMatchesSessions' /\ EnteringUnheld'
  BY <1>a, <1>1, <1>2, <1>3 DEF OneSessionPerUser, StateMatchesSessions, EnteringUnheld
<1>5. LoginAlone'
  <2>1. \A c \in Conns : pc'[c] \in LoginSteps => pc[c] \in LoginSteps /\ job'[c] = job[c]
    BY <1>1 DEF LoginSteps
  <2>2. QED
    BY <1>a, <2>1 DEF LoginAlone
<1>6. EntryFree'
  <2>1. \A c \in Conns : pc'[c] = "login_map" => pc[c] = "login_map" /\ job'[c] = job[c]
    BY <1>1
  <2>2. \A c \in Conns : pc[c] = "login_map" => job[c] \in Users
    BY DEF SerialInv, SessionInv, HandlerOK
  <2>3. QED
    BY <1>a, <1>1, <2>1, <2>2 DEF EntryFree
<1>7. QED
  BY <1>1, <1>2, <1>4, <1>5, <1>6 DEF Agreement, StepOK, SessionsStep, Fewer

\* Nothing but a server that is killed is a failure.
LEMMA FaultCases ==
  ASSUME Serial, SerialInv, [Next]_vars
  PROVE  faults' = faults \/ \E s \in Servers : Crash(s)
<1>1. \A s \in Servers : srv[s] \in {"up", "down"}
  BY DEF SerialInv, Answering
<1>2. Faults \subseteq {"crash"}
  BY DEF Serial
<1>3. CASE Environment
  BY <1>2, <1>3 DEF Environment, Connect, Disconnect, LogOut, Register, Login, CloseFault,
     PrivateChat, GroupChat, ChatRequest, SigInt, Restart, DbStops, DbAnswers, boundVars
<1>4. ASSUME NEW c \in Conns, Handler(c) PROVE faults' = faults
  BY <1>4 DEF Handler, LoginFetch, LoginRemove, LoginState, LoginMap, LoginSubscribe,
     RouteLocal, RouteRemote, Store, PublishRemote, LogOutUnsubscribe, CloseUnmapped,
     CloseState, CloseMapped, boundVars
<1>5. ASSUME NEW s \in Servers,
             Notify(s) \/ RedisExecute(s) \/ ResetStates(s) \/ Exit(s)
      PROVE  faults' = faults
  BY <1>5 DEF Notify, NotifyLocal, NotifyStore, RedisExecute, ResetStates, Exit, boundVars
<1>6. CASE UNCHANGED vars
  BY <1>6 DEF vars, boundVars
<1>7. QED
  BY <1>3, <1>4, <1>5, <1>6 DEF Next

LEMMA AgreementStep ==
  ASSUME Serial, SerialInv, [Next]_vars
  PROVE  StepOK
<1>1. CASE faults' = faults
  <2>1. CASE Next
    BY <1>1, <2>1, CalmStep
  <2>2. CASE UNCHANGED vars
    BY <2>2, Unwatched DEF SerialInv, SessionInv, vars, dbVars, handlerVars, boundVars
  <2>3. QED
    BY <2>1, <2>2
<1>2. CASE \E s \in Servers : Crash(s)
  BY <1>2, CrashStep
<1>3. QED
  BY <1>1, <1>2, FaultCases

LEMMA SerialInvariant == Serial => (Spec => []SerialInv)
<1> SUFFICES ASSUME Serial PROVE Spec => []SerialInv
  OBVIOUS
<1>1. Init => Answering /\ Agreement
  BY SentinelAssumption DEF Init, DbInit, Answering, Agreement, OneSessionPerUser,
     StateMatchesSessions, LoginAlone, EnteringUnheld, EntryFree, Holds, Entering, LoginSteps
<1>2. SerialInv /\ [Next]_vars /\ SessionInv' => SerialInv'
  <2> SUFFICES ASSUME SerialInv, [Next]_vars, SessionInv' PROVE SerialInv'
    OBVIOUS
  <2>1. Answering'
    BY AnsweringStep DEF SerialInv, SessionInv
  <2>2. Agreement'
    BY AgreementStep DEF StepOK
  <2>3. QED
    BY <2>1, <2>2 DEF SerialInv
<1>3. SessionInv /\ Answering /\ Agreement => SerialInv
  BY DEF SerialInv
<1>4. QED
  BY <1>1, <1>2, <1>3, SessionInvariant, PTL DEF Spec

\* OneSessionPerUser: no two connections of the cluster are sessions of the
\* same user.
THEOREM OneSessionCorrect == Serial => (Spec => []OneSessionPerUser)
<1> SUFFICES ASSUME Serial PROVE Spec => []OneSessionPerUser
  OBVIOUS
<1>1. SerialInv => OneSessionPerUser
  BY DEF SerialInv, Agreement
<1>2. QED
  BY <1>1, SerialInvariant, PTL

\* StateMatchesSessions: t_user.state is online for the users that have a
\* session somewhere in the cluster, and for no others until a server is killed.
THEOREM StateCorrect == Serial => (Spec => []StateMatchesSessions)
<1> SUFFICES ASSUME Serial PROVE Spec => []StateMatchesSessions
  OBVIOUS
<1>1. SerialInv => StateMatchesSessions
  BY DEF SerialInv, Agreement
<1>2. QED
  BY <1>1, SerialInvariant, PTL
-----------------------------------------------------------------------------
\* The sessions are those of the abstract register.

HolderOf ==
  \A u \in Users :
    /\ \A c \in Conns : SessionOf(u) = c <=> Holds(c, u)
    /\ SessionOf(u) = NoConn <=> \A c \in Conns : ~Holds(c, u)

LEMMA SessionOfHolder == OneSessionPerUser => HolderOf
<1> SUFFICES ASSUME OneSessionPerUser, NEW u \in Users
             PROVE  /\ \A c \in Conns : SessionOf(u) = c <=> Holds(c, u)
                    /\ SessionOf(u) = NoConn <=> \A c \in Conns : ~Holds(c, u)
  BY DEF HolderOf
<1>1. CASE \E c \in Conns : Holds(c, u)
  <2>1. SessionOf(u) \in Conns /\ Holds(SessionOf(u), u)
    BY <1>1 DEF SessionOf
  <2>2. QED
    BY <2>1, SentinelAssumption DEF OneSessionPerUser
<1>2. CASE \A c \in Conns : ~Holds(c, u)
  BY <1>2, SentinelAssumption DEF SessionOf
<1>3. QED
  BY <1>1, <1>2

\* The sessions of the abstract register.
RegisterState == <<[u \in Users |-> SessionOf(u)], faults>>

LEMMA RegisterStep ==
  ASSUME HolderOf, HolderOf', SessionsStep
  PROVE  [Sessions!RegisterNext]_RegisterState
<1>1. CASE SameSessions /\ faults' = faults
  <2>1. \A u \in Users : SessionOf(u)' = SessionOf(u)
    <3> SUFFICES ASSUME NEW u \in Users PROVE SessionOf(u)' = SessionOf(u)
      OBVIOUS
    <3>1. CASE \E c \in Conns : Holds(c, u)
      BY <1>1, <3>1 DEF SameSessions, HolderOf
    <3>2. CASE \A c \in Conns : ~Holds(c, u)
      BY <1>1, <3>2 DEF SameSessions, HolderOf
    <3>3. QED
      BY <3>1, <3>2
  <2>2. QED
    BY <1>1, <2>1 DEF RegisterState
<1>2. ASSUME NEW c \in Conns, NEW u \in Users, OneMore(c, u), faults' = faults
      PROVE  Sessions!RegisterNext
  <2>1. /\ SessionOf(u) = NoConn
        /\ SessionOf(u)' = c
        /\ \A v \in Users : SessionOf(v) # c
    BY <1>2 DEF OneMore, HolderOf
  <2>2. \A v \in Users \ {u} : SessionOf(v)' = SessionOf(v)
    <3> SUFFICES ASSUME NEW v \in Users \ {u} PROVE SessionOf(v)' = SessionOf(v)
      OBVIOUS
    <3>1. CASE \E d \in Conns : Holds(d, v)
      BY <1>2, <3>1 DEF OneMore, HolderOf
    <3>2. CASE \A d \in Conns : ~Holds(d, v)
      BY <1>2, <3>2 DEF OneMore, HolderOf
    <3>3. QED
      BY <3>1, <3>2
  <2>3. Sessions!SignIn(u, c)
    BY <1>2, <2>1, <2>2 DEF Sessions!SignIn
  <2>4. QED
    BY <2>3 DEF Sessions!RegisterNext
<1>3. ASSUME NEW u \in Users, OneLess(u), faults' = faults
      PROVE  Sessions!RegisterNext
  <2>1. SessionOf(u) # NoConn /\ SessionOf(u)' = NoConn
    BY <1>3 DEF OneLess, HolderOf
  <2>2. \A v \in Users \ {u} : SessionOf(v)' = SessionOf(v)
    <3> SUFFICES ASSUME NEW v \in Users \ {u} PROVE SessionOf(v)' = SessionOf(v)
      OBVIOUS
    <3>1. CASE \E d \in Conns : Holds(d, v)
      BY <1>3, <3>1 DEF OneLess, HolderOf
    <3>2. CASE \A d \in Conns : ~Holds(d, v)
      BY <1>3, <3>2 DEF OneLess, HolderOf
    <3>3. QED
      BY <3>1, <3>2
  <2>3. Sessions!SignOff(u)
    <3>1. \A v \in Users : SessionOf(v)' = IF v = u THEN NoConn ELSE SessionOf(v)
      BY <2>1, <2>2
    <3>2. QED
      BY <1>3, <2>1, <3>1, Zenon DEF Sessions!SignOff
  <2>4. QED
    BY <2>3 DEF Sessions!RegisterNext
<1>4. CASE Fewer
  <2> DEFINE lost == {u \in Users : SessionOf(u)' = NoConn}
  <2>1. \A u \in Users : SessionOf(u)' = IF u \in lost THEN NoConn ELSE SessionOf(u)
    <3> SUFFICES ASSUME NEW u \in Users, SessionOf(u)' # NoConn
                 PROVE  SessionOf(u)' = SessionOf(u)
      OBVIOUS
    <3>1. PICK c \in Conns : Holds(c, u)'
      BY DEF HolderOf
    <3>2. Holds(c, u)
      BY <1>4, <3>1 DEF Fewer
    <3>3. QED
      BY <3>1, <3>2 DEF HolderOf
  <2>2. Sessions!Fail(lost)
    <3>1. [u \in Users |-> SessionOf(u)]' = [u \in Users |-> IF u \in lost THEN NoConn ELSE SessionOf(u)]
      BY <2>1
    <3>2. QED
      BY <1>4, <3>1 DEF Fewer, Sessions!Fail
  <2>3. QED
    BY <2>2 DEF Sessions!RegisterNext
<1>5. QED
  BY <1>1, <1>2, <1>3, <1>4 DEF SessionsStep

\* KeepsRegister: seen through its sessions the cluster is the abstract
\* register, in which a step signs one user in on an unused connection, signs
\* one user off, ends sessions by a failure, or does nothing.
THEOREM RegisterCorrect == Serial => (Spec => KeepsRegister)
<1> SUFFICES ASSUME Serial PROVE Spec => KeepsRegister
  OBVIOUS
<1>1. Init => Sessions!RegisterInit
  <2>1. Init => \A u \in Users, c \in Conns : ~Holds(c, u)
    BY SentinelAssumption DEF Init, Holds
  <2>2. QED
    BY <2>1 DEF Init, Sessions!RegisterInit, SessionOf
<1>2. SerialInv /\ [Next]_vars => SessionsStep
  BY AgreementStep DEF StepOK
<1>3. SerialInv => HolderOf
  BY SessionOfHolder DEF SerialInv, Agreement
<1>4. HolderOf /\ HolderOf' /\ SessionsStep => [Sessions!RegisterNext]_RegisterState
  BY RegisterStep
<1>5. QED
  BY <1>1, <1>2, <1>3, <1>4, SerialInvariant, PTL
     DEF Spec, KeepsRegister, Sessions!RegisterSpec, Sessions!registerVars, RegisterState

-----------------------------------------------------------------------------
(***************************************************************************)
(* The subscriptions of a server follow its map, under the same            *)
(* hypotheses.                                                             *)
(***************************************************************************)

\* What a queue of commands makes of a channel that is subscribed or not

Finally(queue, subscribed, u) ==
  LET mine == {i \in 1..Len(queue) : queue[i].user = u}
  IN IF mine = {}
       THEN subscribed
       ELSE queue[CHOOSE i \in mine : \A j \in mine : j <= i].op = "SUBSCRIBE"

\* The last command for the channel decides, if there is one.
LEMMA FinallyLast ==
  ASSUME NEW queue \in Seq(Command), NEW subscribed \in BOOLEAN, NEW u
  PROVE  /\ (\A i \in 1..Len(queue) : queue[i].user # u)
              => (Finally(queue, subscribed, u) <=> subscribed)
         /\ \A i \in 1..Len(queue) :
              queue[i].user = u /\ (\A j \in 1..Len(queue) : j > i => queue[j].user # u)
                => (Finally(queue, subscribed, u) <=> queue[i].op = "SUBSCRIBE")
<1> DEFINE mine == {i \in 1..Len(queue) : queue[i].user = u}
<1>1. CASE mine = {}
  BY <1>1 DEF Finally
<1>2. CASE mine # {}
  <2> DEFINE last == CHOOSE i \in mine : \A j \in mine : j <= i
  <2>1. Finally(queue, subscribed, u) <=> queue[last].op = "SUBSCRIBE"
    BY <1>2 DEF Finally
  <2>2. Len(queue) \in Nat /\ mine \in SUBSET (1..Len(queue))
    OBVIOUS
  <2>3. \E i \in mine : \A j \in mine : j <= i
    BY <1>2, <2>2, LastPosition
  <2>4. last \in mine /\ \A j \in mine : j <= last
    BY <2>3
  <2> HIDE DEF last
  <2>5. ASSUME NEW i \in 1..Len(queue), queue[i].user = u,
               \A j \in 1..Len(queue) : j > i => queue[j].user # u
        PROVE  i = last
    BY <2>2, <2>4, <2>5
  <2>6. ~(\A i \in 1..Len(queue) : queue[i].user # u)
    BY <1>2
  <2>7. QED
    BY <2>1, <2>5, <2>6
<1>3. QED
  BY <1>1, <1>2

\* With a command for the channel there is a last one.
LEMMA FinallyExists ==
  ASSUME NEW queue \in Seq(Command), NEW u, NEW k \in 1..Len(queue), queue[k].user = u
  PROVE  \E i \in 1..Len(queue) :
           queue[i].user = u /\ \A j \in 1..Len(queue) : j > i => queue[j].user # u
<1> DEFINE mine == {i \in 1..Len(queue) : queue[i].user = u}
<1>1. Len(queue) \in Nat /\ mine \in SUBSET (1..Len(queue)) /\ mine # {}
  OBVIOUS
<1>2. PICK i \in mine : \A j \in mine : j <= i
  <2> HIDE DEF mine
  <2>1. QED
    BY <1>1, LastPosition
<1>3. QED
  BY <1>1, <1>2

\* A command is written.
LEMMA FinallyAppend ==
  ASSUME NEW queue \in Seq(Command), NEW subscribed \in BOOLEAN, NEW u,
         NEW command \in Command
  PROVE  Finally(Append(queue, command), subscribed, u)
           <=> IF command.user = u THEN command.op = "SUBSCRIBE"
                                   ELSE Finally(queue, subscribed, u)
<1> DEFINE longer == Append(queue, command)
           n == Len(queue)
<1>1. /\ longer \in Seq(Command)
      /\ n \in Nat /\ Len(longer) = n + 1
      /\ longer[n + 1] = command
      /\ \A i \in 1..n : longer[i] = queue[i]
  OBVIOUS
<1> HIDE DEF longer, n
<1>2. CASE command.user = u
  <2>1. /\ n + 1 \in 1..Len(longer)
        /\ longer[n + 1].user = u
        /\ \A j \in 1..Len(longer) : ~(j > n + 1)
    BY <1>1, <1>2
  <2>2. Finally(longer, subscribed, u) <=> longer[n + 1].op = "SUBSCRIBE"
    BY <1>1, <2>1, FinallyLast
  <2>3. QED
    BY <1>1, <1>2, <2>2 DEF longer
<1>3. CASE command.user # u
  <2>1. CASE \A i \in 1..n : queue[i].user # u
    <3>1. \A i \in 1..Len(longer) : longer[i].user # u
      BY <1>1, <1>3, <2>1
    <3>2. QED
      <4>1. Finally(longer, subscribed, u) <=> subscribed
        BY <1>1, <3>1, FinallyLast
      <4>2. Finally(queue, subscribed, u) <=> subscribed
        BY <2>1, FinallyLast DEF n
      <4>3. QED
        BY <1>3, <4>1, <4>2 DEF longer
  <2>2. CASE \E k \in 1..n : queue[k].user = u
    <3>1. PICK i \in 1..n : queue[i].user = u /\ \A j \in 1..n : j > i => queue[j].user # u
      BY <2>2, FinallyExists DEF n
    <3>2. /\ i \in 1..Len(longer)
          /\ longer[i].user = u /\ longer[i] = queue[i]
          /\ \A j \in 1..Len(longer) : j > i => longer[j].user # u
      BY <1>1, <1>3, <3>1
    <3>3. Finally(longer, subscribed, u) <=> longer[i].op = "SUBSCRIBE"
      BY <1>1, <3>2, FinallyLast, SMTT(30)
    <3>4. Finally(queue, subscribed, u) <=> queue[i].op = "SUBSCRIBE"
      BY <3>1, FinallyLast DEF n
    <3>5. QED
      BY <1>3, <3>2, <3>3, <3>4 DEF longer
  <2>3. QED
    BY <2>1, <2>2
<1>4. QED
  BY <1>2, <1>3

\* The first command is executed.
LEMMA FinallyTail ==
  ASSUME NEW queue \in Seq(Command), queue # <<>>, NEW before \in BOOLEAN,
         NEW after \in BOOLEAN, NEW u,
         after = IF Head(queue).user = u THEN Head(queue).op = "SUBSCRIBE" ELSE before
  PROVE  Finally(Tail(queue), after, u) <=> Finally(queue, before, u)
<1> DEFINE rest == Tail(queue)
           n == Len(queue)
<1>1. /\ rest \in Seq(Command)
      /\ n \in Nat \ {0} /\ Len(rest) = n - 1
      /\ queue[1] = Head(queue)
      /\ \A i \in 1..n - 1 : rest[i] = queue[i + 1]
  OBVIOUS
<1> HIDE DEF rest, n
<1>2. CASE \A i \in 1..n - 1 : rest[i].user # u
  <2>1. Finally(rest, after, u) <=> after
    BY <1>1, <1>2, FinallyLast
  <2>2. \A i \in 2..n : queue[i].user # u
    <3>1. \A i \in 2..n : i - 1 \in 1..n - 1 /\ queue[i] = rest[i - 1]
      BY <1>1
    <3>2. QED
      BY <1>2, <3>1
  <2>3. CASE queue[1].user = u
    <3>1. 1 \in 1..n /\ \A j \in 1..n : j > 1 => queue[j].user # u
      BY <1>1, <2>2
    <3>2. Finally(queue, before, u) <=> queue[1].op = "SUBSCRIBE"
      BY <2>3, <3>1, FinallyLast DEF n
    <3>3. QED
      BY <1>1, <2>1, <2>3, <3>2 DEF rest
  <2>4. CASE queue[1].user # u
    <3>1. \A i \in 1..n : queue[i].user # u
      BY <1>1, <2>2, <2>4
    <3>2. Finally(queue, before, u) <=> before
      BY <3>1, FinallyLast DEF n
    <3>3. QED
      BY <1>1, <2>1, <2>4, <3>2 DEF rest
  <2>5. QED
    BY <2>3, <2>4
<1>3. CASE \E k \in 1..n - 1 : rest[k].user = u
  <2>1. PICK i \in 1..n - 1 :
          rest[i].user = u /\ \A j \in 1..n - 1 : j > i => rest[j].user # u
    <3>1. Len(rest) = n - 1
      BY <1>1
    <3>2. PICK k \in 1..Len(rest) : rest[k].user = u
      BY <1>3, <3>1
    <3>3. rest \in Seq(Command)
      BY <1>1
    <3>4. \E i \in 1..Len(rest) :
            rest[i].user = u /\ \A j \in 1..Len(rest) : j > i => rest[j].user # u
      BY <3>2, <3>3, FinallyExists, SMTT(30)
    <3>5. QED
      BY <3>1, <3>4
  <2>2. /\ i + 1 \in 1..n
        /\ queue[i + 1] = rest[i]
        /\ \A j \in 1..n : j > i + 1 => queue[j].user # u
    <3>1. i + 1 \in 1..n /\ queue[i + 1] = rest[i]
      BY <1>1
    <3>2. ASSUME NEW j \in 1..n, j > i + 1 PROVE queue[j].user # u
      <4>1. j - 1 \in 1..n - 1 /\ j - 1 > i
        BY <1>1, <3>2
      <4>2. queue[(j - 1) + 1] = rest[j - 1] /\ (j - 1) + 1 = j
        BY <1>1, <4>1
      <4>3. QED
        BY <2>1, <4>1, <4>2
    <3>3. QED
      BY <3>1, <3>2
  <2>3. Finally(rest, after, u) <=> rest[i].op = "SUBSCRIBE"
    BY <1>1, <2>1, FinallyLast
  <2>4. Finally(queue, before, u) <=> queue[i + 1].op = "SUBSCRIBE"
    BY <2>1, <2>2, FinallyLast DEF n
  <2>5. QED
    BY <2>2, <2>3, <2>4 DEF rest
<1>4. QED
  BY <1>2, <1>3

-----------------------------------------------------------------------------
(***************************************************************************)
(* A connection that is logged in is a session or about to be one, so that *)
(* the entry logOut erases is its own.  While logOut has yet to leave the  *)
(* channel, its mutex keeps the next login of that user out of the map.    *)
(***************************************************************************)
Held(c) == auth[c] # NoUser => Entering(c, auth[c]) \/ Holds(c, auth[c])

AuthHeld == \A c \in Conns : Held(c)

ChannelLeft ==
  \A c \in Conns : pc[c] = "logout_unsub" => userConnMap[at[c]][job[c]] = NoConn

Changing(s, u) ==
  \E c \in Conns : at[c] = s /\ job[c] = u /\ pc[c] \in {"login_sub", "logout_unsub"}

MapSubscribed ==
  \A s \in Servers, u \in Users :
    ~Changing(s, u) => (WillBeSubscribed(s, u) <=> userConnMap[s][u] # NoConn)

ChannelInv == SerialInv /\ MutexDiscipline /\ AuthHeld /\ ChannelLeft /\ MapSubscribed

LEMMA AuthHeldStep ==
  ASSUME Serial, SerialInv, AuthHeld, [Next]_vars
  PROVE  AuthHeld'
<1> USE SentinelAssumption
<1>t. /\ at \in [Conns -> Servers \cup {NoServer}]
      /\ auth \in [Conns -> Users \cup {NoUser}]
      /\ pc \in [Conns -> Steps]
      /\ job \in [Conns -> Users \cup {NoUser}]
      /\ userConnMap \in [Servers -> [Users -> Conns \cup {NoConn}]]
  BY DEF SerialInv, SessionInv, TypeOK
<1>h. \A c \in Conns : /\ pc[c] # "idle" => at[c] \in Servers
                       /\ pc[c] \notin {"idle", "route"} => job[c] \in Users
  BY DEF SerialInv, SessionInv, HandlerOK
<1>m. \A s \in Servers, u \in Users, c \in Conns :
        userConnMap[s][u] = c => at[c] = s /\ auth[c] = u
  BY DEF SerialInv, SessionInv, MapMatchesSession
<1>s. \A c \in Conns :
        /\ pc[c] \in LoginSteps \ {"login_fetch"} => auth[c] = job[c]
        /\ pc[c] = "close_state" => \A s \in Servers, u \in Users : userConnMap[s][u] # c
  BY DEF SerialInv, SessionInv, SessionOK
<1>a. OneSessionPerUser /\ EntryFree
  BY DEF SerialInv, Agreement
<1>q. /\ \A s \in Servers : srv[s] \in {"up", "down"}
      /\ Faults \subseteq {"crash"}
  BY DEF SerialInv, Answering, Serial
<1>u. AuthHeld
  OBVIOUS
<1>g. AuthHeld' <=> \A c \in Conns : Held(c)'
  BY DEF AuthHeld
<1>o. \A c \in Conns : auth[c] # NoUser /\ ~Entering(c, auth[c]) => Holds(c, auth[c])
  BY DEF AuthHeld, Held
\* What a connection is stays, or goes on from the query to the state.
<1>b. ASSUME UNCHANGED userConnMap,
             \A c \in Conns :
               \/ auth'[c] = NoUser
               \/ /\ auth'[c] = auth[c]
                  /\ \/ pc'[c] = pc[c] /\ job'[c] = job[c]
                     \/ pc[c] \notin Watched \ {"login_sub"}
                     \/ /\ pc[c] = "login_remove"
                        /\ pc'[c] = "login_state"
                        /\ job'[c] = job[c]
      PROVE  AuthHeld'
  BY <1>b, <1>u DEF AuthHeld, Held, Entering, Holds, Watched, LoginSteps
<1>1. CASE Environment
  <2>1. ASSUME NEW c \in Conns, NEW m \in Msgs, NEW recipients \in Seq(Users),
               ChatRequest(c, m, recipients)
        PROVE  AuthHeld'
    BY <1>b, <1>t, <2>1 DEF ChatRequest, Requests, Idle, Goto, connVars, Watched, LoginSteps
  <2>2. ASSUME NEW c \in Conns,
               Disconnect(c) \/ (\E s \in Servers : Connect(c, s))
                 \/ (\E u \in Users : Register(c, u))
        PROVE  AuthHeld'
    BY <1>b, <2>2 DEF Disconnect, Connect, Register, connVars, handlerVars
  <2>3. ASSUME NEW c \in Conns, NEW u \in Users, Login(c, u) PROVE AuthHeld'
    BY <1>b, <1>t, <2>3 DEF Login, Requests, Idle, Start, Goto, connVars, Watched, LoginSteps
  <2>4. ASSUME NEW c \in Conns, LogOut(c) PROVE AuthHeld'
    <3> DEFINE u == auth[c]
               s == at[c]
    <3>1. /\ u \in Users /\ s \in Servers
          /\ pc[c] = "idle"
          /\ auth' = [auth EXCEPT ![c] = NoUser]
      BY <2>4, <1>t DEF LogOut, Requests, Idle
    <3>2. CASE userConnMap[s][u] = NoConn
      BY <1>b, <1>t, <2>4, <3>1, <3>2 DEF LogOut, handlerVars
    <3>3. CASE userConnMap[s][u] # NoConn
      <4>1. /\ userConnMap' = [userConnMap EXCEPT ![s][u] = NoConn]
            /\ pc' = [pc EXCEPT ![c] = "logout_unsub"]
            /\ job' = [job EXCEPT ![c] = u]
        BY <2>4, <3>3 DEF LogOut, Start, Goto
      <4>2. Holds(c, u)
        BY <1>o, <3>1 DEF Entering
      <4>3. userConnMap[s][u] = c
        <5>1. userConnMap[s][u] \in Conns /\ Holds(userConnMap[s][u], u)
          BY <1>t, <3>1, <3>3 DEF Holds
        <5>2. QED
          BY <1>a, <3>1, <4>2, <5>1 DEF OneSessionPerUser
      <4>4. ASSUME NEW d \in Conns \ {c} PROVE Held(d)'
        <5>1. auth'[d] = auth[d] /\ pc'[d] = pc[d] /\ job'[d] = job[d]
          BY <1>t, <3>1, <4>1
        <5>2. \A x \in Servers, v \in Users : userConnMap[x][v] = d => userConnMap'[x][v] = d
          BY <1>t, <3>1, <4>1, <4>3
        <5>3. auth[d] \in Users \cup {NoUser}
          BY <1>t
        <5>4. QED
          BY <1>u, <4>4, <5>1, <5>2, <5>3 DEF AuthHeld, Held, Entering, Holds
      <4>5. Held(c)'
        BY <1>t, <3>1 DEF Held
      <4>6. QED
        BY <1>g, <4>4, <4>5
    <3>4. QED
      BY <3>2, <3>3
  <2>5. ASSUME NEW s \in Servers, Crash(s) PROVE AuthHeld'
    <3>1. ASSUME NEW c \in Conns, at[c] = s PROVE Held(c)'
      BY <2>5, <3>1 DEF Crash, EndProcess, Held
    <3>2. ASSUME NEW c \in Conns, at[c] # s PROVE Held(c)'
      <4>1. auth'[c] = auth[c] /\ pc'[c] = pc[c] /\ job'[c] = job[c]
        BY <2>5, <3>2 DEF Crash, EndProcess
      <4>2. \A r \in Servers, u \in Users : userConnMap[r][u] = c => userConnMap'[r][u] = c
        BY <1>t, <1>m, <2>5, <3>2 DEF Crash, EndProcess
      <4>3. auth[c] \in Users \cup {NoUser}
        BY <1>t
      <4>4. QED
        BY <1>u, <4>1, <4>2, <4>3 DEF AuthHeld, Held, Entering, Holds
    <3>3. QED
      BY <1>g, <3>1, <3>2
  <2>6. /\ \A s \in Servers : ~SigInt(s)
        /\ \A c \in Conns, u \in Users : ~CloseFault(c, u)
        /\ ~DbStops
    BY <1>q DEF SigInt, CloseFault, DbStops
  <2>7. ASSUME DbAnswers \/ \E s \in Servers : Restart(s) PROVE AuthHeld'
    BY <1>b, <2>7 DEF DbAnswers, Restart, connVars, handlerVars
  <2>8. QED
    BY <1>1, <2>1, <2>2, <2>3, <2>4, <2>5, <2>6, <2>7, RequestCases DEF Environment
<1>2. ASSUME NEW c \in Conns, Handler(c) PROVE AuthHeld'
  <2>1. ASSUME LoginFetch(c) PROVE AuthHeld'
    <3>1. /\ pc[c] = "login_fetch" /\ job[c] \in Users
          /\ pc' = [pc EXCEPT ![c] = "login_remove"]
          /\ auth' = [auth EXCEPT ![c] = job[c]]
          /\ UNCHANGED <<job, userConnMap>>
      BY <2>1, <1>h DEF LoginFetch, Advance, Goto
    <3>2. Held(c)'
      BY <1>t, <3>1 DEF Held, Entering
    <3>3. ASSUME NEW d \in Conns \ {c} PROVE Held(d)'
      BY <1>t, <1>u, <3>1, <3>3 DEF AuthHeld, Held, Entering, Holds
    <3>4. QED
      BY <1>g, <3>2, <3>3
  <2>2. ASSUME LoginRemove(c) PROVE AuthHeld'
    BY <1>b, <1>t, <2>2 DEF LoginRemove, Advance, Goto, connVars
  <2>3. ASSUME LoginState(c) PROVE AuthHeld'
    <3>1. /\ pc[c] = "login_state" /\ auth[c] = job[c]
          /\ pc' = [pc EXCEPT ![c] = "login_map"]
          /\ UNCHANGED <<auth, job, userConnMap>>
      BY <2>3, <1>s DEF LoginState, Advance, Goto, connVars, LoginSteps
    <3>2. Held(c)'
      BY <1>t, <3>1 DEF Held, Holds
    <3>3. ASSUME NEW d \in Conns \ {c} PROVE Held(d)'
      BY <1>t, <1>u, <3>1, <3>3 DEF AuthHeld, Held, Entering, Holds
    <3>4. QED
      BY <1>g, <3>2, <3>3
  <2>4. ASSUME LoginMap(c) PROVE AuthHeld'
    <3>1. /\ pc[c] = "login_map" /\ auth[c] = job[c]
          /\ at[c] \in Servers /\ job[c] \in Users
          /\ pc' = [pc EXCEPT ![c] = "login_sub"]
          /\ userConnMap' = [userConnMap EXCEPT ![at[c]][job[c]] = c]
          /\ UNCHANGED <<auth, job>>
      BY <2>4, <1>a, <1>h, <1>s DEF LoginMap, Advance, Goto, connVars, LoginSteps, EntryFree
    <3>2. Held(c)'
      BY <1>t, <3>1 DEF Held, Holds
    <3>3. ASSUME NEW d \in Conns \ {c} PROVE Held(d)'
      <4>1. \A s \in Servers, v \in Users : userConnMap[s][v] = d => userConnMap'[s][v] = d
        BY <1>t, <1>a, <3>1 DEF EntryFree
      <4>2. auth[d] \in Users \cup {NoUser} /\ pc'[d] = pc[d]
        BY <1>t, <3>1, <3>3
      <4>3. QED
        BY <1>u, <3>1, <3>3, <4>1, <4>2 DEF AuthHeld, Held, Entering, Holds
    <3>4. QED
      BY <1>g, <3>2, <3>3
  <2>5. ASSUME LoginSubscribe(c) \/ LogOutUnsubscribe(c) PROVE AuthHeld'
    BY <1>b, <1>t, <2>5 DEF LoginSubscribe, LogOutUnsubscribe, Return, Start, Goto,
       connVars, Watched, LoginSteps
  <2>6. ASSUME NEW u \in Users, RouteLocal(c, u) PROVE AuthHeld'
    BY <1>b, <1>t, <2>6 DEF RouteLocal, DoneWith, Goto, connVars, Watched, LoginSteps
  <2>7. ASSUME NEW u \in Users, RouteRemote(c, u) PROVE AuthHeld'
    BY <1>b, <1>t, <2>7 DEF RouteRemote, Start, Goto, connVars, Watched, LoginSteps
  <2>8. ASSUME Store(c) \/ PublishRemote(c) PROVE AuthHeld'
    BY <1>b, <1>t, <2>8 DEF Store, PublishRemote, DoneWith, Goto, connVars, Watched, LoginSteps
  <2>9. ASSUME CloseUnmapped(c) \/ CloseState(c) PROVE AuthHeld'
    BY <1>b, <1>t, <2>9 DEF CloseUnmapped, CloseState, Return, Start, Goto, handlerVars
  <2>10. ASSUME NEW u \in Users, CloseMapped(c, u) PROVE AuthHeld'
    <3>1. /\ at[c] \in Servers
          /\ userConnMap[at[c]][u] = c
          /\ userConnMap' = [userConnMap EXCEPT ![at[c]][u] = NoConn]
          /\ pc' = [pc EXCEPT ![c] = "close_state"]
          /\ job' = [job EXCEPT ![c] = u]
          /\ UNCHANGED auth
      BY <2>10, <1>t DEF CloseMapped, Idle, Start, Goto, connVars
    <3>2. Held(c)'
      BY <1>t, <1>m, <3>1 DEF Held, Holds
    <3>3. ASSUME NEW d \in Conns \ {c} PROVE Held(d)'
      <4>1. \A s \in Servers, v \in Users : userConnMap[s][v] = d => userConnMap'[s][v] = d
        BY <1>t, <3>1
      <4>2. auth[d] \in Users \cup {NoUser} /\ pc'[d] = pc[d] /\ job'[d] = job[d]
        BY <1>t, <3>1, <3>3
      <4>3. QED
        BY <1>u, <3>1, <3>3, <4>1, <4>2 DEF AuthHeld, Held, Entering, Holds
    <3>4. QED
      BY <1>g, <3>2, <3>3
  <2>11. QED
    BY <1>2, <2>1, <2>2, <2>3, <2>4, <2>5, <2>6, <2>7, <2>8, <2>9, <2>10 DEF Handler
<1>3. ASSUME NEW s \in Servers,
             Notify(s) \/ RedisExecute(s) \/ ResetStates(s) \/ Exit(s)
      PROVE  AuthHeld'
  BY <1>b, <1>q, <1>3 DEF Notify, NotifyLocal, NotifyStore, RedisExecute, ResetStates, Exit,
     connVars, handlerVars
<1>4. CASE UNCHANGED vars
  BY <1>b, <1>4 DEF vars, connVars, handlerVars
<1>5. QED
  BY <1>1, <1>2, <1>3, <1>4 DEF Next

LEMMA ChannelLeftStep ==
  ASSUME Serial, SerialInv, MutexDiscipline, ChannelLeft, [Next]_vars
  PROVE  ChannelLeft'
<1> USE SentinelAssumption
<1>t. /\ at \in [Conns -> Servers \cup {NoServer}]
      /\ auth \in [Conns -> Users \cup {NoUser}]
      /\ pc \in [Conns -> Steps]
      /\ job \in [Conns -> Users \cup {NoUser}]
      /\ userConnMap \in [Servers -> [Users -> Conns \cup {NoConn}]]
  BY DEF SerialInv, SessionInv, TypeOK
<1>h. \A c \in Conns : /\ pc[c] # "idle" => at[c] \in Servers
                       /\ pc[c] \notin {"idle", "route"} => job[c] \in Users
  BY DEF SerialInv, SessionInv, HandlerOK
<1>q. /\ \A s \in Servers : srv[s] \in {"up", "down"}
      /\ Faults \subseteq {"crash"}
  BY DEF SerialInv, Answering, Serial
<1>l. \A c \in Conns : pc[c] = "logout_unsub" =>
        /\ userConnMap[at[c]][job[c]] = NoConn
        /\ mutex[at[c]] = c
  BY DEF ChannelLeft, MutexDiscipline, Critical
<1>g. ChannelLeft' <=> \A c \in Conns :
        pc'[c] = "logout_unsub" => userConnMap'[at'[c]][job'[c]] = NoConn
  BY DEF ChannelLeft
\* Entries are erased, and no other handler enters this step.
<1>b. ASSUME \/ UNCHANGED userConnMap
             \/ \E s \in Servers, u \in Users :
                  userConnMap' = [userConnMap EXCEPT ![s][u] = NoConn],
             \A c \in Conns : pc'[c] = "logout_unsub" =>
               pc[c] = "logout_unsub" /\ at'[c] = at[c] /\ job'[c] = job[c]
      PROVE  ChannelLeft'
  BY <1>t, <1>h, <1>l, <1>g, <1>b
<1>1. CASE Environment
  <2>1. ASSUME NEW c \in Conns, NEW m \in Msgs, NEW recipients \in Seq(Users),
               ChatRequest(c, m, recipients)
        PROVE  ChannelLeft'
    BY <1>b, <1>t, <2>1 DEF ChatRequest, Goto, connVars
  <2>2. ASSUME NEW c \in Conns,
               Disconnect(c) \/ (\E u \in Users : Register(c, u))
        PROVE  ChannelLeft'
    BY <1>b, <2>2 DEF Disconnect, Register, connVars, handlerVars
  <2>3. ASSUME NEW c \in Conns, NEW s \in Servers, Connect(c, s) PROVE ChannelLeft'
    <3>1. pc[c] # "logout_unsub"
      BY <1>h, <2>3 DEF Connect
    <3>2. QED
      BY <1>b, <1>t, <2>3, <3>1 DEF Connect, handlerVars
  <2>4. ASSUME NEW c \in Conns, NEW u \in Users, Login(c, u) PROVE ChannelLeft'
    BY <1>b, <1>t, <2>4 DEF Login, Start, Goto, connVars
  <2>5. ASSUME NEW c \in Conns, LogOut(c) PROVE ChannelLeft'
    <3> DEFINE u == auth[c]
               s == at[c]
    <3>1. u \in Users /\ s \in Servers /\ at' = at
      BY <2>5, <1>t DEF LogOut, Requests, Idle
    <3>2. CASE userConnMap[s][u] = NoConn
      BY <1>b, <2>5, <3>1, <3>2 DEF LogOut, handlerVars
    <3>3. CASE userConnMap[s][u] # NoConn
      <4>1. /\ userConnMap' = [userConnMap EXCEPT ![s][u] = NoConn]
            /\ pc' = [pc EXCEPT ![c] = "logout_unsub"]
            /\ job' = [job EXCEPT ![c] = u]
        BY <2>5, <3>3 DEF LogOut, Start, Goto
      <4>2. userConnMap'[at'[c]][job'[c]] = NoConn
        BY <1>t, <3>1, <4>1
      <4>3. \A d \in Conns \ {c} : pc'[d] = pc[d] /\ job'[d] = job[d]
        BY <1>t, <4>1
      <4>4. \A d \in Conns \ {c} : pc'[d] = "logout_unsub" =>
              userConnMap'[at'[d]][job'[d]] = NoConn
        BY <1>t, <1>h, <1>l, <3>1, <4>1, <4>3
      <4>5. QED
        BY <1>g, <4>2, <4>4
    <3>4. QED
      BY <3>2, <3>3
  <2>6. ASSUME NEW s \in Servers, Crash(s) PROVE ChannelLeft'
    <3>1. \A r \in Servers, u \in Users :
            userConnMap'[r][u] = IF r = s THEN NoConn ELSE userConnMap[r][u]
      BY <1>t, <2>6 DEF Crash, EndProcess
    <3>2. ASSUME NEW c \in Conns, pc'[c] = "logout_unsub"
          PROVE  pc[c] = "logout_unsub" /\ at'[c] = at[c] /\ job'[c] = job[c]
      BY <2>6, <3>2 DEF Crash, EndProcess
    <3>3. QED
      BY <1>h, <1>l, <1>g, <3>1, <3>2
  <2>7. /\ \A s \in Servers : ~SigInt(s)
        /\ \A c \in Conns, u \in Users : ~CloseFault(c, u)
        /\ ~DbStops
    BY <1>q DEF SigInt, CloseFault, DbStops
  <2>8. ASSUME DbAnswers \/ \E s \in Servers : Restart(s) PROVE ChannelLeft'
    BY <1>b, <2>8 DEF DbAnswers, Restart, connVars, handlerVars
  <2>9. QED
    BY <1>1, <2>1, <2>2, <2>3, <2>4, <2>5, <2>6, <2>7, <2>8, RequestCases DEF Environment
<1>2. ASSUME NEW c \in Conns, Handler(c) PROVE ChannelLeft'
  <2>1. ASSUME LoginFetch(c) \/ LoginRemove(c) \/ LoginState(c) PROVE ChannelLeft'
    BY <1>b, <1>t, <2>1 DEF LoginFetch, LoginRemove, LoginState, Advance, Goto, connVars
  <2>2. ASSUME LoginMap(c) PROVE ChannelLeft'
    <3>1. /\ at[c] \in Servers /\ job[c] \in Users
          /\ mutex[at[c]] = NoConn
          /\ pc' = [pc EXCEPT ![c] = "login_sub"]
          /\ UNCHANGED <<at, job>>
      BY <2>2, <1>h DEF LoginMap, Advance, Goto, connVars, Free
    <3>2. \A s \in Servers \ {at[c]}, u \in Users : userConnMap'[s][u] = userConnMap[s][u]
      BY <1>t, <2>2 DEF LoginMap
    <3>3. ASSUME NEW d \in Conns, pc'[d] = "logout_unsub"
          PROVE  userConnMap'[at'[d]][job'[d]] = NoConn
      <4>1. pc[d] = "logout_unsub" /\ at[d] # at[c] /\ at[d] \in Servers /\ job[d] \in Users
        BY <1>t, <1>h, <1>l, <3>1, <3>3
      <4>2. QED
        BY <1>l, <3>1, <3>2, <4>1
    <3>4. QED
      BY <1>g, <3>3
  <2>3. ASSUME LoginSubscribe(c) \/ LogOutUnsubscribe(c) PROVE ChannelLeft'
    BY <1>b, <1>t, <2>3 DEF LoginSubscribe, LogOutUnsubscribe, Return, Start, Goto, connVars
  <2>4. ASSUME NEW u \in Users, RouteLocal(c, u) PROVE ChannelLeft'
    BY <1>b, <1>t, <2>4 DEF RouteLocal, DoneWith, Goto, connVars
  <2>5. ASSUME NEW u \in Users, RouteRemote(c, u) PROVE ChannelLeft'
    BY <1>b, <1>t, <2>5 DEF RouteRemote, Start, Goto, connVars
  <2>6. ASSUME Store(c) \/ PublishRemote(c) PROVE ChannelLeft'
    BY <1>b, <1>t, <2>6 DEF Store, PublishRemote, DoneWith, Goto, connVars
  <2>7. ASSUME CloseUnmapped(c) PROVE ChannelLeft'
    <3>1. pc' = pc /\ job' = job /\ userConnMap' = userConnMap /\ pc[c] = "idle"
          /\ \A d \in Conns \ {c} : at'[d] = at[d]
      BY <1>t, <2>7 DEF CloseUnmapped, Idle, handlerVars
    <3>2. QED
      BY <1>b, <3>1
  <2>8. ASSUME CloseState(c) PROVE ChannelLeft'
    BY <1>b, <1>t, <2>8 DEF CloseState, Return, Start, Goto
  <2>9. ASSUME NEW u \in Users, CloseMapped(c, u) PROVE ChannelLeft'
    <3>1. at[c] \in Servers
      BY <1>t, <2>9 DEF CloseMapped, Idle
    <3>2. QED
      BY <1>b, <1>t, <2>9, <3>1 DEF CloseMapped, Start, Goto, connVars
  <2>10. QED
    BY <1>2, <2>1, <2>2, <2>3, <2>4, <2>5, <2>6, <2>7, <2>8, <2>9 DEF Handler
<1>3. ASSUME NEW s \in Servers,
             Notify(s) \/ RedisExecute(s) \/ ResetStates(s) \/ Exit(s)
      PROVE  ChannelLeft'
  BY <1>b, <1>q, <1>3 DEF Notify, NotifyLocal, NotifyStore, RedisExecute, ResetStates, Exit,
     connVars, handlerVars
<1>4. CASE UNCHANGED vars
  BY <1>b, <1>4 DEF vars, connVars, handlerVars
<1>5. QED
  BY <1>1, <1>2, <1>3, <1>4 DEF Next

LEMMA WillBeFinally ==
  ASSUME NEW s, NEW u
  PROVE  WillBeSubscribed(s, u) = Finally(cmds[s], <<s, u>> \in subs, u)
BY DEF WillBeSubscribed, Finally

\* A command is written for one channel; the others end up as before.
LEMMA WriteFinally ==
  ASSUME RedisTypeOK, NEW s \in Servers, NEW command \in Command, WriteCommand(s, command)
  PROVE  \A r \in Servers, v \in Users :
           WillBeSubscribed(r, v)' <=>
             IF r = s /\ v = command.user THEN command.op = "SUBSCRIBE"
                                          ELSE WillBeSubscribed(r, v)
<1> SUFFICES ASSUME NEW r \in Servers, NEW v \in Users
             PROVE  WillBeSubscribed(r, v)' <=>
                      IF r = s /\ v = command.user THEN command.op = "SUBSCRIBE"
                                                   ELSE WillBeSubscribed(r, v)
  OBVIOUS
<1>1. WillBeSubscribed(r, v)' = Finally(cmds'[r], <<r, v>> \in subs', v)
  BY DEF WillBeSubscribed, Finally
<1>2. subs' = subs /\ cmds[s] \in Seq(Command)
      /\ cmds'[r] = IF r = s THEN Append(cmds[s], command) ELSE cmds[r]
  BY DEF WriteCommand, RedisTypeOK
<1> DEFINE known == <<r, v>> \in subs
<1>3. known \in BOOLEAN
  OBVIOUS
<1>4. WillBeSubscribed(r, v) = Finally(cmds[r], known, v)
  BY WillBeFinally
<1>5. WillBeSubscribed(r, v)' = Finally(cmds'[r], known, v)
  BY <1>1, <1>2
<1> HIDE DEF known
<1>6. CASE r = s
  <2>1. Finally(Append(cmds[s], command), known, v) <=>
          IF command.user = v THEN command.op = "SUBSCRIBE" ELSE Finally(cmds[s], known, v)
    BY <1>2, <1>3, FinallyAppend
  <2>2. QED
    BY <1>2, <1>4, <1>5, <1>6, <2>1
<1>7. CASE r # s
  BY <1>2, <1>4, <1>5, <1>7
<1>8. QED
  BY <1>6, <1>7

\* What is under way is counted already.
LEMMA ExecuteFinally ==
  ASSUME RedisTypeOK, NEW s \in Servers, Execute(s)
  PROVE  \A r \in Servers, v \in Users : WillBeSubscribed(r, v)' <=> WillBeSubscribed(r, v)
<1> SUFFICES ASSUME NEW r \in Servers, NEW v \in Users
             PROVE  WillBeSubscribed(r, v)' <=> WillBeSubscribed(r, v)
  OBVIOUS
<1> DEFINE before == <<r, v>> \in subs
           after == <<r, v>> \in subs'
           queue == cmds[s]
<1>1. WillBeSubscribed(r, v)' = Finally(cmds'[r], after, v)
  BY DEF WillBeSubscribed, Finally
<1>2. WillBeSubscribed(r, v) = Finally(cmds[r], before, v)
  BY WillBeFinally
<1>3. /\ queue \in Seq(Command) /\ queue # <<>>
      /\ cmds'[r] = IF r = s THEN Tail(queue) ELSE cmds[r]
      /\ subs' = IF Head(queue).op = "SUBSCRIBE"
                   THEN subs \cup {<<s, Head(queue).user>>}
                   ELSE subs \ {<<s, Head(queue).user>>}
  BY DEF Execute, RedisTypeOK
<1>4. after <=> IF r = s /\ Head(queue).user = v THEN Head(queue).op = "SUBSCRIBE" ELSE before
  BY <1>3
<1>5. before \in BOOLEAN /\ after \in BOOLEAN
  OBVIOUS
<1> HIDE DEF before, after, queue
<1>6. CASE r = s
  <2>1. after = IF Head(queue).user = v THEN Head(queue).op = "SUBSCRIBE" ELSE before
    BY <1>4, <1>5, <1>6
  <2>2. Finally(Tail(queue), after, v) <=> Finally(queue, before, v)
    BY <1>3, <1>5, <2>1, FinallyTail
  <2>3. QED
    BY <1>1, <1>2, <1>3, <1>6, <2>2 DEF queue
<1>7. CASE r # s
  BY <1>1, <1>2, <1>3, <1>4, <1>5, <1>7
<1>8. QED
  BY <1>6, <1>7

LEMMA MapSubscribedStep ==
  ASSUME Serial, ChannelInv, [Next]_vars
  PROVE  MapSubscribed'
<1> USE SentinelAssumption
<1>t. /\ at \in [Conns -> Servers \cup {NoServer}]
      /\ auth \in [Conns -> Users \cup {NoUser}]
      /\ pc \in [Conns -> Steps]
      /\ job \in [Conns -> Users \cup {NoUser}]
      /\ userConnMap \in [Servers -> [Users -> Conns \cup {NoConn}]]
      /\ RedisTypeOK
  BY DEF ChannelInv, SerialInv, SessionInv, TypeOK
<1>h. \A c \in Conns : /\ pc[c] # "idle" => at[c] \in Servers
                       /\ pc[c] \notin {"idle", "route"} => job[c] \in Users
  BY DEF ChannelInv, SerialInv, SessionInv, HandlerOK
<1>q. /\ \A s \in Servers : srv[s] \in {"up", "down"}
      /\ Faults \subseteq {"crash"}
  BY DEF ChannelInv, SerialInv, Answering, Serial
<1>i. MapSubscribed
  BY DEF ChannelInv
<1>g. MapSubscribed' <=> \A s \in Servers, u \in Users :
        ~Changing(s, u)' => (WillBeSubscribed(s, u)' <=> userConnMap'[s][u] # NoConn)
  BY DEF MapSubscribed
\* Neither the map nor the subscriptions change, and who is changing them goes on.
<1>a. ASSUME \A c \in Conns : pc[c] \in {"login_sub", "logout_unsub"} =>
               pc'[c] = pc[c] /\ at'[c] = at[c] /\ job'[c] = job[c]
      PROVE  \A s \in Servers, u \in Users : Changing(s, u) => Changing(s, u)'
  BY <1>a DEF Changing
<1>b. ASSUME UNCHANGED userConnMap,
             \A s \in Servers, u \in Users : WillBeSubscribed(s, u)' <=> WillBeSubscribed(s, u),
             \A c \in Conns : pc[c] \in {"login_sub", "logout_unsub"} =>
               pc'[c] = pc[c] /\ at'[c] = at[c] /\ job'[c] = job[c]
      PROVE  MapSubscribed'
  BY <1>a, <1>b, <1>i, <1>g DEF MapSubscribed
<1>w. ASSUME UNCHANGED <<subs, cmds>>
      PROVE  \A s \in Servers, u \in Users : WillBeSubscribed(s, u)' <=> WillBeSubscribed(s, u)
  BY <1>w DEF WillBeSubscribed
\* The map changes for one user, who is changing from now on.
<1>c. ASSUME NEW c \in Conns, NEW s \in Servers, NEW u \in Users,
             UNCHANGED <<subs, cmds>>,
             \A r \in Servers, v \in Users :
               r # s \/ v # u => userConnMap'[r][v] = userConnMap[r][v],
             pc[c] \notin {"login_sub", "logout_unsub"},
             pc'[c] \in {"login_sub", "logout_unsub"}, at'[c] = s, job'[c] = u,
             \A d \in Conns \ {c} : pc'[d] = pc[d] /\ at'[d] = at[d] /\ job'[d] = job[d]
      PROVE  MapSubscribed'
  <2>1. Changing(s, u)'
    BY <1>c DEF Changing
  <2>2. \A r \in Servers, v \in Users : Changing(r, v) => Changing(r, v)'
    BY <1>a, <1>c
  <2>3. \A r \in Servers, v \in Users : WillBeSubscribed(r, v)' <=> WillBeSubscribed(r, v)
    BY <1>w, <1>c
  <2>4. QED
    BY <1>c, <1>i, <1>g, <2>1, <2>2, <2>3 DEF MapSubscribed
\* A command is written, and agrees with the map.
<1>d. ASSUME NEW c \in Conns, NEW s \in Servers, NEW command \in Command,
             WriteCommand(s, command),
             \A r \in Servers, v \in Users :
               r # s \/ v # command.user => userConnMap'[r][v] = userConnMap[r][v],
             command.op = "SUBSCRIBE" <=> userConnMap'[s][command.user] # NoConn,
             pc[c] \in {"login_sub", "logout_unsub"} => at[c] = s /\ job[c] = command.user,
             \A d \in Conns \ {c} : pc'[d] = pc[d] /\ at'[d] = at[d] /\ job'[d] = job[d]
      PROVE  MapSubscribed'
  <2>1. command.user \in Users
    BY DEF Command
  <2>2. \A r \in Servers, v \in Users :
          r # s \/ v # command.user => (Changing(r, v) => Changing(r, v)')
    BY <1>d DEF Changing
  <2>3. \A r \in Servers, v \in Users :
          WillBeSubscribed(r, v)' <=>
             IF r = s /\ v = command.user THEN command.op = "SUBSCRIBE"
                                          ELSE WillBeSubscribed(r, v)
    BY <1>t, <1>d, WriteFinally
  <2>4. QED
    BY <1>d, <1>i, <1>g, <2>1, <2>2, <2>3 DEF MapSubscribed
<1>1. CASE Environment
  <2>1. ASSUME NEW c \in Conns, NEW m \in Msgs, NEW recipients \in Seq(Users),
               ChatRequest(c, m, recipients)
        PROVE  MapSubscribed'
    <3>1. UNCHANGED <<subs, cmds, userConnMap, at, job>>
          /\ pc[c] = "idle" /\ \A d \in Conns \ {c} : pc'[d] = pc[d]
      BY <1>t, <2>1 DEF ChatRequest, Requests, Idle, Goto, connVars, redisVars
    <3>2. QED
      BY <1>b, <1>w, <3>1
  <2>2. ASSUME NEW c \in Conns, Disconnect(c) PROVE MapSubscribed'
    BY <1>b, <1>w, <2>2 DEF Disconnect, redisVars, handlerVars
  <2>3. ASSUME NEW c \in Conns, NEW u \in Users, Register(c, u) PROVE MapSubscribed'
    BY <1>b, <1>w, <2>3 DEF Register, redisVars, handlerVars, connVars
  <2>4. ASSUME NEW c \in Conns, NEW s \in Servers, Connect(c, s) PROVE MapSubscribed'
    <3>1. pc[c] = "idle"
      BY <1>h, <2>4 DEF Connect
    <3>2. UNCHANGED <<subs, cmds, userConnMap, pc, job>> /\ \A d \in Conns \ {c} : at'[d] = at[d]
      BY <1>t, <2>4 DEF Connect, redisVars, handlerVars
    <3>3. QED
      BY <1>b, <1>w, <3>1, <3>2
  <2>5. ASSUME NEW c \in Conns, NEW u \in Users, Login(c, u) PROVE MapSubscribed'
    <3>1. /\ UNCHANGED <<subs, cmds, userConnMap, at>>
          /\ pc[c] = "idle"
          /\ \A d \in Conns \ {c} : pc'[d] = pc[d] /\ job'[d] = job[d]
      BY <1>t, <2>5 DEF Login, Requests, Idle, Start, Goto, connVars, redisVars
    <3>2. QED
      BY <1>b, <1>w, <3>1
  <2>6. ASSUME NEW c \in Conns, LogOut(c) PROVE MapSubscribed'
    <3> DEFINE u == auth[c]
               s == at[c]
    <3>1. u \in Users /\ s \in Servers /\ at' = at /\ UNCHANGED <<subs, cmds>> /\ pc[c] = "idle"
      BY <2>6, <1>t DEF LogOut, Requests, Idle, redisVars
    <3>2. CASE userConnMap[s][u] = NoConn
      BY <1>b, <1>w, <2>6, <3>1, <3>2 DEF LogOut, handlerVars
    <3>3. CASE userConnMap[s][u] # NoConn
      <4>1. /\ userConnMap' = [userConnMap EXCEPT ![s][u] = NoConn]
            /\ pc' = [pc EXCEPT ![c] = "logout_unsub"]
            /\ job' = [job EXCEPT ![c] = u]
        BY <2>6, <3>3 DEF LogOut, Start, Goto
      <4>2. /\ pc'[c] = "logout_unsub" /\ job'[c] = u /\ at'[c] = s
            /\ \A d \in Conns \ {c} : pc'[d] = pc[d] /\ at'[d] = at[d] /\ job'[d] = job[d]
        BY <1>t, <3>1, <4>1
      <4>3. \A r \in Servers, v \in Users :
              r # s \/ v # u => userConnMap'[r][v] = userConnMap[r][v]
        BY <1>t, <3>1, <4>1
      <4>4. pc[c] \notin {"login_sub", "logout_unsub"} /\ pc'[c] \in {"login_sub", "logout_unsub"}
        BY <3>1, <4>2
      <4> HIDE DEF u, s
      <4>5. QED
        BY <1>c, <3>1, <4>2, <4>3, <4>4
    <3>4. QED
      BY <3>2, <3>3
  <2>7. ASSUME NEW s \in Servers, Crash(s) PROVE MapSubscribed'
    <3>1. /\ \A r \in Servers, u \in Users :
               userConnMap'[r][u] = IF r = s THEN NoConn ELSE userConnMap[r][u]
          /\ \A r \in Servers : cmds'[r] = IF r = s THEN <<>> ELSE cmds[r]
          /\ subs' = {channel \in subs : channel[1] # s}
      BY <1>t, <2>7 DEF Crash, EndProcess, DropServer, RedisTypeOK
    <3>2. ASSUME NEW u \in Users PROVE ~WillBeSubscribed(s, u)'
      <4>1. {i \in 1..Len(cmds'[s]) : cmds'[s][i].user = u} = {}
        BY <3>1
      <4>2. <<s, u>> \notin subs'
        BY <3>1
      <4>3. QED
        BY <4>1, <4>2 DEF WillBeSubscribed
    <3>3. ASSUME NEW r \in Servers \ {s}, NEW u \in Users
          PROVE  WillBeSubscribed(r, u)' <=> WillBeSubscribed(r, u)
      <4>1. cmds'[r] = cmds[r] /\ (<<r, u>> \in subs' <=> <<r, u>> \in subs)
        BY <3>1
      <4>2. QED
        BY <4>1 DEF WillBeSubscribed
    <3>4. ASSUME NEW r \in Servers \ {s}, NEW u \in Users, Changing(r, u)
          PROVE  Changing(r, u)'
      <4>1. PICK c \in Conns : /\ at[c] = r /\ job[c] = u
                               /\ pc[c] \in {"login_sub", "logout_unsub"}
        BY <3>4 DEF Changing
      <4>2. at'[c] = at[c] /\ pc'[c] = pc[c] /\ job'[c] = job[c]
        BY <2>7, <4>1 DEF Crash, EndProcess
      <4>3. QED
        BY <4>1, <4>2 DEF Changing
    <3>5. QED
      BY <1>i, <1>g, <3>1, <3>2, <3>3, <3>4 DEF MapSubscribed
  <2>8. /\ \A s \in Servers : ~SigInt(s)
        /\ \A c \in Conns, u \in Users : ~CloseFault(c, u)
        /\ ~DbStops
    BY <1>q DEF SigInt, CloseFault, DbStops
  <2>9. ASSUME DbAnswers \/ \E s \in Servers : Restart(s) PROVE MapSubscribed'
    BY <1>b, <1>w, <2>9 DEF DbAnswers, Restart, connVars, handlerVars, redisVars
  <2>10. QED
    BY <1>1, <2>1, <2>2, <2>3, <2>4, <2>5, <2>6, <2>7, <2>8, <2>9, RequestCases
       DEF Environment
<1>2. ASSUME NEW c \in Conns, Handler(c) PROVE MapSubscribed'
  <2>1. ASSUME LoginFetch(c) \/ LoginRemove(c) \/ LoginState(c) PROVE MapSubscribed'
    <3>1. /\ UNCHANGED <<subs, cmds, userConnMap, at, job>>
          /\ pc[c] \notin {"login_sub", "logout_unsub"}
          /\ \A d \in Conns \ {c} : pc'[d] = pc[d]
      BY <1>t, <2>1 DEF LoginFetch, LoginRemove, LoginState, Advance, Goto, connVars, redisVars
    <3>2. QED
      BY <1>b, <1>w, <3>1
  <2>2. ASSUME LoginMap(c) PROVE MapSubscribed'
    <3> DEFINE u == job[c]
               s == at[c]
    <3>1. /\ s \in Servers /\ u \in Users
          /\ pc[c] = "login_map"
          /\ pc' = [pc EXCEPT ![c] = "login_sub"]
          /\ UNCHANGED <<at, job, subs, cmds>>
      BY <2>2, <1>h DEF LoginMap, Advance, Goto, connVars, redisVars
    <3>2. \A r \in Servers, v \in Users :
            r # s \/ v # u => userConnMap'[r][v] = userConnMap[r][v]
      BY <1>t, <2>2, <3>1 DEF LoginMap
    <3>3. /\ pc[c] \notin {"login_sub", "logout_unsub"}
          /\ pc'[c] \in {"login_sub", "logout_unsub"}
          /\ at'[c] = s /\ job'[c] = u
          /\ \A d \in Conns \ {c} : pc'[d] = pc[d] /\ at'[d] = at[d] /\ job'[d] = job[d]
      BY <1>t, <3>1
    <3> HIDE DEF u, s
    <3>4. QED
      BY <1>c, <3>1, <3>2, <3>3
  <2>3. ASSUME LoginSubscribe(c) PROVE MapSubscribed'
    <3> DEFINE u == job[c]
               s == at[c]
               command == [op |-> "SUBSCRIBE", user |-> u]
    <3>1. /\ s \in Servers /\ u \in Users
          /\ pc[c] = "login_sub"
          /\ WriteCommand(s, command)
          /\ UNCHANGED <<at, userConnMap>>
          /\ \A d \in Conns \ {c} : pc'[d] = pc[d] /\ job'[d] = job[d]
      BY <1>t, <1>h, <2>3 DEF LoginSubscribe, Subscribe, Return, Start, Goto, connVars
    <3>2. auth[c] = u
      BY <3>1 DEF ChannelInv, SerialInv, SessionInv, SessionOK, LoginSteps
    <3>3. Holds(c, u)
      <4>1. Held(c)
        BY DEF ChannelInv, AuthHeld
      <4>2. QED
        BY <3>1, <3>2, <4>1 DEF Held, Entering
    <3>4. userConnMap[s][u] = c
      <4>1. PICK r \in Servers : userConnMap[r][u] = c
        BY <3>1, <3>3 DEF Holds
      <4>2. r = s
        BY <3>1, <4>1 DEF ChannelInv, SerialInv, SessionInv, MapMatchesSession
      <4>3. QED
        BY <4>1, <4>2
    <3>5. /\ command \in Command
          /\ command.op = "SUBSCRIBE"
          /\ command.user = u
      BY <3>1 DEF Command
    <3>6. \A d \in Conns \ {c} : at'[d] = at[d]
      BY <3>1
    <3>7. at[c] = s /\ job[c] = u
      OBVIOUS
    <3> HIDE DEF u, s, command
    <3>8. QED
      BY <1>d, <3>1, <3>4, <3>5, <3>6, <3>7
  <2>4. ASSUME LogOutUnsubscribe(c) PROVE MapSubscribed'
    <3> DEFINE u == job[c]
               s == at[c]
               command == [op |-> "UNSUBSCRIBE", user |-> u]
    <3>1. /\ s \in Servers /\ u \in Users
          /\ pc[c] = "logout_unsub"
          /\ WriteCommand(s, command)
          /\ UNCHANGED <<at, userConnMap>>
          /\ \A d \in Conns \ {c} : pc'[d] = pc[d] /\ job'[d] = job[d]
      BY <1>t, <1>h, <2>4 DEF LogOutUnsubscribe, Unsubscribe, Return, Start, Goto, connVars
    <3>2. userConnMap[s][u] = NoConn
      BY <3>1 DEF ChannelInv, ChannelLeft
    <3>3. /\ command \in Command
          /\ command.op # "SUBSCRIBE"
          /\ command.user = u
      BY <3>1 DEF Command
    <3>4. at[c] = s /\ job[c] = u /\ \A d \in Conns \ {c} : at'[d] = at[d]
      BY <3>1
    <3> HIDE DEF u, s, command
    <3>5. QED
      BY <1>d, <3>1, <3>2, <3>3, <3>4
  <2>5. ASSUME NEW u \in Users, CloseMapped(c, u) PROVE MapSubscribed'
    <3> DEFINE s == at[c]
               command == [op |-> "UNSUBSCRIBE", user |-> u]
    <3>1. /\ s \in Servers
          /\ pc[c] = "idle"
          /\ WriteCommand(s, command)
          /\ userConnMap' = [userConnMap EXCEPT ![s][u] = NoConn]
          /\ at' = at
          /\ \A d \in Conns \ {c} : pc'[d] = pc[d] /\ job'[d] = job[d]
      BY <1>t, <1>h, <2>5 DEF CloseMapped, Idle, Unsubscribe, Start, Goto, connVars
    <3>2. /\ userConnMap'[s][u] = NoConn
          /\ \A r \in Servers, v \in Users :
               r # s \/ v # u => userConnMap'[r][v] = userConnMap[r][v]
      BY <1>t, <3>1
    <3>3. /\ command \in Command
          /\ command.op # "SUBSCRIBE"
          /\ command.user = u
      BY DEF Command
    <3>4. \A d \in Conns \ {c} : at'[d] = at[d]
      BY <3>1
    <3> HIDE DEF s, command
    <3>5. QED
      BY <1>d, <3>1, <3>2, <3>3, <3>4
  <2>6. ASSUME DoneWith(c), pc[c] \in ChatSteps,
               UNCHANGED <<at, subs, cmds, userConnMap>>
        PROVE  MapSubscribed'
    <3>1. /\ pc[c] \notin {"login_sub", "logout_unsub"}
          /\ \A d \in Conns \ {c} : pc'[d] = pc[d] /\ job'[d] = job[d]
      BY <1>t, <2>6 DEF DoneWith, Goto, ChatSteps
    <3>2. QED
      BY <1>b, <1>w, <2>6, <3>1
  <2>7. ASSUME (\E u \in Users : RouteLocal(c, u)) \/ Store(c) \/ PublishRemote(c)
        PROVE  MapSubscribed'
    BY <2>6, <2>7 DEF RouteLocal, Store, PublishRemote, Publish, ChatSteps, connVars, redisVars
  <2>8. ASSUME NEW u \in Users, RouteRemote(c, u) PROVE MapSubscribed'
    <3>1. /\ pc[c] = "route"
          /\ UNCHANGED <<at, subs, cmds, userConnMap>>
          /\ \A d \in Conns \ {c} : pc'[d] = pc[d] /\ job'[d] = job[d]
      BY <1>t, <2>8 DEF RouteRemote, Start, Goto, connVars, redisVars
    <3>2. QED
      BY <1>b, <1>w, <3>1
  <2>9. ASSUME CloseUnmapped(c) \/ CloseState(c) PROVE MapSubscribed'
    <3>1. /\ pc[c] \in {"idle", "close_state"}
          /\ UNCHANGED <<subs, cmds, userConnMap>>
          /\ \A d \in Conns \ {c} : pc'[d] = pc[d] /\ job'[d] = job[d] /\ at'[d] = at[d]
      BY <1>t, <2>9 DEF CloseUnmapped, CloseState, Idle, Return, Start, Goto, handlerVars, redisVars
    <3>2. QED
      BY <1>b, <1>w, <3>1
  <2>10. QED
    BY <1>2, <2>1, <2>2, <2>3, <2>4, <2>5, <2>7, <2>8, <2>9 DEF Handler
<1>3. ASSUME NEW s \in Servers, Notify(s) PROVE MapSubscribed'
  BY <1>b, <1>w, <1>3 DEF Notify, NotifyLocal, NotifyStore, Receive, connVars, handlerVars
<1>4. ASSUME NEW s \in Servers, RedisExecute(s) PROVE MapSubscribed'
  <2>1. \A r \in Servers, v \in Users : WillBeSubscribed(r, v)' <=> WillBeSubscribed(r, v)
    BY <1>t, <1>4, ExecuteFinally DEF RedisExecute
  <2>2. QED
    BY <1>b, <1>4, <2>1 DEF RedisExecute, connVars, handlerVars
<1>5. \A s \in Servers : ~(ResetStates(s) \/ Exit(s))
  BY <1>q DEF ResetStates, Exit
<1>6. CASE UNCHANGED vars
  BY <1>b, <1>w, <1>6 DEF vars, connVars, handlerVars, redisVars
<1>7. QED
  BY <1>1, <1>2, <1>3, <1>4, <1>5, <1>6 DEF Next

LEMMA ChannelInvariant == Serial => (Spec => []ChannelInv)
<1> SUFFICES ASSUME Serial PROVE Spec => []ChannelInv
  OBVIOUS
<1>1. Init => AuthHeld /\ ChannelLeft /\ MapSubscribed
  <2> SUFFICES ASSUME Init PROVE AuthHeld /\ ChannelLeft /\ MapSubscribed
    OBVIOUS
  <2>1. AuthHeld /\ ChannelLeft
    BY DEF Init, AuthHeld, Held, ChannelLeft
  <2>2. \A s \in Servers, u \in Users : ~WillBeSubscribed(s, u)
    <3> SUFFICES ASSUME NEW s \in Servers, NEW u \in Users PROVE ~WillBeSubscribed(s, u)
      OBVIOUS
    <3>1. cmds[s] = <<>> /\ <<s, u>> \notin subs
      BY DEF Init, RedisInit
    <3>2. {i \in 1..Len(cmds[s]) : cmds[s][i].user = u} = {}
      BY <3>1
    <3>3. QED
      BY <3>1, <3>2 DEF WillBeSubscribed
  <2>3. QED
    BY <2>1, <2>2 DEF Init, MapSubscribed
<1>2. /\ SerialInv /\ MutexDiscipline /\ AuthHeld /\ ChannelLeft /\ MapSubscribed
      /\ [Next]_vars
      => (AuthHeld /\ ChannelLeft /\ MapSubscribed)'
  BY AuthHeldStep, ChannelLeftStep, MapSubscribedStep DEF ChannelInv
<1>3. SerialInv /\ MutexDiscipline /\ AuthHeld /\ ChannelLeft /\ MapSubscribed => ChannelInv
  BY DEF ChannelInv
<1>4. QED
  BY <1>1, <1>2, <1>3, SerialInvariant, MutexCorrect, PTL DEF Spec

\* SubscriptionsMatchMap: once the commands under way are executed, a server is
\* subscribed to exactly the channels of the users in its map, but for a user
\* whose login or logout is between the map and its command.
THEOREM SubscriptionsCorrect == Serial => (Spec => []SubscriptionsMatchMap)
<1> SUFFICES ASSUME Serial PROVE Spec => []SubscriptionsMatchMap
  OBVIOUS
<1>1. ChannelInv => SubscriptionsMatchMap
  BY DEF ChannelInv, MapSubscribed, SubscriptionsMatchMap, Changing
<1>2. QED
  BY <1>1, ChannelInvariant, PTL
=============================================================================
