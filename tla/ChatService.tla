----------------------------- MODULE ChatService -----------------------------
(***************************************************************************)
(* The cluster of chat servers: the handlers of ChatService                *)
(* (src/server/service.cpp), the callbacks of ChatServer that run them     *)
(* (server.cpp), the signal handler of main.cpp, over one MySQL database   *)
(* and one Redis.                                                          *)
(*                                                                         *)
(* A server runs 8 event loops; each connection belongs to one of them, so *)
(* the handlers of ONE connection run one after the other and those of     *)
(* different connections interleave.  One more thread per server reads the *)
(* messages Redis pushes.  They share userConnMap, guarded by one mutex.   *)
(*                                                                         *)
(* Grain of atomicity: a step makes at most one access to the database or  *)
(* to Redis, together with the map accesses done around it under the mutex *)
(* (which nobody else can see) and the sends.  A handler that keeps the    *)
(* mutex over several such accesses keeps it between its steps.            *)
(***************************************************************************)
EXTENDS Database, RedisBroker, Naturals, FiniteSets

CONSTANTS
  Conns,          \* TCP connections
  NoConn, NoServer, NoUser, NoMsg,     \* sentinels
  GroupRows,      \* what the query for a group's users may return, in order:
                  \* a user that joined twice has two rows
  MaxLogins,      \* bound: logins accepted in a run
  SerialLogins,   \* environment: a user's logins never overlap
  Faults          \* the failures that may happen, once each

ASSUME SentinelAssumption ==
  /\ NoConn \notin Conns
  /\ NoServer \notin Servers
  /\ NoUser \notin Users
  /\ NoMsg \notin Msgs

\* A cluster has so many processes, each with so many sockets.
ASSUME FiniteAssumption == IsFiniteSet(Servers) /\ IsFiniteSet(Conns)

ASSUME GroupAssumption == GroupRows \subseteq Seq(Users)

ASSUME BoundAssumption ==
  /\ MaxLogins \in Nat
  /\ SerialLogins \in BOOLEAN
  /\ Faults \subseteq {"crash", "sigint", "segv", "outage"}

VARIABLES
  srv,          \* the process of each server
  userConnMap,  \* _userConnMap of each server, NoConn where there is no entry
  mutex,        \* _userConnMapMutex of each server, by the handler keeping it
  at,           \* the server a connection is with, NoServer when closed
  gone,         \* connections whose client left; the server has yet to notice
  auth,         \* the user whose login the connection last acknowledged
  pc, job, msg, \* the handler running for a connection: its next access,
                \* the user that access is about, the message it forwards
  todo,         \* its recipients left, the one it is at included
  unsent,       \* messages no client has sent yet (bounds the chats)
  logins,       \* logins accepted so far
  faults,       \* failures that happened
  received      \* history: what was handed to each user's clients, in order

connVars == <<at, gone, auth>>
handlerVars == <<pc, job, msg, todo>>
boundVars == <<unsent, logins, faults>>
vars == <<dbVars, redisVars, srv, userConnMap, mutex, connVars, handlerVars,
          boundVars, received>>

LoginSteps == {"login_fetch", "login_remove", "login_state", "login_map", "login_sub"}
ChatSteps == {"route", "store", "publish"}
Steps == LoginSteps \cup ChatSteps
           \cup {"idle", "logout_unsub", "close_state", "faulted"}

TypeOK ==
  /\ DbTypeOK
  /\ RedisTypeOK
  /\ srv \in [Servers -> {"up", "signalled", "exiting", "down"}]
  /\ userConnMap \in [Servers -> [Users -> Conns \cup {NoConn}]]
  /\ mutex \in [Servers -> Conns \cup {NoConn}]
  /\ at \in [Conns -> Servers \cup {NoServer}]
  /\ gone \subseteq Conns
  /\ auth \in [Conns -> Users \cup {NoUser}]
  /\ pc \in [Conns -> Steps]
  /\ job \in [Conns -> Users \cup {NoUser}]
  /\ msg \in [Conns -> Msgs \cup {NoMsg}]
  /\ todo \in [Conns -> Seq(Users)]
  /\ unsent \subseteq Msgs
  /\ logins \in 0..MaxLogins
  /\ faults \subseteq Faults
  /\ received \in [Users \cup {NoUser} -> Seq(Parcel)]

Init ==
  /\ DbInit
  /\ RedisInit
  /\ srv = [s \in Servers |-> "up"]
  /\ userConnMap = [s \in Servers |-> [u \in Users |-> NoConn]]
  /\ mutex = [s \in Servers |-> NoConn]
  /\ at = [c \in Conns |-> NoServer]
  /\ gone = {}
  /\ auth = [c \in Conns |-> NoUser]
  /\ pc = [c \in Conns |-> "idle"]
  /\ job = [c \in Conns |-> NoUser]
  /\ msg = [c \in Conns |-> NoMsg]
  /\ todo = [c \in Conns |-> <<>>]
  /\ unsent = Msgs
  /\ logins = 0
  /\ faults = {}
  /\ received = [u \in Users \cup {NoUser} |-> <<>>]

-----------------------------------------------------------------------------
\* Helpers

Running(s) == srv[s] # "down"

Free(s) == mutex[s] = NoConn

\* Mutation: the mutex is not taken.
EntersAnyway(c) == TRUE

\* The handler of c may take, or already has, its server's mutex.
Enters(c) == mutex[at[c]] \in {NoConn, c}

\* TcpConnection::send: reaches the client unless it left.  Clients are told
\* apart by the user they are logged in as.
Hand(c, parcels) ==
  received' = IF c \in gone THEN received
                            ELSE [received EXCEPT ![auth[c]] = @ \o parcels]

Goto(c, step) == pc' = [pc EXCEPT ![c] = step]

\* A handler without a message starts at step, for user u.
Start(c, step, u) ==
  /\ Goto(c, step)
  /\ job' = [job EXCEPT ![c] = u]
  /\ UNCHANGED <<msg, todo>>

\* ... and returns.
Return(c) == Start(c, "idle", NoUser)

\* The handler running for c is one step further.
Advance(c, step) == Goto(c, step) /\ UNCHANGED <<job, msg, todo>>

LoggingIn(u) == \E c \in Conns : pc[c] \in LoginSteps /\ job[c] = u

\* A request arrives on c: the client is there and its last request is done.
Idle(c) == pc[c] = "idle" /\ at[c] # NoServer
Requests(c) == Idle(c) /\ c \notin gone

-----------------------------------------------------------------------------
\* Connections and registration

\* A client connects; Nginx picks the server.
Connect(c, s) ==
  /\ at[c] = NoServer
  /\ Running(s)
  /\ at' = [at EXCEPT ![c] = s]
  /\ UNCHANGED <<dbVars, redisVars, srv, userConnMap, mutex, gone, auth,
                 handlerVars, boundVars, received>>

\* The client leaves without a word; all it sent has been read.
Disconnect(c) ==
  /\ at[c] # NoServer
  /\ c \notin gone
  /\ gone' = gone \cup {c}
  /\ UNCHANGED <<dbVars, redisVars, srv, userConnMap, mutex, at, auth,
                 handlerVars, boundVars, received>>

\* reg: one INSERT; a failure is reported to the client and changes nothing.
Register(c, u) ==
  /\ Requests(c)
  /\ auth[c] = NoUser
  /\ UserInsert(u)
  /\ UNCHANGED <<redisVars, srv, userConnMap, mutex, connVars, handlerVars,
                 boundVars, received>>

-----------------------------------------------------------------------------
\* login: not one access of it is made under the mutex but the map insertion

\* The query.  An unknown id, a wrong password and a user already online are
\* answered with an error and leave no trace: only acceptance is a step.  A
\* client logs in only when it is logged out.
Login(c, u) ==
  /\ Requests(c)
  /\ auth[c] = NoUser
  /\ logins < MaxLogins
  /\ SerialLogins => ~LoggingIn(u)
  /\ UserFound(u)
  /\ UserState(u) = "offline"
  /\ Start(c, "login_fetch", u)
  /\ logins' = logins + 1
  /\ UNCHANGED <<dbVars, redisVars, srv, userConnMap, mutex, connVars, unsent,
                 faults, received>>

\* The offline messages are queried and sent with the acknowledgement.
LoginFetch(c) ==
  /\ pc[c] = "login_fetch"
  /\ LET u == job[c]
         rows == OfflineQuery(u)
     IN /\ auth' = [auth EXCEPT ![c] = u]
        /\ received' =
             IF c \in gone THEN received
             ELSE [received EXCEPT ![u] =
                     @ \o [i \in 1..Len(rows) |-> [to |-> u, msg |-> rows[i]]]]
  /\ Advance(c, "login_remove")
  /\ UNCHANGED <<dbVars, redisVars, srv, userConnMap, mutex, at, gone, boundVars>>

\* Mutation: the rows pushed are not deleted.
LoginKeepsRows(c) ==
  /\ pc[c] = "login_remove"
  /\ Advance(c, "login_state")
  /\ UNCHANGED <<dbVars, redisVars, srv, userConnMap, mutex, connVars, boundVars,
                 received>>

LoginRemove(c) ==
  /\ pc[c] = "login_remove"
  /\ OfflineRemove(job[c])
  /\ Advance(c, "login_state")
  /\ UNCHANGED <<redisVars, srv, userConnMap, mutex, connVars, boundVars, received>>

LoginState(c) ==
  /\ pc[c] = "login_state"
  /\ UpdateState(job[c], "online")
  /\ Advance(c, "login_map")
  /\ UNCHANGED <<redisVars, srv, userConnMap, mutex, connVars, boundVars, received>>

\* unordered_map::insert does not overwrite an entry.
LoginMap(c) ==
  /\ pc[c] = "login_map"
  /\ Free(at[c])
  /\ userConnMap' = [userConnMap EXCEPT ![at[c]][job[c]] = IF @ = NoConn THEN c ELSE @]
  /\ Advance(c, "login_sub")
  /\ UNCHANGED <<dbVars, redisVars, srv, mutex, connVars, boundVars, received>>

\* Outside the critical section.
LoginSubscribe(c) ==
  /\ pc[c] = "login_sub"
  /\ Subscribe(at[c], job[c])
  /\ Return(c)
  /\ UNCHANGED <<dbVars, srv, userConnMap, mutex, connVars, boundVars, received>>

-----------------------------------------------------------------------------
\* privateChat and groupChat: the recipients are routed one by one, the mutex
\* kept from the first to the last

ChatRequest(c, m, recipients) ==
  /\ Requests(c)
  /\ auth[c] # NoUser
  /\ m \in unsent
  /\ unsent' = unsent \ {m}
  /\ todo' = [todo EXCEPT ![c] = recipients]
  /\ IF recipients = <<>>
       THEN UNCHANGED <<pc, msg>>
       ELSE Goto(c, "route") /\ msg' = [msg EXCEPT ![c] = m]
  /\ UNCHANGED <<dbVars, redisVars, srv, userConnMap, mutex, connVars, job,
                 logins, faults, received>>

\* "to" may be any id, the sender's own and an unregistered one included.
PrivateChat(c, u, m) == ChatRequest(c, m, <<u>>)

\* queryGroupUsers, before the mutex is taken: the rows of the group but for
\* the sender's own; a failed query yields no one.
GroupChat(c, others, m) ==
  /\ \A i \in 1..Len(others) : others[i] # auth[c]
  /\ ChatRequest(c, m, IF dbUp THEN others ELSE <<>>)

\* Mutation: the mutex is not released after the last recipient.
DoneWithoutRelease(c) ==
  LET rest == Tail(todo[c])
  IN /\ todo' = [todo EXCEPT ![c] = rest]
     /\ job' = [job EXCEPT ![c] = NoUser]
     /\ msg' = [msg EXCEPT ![c] = IF rest = <<>> THEN NoMsg ELSE @]
     /\ Goto(c, IF rest = <<>> THEN "idle" ELSE "route")
     /\ mutex' = [mutex EXCEPT ![at[c]] = c]

\* Mutation: the mutex is taken for every recipient anew.
DoneReleasesEach(c) ==
  LET rest == Tail(todo[c])
  IN /\ todo' = [todo EXCEPT ![c] = rest]
     /\ job' = [job EXCEPT ![c] = NoUser]
     /\ msg' = [msg EXCEPT ![c] = IF rest = <<>> THEN NoMsg ELSE @]
     /\ Goto(c, IF rest = <<>> THEN "idle" ELSE "route")
     /\ mutex' = [mutex EXCEPT ![at[c]] = NoConn]

\* The handler of c is done with a recipient; after the last one it returns
\* and releases the mutex.
DoneWith(c) ==
  LET rest == Tail(todo[c])
  IN /\ todo' = [todo EXCEPT ![c] = rest]
     /\ job' = [job EXCEPT ![c] = NoUser]
     /\ msg' = [msg EXCEPT ![c] = IF rest = <<>> THEN NoMsg ELSE @]
     /\ Goto(c, IF rest = <<>> THEN "idle" ELSE "route")
     /\ mutex' = [mutex EXCEPT ![at[c]] = IF rest = <<>> THEN NoConn ELSE c]

\* A recipient in the map is sent the message.
RouteLocal(c, u) ==
  /\ pc[c] = "route"
  /\ u = Head(todo[c])
  /\ Enters(c)
  /\ LET conn == userConnMap[at[c]][u]
     IN /\ conn # NoConn
        /\ Hand(conn, <<[to |-> u, msg |-> msg[c]]>>)
  /\ DoneWith(c)
  /\ UNCHANGED <<dbVars, redisVars, srv, userConnMap, connVars, boundVars>>

\* For any other, its state in the database decides, and may change before
\* the decision is carried out.
RouteRemote(c, u) ==
  /\ pc[c] = "route"
  /\ u = Head(todo[c])
  /\ Enters(c)
  /\ userConnMap[at[c]][u] = NoConn
  /\ mutex' = [mutex EXCEPT ![at[c]] = c]
  /\ Start(c, IF UserState(u) = "offline" THEN "store" ELSE "publish", u)
  /\ UNCHANGED <<dbVars, redisVars, srv, userConnMap, connVars, boundVars, received>>

\* Mutation: an offline recipient is skipped.
StoreSkipped(c) ==
  /\ pc[c] = "store"
  /\ DoneWith(c)
  /\ UNCHANGED <<dbVars, redisVars, srv, userConnMap, connVars, boundVars, received>>

Store(c) ==
  /\ pc[c] = "store"
  /\ OfflineInsert(job[c], msg[c])
  /\ DoneWith(c)
  /\ UNCHANGED <<redisVars, srv, userConnMap, connVars, boundVars, received>>

\* The count of servers the message reached is not looked at.
PublishRemote(c) ==
  /\ pc[c] = "publish"
  /\ Publish(job[c], msg[c])
  /\ DoneWith(c)
  /\ UNCHANGED <<dbVars, srv, userConnMap, connVars, boundVars, received>>

-----------------------------------------------------------------------------
\* Mutations of logOut: the entry is not erased; the mutex is released before
\* the channel is left.
LogOutKeepsEntry(c) ==
  /\ Requests(c)
  /\ auth[c] # NoUser
  /\ Free(at[c])
  /\ auth' = [auth EXCEPT ![c] = NoUser]
  /\ UpdateState(auth[c], "offline")
  /\ mutex' = [mutex EXCEPT ![at[c]] = c]
  /\ Start(c, "logout_unsub", auth[c])
  /\ UNCHANGED <<redisVars, srv, userConnMap, at, gone, boundVars, received>>

LogOutUnlocksEarly(c) ==
  /\ Requests(c)
  /\ auth[c] # NoUser
  /\ Free(at[c])
  /\ userConnMap[at[c]][auth[c]] # NoConn
  /\ auth' = [auth EXCEPT ![c] = NoUser]
  /\ userConnMap' = [userConnMap EXCEPT ![at[c]][auth[c]] = NoConn]
  /\ UpdateState(auth[c], "offline")
  /\ Start(c, "logout_unsub", auth[c])
  /\ UNCHANGED <<redisVars, srv, mutex, at, gone, boundVars, received>>

\* logOut: under the mutex from beginning to end.  It erases the user's entry
\* whichever connection that names.
LogOut(c) ==
  /\ Requests(c)
  /\ auth[c] # NoUser
  /\ Free(at[c])
  /\ auth' = [auth EXCEPT ![c] = NoUser]
  /\ LET u == auth[c]
         s == at[c]
     IN IF userConnMap[s][u] = NoConn
          THEN UNCHANGED <<dbVars, userConnMap, mutex, handlerVars>>
          ELSE /\ userConnMap' = [userConnMap EXCEPT ![s][u] = NoConn]
               /\ UpdateState(u, "offline")
               /\ mutex' = [mutex EXCEPT ![s] = c]
               /\ Start(c, "logout_unsub", u)
  /\ UNCHANGED <<redisVars, srv, at, gone, boundVars, received>>

LogOutUnsubscribe(c) ==
  /\ pc[c] = "logout_unsub"
  /\ Unsubscribe(at[c], job[c])
  /\ mutex' = [mutex EXCEPT ![at[c]] = NoConn]
  /\ Return(c)
  /\ UNCHANGED <<dbVars, srv, userConnMap, connVars, boundVars, received>>

-----------------------------------------------------------------------------
\* clientCloseException, run by the connection callback when the client left

\* No entry of the map names the connection.
CloseUnmapped(c) ==
  /\ c \in gone
  /\ Idle(c)
  /\ Free(at[c])
  /\ \A u \in Users : userConnMap[at[c]][u] # c
  /\ at' = [at EXCEPT ![c] = NoServer]
  /\ gone' = gone \ {c}
  /\ auth' = [auth EXCEPT ![c] = NoUser]
  /\ UNCHANGED <<dbVars, redisVars, srv, userConnMap, mutex, handlerVars,
                 boundVars, received>>

\* Mutations of the closing: the entry stays; the state is not written.
CloseKeepsEntry(c, u) ==
  /\ c \in gone
  /\ Idle(c)
  /\ Free(at[c])
  /\ userConnMap[at[c]][u] = c
  /\ Unsubscribe(at[c], u)
  /\ Start(c, "close_state", u)
  /\ UNCHANGED <<dbVars, srv, userConnMap, mutex, connVars, boundVars, received>>

CloseWithoutState(c) ==
  /\ pc[c] = "close_state"
  /\ at' = [at EXCEPT ![c] = NoServer]
  /\ gone' = gone \ {c}
  /\ auth' = [auth EXCEPT ![c] = NoUser]
  /\ Return(c)
  /\ UNCHANGED <<dbVars, redisVars, srv, userConnMap, mutex, boundVars, received>>

\* The entry is erased and the channel left under the mutex ...
CloseMapped(c, u) ==
  /\ c \in gone
  /\ Idle(c)
  /\ Free(at[c])
  /\ userConnMap[at[c]][u] = c
  /\ userConnMap' = [userConnMap EXCEPT ![at[c]][u] = NoConn]
  /\ Unsubscribe(at[c], u)
  /\ Start(c, "close_state", u)
  /\ UNCHANGED <<dbVars, srv, mutex, connVars, boundVars, received>>

\* ... the state is written after it.
CloseState(c) ==
  /\ pc[c] = "close_state"
  /\ UpdateState(job[c], "offline")
  /\ at' = [at EXCEPT ![c] = NoServer]
  /\ gone' = gone \ {c}
  /\ auth' = [auth EXCEPT ![c] = NoUser]
  /\ Return(c)
  /\ UNCHANGED <<redisVars, srv, userConnMap, mutex, boundVars, received>>

\* The loop goes on with the iterator it has just erased.  CloseMapped is the
\* outcome where that ends the loop; the other one is a segmentation fault
\* under the mutex, whose signal handler this thread runs.
CloseFault(c, u) ==
  /\ "segv" \in Faults \ faults
  /\ c \in gone
  /\ Idle(c)
  /\ Free(at[c])
  /\ srv[at[c]] = "up"
  /\ userConnMap[at[c]][u] = c
  /\ userConnMap' = [userConnMap EXCEPT ![at[c]][u] = NoConn]
  /\ Unsubscribe(at[c], u)
  /\ Start(c, "faulted", u)
  /\ mutex' = [mutex EXCEPT ![at[c]] = c]
  /\ srv' = [srv EXCEPT ![at[c]] = "signalled"]
  /\ faults' = faults \cup {"segv"}
  /\ UNCHANGED <<dbVars, connVars, unsent, logins, received>>

-----------------------------------------------------------------------------
\* The thread that reads the subscription channel

\* redisNotifyMessageHandler, for a user in the map ...
NotifyLocal(s) ==
  /\ Running(s)
  /\ Free(s)
  /\ Receive(s)
  /\ LET parcel == Head(pushed[s])
         conn == userConnMap[s][parcel.to]
     IN conn # NoConn /\ Hand(conn, <<parcel>>)
  /\ UNCHANGED <<dbVars, srv, userConnMap, mutex, connVars, handlerVars, boundVars>>

\* ... and for one who is not.
NotifyStore(s) ==
  /\ Running(s)
  /\ Free(s)
  /\ Receive(s)
  /\ LET parcel == Head(pushed[s])
     IN /\ userConnMap[s][parcel.to] = NoConn
        /\ OfflineInsert(parcel.to, parcel.msg)
  /\ UNCHANGED <<srv, userConnMap, mutex, connVars, handlerVars, boundVars, received>>

RedisExecute(s) ==
  /\ Execute(s)
  /\ UNCHANGED <<dbVars, srv, userConnMap, mutex, connVars, handlerVars,
                 boundVars, received>>

-----------------------------------------------------------------------------
\* Failures

\* SIGINT: signalHandler runs in one thread, the others carry on.
SigInt(s) ==
  /\ "sigint" \in Faults \ faults
  /\ srv[s] = "up"
  /\ srv' = [srv EXCEPT ![s] = "signalled"]
  /\ faults' = faults \cup {"sigint"}
  /\ UNCHANGED <<dbVars, redisVars, userConnMap, mutex, connVars, handlerVars,
                 unsent, logins, received>>

\* reset: every user of the cluster, whichever server it is on.
ResetStates(s) ==
  /\ srv[s] = "signalled"
  /\ UserReset
  /\ srv' = [srv EXCEPT ![s] = "exiting"]
  /\ UNCHANGED <<redisVars, userConnMap, mutex, connVars, handlerVars,
                 boundVars, received>>

\* The process ends: its connections close and its threads are gone.
EndProcess(s) ==
  LET Mine(c) == at[c] = s
  IN /\ srv' = [srv EXCEPT ![s] = "down"]
     /\ DropServer(s)
     /\ userConnMap' = [userConnMap EXCEPT ![s] = [u \in Users |-> NoConn]]
     /\ mutex' = [mutex EXCEPT ![s] = NoConn]
     /\ at' = [c \in Conns |-> IF Mine(c) THEN NoServer ELSE at[c]]
     /\ gone' = {c \in gone : ~Mine(c)}
     /\ auth' = [c \in Conns |-> IF Mine(c) THEN NoUser ELSE auth[c]]
     /\ pc' = [c \in Conns |-> IF Mine(c) THEN "idle" ELSE pc[c]]
     /\ job' = [c \in Conns |-> IF Mine(c) THEN NoUser ELSE job[c]]
     /\ msg' = [c \in Conns |-> IF Mine(c) THEN NoMsg ELSE msg[c]]
     /\ todo' = [c \in Conns |-> IF Mine(c) THEN <<>> ELSE todo[c]]
     /\ UNCHANGED <<dbVars, unsent, logins, received>>

\* exit(0), after the reset.
Exit(s) ==
  /\ srv[s] = "exiting"
  /\ EndProcess(s)
  /\ UNCHANGED faults

\* The process is killed, or its machine stops.
Crash(s) ==
  /\ "crash" \in Faults \ faults
  /\ Running(s)
  /\ EndProcess(s)
  /\ faults' = faults \cup {"crash"}

\* main: nothing is read from or written to the database.
Restart(s) ==
  /\ srv[s] = "down"
  /\ srv' = [srv EXCEPT ![s] = "up"]
  /\ UNCHANGED <<dbVars, redisVars, userConnMap, mutex, connVars, handlerVars,
                 boundVars, received>>

DbStops ==
  /\ "outage" \in Faults \ faults
  /\ SetDb(FALSE)
  /\ faults' = faults \cup {"outage"}
  /\ UNCHANGED <<redisVars, srv, userConnMap, mutex, connVars, handlerVars,
                 unsent, logins, received>>

DbAnswers ==
  /\ SetDb(TRUE)
  /\ UNCHANGED <<redisVars, srv, userConnMap, mutex, connVars, handlerVars,
                 boundVars, received>>

-----------------------------------------------------------------------------
\* What clients, signals and failures may do at any time
Environment ==
  \/ \E c \in Conns, s \in Servers : Connect(c, s)
  \/ \E c \in Conns : Disconnect(c) \/ LogOut(c)
  \/ \E c \in Conns, u \in Users : Register(c, u) \/ Login(c, u) \/ CloseFault(c, u)
  \/ \E c \in Conns, m \in Msgs, u \in Users : PrivateChat(c, u, m)
  \/ \E c \in Conns, m \in Msgs, others \in GroupRows : GroupChat(c, others, m)
  \/ \E s \in Servers : SigInt(s) \/ Crash(s) \/ Restart(s)
  \/ DbStops \/ DbAnswers

\* What the threads of a server, once started, go on to do
Handler(c) ==
  \/ LoginFetch(c) \/ LoginRemove(c) \/ LoginState(c) \/ LoginMap(c)
  \/ LoginSubscribe(c)
  \/ \E u \in Users : RouteLocal(c, u) \/ RouteRemote(c, u)
  \/ Store(c) \/ PublishRemote(c)
  \/ LogOutUnsubscribe(c)
  \/ CloseUnmapped(c) \/ CloseState(c)
  \/ \E u \in Users : CloseMapped(c, u)

Notify(s) == NotifyLocal(s) \/ NotifyStore(s)

Next ==
  \/ Environment
  \/ \E c \in Conns : Handler(c)
  \/ \E s \in Servers : Notify(s) \/ RedisExecute(s) \/ ResetStates(s) \/ Exit(s)

Spec == Init /\ [][Next]_vars

\* The threads of a server are scheduled and Redis reads its sockets; nothing
\* is assumed of clients and failures.  Weak fairness is enough for the mutex:
\* MaxLogins and Msgs bound the handlers that keep it between steps.
Fairness ==
  /\ \A c \in Conns : WF_vars(Handler(c))
  /\ \A s \in Servers :
       /\ WF_vars(Notify(s))
       /\ WF_vars(RedisExecute(s))
       /\ WF_vars(ResetStates(s) \/ Exit(s))

FairSpec == Spec /\ Fairness

-----------------------------------------------------------------------------
\* Properties: the map and its connections

\* An entry of a server's map names a live connection of that server on which
\* that very user is logged in, whatever the interleaving of logins, logouts
\* and closures (insert does not overwrite, logOut erases another's entry) and
\* whatever fails.
MapMatchesSession ==
  \A s \in Servers, u \in Users :
    LET c == userConnMap[s][u]
    IN c # NoConn => at[c] = s /\ auth[c] = u

\* No client is ever handed a message addressed to someone else than the user
\* it is logged in as: the routing of privateChat, groupChat and the Redis
\* callback, and the offline messages of login.
NoMisdelivery ==
  \A u \in Users \cup {NoUser} :
    \A i \in 1..Len(received[u]) : received[u][i].to = u

\* A handler keeps its server's mutex when it is inside its critical section,
\* and only then or on its way to the next recipient of a group chat: the
\* section is never entered twice, and no handler returns, and no connection
\* closes, with the mutex of a server left locked.
Critical == {"store", "publish", "logout_unsub", "faulted"}

MutexDiscipline ==
  /\ \A c \in Conns : pc[c] \in Critical => mutex[at[c]] = c
  /\ \A s \in Servers, c \in Conns :
       mutex[s] = c => at[c] = s /\ pc[c] \in Critical \cup {"route"}

\* The handler that has the mutex keeps it until it returns, or its process
\* ends: it never passes to another handler or is let go between two recipients
\* of a group chat, who are routed in one critical section.
MutexKept ==
  [][\A s \in Servers, c \in Conns :
       mutex[s] = c => mutex'[s] = c \/ (mutex'[s] = NoConn /\ pc'[c] = "idle")]_vars

-----------------------------------------------------------------------------
\* Properties: sessions, as long as nothing fails but a server that is killed

\* c is a session of u: in some map, or between the state and the map, at
\* either end.
Holds(c, u) ==
  \/ \E s \in Servers : userConnMap[s][u] = c
  \/ pc[c] \in {"login_map", "close_state"} /\ job[c] = u

Entering(c, u) ==
  pc[c] \in {"login_fetch", "login_remove", "login_state"} /\ job[c] = u

\* A user has at most one session in the whole cluster: what login's check
\* "already online, repeated login" is for (service.cpp:59-65).  It reads the
\* state long before it writes it.
OneSessionPerUser ==
  \A u \in Users, c, d \in Conns : Holds(c, u) /\ Holds(d, u) => c = d

\* t_user.state, which decides where messages go and who may log in, agrees
\* with the maps of all servers: a user with a session is online, and until a
\* server is killed a user who is online has one.  Three handlers write it at
\* different distances from the map.
StateMatchesSessions ==
  \A u \in Users :
    /\ (\E c \in Conns : Holds(c, u)) => userState[u] = "online"
    /\ faults = {} => (userState[u] = "online" => \E c \in Conns : Holds(c, u))

\* The abstract register of sessions.
SessionOf(u) ==
  IF \E c \in Conns : Holds(c, u) THEN CHOOSE c \in Conns : Holds(c, u) ELSE NoConn

Sessions == INSTANCE SessionRegister
  WITH session <- [u \in Users |-> SessionOf(u)], failures <- faults

\* The cluster is a register of sessions: no interleaving of the steps of
\* logins, logouts and closures takes a session over, gives a connection to two
\* users, or signs two users in or off at once; and a server that is killed ends
\* sessions but neither begins nor moves one.
KeepsRegister == Sessions!RegisterSpec

\* Whether the last command written for a channel is a subscription, or if
\* there is none under way, whether Redis has one.
WillBeSubscribed(s, u) ==
  LET mine == {i \in 1..Len(cmds[s]) : cmds[s][i].user = u}
  IN IF mine = {}
       THEN <<s, u>> \in subs
       ELSE cmds[s][CHOOSE i \in mine : \A j \in mine : j <= i].op = "SUBSCRIBE"

\* A server ends up subscribed to the channels of the users in its map and to
\* no others: a subscription written outside the mutex is never overtaken by
\* an unsubscription of an earlier session, so none is lost and none leaks; a
\* server that is killed leaves none behind and starts with none.
SubscriptionsMatchMap ==
  \A s \in Servers, u \in Users :
    LET changing == \E c \in Conns : at[c] = s /\ job[c] = u
                                     /\ pc[c] \in {"login_sub", "logout_unsub"}
    IN ~changing => (WillBeSubscribed(s, u) <=> userConnMap[s][u] # NoConn)

-----------------------------------------------------------------------------
\* Properties: liveness, under FairSpec

\* Every handler returns, whoever holds which mutex: no deadlock among the
\* handlers, and none is starved.
HandlersReturn == \A c \in Conns : pc[c] # "idle" ~> pc[c] = "idle"

\* A client that left without logging out stops being online in the database,
\* so that the user can log in again and messages are stored.
LeaverGoesOffline ==
  \A u \in Users :
    (\E c \in gone : auth[c] = u) ~> userState[u] = "offline"
=============================================================================
