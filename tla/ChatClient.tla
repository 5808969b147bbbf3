----------------------------- MODULE ChatClient -----------------------------
(***************************************************************************)
(* One client (src/client/main.cpp): the main thread with its menus, the   *)
(* detached thread that reads the socket, the semaphore g_rwsem and the    *)
(* flag g_logedIn between them, and the socket's two directions.           *)
(*                                                                         *)
(* A direction is a stream of parts of texts, and neither side frames it:  *)
(* each takes what one read returns for exactly one text, and an exception *)
(* of json::parse, which nobody catches, ends the process that reads       *)
(* anything else.  Json shows what the parser accepts.                     *)
(*                                                                         *)
(* The server's side is reduced to its answers: ChatService models it.     *)
(***************************************************************************)
EXTENDS Integers, Sequences, FiniteSets

CONSTANTS
  MaxRequests,   \* bound: requests the user makes from the first menu
  MaxPushes,     \* bound: chat messages pushed to the client
  RecvSize,      \* the parts that fit the client's buffer of 1000 bytes
  Refusable,     \* the requests the server may refuse: "reg", "login"
  MayClose       \* whether the server may close the connection

ASSUME ClientAssumption ==
  /\ MaxRequests \in Nat /\ MaxPushes \in Nat
  /\ RecvSize \in Nat /\ RecvSize >= 3   \* a short answer fits, with its line end
  /\ Refusable \subseteq {"reg", "login"}
  /\ MayClose \in BOOLEAN

VARIABLES
  main,       \* where the main thread is
  reader,     \* whether the thread of readHandler still reads
  sem,        \* g_rwsem
  logedIn,    \* g_logedIn
  requests,   \* the parts sent to the server and not read yet
  replies,    \* the parts sent to the client and not read yet
  session,    \* the server has the connection's user logged in
  closed,     \* the server closed the connection
  refused,    \* history: the server has refused a request
  granted,    \* history: a login was acknowledged
  split,      \* history: TCP has cut what one send() sent
  aborted,    \* history: the sides that died of json::parse
  made, pushes  \* counters for the bounds

history == <<refused, granted, split, aborted>>
wire == <<requests, replies, session, closed, history>>
clientVars == <<main, reader, sem, logedIn, wire, made, pushes>>

Waiting == {"reg_wait", "login_wait"}
Asked == {"reg", "login"}

\* What the server sends: the answer to a request, or a message of another user.
Reply == [to : Asked \cup {"nobody"}, ok : BOOLEAN]
ChatMessage == [to |-> "nobody", ok |-> TRUE]

\* Part number `part` of the text's `of`; what comes after those is the line end
\* of an acknowledgement, which the parser skips.
Parts(Texts) == [text : Texts, part : 1..5, of : {2, 4}]
Requests == Asked \cup {"logout", "chat"}

ClientTypeOK ==
  /\ main \in {"menu", "main_menu", "exited"} \cup Waiting
  /\ reader \in {"reading", "returned"}
  /\ sem \in Nat
  /\ logedIn \in BOOLEAN
  /\ requests \in Seq(Parts(Requests))
  /\ replies \in Seq(Parts(Reply))
  /\ {session, closed, refused, granted, split} \subseteq BOOLEAN
  /\ aborted \subseteq {"client", "server"}
  /\ made \in 0..MaxRequests /\ pushes \in 0..MaxPushes

ClientInit ==
  /\ main = "menu" /\ reader = "reading"
  /\ sem = 0 /\ logedIn = FALSE
  /\ requests = <<>> /\ replies = <<>>
  /\ session = FALSE /\ closed = FALSE
  /\ refused = FALSE /\ granted = FALSE /\ split = FALSE /\ aborted = {}
  /\ made = 0 /\ pushes = 0

-----------------------------------------------------------------------------
\* The streams

Sent(text, of, ends) ==
  [i \in 1..of + ends |-> [text |-> text, part |-> i, of |-> of]]

\* What of the parts read belongs to texts, and where that begins
Body(parts) == {i \in 1..Len(parts) : parts[i].part <= parts[i].of}
First(parts) == CHOOSE i \in Body(parts) : \A j \in Body(parts) : i <= j

\* Mutation: a parser that is content with a first text and drops the rest.
FirstOf(parts) ==
  /\ Body(parts) # {} /\ parts[First(parts)].part = 1
  /\ Cardinality(Body(parts)) >= parts[First(parts)].of

\* json::parse accepts exactly one text, between line ends.
Whole(parts) ==
  /\ Body(parts) # {} /\ parts[First(parts)].part = 1
  /\ Cardinality(Body(parts)) = parts[First(parts)].of

TextOf(parts) == parts[First(parts)].text

\* The first k parts of a stream are read, of at most `size` parts that fit: TCP
\* may have joined what was sent apart, and cut what was sent at once.
Cut(stream, k, size) ==
  k < size /\ k < Len(stream) /\ stream[k + 1].part # 1

\* send() to a server that closed may still return: what is sent is lost, and in
\* mainMenu an error is printed and no more.
SendRequest(request) ==
  /\ requests' = IF closed THEN requests ELSE requests \o Sent(request, 2, 0)
  /\ UNCHANGED <<replies, session, closed, history>>

\* Menu choices 0 and 1: send the request, then sem_wait.
Ask(request) ==
  /\ main = "menu"
  /\ made < MaxRequests
  /\ made' = made + 1
  /\ SendRequest(request)
  /\ main' = IF request = "reg" THEN "reg_wait" ELSE "login_wait"
  /\ UNCHANGED <<reader, sem, logedIn, pushes>>

\* Or it ends the program: with SIGPIPE, or in the first menu with an error, for
\* which the loop is left.
SendFails ==
  /\ main \in {"menu", "main_menu"} /\ closed
  /\ main' = "exited"
  /\ UNCHANGED <<reader, sem, logedIn, wire, made, pushes>>

\* Menu choice 2
Quit ==
  /\ main = "menu"
  /\ main' = "exited"
  /\ UNCHANGED <<reader, sem, logedIn, wire, made, pushes>>

\* Mutations: any answer to a login opens the main menu; sem_wait never waits.
WakeUnchecked ==
  /\ main \in Waiting
  /\ sem > 0
  /\ sem' = sem - 1
  /\ main' = IF main = "login_wait" THEN "main_menu" ELSE "menu"
  /\ UNCHANGED <<reader, logedIn, wire, made, pushes>>

WakeAtOnce ==
  /\ main \in Waiting
  /\ sem' = sem - 1
  /\ main' = IF main = "login_wait" /\ logedIn THEN "main_menu" ELSE "menu"
  /\ UNCHANGED <<reader, logedIn, wire, made, pushes>>

\* sem_wait returns; after a login g_logedIn decides which menu comes.
Wake ==
  /\ main \in Waiting
  /\ sem > 0
  /\ sem' = sem - 1
  /\ main' = IF main = "login_wait" /\ logedIn THEN "main_menu" ELSE "menu"
  /\ UNCHANGED <<reader, logedIn, wire, made, pushes>>

\* mainMenu: chat, addcontact, creategroup, joingroup, groupchat; none waits.
Command ==
  /\ main = "main_menu"
  /\ made < MaxRequests
  /\ made' = made + 1
  /\ SendRequest("chat")
  /\ UNCHANGED <<main, reader, sem, logedIn, pushes>>

\* logOut: sent and not waited for; the loop of mainMenu ends.
LogOut ==
  /\ main = "main_menu"
  /\ SendRequest("logout")
  /\ logedIn' = FALSE
  /\ main' = "menu"
  /\ UNCHANGED <<reader, sem, made, pushes>>

-----------------------------------------------------------------------------
\* readHandler

\* Mutations: every message posts the semaphore; a registration never does.
PostAlways(reply) ==
  /\ sem' = sem + 1
  /\ logedIn' = IF reply.to = "login" THEN reply.ok ELSE logedIn
  /\ reader' = IF reply.to = "login" /\ ~reply.ok THEN "returned" ELSE reader

PostLoginOnly(reply) ==
  /\ sem' = IF reply.to = "login" THEN sem + 1 ELSE sem
  /\ logedIn' = IF reply.to = "login" THEN reply.ok ELSE logedIn
  /\ reader' = IF reply.to = "login" /\ ~reply.ok THEN "returned" ELSE reader

\* An acknowledgement or a chat message.  A refused registration is printed
\* and not posted; a refused login is posted, and the thread returns.
Post(reply) ==
  /\ sem' = IF reply.to = "login" \/ (reply.to = "reg" /\ reply.ok)
              THEN sem + 1 ELSE sem
  /\ logedIn' = IF reply.to = "login" THEN reply.ok ELSE logedIn
  /\ reader' = IF reply.to = "login" /\ ~reply.ok THEN "returned" ELSE reader

\* One recv, of up to 1000 bytes, and json::parse of what it left.
Recv(k) ==
  /\ main # "exited" /\ reader = "reading"
  /\ k <= RecvSize
  /\ replies' = SubSeq(replies, k + 1, Len(replies))
  /\ split' = (split \/ Cut(replies, k, RecvSize))
  /\ UNCHANGED <<requests, session, closed, refused, granted, made, pushes>>

Read ==
  \E k \in 1..Len(replies) :
    LET parts == SubSeq(replies, 1, k)
    IN Recv(k) /\ Whole(parts) /\ Post(TextOf(parts)) /\ UNCHANGED <<main, aborted>>

\* The exception ends the client.
ReadAborts ==
  \E k \in 1..Len(replies) :
    /\ Recv(k) /\ ~Whole(SubSeq(replies, 1, k))
    /\ main' = "exited"
    /\ aborted' = aborted \cup {"client"}
    /\ UNCHANGED <<reader, sem, logedIn>>

\* recv returns 0: exit(-1) ends the process.
ReadEnd ==
  /\ main # "exited" /\ reader = "reading"
  /\ closed /\ replies = <<>>
  /\ main' = "exited"
  /\ UNCHANGED <<reader, sem, logedIn, wire, made, pushes>>

-----------------------------------------------------------------------------
\* The server, as reg, login and logOut answer

\* A side that goes away takes the session, and the requests, with it.
HangUp == closed' = TRUE /\ session' = FALSE /\ requests' = <<>>

\* One message callback: the whole input buffer is taken for a request.
Callback(k) ==
  /\ ~closed
  /\ split' = (split \/ Cut(requests, k, Len(requests)))
  /\ UNCHANGED <<main, reader, sem, logedIn, made, pushes>>

Handle(k, request) ==
  LET parts == SubSeq(requests, 1, k)
  IN /\ Callback(k) /\ Whole(parts) /\ request = TextOf(parts)
     /\ requests' = SubSeq(requests, k + 1, Len(requests))
     /\ UNCHANGED <<closed, aborted>>

\* The acknowledgement of a login may hold more than the client can receive.
ServeAsked(ok) ==
  \E k \in 1..Len(requests), request \in (IF ok THEN Asked ELSE Refusable),
     of \in {2, 4} :
    /\ Handle(k, request)
    /\ of = 4 => ok /\ request = "login"
    /\ replies' = replies \o Sent([to |-> request, ok |-> ok], of, 1)
    /\ session' = (session \/ (ok /\ request = "login"))
    /\ granted' = (granted \/ (ok /\ request = "login"))
    /\ refused' = (refused \/ ~ok)

ServeOther ==
  \E k \in 1..Len(requests), request \in Requests \ Asked :
    /\ Handle(k, request)
    /\ session' = (session /\ request # "logout")
    /\ UNCHANGED <<replies, refused, granted>>

\* The exception ends the server.
ServeAborts ==
  \E k \in 1..Len(requests) :
    /\ Callback(k) /\ ~Whole(SubSeq(requests, 1, k))
    /\ HangUp
    /\ aborted' = aborted \cup {"server"}
    /\ UNCHANGED <<replies, refused, granted>>

Serve == ServeAsked(TRUE) \/ ServeAsked(FALSE) \/ ServeOther \/ ServeAborts

\* A chat message of another user, which may be longer than the client can
\* receive, too.
Push ==
  /\ session /\ ~closed
  /\ pushes < MaxPushes
  /\ pushes' = pushes + 1
  /\ \E of \in {2, 4} : replies' = replies \o Sent(ChatMessage, of, 0)
  /\ UNCHANGED <<main, reader, sem, logedIn, requests, session, closed, history, made>>

Close ==
  /\ MayClose /\ ~closed
  /\ HangUp
  /\ UNCHANGED <<main, reader, sem, logedIn, replies, history, made, pushes>>

-----------------------------------------------------------------------------
ClientNext ==
  \/ Ask("reg") \/ Ask("login") \/ SendFails \/ Quit \/ Command \/ LogOut
  \/ Wake \/ Read \/ ReadAborts \/ ReadEnd
  \/ Serve \/ Push \/ Close

\* Both threads are scheduled and the server answers; the user need not type.
ClientSpec ==
  /\ ClientInit /\ [][ClientNext]_clientVars
  /\ WF_clientVars(Wake) /\ WF_clientVars(Read \/ ReadAborts \/ ReadEnd) /\ WF_clientVars(Serve)

-----------------------------------------------------------------------------
\* Asking an acknowledgement the main thread still waits for
Outstanding ==
  \/ \E i \in 1..Len(requests) : requests[i].text \in Asked
  \/ \E i \in 1..Len(replies) : /\ replies[i].text.to \in Asked
                                 /\ replies[i].part <= replies[i].of

\* A post of the semaphore answers the request the main thread waits for: none
\* is left over to let a later sem_wait through before its acknowledgement.
NoStalePost ==
  main # "exited" => /\ sem > 0 => main \in Waiting /\ ~Outstanding
                     /\ sem <= 1

\* The two ends agree on who is logged in: the main menu is shown during a
\* session only, and back in the first menu the logout is done or on its way.
SessionsAgree ==
  /\ main = "main_menu" => session \/ closed
  /\ main = "menu" /\ session => \E i \in 1..Len(requests) : requests[i].text = "logout"

\* While TCP keeps what was sent at once together, no side takes anything for a
\* text that is none before a first login is granted: until then the client
\* waits for each answer, and the server pushes nothing.  Afterwards the lack of
\* framing may end either.
AbortsExplained == aborted # {} => granted \/ split

\* As long as the server refuses nothing, the user is back at a menu after each
\* request, answered or cut off, or the program ends: no wake-up is lost.
AnswerWakes == main \in Waiting ~> (main \notin Waiting \/ refused)

\* "Loop of the menu" (client/main.cpp:117): the same after any answer.
MenuComesBack == main \in Waiting ~> main \notin Waiting
=============================================================================
