------------------------------ MODULE Promises ------------------------------
(***************************************************************************)
(* What the comments of the source and its README say of the cluster, and  *)
(* what ChatService does not keep: each is the property of a run that      *)
(* finds it violated.                                                      *)
(***************************************************************************)
EXTENDS ChatService

\* "Push the offline messages" (service.cpp:72): the rows login deletes are
\* rows it pushed to the client.
RemovedRowsWerePushed ==
  \A c \in Conns \ gone :
    pc[c] = "login_remove" =>
      LET u == job[c]
      IN \A i \in 1..Len(offline[u]) :
           \E j \in 1..Len(received[u]) :
             received[u][j] = [to |-> u, msg |-> offline[u][i]]

\* "High availability and disaster recovery for the server cluster"
\* (README.md): a user no server has a connection of does not stay online,
\* because then it can never log in again.
LostSessionIsForgotten ==
  \A u \in Users :
    (userState[u] = "online" /\ \A c \in Conns : auth[c] # u)
      ~> (userState[u] # "online" \/ \E c \in Conns : auth[c] = u)
=============================================================================
