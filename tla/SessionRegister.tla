--------------------------- MODULE SessionRegister ---------------------------
(***************************************************************************)
(* What the cluster promises about sessions, without servers, tables or    *)
(* channels: a register that holds at most one connection for a user and   *)
(* at most one user for a connection.  A session is never handed from one  *)
(* connection to another: the user signs off in between, or a failure ends *)
(* the session.                                                            *)
(***************************************************************************)
CONSTANTS Users, Conns, NoConn

VARIABLES
  session,    \* the connection a user is logged in on, or NoConn
  failures    \* the failures there have been

registerVars == <<session, failures>>

RegisterInit == session = [u \in Users |-> NoConn] /\ failures = {}

SignIn(u, c) ==
  /\ session[u] = NoConn
  /\ \A v \in Users : session[v] # c
  /\ session' = [session EXCEPT ![u] = c]
  /\ UNCHANGED failures

SignOff(u) ==
  /\ session[u] # NoConn
  /\ session' = [session EXCEPT ![u] = NoConn]
  /\ UNCHANGED failures

\* A failure ends the sessions of some users.
Fail(lost) ==
  /\ failures \subseteq failures' /\ failures' # failures
  /\ session' = [u \in Users |-> IF u \in lost THEN NoConn ELSE session[u]]

RegisterNext ==
  \/ \E u \in Users : SignOff(u) \/ \E c \in Conns : SignIn(u, c)
  \/ \E lost \in SUBSET Users : Fail(lost)

RegisterSpec == RegisterInit /\ [][RegisterNext]_registerVars
=============================================================================
