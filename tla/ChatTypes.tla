------------------------------ MODULE ChatTypes ------------------------------
(***************************************************************************)
(* The sets every part of the system speaks of, declared once.             *)
(***************************************************************************)
EXTENDS Sequences

CONSTANTS
  Servers,     \* server processes, known to Redis by their two connections
  Users,       \* the ids of users: what t_user.id and a Redis channel may be
  Msgs         \* chat messages: the JSON texts, forwarded verbatim, of those
               \* that fit the statement and the column they are stored with

\* A message on its way to one user.
Parcel == [to : Users, msg : Msgs]
=============================================================================
