------------------------------ MODULE Database ------------------------------
(***************************************************************************)
(* The MySQL tables t_user and t_offlineMessage as the servers of the      *)
(* cluster use them.                                                       *)
(*                                                                         *)
(* Every model method (UserModel, OfflineMsgModel) opens a connection of   *)
(* its own, runs ONE statement under autocommit and closes the connection, *)
(* so every operator below is one atomic step and nothing is ever held     *)
(* between two statements.  A method whose connect() or statement fails    *)
(* returns the empty result (a default User, no rows, false), which every  *)
(* caller in service.cpp ignores: dbUp = FALSE is that outcome.            *)
(***************************************************************************)
EXTENDS ChatTypes

CONSTANT Registered   \* the ids that have a t_user row before the run starts

ASSUME RegisteredAssumption == Registered \subseteq Users

VARIABLES
  userState,   \* t_user.state, or "absent" when no row has the id
  offline,     \* t_offlineMessage: for each userid, its rows in order
  dbUp         \* whether MySQL answers

dbVars == <<userState, offline, dbUp>>

States == {"absent", "offline", "online"}

DbTypeOK ==
  /\ userState \in [Users -> States]
  /\ offline \in [Users -> Seq(Msgs)]
  /\ dbUp \in BOOLEAN

DbInit ==
  /\ userState = [u \in Users |-> IF u \in Registered THEN "offline" ELSE "absent"]
  /\ offline = [u \in Users |-> <<>>]
  /\ dbUp = TRUE

-----------------------------------------------------------------------------
\* UserModel::query found a row (getID() # -1).
UserFound(u) == dbUp /\ userState[u] # "absent"

\* Mutation: the state column is never read back.
UserStateUnread(u) == "offline"

\* UserModel::query(u).getState(): a missing row and a failed query both
\* yield User(), whose state is "offline".
UserState(u) ==
  IF UserFound(u) THEN userState[u] ELSE "offline"

\* OfflineMsgModel::query
OfflineQuery(u) == IF dbUp THEN offline[u] ELSE <<>>

\* UserModel::insert: auto_increment picks a fresh id, state defaults to offline.
UserInsert(u) ==
  /\ dbUp
  /\ userState[u] = "absent"
  /\ userState' = [userState EXCEPT ![u] = "offline"]
  /\ UNCHANGED <<offline, dbUp>>

\* UserModel::updateState: an UPDATE that matches no row changes nothing.
UpdateState(u, state) ==
  /\ userState' = IF UserFound(u)
                    THEN [userState EXCEPT ![u] = state]
                    ELSE userState
  /\ UNCHANGED <<offline, dbUp>>

\* UserModel::reset: one UPDATE over the whole table, whatever server a user is on.
UserReset ==
  /\ userState' = IF dbUp
                    THEN [u \in Users |-> IF userState[u] = "online"
                                            THEN "offline" ELSE userState[u]]
                    ELSE userState
  /\ UNCHANGED <<offline, dbUp>>

\* Mutation: the two columns swapped.
OfflineInsertSwapped(u, m) ==
  /\ offline' = IF dbUp THEN [offline EXCEPT ![u] = Append(@, u)] ELSE offline
  /\ UNCHANGED <<userState, dbUp>>

\* OfflineMsgModel::insert: no foreign key, so any userid gets a row.
OfflineInsert(u, m) ==
  /\ offline' = IF dbUp THEN [offline EXCEPT ![u] = Append(@, m)] ELSE offline
  /\ UNCHANGED <<userState, dbUp>>

\* OfflineMsgModel::remove: deletes all rows of u, fetched or not.
OfflineRemove(u) ==
  /\ offline' = IF dbUp THEN [offline EXCEPT ![u] = <<>>] ELSE offline
  /\ UNCHANGED <<userState, dbUp>>

\* MySQL stops or starts answering.
SetDb(up) ==
  /\ dbUp = ~up
  /\ dbUp' = up
  /\ UNCHANGED <<userState, offline>>
=============================================================================
