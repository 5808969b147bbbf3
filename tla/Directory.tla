------------------------------ MODULE Directory ------------------------------
(***************************************************************************)
(* Friends and groups: the tables t_friend, t_group and t_groupUser, the   *)
(* handlers addContact, createGroup and joinGroup that write them, and the *)
(* queries of login and groupChat that read them.                          *)
(*                                                                         *)
(* Each statement is atomic and on a connection of its own (see Database). *)
(* createGroup makes two of them, looks at the result of neither, and      *)
(* other handlers, of this server and of others, come in between.  None of *)
(* the three handlers is acknowledged.                                     *)
(***************************************************************************)
EXTENDS Integers, Sequences, FiniteSets, Filter

CONSTANTS
  Users, NoUser,
  Names, NoName,   \* names of groups
  Conns,           \* the connections whose requests are handled
  MaxGroups,       \* bound: the ids t_group hands out
  MaxRows,         \* bound: joinGroup adds rows to t_groupUser up to here
  MaxFriends,      \* bound: the rows of t_friend
  MaxFailures      \* bound: statements that fail and handlers that die

ASSUME DirectoryAssumption ==
  /\ NoUser \notin Users
  /\ NoName \notin Names
  /\ {MaxGroups, MaxRows, MaxFriends, MaxFailures} \subseteq Nat

NoGroup == -1                 \* the id of a Group that was not inserted
Ids == 1..MaxGroups

VARIABLES
  registered,   \* t_user: its ids
  friends,      \* t_friend: userid and friendid, which are its primary key
  groups,       \* t_group: the name in the row of each id, NoName without one
  nextId,       \* t_group: auto_increment
  members,      \* t_groupUser: its rows, which have no key, as inserted
  pc, owner, newId,   \* createGroup of each connection: where it is, for whom,
                      \* and group.getID()
  founder,      \* history: who created the group of each id
  failures      \* history: how many statements failed and handlers died

tables == <<registered, friends, groups, nextId, members>>
creating == <<pc, owner, newId>>
directoryVars == <<tables, creating, founder, failures>>

Row == [group : Ids \cup {NoGroup}, user : Users, role : {"admin", "normal"}]

DirectoryTypeOK ==
  /\ registered \subseteq Users
  /\ friends \subseteq Users \X Users
  /\ groups \in [Ids -> Names \cup {NoName}]
  /\ nextId \in 1..MaxGroups + 1
  /\ members \in Seq(Row)
  /\ pc \in [Conns -> {"idle", "created"}]
  /\ owner \in [Conns -> Users \cup {NoUser}]
  /\ newId \in [Conns -> Ids \cup {NoGroup}]
  /\ founder \in [Ids -> Users \cup {NoUser}]
  /\ failures \in 0..MaxFailures

DirectoryInit ==
  /\ registered = {}
  /\ friends = {}
  /\ groups = [g \in Ids |-> NoName]
  /\ nextId = 1
  /\ members = <<>>
  /\ pc = [c \in Conns |-> "idle"]
  /\ owner = [c \in Conns |-> NoUser]
  /\ newId = [c \in Conns |-> NoGroup]
  /\ founder = [g \in Ids |-> NoUser]
  /\ failures = 0

-----------------------------------------------------------------------------
\* Queries

Exists(g) == g \in Ids /\ groups[g] # NoName

\* GroupModel::queryGroupUsers: the rows of the group but for the asking user's.
QueryGroupUsers(u, g) ==
  LET rows == Only(members, {row \in Row : row.group = g /\ row.user # u})
  IN [i \in 1..Len(rows) |-> rows[i].user]

\* Mutation: a left join.
QueryGroupsOuter(u) ==
  LET rows == Only(members, {row \in Row : row.user = u})
  IN [i \in 1..Len(rows) |-> rows[i].group]

\* GroupModel::queryGroups: an inner join with t_group.
QueryGroups(u) ==
  LET rows == Only(members, {row \in Row : row.user = u /\ Exists(row.group)})
  IN [i \in 1..Len(rows) |-> rows[i].group]

\* FriendModel::query: an inner join with t_user.
QueryFriends(u) == {f \in registered : <<u, f>> \in friends}

-----------------------------------------------------------------------------
\* Statements

\* Mutation: the columns in another order than the table's.
InsertRowSwapped(g, u, role) ==
  members' = Append(members, [group |-> u, user |-> g, role |-> role])

\* GroupModel::join: neither the group nor the user need exist.
InsertRow(g, u, role) ==
  members' = Append(members, [group |-> g, user |-> u, role |-> role])

\* FriendModel::insert: the friend need not exist; the primary key refuses a
\* second row.
InsertFriend(u, f) ==
  /\ <<u, f>> \notin friends
  /\ friends' = friends \cup {<<u, f>>}

\* A statement that fails is noticed by nobody.
Fails ==
  /\ failures < MaxFailures
  /\ failures' = failures + 1

\* The handler of c goes on to the next statement, or returns.
Creating(c, step, u, g) ==
  /\ pc' = [pc EXCEPT ![c] = step]
  /\ owner' = [owner EXCEPT ![c] = u]
  /\ newId' = [newId EXCEPT ![c] = g]

Idle(c) == pc[c] = "idle"

-----------------------------------------------------------------------------
\* createGroup

\* Mutation: group.setID is forgotten.
CreateGroupForgetsId(c, u, n) ==
  /\ Idle(c)
  /\ nextId \in Ids
  /\ \A g \in Ids : groups[g] # n
  /\ groups' = [groups EXCEPT ![nextId] = n]
  /\ founder' = [founder EXCEPT ![nextId] = u]
  /\ nextId' = nextId + 1
  /\ Creating(c, "created", u, NoGroup)
  /\ UNCHANGED <<registered, friends, members, failures>>

\* GroupModel::create: the row is inserted and its id read back over the
\* connection that inserted it.
CreateGroup(c, u, n) ==
  /\ Idle(c)
  /\ nextId \in Ids
  /\ \A g \in Ids : groups[g] # n
  /\ groups' = [groups EXCEPT ![nextId] = n]
  /\ founder' = [founder EXCEPT ![nextId] = u]
  /\ nextId' = nextId + 1
  /\ Creating(c, "created", u, nextId)
  /\ UNCHANGED <<registered, friends, members, failures>>

\* The name is taken (which uses up an id all the same), or the statement
\* fails; createGroup goes on with the id -1.
CreateGroupTaken(c, u, n) ==
  /\ Idle(c)
  /\ nextId \in Ids
  /\ \E g \in Ids : groups[g] = n
  /\ nextId' = nextId + 1
  /\ Creating(c, "created", u, NoGroup)
  /\ UNCHANGED <<registered, friends, groups, members, founder, failures>>

CreateGroupFails(c, u) ==
  /\ Idle(c)
  /\ Fails
  /\ Creating(c, "created", u, NoGroup)
  /\ UNCHANGED <<tables, founder>>

\* Mutation: the newest group of the table instead of the one inserted.
JoinAsAdminNewest(c) ==
  /\ pc[c] = "created"
  /\ InsertRow(IF newId[c] = NoGroup THEN NoGroup ELSE nextId - 1, owner[c], "admin")
  /\ Creating(c, "idle", NoUser, NoGroup)
  /\ UNCHANGED <<registered, friends, groups, nextId, founder, failures>>

\* "Make this person the owner": the second statement, whatever came of the
\* first.
JoinAsAdmin(c) ==
  /\ pc[c] = "created"
  /\ InsertRow(newId[c], owner[c], "admin")
  /\ Creating(c, "idle", NoUser, NoGroup)
  /\ UNCHANGED <<registered, friends, groups, nextId, founder, failures>>

\* The second statement fails, or the server dies between the two.
JoinAsAdminFails(c) ==
  /\ pc[c] = "created"
  /\ Fails
  /\ Creating(c, "idle", NoUser, NoGroup)
  /\ UNCHANGED <<tables, founder>>

-----------------------------------------------------------------------------
\* One statement each; one that fails changes nothing, and is no step.

\* joinGroup: any id, of a group that does not exist, or not yet, or has the
\* user already.
JoinGroup(c, u, g) ==
  /\ Idle(c)
  /\ Len(members) < MaxRows
  /\ InsertRow(g, u, "normal")
  /\ UNCHANGED <<registered, friends, groups, nextId, creating, founder, failures>>

\* addContact: any id, in one direction only.
AddContact(c, u, f) ==
  /\ Idle(c)
  /\ Cardinality(friends) < MaxFriends
  /\ InsertFriend(u, f)
  /\ UNCHANGED <<registered, groups, nextId, members, creating, founder, failures>>

\* reg, as far as these tables are concerned.
Register(c, u) ==
  /\ Idle(c)
  /\ u \notin registered
  /\ registered' = registered \cup {u}
  /\ UNCHANGED <<friends, groups, nextId, members, creating, founder, failures>>

-----------------------------------------------------------------------------
DirectoryNext ==
  \E c \in Conns :
    \/ \E u \in Users :
         \/ \E n \in Names : CreateGroup(c, u, n) \/ CreateGroupTaken(c, u, n)
         \/ CreateGroupFails(c, u)
         \/ \E g \in Ids \cup {NoGroup} : JoinGroup(c, u, g)
         \/ \E f \in Users : AddContact(c, u, f)
         \/ Register(c, u)
    \/ JoinAsAdmin(c)
    \/ JoinAsAdminFails(c)

DirectorySpec == DirectoryInit /\ [][DirectoryNext]_directoryVars

-----------------------------------------------------------------------------
\* Properties

AdminRows == {i \in 1..Len(members) : members[i].role = "admin"}

\* An existing group has at most one administrator and that is the user who
\* created it, although the handlers of several servers create groups at the
\* same time and learn the id from one statement to use it in another.
AdminIsFounder ==
  \A i \in AdminRows :
    LET g == members[i].group
    IN g # NoGroup =>
         /\ Exists(g)
         /\ members[i].user = founder[g]
         /\ \A j \in AdminRows : members[j].group = g => j = i

\* A group never stays without an administrator but for a failure: its creator
\* is on the way to be one, or one failure left it so.
Orphans ==
  {g \in Ids : /\ Exists(g)
               /\ \A i \in AdminRows : members[i].group # g
               /\ ~\E c \in Conns : /\ pc[c] = "created"
                                    /\ newId[c] = g /\ owner[c] = founder[g]}
OrphansExplained == Orphans = {} \/ failures > 0

\* What a login shows is what the routing goes by: a user is shown exactly the
\* existing groups whose messages from anybody else reach it, as often as it
\* will get each of them; and no friend that does not exist.  The two queries
\* read t_groupUser by different columns and only one of them looks at t_group.
Times(x, seq) == Cardinality({i \in 1..Len(seq) : seq[i] = x})

ShownIsRouted ==
  \A u \in Users :
    /\ \A g \in Ids \cup {NoGroup}, v \in Users \ {u} :
         Times(g, QueryGroups(u)) =
           IF Exists(g) THEN Times(u, QueryGroupUsers(v, g)) ELSE 0
    /\ QueryFriends(u) \subseteq registered
=============================================================================
