--------------------------- MODULE DirectoryProofs ---------------------------
(***************************************************************************)
(* The groups of the directory, for any users, names, handlers, bounds and *)
(* failures: their only administrators are their founders, and a group is  *)
(* without one only after a failure.                                       *)
(***************************************************************************)
EXTENDS Directory, Counting

(***************************************************************************)
(* createGroup carries the id of the group from one statement to the next. *)
(* In between the id is this handler's own, the group is its user's and    *)
(* nobody administers it; ids not handed out are in no row of a founder or *)
(* an administrator.                                                       *)
(***************************************************************************)
IdsFresh ==
  /\ \A g \in Ids : g >= nextId => groups[g] = NoName
  /\ \A i \in AdminRows : members[i].group < nextId

HandlerOwns ==
  \A c \in Conns :
    pc[c] = "created" =>
      /\ owner[c] \in Users
      /\ newId[c] # NoGroup =>
           /\ newId[c] < nextId
           /\ Exists(newId[c])
           /\ owner[c] = founder[newId[c]]
           /\ \A i \in AdminRows : members[i].group # newId[c]
           /\ \A d \in Conns : pc[d] = "created" /\ newId[d] = newId[c] => d = c

DirectoryInv ==
  /\ DirectoryTypeOK
  /\ IdsFresh
  /\ HandlerOwns
  /\ AdminIsFounder
  /\ OrphansExplained

\* A row at the end changes no other, and is an administrator's or not.
LEMMA RowAdded ==
  ASSUME members \in Seq(Row), NEW g \in Ids \cup {NoGroup}, NEW u \in Users,
         NEW role \in {"admin", "normal"}, InsertRow(g, u, role)
  PROVE  /\ members' \in Seq(Row)
         /\ Len(members') = Len(members) + 1
         /\ Len(members) \in Nat
         /\ \A i \in 1..Len(members) : members'[i] = members[i]
         /\ members'[Len(members) + 1] = [group |-> g, user |-> u, role |-> role]
         /\ AdminRows' = IF role = "admin" THEN AdminRows \cup {Len(members) + 1}
                                           ELSE AdminRows
<1>1. /\ members' \in Seq(Row)
      /\ Len(members') = Len(members) + 1
      /\ Len(members) \in Nat
      /\ \A i \in 1..Len(members) : members'[i] = members[i]
      /\ members'[Len(members) + 1] = [group |-> g, user |-> u, role |-> role]
  BY DEF InsertRow, Row
<1>2. 1..Len(members') = 1..Len(members) \cup {Len(members) + 1}
  BY <1>1
<1>3. \A i \in 1..Len(members') : members'[i].role = "admin" <=>
        (i \in AdminRows \/ (i = Len(members) + 1 /\ role = "admin"))
  BY <1>1, <1>2 DEF AdminRows
<1>4. Len(members) + 1 \notin 1..Len(members)
  BY <1>1
<1>5. QED
  BY <1>1, <1>2, <1>3, <1>4 DEF AdminRows

\* The group of an administrator's row.
LEMMA AdminRowsTyped ==
  ASSUME members \in Seq(Row)
  PROVE  \A i \in AdminRows : members[i].group \in Ids \cup {NoGroup}
<1>1. \A i \in 1..Len(members) : members[i] \in Row
  OBVIOUS
<1>2. \A row \in Row : row.group \in Ids \cup {NoGroup}
  BY DEF Row
<1>3. QED
  BY <1>1, <1>2 DEF AdminRows

\* The rows of the group table and of administrators stay as they are.
LEMMA OthersStep ==
  ASSUME DirectoryInv, DirectoryTypeOK',
         UNCHANGED <<groups, nextId, founder, creating, AdminRows>>,
         \A i \in AdminRows : members'[i] = members[i],
         failures' >= failures
  PROVE  DirectoryInv'
<1>1. IdsFresh'
  BY DEF DirectoryInv, IdsFresh
<1>2. HandlerOwns'
  BY DEF DirectoryInv, HandlerOwns, Exists, creating
<1>3. AdminIsFounder'
  BY DEF DirectoryInv, AdminIsFounder, Exists
<1>4. OrphansExplained'
  BY DEF DirectoryInv, OrphansExplained, Orphans, Exists, creating, DirectoryTypeOK
<1>5. QED
  BY <1>1, <1>2, <1>3, <1>4 DEF DirectoryInv

LEMMA DirectoryTypeStep ==
  ASSUME DirectoryTypeOK, HandlerOwns, [DirectoryNext]_directoryVars
  PROVE  DirectoryTypeOK'
<1> USE DirectoryAssumption DEF DirectoryTypeOK, Ids, NoGroup
<1>1. ASSUME NEW c \in Conns, NEW u \in Users, NEW n \in Names,
             CreateGroup(c, u, n) \/ CreateGroupTaken(c, u, n)
      PROVE  DirectoryTypeOK'
  <2>1. nextId' \in 1..MaxGroups + 1
    BY <1>1 DEF CreateGroup, CreateGroupTaken
  <2>2. /\ pc' \in [Conns -> {"idle", "created"}]
        /\ owner' \in [Conns -> Users \cup {NoUser}]
        /\ newId' \in [Conns -> Ids \cup {NoGroup}]
    <3>1. PICK g \in Ids \cup {NoGroup} : Creating(c, "created", u, g)
      BY <1>1 DEF CreateGroup, CreateGroupTaken
    <3>2. QED
      BY <3>1 DEF Creating
  <2>3. CASE CreateGroup(c, u, n)
    BY <2>1, <2>2, <2>3 DEF CreateGroup
  <2>4. CASE CreateGroupTaken(c, u, n)
    BY <2>1, <2>2, <2>4 DEF CreateGroupTaken
  <2>5. QED
    BY <1>1, <2>3, <2>4
<1>2. ASSUME NEW c \in Conns, NEW u \in Users, CreateGroupFails(c, u)
      PROVE  DirectoryTypeOK'
  BY <1>2 DEF CreateGroupFails, Creating, Fails, tables
<1>3. ASSUME NEW c \in Conns, NEW u \in Users, NEW g \in Ids \cup {NoGroup},
             JoinGroup(c, u, g)
      PROVE  DirectoryTypeOK'
  <2>1. members' \in Seq(Row)
    BY <1>3, RowAdded DEF JoinGroup
  <2>2. QED
    BY <1>3, <2>1 DEF JoinGroup, creating
<1>4. ASSUME NEW c \in Conns, JoinAsAdmin(c)
      PROVE  DirectoryTypeOK'
  <2>1. owner[c] \in Users /\ newId[c] \in Ids \cup {NoGroup}
    BY <1>4 DEF JoinAsAdmin, HandlerOwns
  <2>2. members' \in Seq(Row)
    BY <1>4, <2>1, RowAdded DEF JoinAsAdmin
  <2>3. QED
    BY <1>4, <2>2 DEF JoinAsAdmin, Creating
<1>5. ASSUME NEW c \in Conns, JoinAsAdminFails(c)
      PROVE  DirectoryTypeOK'
  BY <1>5 DEF JoinAsAdminFails, Creating, Fails, tables
<1>6. ASSUME NEW c \in Conns, NEW u \in Users,
             Register(c, u) \/ \E f \in Users : AddContact(c, u, f)
      PROVE  DirectoryTypeOK'
  <2>1. CASE Register(c, u)
    BY <2>1 DEF Register, creating
  <2>2. CASE \E f \in Users : AddContact(c, u, f)
    BY <2>2 DEF AddContact, InsertFriend, creating
  <2>3. QED
    BY <1>6, <2>1, <2>2
<1>7. CASE UNCHANGED directoryVars
  BY <1>7 DEF directoryVars, tables, creating
<1>8. QED
  BY <1>1, <1>2, <1>3, <1>4, <1>5, <1>6, <1>7 DEF DirectoryNext

LEMMA DirectoryStep ==
  ASSUME DirectoryInv, [DirectoryNext]_directoryVars
  PROVE  DirectoryInv'
<1>t. DirectoryTypeOK'
  BY DirectoryTypeStep DEF DirectoryInv
<1>d. DirectoryTypeOK
  BY DEF DirectoryInv
<1>g. \A i \in AdminRows : members[i].group \in Ids \cup {NoGroup}
  BY <1>d, AdminRowsTyped DEF DirectoryTypeOK
<1> USE DirectoryAssumption DEF Ids, NoGroup
\* A group is created: its id is fresh, so it has no administrator yet.
<1>1. ASSUME NEW c \in Conns, NEW u \in Users, NEW n \in Names, CreateGroup(c, u, n)
      PROVE  DirectoryInv'
  <2>1. /\ nextId \in Ids /\ nextId' = nextId + 1
        /\ pc[c] = "idle"
        /\ groups' = [groups EXCEPT ![nextId] = n]
        /\ founder' = [founder EXCEPT ![nextId] = u]
        /\ pc' = [pc EXCEPT ![c] = "created"]
        /\ owner' = [owner EXCEPT ![c] = u]
        /\ newId' = [newId EXCEPT ![c] = nextId]
        /\ UNCHANGED <<members, failures>>
    BY <1>1 DEF CreateGroup, Creating, Idle
  <2>2. /\ AdminRows' = AdminRows
        /\ \A i \in AdminRows : members[i].group < nextId
        /\ \A g \in Ids : Exists(g)' <=> Exists(g) \/ g = nextId
        /\ \A g \in Ids : g >= nextId => ~Exists(g)
    BY <1>d, <2>1 DEF DirectoryInv, IdsFresh, AdminRows, Exists, DirectoryTypeOK
  <2>3. IdsFresh'
    <3>1. \A g \in Ids : g >= nextId' => groups'[g] = NoName
      BY <1>d, <2>1 DEF DirectoryInv, IdsFresh, DirectoryTypeOK
    <3>2. \A i \in AdminRows : members[i].group < nextId'
      BY <1>g, <2>1, <2>2
    <3>3. QED
      BY <2>1, <2>2, <3>1, <3>2 DEF IdsFresh
  <2>4. HandlerOwns'
    <3>1. ASSUME NEW d \in Conns \ {c}, pc[d] = "created", newId[d] # NoGroup
          PROVE  newId[d] < nextId /\ newId[d] \in Ids
      BY <1>d, <3>1 DEF DirectoryInv, HandlerOwns, DirectoryTypeOK
    <3>2. \A d \in Conns \ {c} : /\ pc'[d] = pc[d] /\ owner'[d] = owner[d]
                                /\ newId'[d] = newId[d]
      BY <1>d, <2>1 DEF DirectoryTypeOK
    <3>3. \A g \in Ids : g < nextId => founder'[g] = founder[g]
      BY <1>d, <2>1 DEF DirectoryTypeOK
    <3>4. /\ pc'[c] = "created" /\ owner'[c] = u /\ newId'[c] = nextId
          /\ founder'[nextId] = u
      BY <1>d, <2>1 DEF DirectoryTypeOK
    <3>5. ASSUME NEW d \in Conns, pc'[d] = "created" PROVE owner'[d] \in Users
      BY <1>t, <3>2, <3>4, <3>5 DEF DirectoryInv, HandlerOwns
    <3>6. ASSUME NEW d \in Conns, pc'[d] = "created", newId'[d] # NoGroup
          PROVE  /\ newId'[d] < nextId'
                 /\ Exists(newId[d])'
                 /\ owner'[d] = founder'[newId'[d]]
                 /\ \A i \in AdminRows' : members'[i].group # newId'[d]
                 /\ \A e \in Conns : pc'[e] = "created" /\ newId'[e] = newId'[d] => e = d
      <4>1. CASE d = c
        <5>1. \A e \in Conns \ {c} : pc'[e] = "created" => newId'[e] # nextId
          BY <1>d, <2>1, <3>1, <3>2
        <5>2. \A i \in AdminRows : members[i].group # nextId
          BY <1>d, <2>2 DEF AdminRows, DirectoryTypeOK, Row
        <5>3. QED
          BY <2>1, <2>2, <3>4, <4>1, <5>1, <5>2
      <4>2. CASE d # c
        <5>1. /\ newId[d] < nextId /\ newId[d] \in Ids
              /\ pc[d] = "created" /\ newId[d] # NoGroup
          BY <3>1, <3>2, <3>6, <4>2
        <5>2. /\ Exists(newId[d])
              /\ owner[d] = founder[newId[d]]
              /\ \A i \in AdminRows : members[i].group # newId[d]
              /\ \A e \in Conns : pc[e] = "created" /\ newId[e] = newId[d] => e = d
          BY <5>1 DEF DirectoryInv, HandlerOwns
        <5>3. \A e \in Conns : pc'[e] = "created" /\ newId'[e] = newId'[d] => e = d
          BY <2>1, <3>2, <3>4, <4>2, <5>1, <5>2
        <5>4. newId'[d] < nextId' /\ newId'[d] = newId[d] /\ Exists(newId[d])'
          BY <2>1, <2>2, <3>2, <4>2, <5>1, <5>2 DEF Exists
        <5>5. QED
          BY <2>1, <2>2, <3>2, <3>3, <4>2, <5>1, <5>2, <5>3, <5>4
      <4>3. QED
        BY <4>1, <4>2
    <3>7. QED
      BY <3>5, <3>6 DEF HandlerOwns
  <2>5. AdminIsFounder'
    <3>2. \A g \in Ids : g < nextId => founder'[g] = founder[g]
      BY <1>d, <2>1 DEF DirectoryTypeOK
    <3>3. QED
      BY <1>g, <2>1, <2>2, <3>2 DEF DirectoryInv, AdminIsFounder
  <2>6. OrphansExplained'
    <3>1. SUFFICES ASSUME failures = 0 PROVE Orphans' = {}
      BY <1>d, <2>1 DEF OrphansExplained, DirectoryTypeOK
    <3>2. Orphans = {}
      BY <3>1 DEF DirectoryInv, OrphansExplained
    <3>3. nextId \notin Orphans'
      BY <1>d, <2>1 DEF Orphans, DirectoryTypeOK
    <3>4. ASSUME NEW g \in Ids, g \in Orphans', g # nextId PROVE g \in Orphans
      <4>1. Exists(g) /\ \A i \in AdminRows : members[i].group # g
        BY <2>1, <2>2, <3>4 DEF Orphans
      <4>2. founder'[g] = founder[g]
        BY <1>d, <2>1, <3>4 DEF DirectoryTypeOK
      <4>3. \A d \in Conns : pc[d] = "created" => /\ pc'[d] = pc[d]
                                                 /\ newId'[d] = newId[d]
                                                 /\ owner'[d] = owner[d]
        BY <1>d, <2>1 DEF DirectoryTypeOK
      <4>4. QED
        BY <3>4, <4>1, <4>2, <4>3 DEF Orphans
    <3>5. QED
      BY <3>2, <3>3, <3>4 DEF Orphans
  <2>7. QED
    BY <1>t, <2>3, <2>4, <2>5, <2>6 DEF DirectoryInv
\* No group is created: the handler goes on without one.
<1>2. ASSUME NEW c \in Conns, NEW u \in Users,
             CreateGroupFails(c, u) \/ \E n \in Names : CreateGroupTaken(c, u, n)
      PROVE  DirectoryInv'
  <2>1. /\ nextId' \in Nat /\ nextId' >= nextId /\ nextId \in Nat
        /\ pc[c] = "idle"
        /\ pc' = [pc EXCEPT ![c] = "created"]
        /\ owner' = [owner EXCEPT ![c] = u]
        /\ newId' = [newId EXCEPT ![c] = NoGroup]
        /\ UNCHANGED <<groups, founder, members>>
        /\ failures' >= failures /\ failures \in Nat
    BY <1>d, <1>2 DEF CreateGroupFails, CreateGroupTaken, Fails, Creating, Idle, tables,
       DirectoryTypeOK
  <2>2. AdminRows' = AdminRows
    BY <2>1 DEF AdminRows
  <2>3. \A d \in Conns : IF d = c THEN /\ pc'[d] = "created" /\ owner'[d] = u
                                       /\ newId'[d] = NoGroup
                                  ELSE /\ pc'[d] = pc[d] /\ owner'[d] = owner[d]
                                       /\ newId'[d] = newId[d]
    BY <1>d, <2>1 DEF DirectoryTypeOK
  <2>5. IdsFresh'
    BY <1>g, <2>1, <2>2 DEF DirectoryInv, IdsFresh
  <2>6. HandlerOwns'
    <3>1. \A d \in Conns : pc'[d] = "created" /\ newId'[d] # NoGroup =>
            pc[d] = "created" /\ newId[d] # NoGroup /\ d # c
      BY <2>3
    <3>2. \A d \in Conns : newId[d] \in Ids \cup {NoGroup}
      BY <1>d DEF DirectoryTypeOK
    <3>3. QED
      BY <2>1, <2>2, <2>3, <3>1, <3>2 DEF DirectoryInv, HandlerOwns, Exists
  <2>7. AdminIsFounder'
    BY <2>1, <2>2 DEF DirectoryInv, AdminIsFounder, Exists
  <2>8. OrphansExplained'
    <3>1. \A d \in Conns : pc[d] = "created" => d # c
      BY <2>1
    <3>2. Orphans' \subseteq Orphans
      BY <2>1, <2>2, <2>3, <3>1 DEF Orphans, Exists
    <3>3. failures > 0 => failures' > 0
      BY <1>d, <1>2 DEF CreateGroupFails, CreateGroupTaken, Fails, DirectoryTypeOK
    <3>4. QED
      BY <3>2, <3>3 DEF DirectoryInv, OrphansExplained
  <2>9. QED
    BY <1>t, <2>5, <2>6, <2>7, <2>8 DEF DirectoryInv
\* The founder becomes the administrator, of its own group or of none.
<1>3. ASSUME NEW c \in Conns, JoinAsAdmin(c)
      PROVE  DirectoryInv'
  <2> DEFINE g == newId[c]
             last == Len(members) + 1
  <2>1. /\ pc[c] = "created" /\ InsertRow(g, owner[c], "admin")
        /\ pc' = [pc EXCEPT ![c] = "idle"]
        /\ owner' = [owner EXCEPT ![c] = NoUser]
        /\ newId' = [newId EXCEPT ![c] = NoGroup]
        /\ UNCHANGED <<groups, nextId, founder, failures>>
    BY <1>3 DEF JoinAsAdmin, Creating
  <2>2. /\ owner[c] \in Users
        /\ g \in Ids \cup {NoGroup}
        /\ g # NoGroup =>
              /\ g < nextId
              /\ Exists(g)
              /\ owner[c] = founder[g]
              /\ \A i \in AdminRows : members[i].group # g
              /\ \A d \in Conns : pc[d] = "created" /\ newId[d] = g => d = c
    BY <1>d, <2>1 DEF DirectoryInv, HandlerOwns, DirectoryTypeOK
  <2>3. /\ AdminRows' = AdminRows \cup {last}
        /\ last \notin AdminRows
        /\ members'[last].group = g /\ members'[last].user = owner[c]
        /\ \A i \in AdminRows : members'[i] = members[i]
    <3>1. members \in Seq(Row)
      BY <1>d DEF DirectoryTypeOK
    <3>2. /\ AdminRows' = AdminRows \cup {last}
          /\ Len(members) \in Nat
          /\ members'[last] = [group |-> g, user |-> owner[c], role |-> "admin"]
          /\ \A i \in 1..Len(members) : members'[i] = members[i]
      BY <2>1, <2>2, <3>1, RowAdded
    <3>3. QED
      BY <3>2 DEF AdminRows
  <2>4. \A d \in Conns \ {c} : /\ pc'[d] = pc[d] /\ owner'[d] = owner[d]
                              /\ newId'[d] = newId[d]
    BY <1>d, <2>1 DEF DirectoryTypeOK
  <2>5. pc'[c] = "idle"
    BY <1>d, <2>1 DEF DirectoryTypeOK
  <2>n. nextId \in 1..MaxGroups + 1
    BY <1>d DEF DirectoryTypeOK
  <2> HIDE DEF g, last
  <2>6. IdsFresh'
    BY <2>1, <2>2, <2>3, <2>n DEF DirectoryInv, IdsFresh
  <2>7. HandlerOwns'
    <3> SUFFICES ASSUME NEW d \in Conns, pc'[d] = "created"
                 PROVE  /\ owner'[d] \in Users
                        /\ newId'[d] # NoGroup =>
                             /\ newId'[d] < nextId'
                             /\ Exists(newId[d])'
                             /\ owner'[d] = founder'[newId'[d]]
                             /\ \A i \in AdminRows' : members'[i].group # newId'[d]
                             /\ \A e \in Conns :
                                  pc'[e] = "created" /\ newId'[e] = newId'[d] => e = d
      BY DEF HandlerOwns
    <3>1. d # c /\ pc[d] = "created" /\ owner'[d] = owner[d] /\ newId'[d] = newId[d]
      BY <2>4, <2>5
    <3>2. owner'[d] \in Users
      BY <3>1 DEF DirectoryInv, HandlerOwns
    <3>3. ASSUME newId[d] # NoGroup
          PROVE  /\ newId[d] < nextId
                 /\ Exists(newId[d])
                 /\ owner[d] = founder[newId[d]]
                 /\ \A i \in AdminRows : members[i].group # newId[d]
                 /\ \A e \in Conns : pc[e] = "created" /\ newId[e] = newId[d] => e = d
      BY <3>1, <3>3 DEF DirectoryInv, HandlerOwns
    <3>4. ASSUME newId[d] # NoGroup
          PROVE  \A i \in AdminRows' : members'[i].group # newId[d]
      <4>1. newId[d] # g
        BY <2>1, <2>2, <3>1, <3>4
      <4>2. QED
        BY <2>3, <3>3, <3>4, <4>1
    <3>5. ASSUME newId[d] # NoGroup
          PROVE  \A e \in Conns : pc'[e] = "created" /\ newId'[e] = newId'[d] => e = d
      BY <2>4, <2>5, <3>1, <3>3, <3>5
    <3>6. QED
      BY <2>1, <3>1, <3>2, <3>3, <3>4, <3>5 DEF Exists
  <2>8. AdminIsFounder'
    <3> SUFFICES ASSUME NEW i \in AdminRows', members'[i].group # NoGroup
                 PROVE  /\ Exists(members'[i].group)
                        /\ members'[i].user = founder[members'[i].group]
                        /\ \A j \in AdminRows' :
                             members'[j].group = members'[i].group => j = i
      BY <2>1 DEF AdminIsFounder, Exists
    <3>1. CASE i = last
      BY <2>2, <2>3, <3>1
    <3>2. CASE i # last
      <4>1. i \in AdminRows /\ members'[i] = members[i] /\ members[i].group # NoGroup
        BY <2>3, <3>2
      <4>2. members[i].group # g
        BY <2>2, <4>1
      <4>3. QED
        BY <2>3, <4>1, <4>2 DEF DirectoryInv, AdminIsFounder
    <3>3. QED
      BY <3>1, <3>2
  <2>9. OrphansExplained'
    <3>1. Orphans' \subseteq Orphans
      <4> SUFFICES ASSUME NEW h \in Ids, h \in Orphans' PROVE h \in Orphans
        BY DEF Orphans
      <4>1. Exists(h) /\ h # g /\ \A i \in AdminRows : members[i].group # h
        BY <2>1, <2>3 DEF Orphans, Exists
      <4>2. \A d \in Conns : pc[d] = "created" /\ newId[d] = h =>
              pc'[d] = "created" /\ newId'[d] = h /\ owner'[d] = owner[d]
        BY <2>4, <4>1 DEF g
      <4>3. founder' = founder
        BY <2>1
      <4>4. QED
        BY <4>1, <4>2, <4>3 DEF Orphans
    <3>2. QED
      BY <2>1, <3>1 DEF DirectoryInv, OrphansExplained
  <2>10. QED
    BY <1>t, <2>6, <2>7, <2>8, <2>9 DEF DirectoryInv
\* It does not, after a failure.
<1>4. ASSUME NEW c \in Conns, JoinAsAdminFails(c)
      PROVE  DirectoryInv'
  <2>1. /\ pc' = [pc EXCEPT ![c] = "idle"]
        /\ failures' = failures + 1 /\ failures \in Nat
        /\ UNCHANGED <<groups, nextId, members, founder>>
    BY <1>d, <1>4 DEF JoinAsAdminFails, Creating, Fails, tables, DirectoryTypeOK
  <2>2. \A d \in Conns : pc'[d] = "created" => /\ pc[d] = "created"
                                              /\ owner'[d] = owner[d]
                                              /\ newId'[d] = newId[d]
    BY <1>d, <1>4 DEF JoinAsAdminFails, Creating, DirectoryTypeOK
  <2>3. AdminRows' = AdminRows
    BY <2>1 DEF AdminRows
  <2>4. IdsFresh' /\ AdminIsFounder'
    BY <2>1, <2>3 DEF DirectoryInv, IdsFresh, AdminIsFounder, Exists
  <2>5. HandlerOwns'
    BY <2>1, <2>2, <2>3 DEF DirectoryInv, HandlerOwns, Exists
  <2>6. OrphansExplained'
    BY <2>1 DEF OrphansExplained
  <2>7. QED
    BY <1>t, <2>4, <2>5, <2>6 DEF DirectoryInv
\* A member that is no administrator.
<1>5. ASSUME NEW c \in Conns, NEW u \in Users, NEW g \in Ids \cup {NoGroup},
             JoinGroup(c, u, g)
      PROVE  DirectoryInv'
  <2>1. /\ InsertRow(g, u, "normal") /\ members \in Seq(Row)
        /\ UNCHANGED <<groups, nextId, founder, creating, failures>>
        /\ failures \in Nat
    BY <1>d, <1>5 DEF JoinGroup, DirectoryTypeOK
  <2>2. AdminRows' = AdminRows /\ \A i \in AdminRows : members'[i] = members[i]
    BY <2>1, RowAdded DEF AdminRows
  <2>3. QED
    BY <1>t, <2>1, <2>2, OthersStep
<1>6. ASSUME NEW c \in Conns, NEW u \in Users,
             Register(c, u) \/ \E f \in Users : AddContact(c, u, f)
      PROVE  DirectoryInv'
  <2>1. UNCHANGED <<groups, nextId, founder, creating, members, failures>>
    BY <1>6 DEF Register, AddContact, InsertFriend
  <2>2. AdminRows' = AdminRows /\ \A i \in AdminRows : members'[i] = members[i]
    BY <2>1 DEF AdminRows
  <2>3. failures' >= failures
    BY <1>d, <2>1 DEF DirectoryTypeOK
  <2>4. QED
    BY <1>t, <2>1, <2>2, <2>3, OthersStep
<1>7. CASE UNCHANGED directoryVars
  BY <1>t, <1>d, <1>7, OthersStep
     DEF directoryVars, tables, AdminRows, DirectoryTypeOK
<1>8. QED
  BY <1>1, <1>2, <1>3, <1>4, <1>5, <1>6, <1>7 DEF DirectoryNext

LEMMA DirectoryInvariant == DirectorySpec => []DirectoryInv
<1>1. DirectoryInit => DirectoryInv
  BY DirectoryAssumption
     DEF DirectoryInit, DirectoryInv, DirectoryTypeOK, IdsFresh, HandlerOwns,
         AdminIsFounder, OrphansExplained, Orphans, Exists, AdminRows, Ids, NoGroup
<1>2. DirectoryInv /\ [DirectoryNext]_directoryVars => DirectoryInv'
  BY DirectoryStep
<1>3. QED
  BY <1>1, <1>2, PTL DEF DirectorySpec

\* AdminIsFounder: however the creations of groups interleave, an existing
\* group's administrator is its founder, once.
THEOREM AdminCorrect == DirectorySpec => []AdminIsFounder
<1>1. DirectoryInv => AdminIsFounder
  BY DEF DirectoryInv
<1>2. QED
  BY <1>1, DirectoryInvariant, PTL

\* OrphansExplained: no group is left without an administrator unless a
\* statement failed or a handler died.
THEOREM OrphansCorrect == DirectorySpec => []OrphansExplained
<1>1. DirectoryInv => OrphansExplained
  BY DEF DirectoryInv
<1>2. QED
  BY <1>1, DirectoryInvariant, PTL

\* DirectoryTypeOK: every row, id and handler of the directory has its type.
THEOREM DirectoryTypeCorrect == DirectorySpec => []DirectoryTypeOK
<1>1. DirectoryInv => DirectoryTypeOK
  BY DEF DirectoryInv
<1>2. QED
  BY <1>1, DirectoryInvariant, PTL

-----------------------------------------------------------------------------
\* How often a column of the selected rows has a value.

LEMMA GroupTimes ==
  ASSUME DirectoryTypeOK, NEW u \in Users, NEW g
  PROVE  Times(g, QueryGroups(u))
           = Cardinality({k \in 1..Len(members) :
                            members[k].user = u /\ Exists(members[k].group)
                              /\ members[k].group = g})
<1> DEFINE A == {row \in Row : row.user = u /\ Exists(row.group)}
           B == {row \in Row : row.group = g}
           rows == Only(members, A)
<1>1. members \in Seq(Row)
  BY DEF DirectoryTypeOK
<1>2. rows \in Seq(Row \cap A)
  BY <1>1, OnlyType
<1>3. QueryGroups(u) = [i \in 1..Len(rows) |-> rows[i].group]
  BY DEF QueryGroups
<1> HIDE DEF rows
<1>4. Len(QueryGroups(u)) = Len(rows)
        /\ \A i \in 1..Len(rows) : QueryGroups(u)[i] = rows[i].group /\ rows[i] \in Row
  BY <1>2, <1>3
<1>5. Times(g, QueryGroups(u)) = Cardinality({i \in 1..Len(rows) : rows[i] \in B})
  <2>1. {i \in 1..Len(rows) : QueryGroups(u)[i] = g} = {i \in 1..Len(rows) : rows[i] \in B}
    BY <1>4
  <2>2. QED
    BY <1>4, <2>1 DEF Times
<1> HIDE DEF A, B
<1>6. Cardinality({i \in 1..Len(rows) : rows[i] \in B})
        = Cardinality({k \in 1..Len(members) : members[k] \in A /\ members[k] \in B})
  <2>1. Cardinality(Places(Only(members, A), B)) = Cardinality(Places(members, A \cap B))
    BY <1>1, OnlyCount
  <2>2. QED
    BY <2>1 DEF Places, rows
<1>7. {k \in 1..Len(members) : members[k] \in A /\ members[k] \in B}
        = {k \in 1..Len(members) : members[k].user = u /\ Exists(members[k].group)
                                     /\ members[k].group = g}
  BY <1>1 DEF A, B
<1>8. QED
  BY <1>5, <1>6, <1>7

LEMMA UserTimes ==
  ASSUME DirectoryTypeOK, NEW u, NEW v \in Users, NEW g
  PROVE  Times(u, QueryGroupUsers(v, g))
           = Cardinality({k \in 1..Len(members) :
                            members[k].group = g /\ members[k].user # v
                              /\ members[k].user = u})
<1> DEFINE A == {row \in Row : row.group = g /\ row.user # v}
           B == {row \in Row : row.user = u}
           rows == Only(members, A)
<1>1. members \in Seq(Row)
  BY DEF DirectoryTypeOK
<1>2. rows \in Seq(Row \cap A)
  BY <1>1, OnlyType
<1>3. QueryGroupUsers(v, g) = [i \in 1..Len(rows) |-> rows[i].user]
  BY DEF QueryGroupUsers
<1> HIDE DEF rows
<1>4. Len(QueryGroupUsers(v, g)) = Len(rows)
        /\ \A i \in 1..Len(rows) : QueryGroupUsers(v, g)[i] = rows[i].user /\ rows[i] \in Row
  BY <1>2, <1>3
<1>5. Times(u, QueryGroupUsers(v, g)) = Cardinality({i \in 1..Len(rows) : rows[i] \in B})
  <2>1. {i \in 1..Len(rows) : QueryGroupUsers(v, g)[i] = u}
          = {i \in 1..Len(rows) : rows[i] \in B}
    BY <1>4
  <2>2. QED
    BY <1>4, <2>1 DEF Times
<1> HIDE DEF A, B
<1>6. Cardinality({i \in 1..Len(rows) : rows[i] \in B})
        = Cardinality({k \in 1..Len(members) : members[k] \in A /\ members[k] \in B})
  <2>1. Cardinality(Places(Only(members, A), B)) = Cardinality(Places(members, A \cap B))
    BY <1>1, OnlyCount
  <2>2. QED
    BY <2>1 DEF Places, rows
<1>7. {k \in 1..Len(members) : members[k] \in A /\ members[k] \in B}
        = {k \in 1..Len(members) : members[k].group = g /\ members[k].user # v
                                     /\ members[k].user = u}
  BY <1>1 DEF A, B
<1>8. QED
  BY <1>5, <1>6, <1>7

\* ShownIsRouted: the groups a login shows are, each as often, those whose messages
\* from others reach the user, whatever rows t_groupUser holds.
THEOREM ShownCorrect == DirectorySpec => []ShownIsRouted
<1>1. ASSUME DirectoryTypeOK, NEW u \in Users, NEW g \in Ids \cup {NoGroup},
             NEW v \in Users \ {u}
      PROVE  Times(g, QueryGroups(u)) =
               IF Exists(g) THEN Times(u, QueryGroupUsers(v, g)) ELSE 0
  <2> DEFINE K == {k \in 1..Len(members) :
                     members[k].user = u /\ Exists(members[k].group) /\ members[k].group = g}
  <2>1. Times(g, QueryGroups(u)) = Cardinality(K)
    BY <1>1, GroupTimes
  <2>2. CASE Exists(g)
    <3>1. K = {k \in 1..Len(members) :
                 members[k].group = g /\ members[k].user # v /\ members[k].user = u}
      BY <2>2
    <3>2. QED
      BY <1>1, <2>1, <2>2, <3>1, UserTimes
  <2>3. CASE ~Exists(g)
    <3>1. K = {}
      BY <2>3
    <3>2. QED
      BY <2>1, <2>3, <3>1, FS_EmptySet
  <2>4. QED
    BY <2>2, <2>3
<1>2. DirectoryTypeOK => ShownIsRouted
  BY <1>1 DEF ShownIsRouted, QueryFriends
<1>3. QED
  BY <1>2, DirectoryTypeCorrect, PTL
=============================================================================
