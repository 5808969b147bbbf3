\* A server may be killed, and no user sends two logins at once.
\* There are no groups: what a group chat does to sessions is in ServiceFaults, and
\* the Delivery runs send to groups.
SPECIFICATION Spec
CONSTANTS
  s1 = s1
  s2 = s2
  alice = alice
  bob = bob
  c1 = c1
  c2 = c2
  m1 = m1
  m2 = m2
  Servers = {s1, s2}
  Users = {alice, bob}
  Registered = {alice}
  Msgs = {m1}
  Conns = {c1, c2}
  NoConn = NoConn
  NoServer = NoServer
  NoUser = NoUser
  NoMsg = NoMsg
  GroupRows = {}
  MaxLogins = 3
  SerialLogins = TRUE
  Faults = {"crash"}
SYMMETRY Symmetry
INVARIANTS TypeOK OneSessionPerUser StateMatchesSessions SubscriptionsMatchMap
PROPERTY KeepsRegister
