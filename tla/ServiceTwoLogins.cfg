\* Nothing fails, but logins may overlap.
SPECIFICATION Spec
CONSTANTS
  s1 = s1
  s2 = s2
  alice = alice
  bob = bob
  c1 = c1
  c2 = c2
  m1 = m1
  m2 = m2
  Servers = {s1, s2}
  Users = {alice, bob}
  Registered = {alice}
  Msgs = {m1}
  Conns = {c1, c2}
  NoConn = NoConn
  NoServer = NoServer
  NoUser = NoUser
  NoMsg = NoMsg
  GroupRows <- RowLists
  MaxLogins = 2
  SerialLogins = FALSE
  Faults = {}
INVARIANT OneSessionPerUser
