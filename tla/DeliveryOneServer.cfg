\* One server.
SPECIFICATION HSpec
CONSTANTS
  s1 = s1
  s2 = s2
  alice = alice
  bob = bob
  carol = carol
  c1 = c1
  c2 = c2
  m1 = m1
  m2 = m2
  Servers = {s1}
  Users = {alice, bob, carol}
  Registered = {alice, bob, carol}
  Msgs = {m1}
  Conns = {c1, c2}
  NoConn = NoConn
  NoServer = NoServer
  NoUser = NoUser
  NoMsg = NoMsg
  GroupRows <- PairLists
  MaxLogins = 3
  SerialLogins = TRUE
  Faults = {}
SYMMETRY Symmetry
INVARIANTS NeverTooOften ExactlyOnce
