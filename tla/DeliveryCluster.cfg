\* Two servers, one message.
SPECIFICATION HFairSpec
CONSTANTS
  s1 = s1
  s2 = s2
  alice = alice
  bob = bob
  carol = carol
  c1 = c1
  c2 = c2
  m1 = m1
  m2 = m2
  Servers = {s1, s2}
  Users = {alice, bob}
  Registered = {alice, bob}
  Msgs = {m1}
  Conns = {c1, c2}
  NoConn = NoConn
  NoServer = NoServer
  NoUser = NoUser
  NoMsg = NoMsg
  GroupRows <- TwiceLists
  MaxLogins = 2
  SerialLogins = TRUE
  Faults = {}
INVARIANT ExactlyOnce
PROPERTIES EverySentSettles KeepsMail HandlersReturn LeaverGoesOffline
