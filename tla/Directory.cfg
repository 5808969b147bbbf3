\* Two handlers, one failure.
SPECIFICATION DirectorySpec
CONSTANTS
  alice = alice
  bob = bob
  n1 = n1
  n2 = n2
  c1 = c1
  c2 = c2
  Users = {alice, bob}
  NoUser = NoUser
  Names = {n1, n2}
  NoName = NoName
  Conns = {c1, c2}
  MaxGroups = 2
  MaxRows = 3
  MaxFriends = 1
  MaxFailures = 1
SYMMETRY Symmetry
INVARIANTS DirectoryTypeOK AdminIsFounder OrphansExplained ShownIsRouted
\* The bounds may be used up.
CHECK_DEADLOCK FALSE
