SPECIFICATION Spec
CONSTANTS
  PortIds = {i1, i2, i3}
  i1 = i1
  i2 = i2
  i3 = i3
  Networks = {n1, n2}
  n1 = n1
  n2 = n2
  Macs = {a, b}
  a = a
  b = b
  GroupMacs = {bc}
  bc = bc
  Capacity = 2
  MaxClock = 6
  None = None
SYMMETRY Symmetry
INVARIANTS
  TypeOK
  TableBounded
PROPERTIES
  Isolation
  SpeakerReachable
  EvictsOldest
