SPECIFICATION Spec
CONSTANTS
  Names = {p1, p2}
  p1 = p1
  p2 = p2
  Ids = {1, 2, 3}
  n1 = n1
  n2 = n2
  Nets = {n1, n2}
  Macs = {a, b}
  a = a
  b = b
  g1 = g1
  g2 = g2
  GwMac <- MCGwMac
  PasstMac = w
  w = w
  Bcast = bc
  bc = bc
  Pool <- MCPool
  Upstreams = 2
  Kinds = {"arp", "icmp", "discover", "request", "dns", "ip", "other", "runt"}
  Capacity = 2
  MaxClock = 2
  MaxOps = 3
  None = None
SYMMETRY Symmetry
INVARIANTS
  TypeOK
  StaysInNetwork
  RouterTrafficStaysOwn
  AcksHold
PROPERTIES
  QueryHoldsBriefly
CHECK_DEADLOCK FALSE
