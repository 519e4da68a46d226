SPECIFICATION Spec
CONSTANTS
  Nets <- MCNets
  NetParams <- MCOneParams
  Ports = {p1, p2}
  Macs = {m1, m2}
  VmPorts = {v1}
  p1 = p1
  p2 = p2
  m1 = m1
  m2 = m2
  v1 = v1
  None = None
  HostLo = 1
  HostHi = 1
  MaxPortId = 2
  MaxSaveFaults = 1
  MaxSpawnFaults = 0
  MaxRestarts = 1
SYMMETRY Symmetry
INVARIANTS
  TypeOK
  LeasesExclusive
  HostPortsExclusive
  GrantsSurvive
  FabricMirrorsPorts
PROPERTIES
  RepliesAreHonest
  ImplementsContract
