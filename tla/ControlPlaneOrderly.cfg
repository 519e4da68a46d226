SPECIFICATION OrderlySpec
CONSTANTS
  Nets <- MCNets
  NetParams <- MCNetParams
  Ports = {p1, p2}
  Macs = {m1, m2}
  VmPorts = {v1, v2}
  p1 = p1
  p2 = p2
  m1 = m1
  m2 = m2
  v1 = v1
  v2 = v2
  None = None
  HostLo = 1
  HostHi = 2
  MaxPortId = 3
  MaxSaveFaults = 0
  MaxSpawnFaults = 1
  MaxRestarts = 1
SYMMETRY Symmetry
INVARIANTS
  AttachmentKeepsAddress
  ForwardsBackedByTable
  PublishedIsAttached
