SPECIFICATION Spec
CONSTANTS
  MaxPorts = 2
  MaxStreams = 3
  MaxSaveFaults = 0
  None = None
INVARIANTS
  ReaderServesOwnPort
