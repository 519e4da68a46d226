SPECIFICATION Spec
CONSTANTS
  MaxPorts = 2
  MaxStreams = 2
  MaxSaveFaults = 1
  None = None
INVARIANTS
  TypeOK
  ThreadsOutliveNoPort
  RunningPasstIsPorts
  NoInheritedStream
PROPERTIES
  LiveStreamIsRead
  ReadersRetire
CHECK_DEADLOCK FALSE
