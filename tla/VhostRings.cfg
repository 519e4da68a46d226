SPECIFICATION Spec
CONSTANTS
  Size = 2
  IdxSpace = 4
  MaxPosts = 4
  MaxFrames = 2
  MaxSessions = 2
  Bases = {"used", "avail"}
  Ends = {"stopped", "abrupt"}
  Successors = FALSE
  QuietResume = TRUE
INVARIANTS
  TypeOK
  CompletionsOwed
  ChainsAccounted
  FramesInOrder
PROPERTIES
  WorkIsDone
CHECK_DEADLOCK FALSE
