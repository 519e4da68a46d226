SPECIFICATION Spec
CONSTANTS
  Size = 2
  IdxSpace = 4
  MaxPosts = 3
  MaxFrames = 2
  MaxSessions = 2
  Bases = {"avail"}
  Ends = {"stopped"}
  Successors = FALSE
  QuietResume = FALSE
INVARIANT ChainsAccounted
CHECK_DEADLOCK FALSE
