SPECIFICATION Spec
CONSTANTS
  Clients = {c1, c2}
  Keys = {k1}
  None = None
  Torn = Torn
  MaxCrashes = 0
  MaxFaults = 1
INVARIANT StartFailsClosed
CHECK_DEADLOCK FALSE
