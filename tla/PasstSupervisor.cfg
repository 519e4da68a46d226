SPECIFICATION Spec
CONSTANTS
  Configs = {c1, c2}
  c1 = c1
  c2 = c2
  Pids = {1, 2}
  Base = 2
  Cap = 5
  None = None
  MaxExits = 3
  MaxSpawnFails = 3
INVARIANTS
  TypeOK
  OneProcessAsDesired
PROPERTIES
  NoSpin
  PasstComesBack
