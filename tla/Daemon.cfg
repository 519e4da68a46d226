SPECIFICATION Spec
CONSTANTS
  Clients = {c1, c2}
  Keys = {k1}
  None = None
  Torn = Torn
  MaxCrashes = 1
  MaxFaults = 1
INVARIANTS
  TypeOK
  AnswersSurvivePowerLoss
PROPERTIES
  FailsClosed
  SendersAreServed
  ComesBack
CHECK_DEADLOCK FALSE
