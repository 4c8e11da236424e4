SPECIFICATION Spec
CONSTANTS
  NClients = 4
  MaxWaiting = 3
  MaxInflight = 1
  Limits = {1, 3, 9}
  Caps = {3, 50}
  Period = 12
CHECK_DEADLOCK FALSE
INVARIANTS
  ClientLimit
  FairTurns
  ReturnsOnlyWhen
PROPERTIES
  ReturnsWhen
