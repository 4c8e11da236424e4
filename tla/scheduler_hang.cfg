SPECIFICATION Spec
CONSTANTS
  NClients = 2
  MaxWaiting = 3
  MaxInflight = 1
  Limits = {1}
  Caps = {10}
  Period = 2
CHECK_DEADLOCK FALSE
PROPERTIES
  SelectReturns
