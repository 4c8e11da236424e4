SPECIFICATION Spec
CONSTANTS
  j1 = j1
  c1 = c1
  Jobs = {j1, j2}
  Workers = {w1}
  Watchdogs = {d1}
  Clients = {c1}
  ClientOf <- MCClientOf
  LowPriority = {j2}
  PerClientConcurrency = 2
  Pids = {p1}
  Nobody = Nobody
  MaxAttempts = 1
  MaxFence = 1
  MaxMessages = 1
  MaxFaults = 0
CONSTRAINT CreatedByReplay
CHECK_DEADLOCK FALSE
PROPERTIES
  ImplementsLedger
