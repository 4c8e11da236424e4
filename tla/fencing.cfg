SPECIFICATION Spec
CONSTANTS
  j1 = j1
  c1 = c1
  Jobs = {j1}
  Workers = {w1}
  Watchdogs = {d1}
  Clients = {c1}
  ClientOf <- MCClientOf
  LowPriority = {}
  PerClientConcurrency = 3
  Pids = {p1, p2}
  Nobody = Nobody
  MaxAttempts = 2
  MaxFence = 2
  MaxMessages = 1
  MaxFaults = 1
CHECK_DEADLOCK FALSE
INVARIANTS
  OnlyStaleWorkersRejected
