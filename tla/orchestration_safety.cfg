SPECIFICATION Spec
CONSTANTS
  j1 = j1
  c1 = c1
  Jobs = {j1}
  Workers = {w1, w2}
  Watchdogs = {d1}
  Clients = {c1}
  ClientOf <- MCClientOf
  LowPriority = {}
  PerClientConcurrency = 3
  Pids = {p1}
  Nobody = Nobody
  MaxAttempts = 2
  MaxFence = 1
  MaxMessages = 1
  MaxFaults = 1
SYMMETRY WorkerSymmetry
CHECK_DEADLOCK FALSE
INVARIANTS
  TypeOK
  IndInv
  ExclusiveExecution
  AttemptHistory
PROPERTIES
  OutcomeByHolder
  ImplementsLedger
