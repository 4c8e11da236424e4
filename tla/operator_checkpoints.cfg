SPECIFICATION FairSpec
CONSTANTS
  Runs = {r1, r2}
  Gstins = {g1}
  Competitors = {r2}
  Requests = {o1}
  Nobody = Nobody
  MaxActions = 1
CHECK_DEADLOCK FALSE
INVARIANTS
  TypeOK
  LoginMutex
  ResultsDurable
  RejectionHonoured
PROPERTIES
  SessionFromLogin
  DecisionStands
  RunEnds
