SPECIFICATION Spec
CONSTANTS
  Runs = {r1}
  Gstins = {g1}
  Competitors = {}
  Requests = {o1}
  Nobody = Nobody
  MaxActions = 0
CHECK_DEADLOCK FALSE
PROPERTIES
  ApprovalEndsWait
