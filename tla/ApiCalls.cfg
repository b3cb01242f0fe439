SPECIFICATION Spec
CONSTANTS
  MaxPages = 2
  LogsBudget = 8
  SlowestAnswer = 2
  LoggedIn = {TRUE, FALSE}
INVARIANTS
  WritesApplyAtMostOnce
  RetryBudget
  UnauthenticatedIsTold
  LogsGiveUpInTime
PROPERTY CallsEnd
CHECK_DEADLOCK FALSE
