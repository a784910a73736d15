SPECIFICATION Spec
CONSTANTS
  c1 = c1 c2 = c2 c3 = c3 d1 = d1 none = none
  Callers <- MCCallers
  Dashboard <- MCNobody
  Args <- MCOneArgs
  NoRequest = none
  Window = 2
  MaxNow = 3
  MaxCrashes = 0
INVARIANTS IdempotentForTenMinutes
CHECK_DEADLOCK FALSE
