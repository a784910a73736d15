SPECIFICATION Spec
CONSTANTS
  c1 = c1 c2 = c2 c3 = c3 d1 = d1 none = none
  Callers <- MCTwo
  Dashboard <- MCDashboard
  Args <- MCArgs
  NoRequest = none
  Window = 2
  MaxNow = 3
  MaxCrashes = 1
INVARIANTS TypeOK DuplicateHasACause AnswerNamesItsContact
CHECK_DEADLOCK FALSE
