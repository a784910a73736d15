SPECIFICATION Spec
CONSTANTS
  o1 = o1 o2 = o2 call = call prop = prop appr = appr dash = dash none = none
  Owners <- MCOwners
  Callers <- MCCallers
  Proposers <- MCProposers
  Approvers <- MCApprovers
  Dashboards <- MCDashboards
  Creators <- MCCreators
  Meetings <- MCMeetings
  None = none
  PoolSize = 3
  MaxExpiries = 1
INVARIANTS TypeOK AccountIsReadable VictimNeverRan
PROPERTIES EveryRequestEnds
CHECK_DEADLOCK FALSE
