SPECIFICATION Spec
CONSTANTS
  p1 = p1
  m1 = m1
  d1 = d1
  f1 = f1
  f2 = f2
  Callers = {p1}
  McpApprovers = {m1}
  DashApprovers = {d1}
  NoConf = NoConf
  Flats = {f1, f2}
  TLDs = {"com", "xyz"}
  Policies <- SomePolicies
  Default = "default"
  Doc <- SomeDoc
  MaxSaves = 1
INVARIANT ExecutesWhatWasProposed
CHECK_DEADLOCK FALSE
