SPECIFICATION FairSpec
CONSTANTS
  o1 = o1
  o2 = o2
  k1 = k1
  k2 = k2
  q = q
  Owners = {o1, o2}
  Keys = {k1, k2}
  Outcomes = {"SUCCEEDED"}
  Inline = {q}
  Capacity = 1
  PerOwner = 1
  Retention = 1
  MaxJobs = 2
  MaxCalls = 1
  MaxTime = 2
INVARIANTS
  OneCallAtATime
  WorkIsLimited
PROPERTIES
  OutcomesKept
  GenerationsEnd
\* the system stops when every job has been started and has ended
CHECK_DEADLOCK FALSE
