SPECIFICATION FairSpec
CONSTANTS
  r1 = r1
  r2 = r2
  Requests = {r1, r2}
  NoRequest = NoRequest
  MaxRequests = 5
  IterationLimit = 3
  LocksProjectFirst = FALSE
  OwnerEdits = FALSE
  Drafts = {"complete"}
  Decisions = {"APPROVE"}
INVARIANTS
  ReadGateIsCurrent
  HistoryTellsTheGate
  OnlyLatestGateLives
PROPERTIES
  ImplementsRounds
  RequestsEnd
\* the system stops when MaxRequests requests are served
CHECK_DEADLOCK FALSE
