SPECIFICATION Spec
CONSTANTS
  r1 = r1
  r2 = r2
  Requests = {r1, r2}
  NoRequest = NoRequest
  MaxRequests = 5
  IterationLimit = 1
  LocksProjectFirst = TRUE
  OwnerEdits = TRUE
  Drafts = {"complete", "incomplete"}
  Decisions = {"APPROVE", "REJECT", "REQUEST_REVISION", "PAUSE", "RESUME", "CANCEL"}
SYMMETRY Symmetry
INVARIANTS
  SupersededByNewer
  EditsNeedTheirOwnGate
  StoredGatesLoad
  RefusedOnlyWhenSpent
  BlockedForGood
PROPERTIES
  ApprovesOnlyCurrent
\* the system stops when MaxRequests requests are served
CHECK_DEADLOCK FALSE
