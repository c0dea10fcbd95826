SPECIFICATION ChangesSpec
CONSTANTS
  q1 = q1
  q2 = q2
  f1 = f1
  f2 = f2
  Requests = {q1, q2}
  Findings = {f1, f2}
  Nobody = Nobody
  NoFinding = NoFinding
  Commits = {1, 2}
  MaxFindings = 2
  MaxPicks = 2
  MaxRequests = 4
  Kinds = {"ALIGNED", "CODE_TASKS", "DISMISSED"}
SYMMETRY Symmetry
INVARIANTS
  NoTaskBehindAligned
  PickedFromOneReview
PROPERTIES
  NoSecondOpenTask
\* the system stops when MaxRequests requests are served
CHECK_DEADLOCK FALSE
