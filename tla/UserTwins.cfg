SPECIFICATION Spec
CONSTANTS
  t1 = t1
  t2 = t2
  r1 = r1
  r2 = r2
  Twins = {t1, t2}
  Sources = {survey}
  Requests = {r1, r2}
  survey = survey
  NoSource = NoSource
  LearnedLimit = 2
  MaxSnapshots = 4
  MaxVersions = 2
  MaxDevelopment = 3
  MaxChanges = 1
  MaxDiffs = 1
SYMMETRY Symmetry
INVARIANTS
  WaitingEvidenceHolds
  WithdrawnIsGone
  OneUpdatePerTwin
\* the system stops when the snapshots are used up
CHECK_DEADLOCK FALSE
