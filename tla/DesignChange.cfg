SPECIFICATION Spec
CONSTANTS
  r1 = r1
  r2 = r2
  Requests = {r1, r2}
  Lines = {"design"}
  MaxVersions = 3
  MaxDiffs = 2
  MaxUpstream = 2
SYMMETRY Symmetry
INVARIANTS
  RequestedChangeOnly
\* the system stops when the versions and the diffs are used up
CHECK_DEADLOCK FALSE
