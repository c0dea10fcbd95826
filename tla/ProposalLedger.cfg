SPECIFICATION Spec
CONSTANTS
  c1 = c1
  c2 = c2
  p1 = p1
  p2 = p2
  Commands = {c1, c2}
  Projects = {p1, p2}
  PerProject = 2
  Total = 2
  NoProject = NoProject
SYMMETRY Symmetric
INVARIANTS
  SpendingBounded
  AnswersAreKept
  LedgerTells
CHECK_DEADLOCK FALSE
