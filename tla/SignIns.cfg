SPECIFICATION Spec
CONSTANTS
  p1 = p1
  p2 = p2
  t1 = t1
  t2 = t2
  r1 = r1
  r2 = r2
  g1 = g1
  g2 = g2
  NoOne = NoOne
  Senders = {p1, p2, r1, r2, g1, g2}
  Processes = {p1, p2}
  Tabs = {t1, t2}
  Refresher <- RefresherOf
  Gate <- GateOf
  MaxTokens = 3
  MaxTroubles = 1
  Lapses = TRUE
  Losses = TRUE
  Faults = {"crash", "slow", "gateway"}
SYMMETRY Alike
INVARIANTS
  OneLivePerFamily
  ReuseHasACause
PROPERTIES
  DeadFamilyStaysDead
  SignOutSticks
\* a browser stops when MaxTokens tokens are issued
CHECK_DEADLOCK FALSE
