SPECIFICATION AlignmentSpec
CONSTANTS
  IterationLimit = 2
  Twins = {w1}
  Edited = {"brief", "twins"}
  MaxVersions <- TwiceThenThrice
  Verdicts = {"APPROVE", "REQUEST_REVISION", "CANCEL"}
INVARIANTS
  FineDesignMeansFineChain
  SectionsKeepTheirPromise
  RestsOnApproved
PROPERTIES
  AlignmentSettles
  KeepsContent
\* the system stops when the versions are used up
CHECK_DEADLOCK FALSE
