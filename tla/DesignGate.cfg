SPECIFICATION Spec
CONSTANTS
  IterationLimit = 3
  MaxArtifacts = 4
  MaxDefinitions = 2
  Decisions = {"APPROVE", "REQUEST_REVISION"}
INVARIANTS
  BudgetRespected
  WaitsForHumanForGood
PROPERTIES
  ApprovesCurrentDesign
\* the system stops when the artifacts and definitions are used up
CHECK_DEADLOCK FALSE
