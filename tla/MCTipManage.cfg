\* Safety and refinement: two tasks, two query threads, five accepted operations.
SPECIFICATION Spec
CONSTANTS
  NumTask = 2
  TaskList <- AllTasks
  Queries = {q1, q2}
  MaxOps = 5
  QueryBounded = TRUE
SYMMETRY QuerySymmetry
INVARIANTS
  TypeOK
  NoUseAfterFree
  AnswersFromServedTrees
  NoLeak
  UpdateFindsSlotEmpty
  AcceptedStaysValid
PROPERTY ImplementsCatalog
CHECK_DEADLOCK FALSE
