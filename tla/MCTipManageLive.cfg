\* Liveness: two tasks, one query thread, operations without end.
SPECIFICATION LiveSpec
CONSTANTS
  NumTask = 2
  TaskList = {1}
  Queries = {q1}
  MaxOps = 7
  QueryBounded = TRUE
PROPERTY OperationsEnd
CHECK_DEADLOCK FALSE
