\* Violated: CopyIsUntorn.
SPECIFICATION Spec
CONSTANTS
  NumTask = 2
  TaskList = {1}
  Queries = {q1}
  MaxOps = 3
  QueryBounded = TRUE
INVARIANT CopyIsUntorn
CHECK_DEADLOCK FALSE
