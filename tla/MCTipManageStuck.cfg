\* Violated: ProcessingHasAProcessor.
SPECIFICATION Spec
CONSTANTS
  NumTask = 2
  TaskList = {1}
  Queries = {q1}
  MaxOps = 3
  QueryBounded = TRUE
INVARIANT ProcessingHasAProcessor
CHECK_DEADLOCK FALSE
