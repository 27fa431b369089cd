\* Violated: two consumers, the query queue with querythreadnum 2.
SPECIFICATION QueueSpec
CONSTANTS
  SIZE = 3
  Producers = {p1}
  Consumers = {c1, c2}
  MaxItems = 5
INVARIANT ReferenceIntact
CHECK_DEADLOCK FALSE
