\* One consumer: the query queue as configured, and the write queue.
SPECIFICATION FairQueueSpec
CONSTANTS
  SIZE = 3
  Producers = {p1, p2, p3}
  Consumers = {c1}
  MaxItems = 6
INVARIANTS
  QueueTypeOK
  ReferenceIntact
  EnoughAwake
PROPERTIES
  ImplementsFifo
  ItemsArrive
