\* A queue of four that is filled, overflows, is raised and is emptied.
SPECIFICATION Spec
CONSTANTS
  m_maxsize = 4
  Entry <- MCEntry
  Raise = {2}
  MaxRaises = 1
INVARIANTS
  TypeOK
  HeapOrdered
  DroppedAreWorse
  OncePerEntry
PROPERTY
  ImplementsBestQueue
CHECK_DEADLOCK FALSE
