\* The same plan: a result of the second category against one of the third.
SPECIFICATION Spec
CONSTANTS
  Node <- MCNode
  Side <- MCSide
  Mid <- MCMid
  Wife <- MCWife
  Below <- MCBelow
  Entry <- MCEntry
  Hidden <- MCHidden
  Find <- MCFind
  Category <- MCCategory
  MAX_WEIGHT_CHINESE = 2
  MAX_MIX_SEARCH_TIME = 2
  iRetLimit = 2
INVARIANT
  EarlierStaysInFront
CHECK_DEADLOCK FALSE
