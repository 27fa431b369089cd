\* Two results out of four entries, over a plan of three categories.
SPECIFICATION FairSpec
CONSTANTS
  Node <- MCNode
  Side <- MCSide
  Mid <- MCMid
  Wife <- MCWife
  Below <- MCBelow
  Entry <- MCEntry
  Hidden <- MCHidden
  Find <- MCFind
  Category <- MCCategory
  MAX_WEIGHT_CHINESE = 2
  MAX_MIX_SEARCH_TIME = 2
  iRetLimit = 2
INVARIANTS
  TypeOK
  BestAnswered
  NothingBetterLeftOut
  SavedOnce
  BestComesFirst
PROPERTY
  Answered
CHECK_DEADLOCK FALSE
