\* A client that waits for its answers and one that leaves when it likes, two descriptors,
\* queues of one.
SPECIFICATION FairSpec
CONSTANTS
  Clients = {c1, c2}
  NoClient = none
  Scripts <- AllScripts
  QueryThreads = {t1}
  MaxFd = 2
  BUF_SIZE = 2
  Capacity = 1
  FlagValues = {FALSE}
  Patient = {c1}
INVARIANTS
  TypeOK
  OneHand
  AnswersReachTheirAsker
 
CHECK_DEADLOCK FALSE
