\* Violated: bHtml of a frame is whatever the stack holds.
SPECIFICATION Spec
CONSTANTS
  Clients = {c1, c2}
  NoClient = none
  Scripts <- AllScripts
  QueryThreads = {t1}
  MaxFd = 2
  BUF_SIZE = 2
  Capacity = 1
  FlagValues = {TRUE, FALSE}
  Patient = {c1}
INVARIANT HtmlMeansGet
CHECK_DEADLOCK FALSE
