SPECIFICATION FairSpec
CONSTANTS
  t1 = t1  t2 = t2  t3 = t3  p1 = p1  p2 = p2
  Turns = {t1, t2}
  Procs = {p1}
  ProcOf <- OneProc
  Overriding = {}
  Interruptible = {}
  Curators = TRUE
  Faults = TRUE
  Chain0 = "Valid"
  Past = past  Nobody = nobody
  MaxTries = 2  KeepRecent = 2
PROPERTIES ReviewIsFresh TurnEnds
CHECK_DEADLOCK FALSE
