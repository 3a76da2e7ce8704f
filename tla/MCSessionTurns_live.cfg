SPECIFICATION FairSpec
CONSTANTS
  t1 = t1  t2 = t2  t3 = t3  p1 = p1  p2 = p2
  Turns = {t1, t2}
  Procs = {p1, p2}
  ProcOf <- ApartProcs
  Overriding = {t1}
  Interruptible = {t2}
  Curators = TRUE
  Faults = TRUE
  Chain0 = "Legacy"
  Past = past  Nobody = nobody
  MaxTries = 2  KeepRecent = 4
PROPERTY TurnEnds
CHECK_DEADLOCK FALSE
