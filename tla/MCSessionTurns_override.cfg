SPECIFICATION Spec
CONSTANTS
  t1 = t1  t2 = t2  t3 = t3  p1 = p1  p2 = p2
  Turns = {t1, t2}
  Procs = {p1}
  ProcOf <- OneProc
  Overriding = {t2}
  Interruptible = {}
  Curators = FALSE
  Faults = FALSE
  Chain0 = "Valid"
  Past = past  Nobody = nobody
  MaxTries = 2  KeepRecent = 2
INVARIANT SettledTurnsAreKept
CHECK_DEADLOCK FALSE
