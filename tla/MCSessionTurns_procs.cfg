SPECIFICATION Spec
CONSTANTS
  t1 = t1  t2 = t2  t3 = t3  p1 = p1  p2 = p2
  Turns = {t1, t2, t3}
  Procs = {p1, p2}
  ProcOf <- TwoProcs
  Overriding = {}
  Interruptible = {}
  Curators = FALSE
  Faults = TRUE
  Chain0 = "Valid"
  Past = past  Nobody = nobody
  MaxTries = 2  KeepRecent = 3
INVARIANTS TypeOK OneTurnAtATime TurnsAreKept
PROPERTY ImplementsSessionStore
SYMMETRY Siblings
CHECK_DEADLOCK FALSE
