SPECIFICATION Spec
CONSTANTS
  t1 = t1 t2 = t2 t3 = t3
  Tasks = {t1, t2}
  None = None
  Setups <- RustStore
  Hash <- MCHash
  Counts = {1}
  Ttl = 1
  MaxCleanup = 2
  MaxTime = 3 LastSubmit = 0
  Ending = {t1, t2}
  Removable = {}
  Overlap = FALSE
  MayClear = FALSE
INVARIANT
  NothingExpiredStays
CHECK_DEADLOCK FALSE
