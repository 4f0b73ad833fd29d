SPECIFICATION Spec
CONSTANTS
  t1 = t1 t2 = t2 t3 = t3
  Tasks = {t1, t2, t3}
  None = None
  Setups <- BothStores
  Hash <- MCHash
  Counts = {1, 2}
  Ttl = 1
  MaxCleanup = 2
  MaxTime = 2 LastSubmit = 0
  Ending = {t1, t2}
  Removable = {t1}
  Overlap = FALSE
  MayClear = TRUE
INVARIANTS
  TypeOK
  EndedCanExpire
  PythonExpires
  LimitHolds
PROPERTY
  IsAMap
CHECK_DEADLOCK FALSE
