SPECIFICATION ServicesSpec
CONSTANTS
  Jobs = {j1, j2, j3}
  WithTimeout = {j1, j2}
  Hanging = {j2}
  Callbacks = {f1}
  MaxTracked = 1 MaxCleaned = 1
  Callers = {c1, c2}
  Instances = {m1, m2}
  Nothing = Nothing
  e1 = e1 e2 = e2 e3 = e3
  Entries = {e1, e2, e3}
  Getters = {g1, g2}
  NoEntry = NoEntry
  Priority <- MCPriority
  SubmitTime <- MCSubmitTime
  MaxSize = 2
  Names = {n1, n2, n3}
  Failing = {n1}
  MaxEdges = 3
  Nodes = {n1, n2, n3}
  Asked = {n1}
  MaxLinks = 3 MaxChanges = 2
  r1 = r1 r2 = r2 r3 = r3 i1 = i1 i2 = i2
  Objects = {r1, r2, r3}
  Ids = {i1, i2}
  IdFor <- MCIdFor
  Owners = {t1, t2}
  NoObject = NoObject
  MaxResources = 2 EvictCount = 1 CleanCount = 1
  Keys = {k1, k2, k3}
  Producers = {p1, p2}
  BufferSize = 3 MaxUpdates = 3
  o1 = o1 o2 = o2 o3 = o3
  Cancellables = {o1, o2, o3}
  TaskIds = {i1, i2}
  IdOf <- MCIdOf
  NoTask = NoTask
INVARIANTS
  ServicesTypeOK
  
  CancelReachesTask
  OneRunningInstance
  EachServedOnce
  EmptyOnlyIfRobbed
  NoSleeperOnWork
  ReadyAnswers
  CycleAnswers
  ResourcesAccountedFor
  UpdatesLand
  CancelTakesEffect
PROPERTIES
  ExecutionsEnd
  ShutdownCompletes
CHECK_DEADLOCK FALSE
