CONSTANTS
  w1 = w1
  w2 = w2
  w3 = w3
  MinWorkers = 1
  MaxWorkers = 2
  Initial = {w1}
  Threads = {w1, w2, w3}
  QueueSize = 2
  HighMark = 1
  Clients = 1
  Adaptive = TRUE
  MayDie = TRUE
  MayShutdown = TRUE
SPECIFICATION Spec
SYMMETRY Symmetry
INVARIANTS
  TypeOK
  NoUnlistedWorker
  
  ListNeverBelowMin
CHECK_DEADLOCK FALSE
