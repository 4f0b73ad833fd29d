CONSTANTS
  a = a
  w1 = w1
  w2 = w2
  r1 = r1
  None = None
  Unread = Unread
  Pill = Pill
  Tasks = {a}
  Workers = {w1, w2}
  Readers = {r1}
  QueueSize = 1
  BatchSize = 2
  Clearable = {a}
  Evictable = {a}
  Voids = {a}
  MayExit = {}
  MayShutdown = TRUE
SPECIFICATION PollingSpec
PROPERTIES
  WorkersLeave
  
  ImplementsBoard
CHECK_DEADLOCK FALSE
