CONSTANTS
  a = a
  w1 = w1
  r1 = r1
  None = None
  Unread = Unread
  Pill = Pill
  Tasks = {a}
  Workers = {w1}
  Readers = {r1}
  QueueSize = 2
  BatchSize = 2
  Clearable = {}
  Evictable = {}
  Voids = {}
  MayExit = {}
  MayShutdown = FALSE
SPECIFICATION Spec
INVARIANTS
  DoneMeansCompletedOrFailed
