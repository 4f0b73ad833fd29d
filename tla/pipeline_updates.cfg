CONSTANTS
  a = a
  b = b
  w1 = w1
  w2 = w2
  r1 = r1
  None = None
  Unread = Unread
  Pill = Pill
  Tasks = {a, b}
  Workers = {w1, w2}
  Readers = {r1}
  QueueSize = 1
  BatchSize = 2
  Clearable = {a}
  Evictable = {a}
  Voids = {b}
  MayExit = {b}
  MayShutdown = FALSE
SPECIFICATION Spec
INVARIANTS
  TypeOK
  
  GetSeesReportedOutcome
  ReportsStayOrdered
PROPERTIES
  StatusNeverRegresses
SYMMETRY WorkerSymmetry
