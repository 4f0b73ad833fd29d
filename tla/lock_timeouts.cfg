CONSTANTS
  t1 = t1
  t2 = t2
  t3 = t3
  NoThread = NoThread
  Threads = {t1, t2, t3}
  CanTimeOut = {t1, t2, t3}
  CanTry = {t1, t2, t3}
  MaxLost = 2
SPECIFICATION Spec
SYMMETRY Symmetry
INVARIANTS
  TypeOK
  MutualExclusion
  BooksBalance
  NoSleepingWriterOnFreeLock
PROPERTIES
  ImplementsRWLock
