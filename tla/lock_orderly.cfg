CONSTANTS
  t1 = t1
  t2 = t2
  t3 = t3
  NoThread = NoThread
  Threads = {t1, t2, t3}
  CanTimeOut = {}
  CanTry = {}
  MaxLost = 0
SPECIFICATION FairSpec
PROPERTIES
  WriterPreference
  WritersProgress
  ReadersProgress
