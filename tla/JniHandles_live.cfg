CONSTANTS
  Threads = {t1, t2, t3}
  NoThread = NoThread
  Runtimes = {rt1}
  Requests = {q1}
  NoObject = NoObject
  kHandleMax = 3
SPECIFICATION FairSpec
PROPERTIES CallsReturn
CHECK_DEADLOCK FALSE
