CONSTANTS
  Threads = {t1, t2, t3}
  NoThread = NoThread
  Runtimes = {rt1}
  Requests = {q1, q2, q3}
  NoObject = NoObject
  kHandleMax = 4
SPECIFICATION Spec
SYMMETRY Symmetry
INVARIANTS RegistriesSound UseProtected NothingLeftBehind
CHECK_DEADLOCK FALSE
