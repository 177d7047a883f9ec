CONSTANTS
  LittleWorkers = 1
  BigWorkers = 1
  QueueCapacity = 1
  Tasks = {t1, t2, t3}
  NoTask = NoTask
  Tokens = {k1}
  NoToken = NoToken
  TaskKinds <- StrictKinds
  ThermalInputs = {"Normal", "Critical"}
  MaxTime = 0
SPECIFICATION Spec
SYMMETRY TaskSymmetry
INVARIANTS ToldOnce NoTaskLost ShutdownSettles
PROPERTIES NoAcceptAfterStopped
