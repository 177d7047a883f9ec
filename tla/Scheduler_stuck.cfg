CONSTANTS
  LittleWorkers = 1
  BigWorkers = 1
  QueueCapacity = 1
  Tasks = {t1}
  NoTask = NoTask
  Tokens = {k1}
  NoToken = NoToken
  TaskKinds <- StrictKinds
  ThermalInputs = {"Normal", "Critical"}
  MaxTime = 0
SPECIFICATION FairSpec
PROPERTIES CancelledTasksEnd
