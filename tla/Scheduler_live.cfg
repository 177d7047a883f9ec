CONSTANTS
  LittleWorkers = 1
  BigWorkers = 1
  QueueCapacity = 2
  Tasks = {t1, t2}
  NoTask = NoTask
  Tokens = {}
  NoToken = NoToken
  TaskKinds <- PreferenceKinds
  ThermalInputs = {"Normal", "Critical"}
  MaxTime = 0
SPECIFICATION FairSpec
PROPERTIES ShutdownCompletes AcceptedTasksEnd
