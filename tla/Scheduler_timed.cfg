CONSTANTS
  LittleWorkers = 1
  BigWorkers = 2
  QueueCapacity = 1
  Tasks = {t1, t2}
  NoTask = NoTask
  Tokens = {k1}
  NoToken = NoToken
  TaskKinds <- TimedKinds
  ThermalInputs = {"Normal"}
  MaxTime = 2
SPECIFICATION Spec
SYMMETRY TaskSymmetry
INVARIANTS IInv CountersAgree
PROPERTIES RefinesTaskService
