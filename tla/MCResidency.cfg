CONSTANTS
  ida = ida
  idb = idb
  idc = idc
  Ids = {ida, idb, idc}
  Artifacts <- Offers
  AllowedPrecisions = {"fp16", "int8"}
  MaxBytes = 3
  MaxEntries = 2
  MaxAge = 1
  MaxStep = 2
  MaxLanes = 2
  MaxSnapshots = 1
  Tensors = {ida, idb}
  SizeOf <- TensorSizes
  KeyRank <- KeyOrder
  ExplicitKeys = {}
  Handles <- ManagerHandles
  Capacity = 6
  Alignment = 2
  Priorities = {0}
  cold_after_ns = 1
  MaxTime = 1
  MaxLeases = 1
  Pinnable = {idb}
SPECIFICATION MCSpec
INVARIANTS AdaptersHold BlocksHold PoolHoldsResidents
PROPERTIES EvictionIsFair DecisionTells ReclaimIsFair
