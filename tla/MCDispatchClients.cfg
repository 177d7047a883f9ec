CONSTANTS
  Requests = {r1}
  MaxRanges = 3
  Chunks = 3
SPECIFICATION MCSpec
INVARIANTS ReceiptAgrees OnlyNotifierLeft RaggedHolds
PROPERTIES DoneIsFinal ClientsReturn
CHECK_DEADLOCK FALSE
