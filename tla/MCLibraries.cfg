CONSTANTS
  NaN = NaN
  x = x
  y = y
  w = w
  z = z
  Tensors = {x, y}
  SizeOf <- Small
  ExplicitKeys = {k}
  Handles = {h1, h2, h3}
  Capacity = 6
  Alignment = 2
  Vocab = {0, 1}
  MaxTokens = 4
  KMax = 2
  MaxCount = 2
  Events = {x, y, z}
  EventLimit = 2
  Prefills = {w, x, y, z}
  PrefillOf <- Requested
  capacity_tokens = 5
  bucket_width = 2
  max_tokens = 3
  max_sequences = 2
  PrefillTimes = {1, 2}
  MaxGeneration = 1
  MaxPack = 3
  ConsentTokens = {"narrow move", "move", "narrow write", "write", "other"}
  TokenOf <- Consents
  NoToken = "none"
  Under <- Scopes
  StorePaths = {x, y}
  FileContents = {0, 1}
  MaxReceipts = 2
  MemoryKeys = {x, y}
  ConsentTimes = {0, 1}
  Retentions = {1}
  Permits = {"permit"}
  Uses = {"report", "log"}
  PermitOf <- ReportPermit
  FileOrder <- TwoFiles
  Texts = {1, 2, 3}
  TextSize <- OneToThree
  NoFile = 0
  Plans <- Proposals
  Providers <- OneToThree
  MAX_CONTEXT_BYTES = 2
  max_file_bytes = 2
  min_consensus = 2
  MaxRounds = 2
SPECIFICATION MCSpec
INVARIANTS PoolHolds DecodingIsExact CursorFaithful PrefillIsExact ConsentHolds ChangesReviewed CodeMeans ProgramsChecked RuntimesHold CachesAgree EvidenceHolds WeightsAreRead StateAgrees
PROPERTIES ReleaseMerges UndoRestores RunIsOrderly
CHECK_DEADLOCK FALSE
