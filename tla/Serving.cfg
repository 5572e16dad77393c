CONSTANTS
  c1 = c1
  c2 = c2
  idx = idx
  man = man
  other = other
  conf = conf
  layer = layer
  att = att
  None = None
  Calls = {c1, c2}
  Workloads <- SomeWorkloads
  Docs <- Image
  Names <- App
  Stores <- ImageStores
  Locals <- ImageLocals
  Unit <- Factor
  MaxInt = 7
  Chunk = 2
  Burst = 4
  MaxIdle = 1
  MaxChanges = 1
SPECIFICATION Spec
CHECK_DEADLOCK FALSE
INVARIANTS
  TypeOK
  RecordedAsSent
  ServedAsStored
  BlobWhole
  WalkComplete
  RateBounded
PROPERTIES
  CallsEnd
