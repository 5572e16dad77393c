CONSTANTS
  n1 = n1
  n2 = n2
  n3 = n3
  old = old
  Nodes = {n1, n2, n3}
  PeerIDs = {n1, n2, n3, old}
  HostID <- PresentID
  Address <- RecordAddress
  Addressable = {n1, n2, n3, old}
  Service = Service
  NoPeer = NoPeer
  Requests <- AllRequests
  ResolveRetries = 2
  UnlimitedBuffer = 1
  ResolveLatestTag = FALSE
  MaxHops = 3
  MaxChanges = 1
SPECIFICATION Spec
CHECK_DEADLOCK FALSE
INVARIANTS
  TypeOK
  NoForwardingLoop
  SelfOnlyByOldRecord
  AttemptsBounded
  NoProviderLost
PROPERTIES
  RespondsOnce
  PromiseKept
SYMMETRY
  NodeSymmetry
