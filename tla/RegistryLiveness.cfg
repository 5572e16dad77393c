CONSTANTS
  n1 = n1
  n2 = n2
  n3 = n3
  old = old
  Nodes = {n1, n2}
  PeerIDs = {n1, n2, old}
  HostID <- PresentID
  Address <- RecordAddress
  Addressable = {n2, old}
  Service = Service
  NoPeer = NoPeer
  Requests <- BlobRequest
  ResolveRetries = 0
  UnlimitedBuffer = 1
  ResolveLatestTag = TRUE
  MaxHops = 2
  MaxChanges = 1
SPECIFICATION Spec
CHECK_DEADLOCK FALSE
PROPERTIES
  Answered
  HandlerReleased
  ResolverEnds
