CONSTANTS
  n1 = n1
  n2 = n2
  n3 = n3
  old = old
  Nodes = {n1, n2}
  PeerIDs = {n1, n2, old}
  HostID <- PresentID
  Address <- RecordAddress
  Addressable = {n1, n2, old}
  Service = Service
  NoPeer = NoPeer
  Requests <- PortRequest
  ResolveRetries = 1
  UnlimitedBuffer = 1
  ResolveLatestTag = FALSE
  MaxHops = 2
  MaxChanges = 0
SPECIFICATION Spec
CHECK_DEADLOCK FALSE
INVARIANTS
  LatestNotMirrored
