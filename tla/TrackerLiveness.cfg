CONSTANTS
  d1 = d1
  d2 = d2
  b = b
  None = None
  Names <- OneName
  Digests <- MCDigests
  Identifiers <- MCIdentifiers
  Bindings <- OneBinding
  ResolveLatestTag = FALSE
  Interruptions = {"cancel", "stream"}
  MaxChanges = 1
  MaxFaults = 1
SPECIFICATION Spec
CHECK_DEADLOCK FALSE
PROPERTIES
  StoredImageReadvertised
  TrackReturns
  StreamCloseNoticed
