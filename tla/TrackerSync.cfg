CONSTANTS
  d1 = d1
  d2 = d2
  b = b
  None = None
  Names <- SharedNames
  Digests <- MCDigests
  Identifiers <- MCIdentifiers
  Bindings <- MixedBindings
  ResolveLatestTag = TRUE
  Interruptions = {}
  MaxChanges = 2
  MaxFaults = 1
SPECIFICATION Spec
INVARIANTS
  TypeOK
  TargetsAdvertised
  SyncCovers
  SyncRepairsGauges
  UnsharedAdvertised
