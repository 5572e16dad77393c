CONSTANTS
  d1 = d1
  d2 = d2
  b = b
  None = None
  Names <- SharedNames
  Digests <- MCDigests
  Identifiers <- MCIdentifiers
  Bindings <- SharedBindings
  ResolveLatestTag = TRUE
  Interruptions = {}
  MaxChanges = 1
  MaxFaults = 0
SPECIFICATION Spec
INVARIANTS
  StoredImagesAdvertised
