CONSTANTS
  n1 = n1
  n2 = n2
  n3 = n3
  Nodes = {n1, n2, n3}
  ConfigPath = "certs.d"
  HTTPPeer = n1
  NoId = NoId
  Clusters <- SomeClusters
SPECIFICATION Spec
INVARIANTS
  TypeOK
  LeaseReleased
PROPERTIES
  Stops
  ProbeReturns
  BecomesReady
  Forms
