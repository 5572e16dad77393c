---------------------------- MODULE MCBootstrap ----------------------------
(* Small instances of Bootstrap for TLC. *)
EXTENDS Bootstrap

CONSTANTS n1, n2, n3

Suitable == [config |-> "parsable", discard |-> FALSE, paths |-> {"certs.d"}, listen |-> "all",
             interfaces |-> {"ip4", "loopback"}]
\* n3 cannot run: its containerd discards layers.
OneUnsuitable ==
  [n \in Nodes |-> CASE n = n1 -> [Suitable EXCEPT !.interfaces = {"ip6", "ip4", "loopback"}]
                     [] n = n2 -> Suitable
                     [] n = n3 -> [Suitable EXCEPT !.discard = TRUE]]
AllSuitable == [n \in Nodes |-> Suitable]

Cluster(kind, peer, settings, maxFaults) ==
  [kind |-> kind, peer |-> peer, settings |-> settings, maxFaults |-> maxFaults]
\* One fault with two nodes that can start, none with three.
SomeClusters ==
  {Cluster("kubernetes", "answers", OneUnsuitable, 1), Cluster("http", "answers", OneUnsuitable, 1),
   Cluster("http", "hangs", OneUnsuitable, 1),
   Cluster("kubernetes", "answers", AllSuitable, 0), Cluster("http", "answers", AllSuitable, 0)}
OneCluster == {Cluster("kubernetes", "answers", AllSuitable, 1)}

\* A cluster that has formed around n1, where Spec starts from nothing.
Formed ==
  LET first == [n \in Nodes |-> <<n, 1>>]
  IN  /\ cluster \in Clusters
      /\ proc = [n \in Nodes |-> "running"] /\ inc = [n \in Nodes |-> 1]
      /\ parts = [n \in Nodes |-> Parts]
      /\ exit = [n \in Nodes |-> "none"]
      /\ lease = first[n1]
      /\ elect = [n \in Nodes |-> IF n = n1 THEN "leading" ELSE "candidate"]
      /\ reported = [n \in Nodes |-> lease] /\ callback = [n \in Nodes |-> NoCallback]
      /\ initClosed = [n \in Nodes |-> TRUE] /\ id = [n \in Nodes |-> lease]
      /\ fix = [n \in Nodes |-> "idle"]
      /\ table = [n \in Nodes |-> {first[m] : m \in Nodes \ {n}}]
      /\ probe = [n \in Nodes |-> "ok"] /\ faults = 0
FormedSpec == Formed /\ [][Next]_vars
=============================================================================
