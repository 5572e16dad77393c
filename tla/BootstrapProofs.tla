-------------------------- MODULE BootstrapProofs --------------------------
(***************************************************************************)
(* For every set of nodes and every number of faults: Bootstrap keeps its  *)
(* types, and no process ends by itself while its election holds the       *)
(* lease.                                                                  *)
(***************************************************************************)
EXTENDS Bootstrap, TLAPS

-----------------------------------------------------------------------------
(* Types. The parts of the state are treated apart. *)

ProcTypeOK ==
  /\ proc \in [Nodes -> {"down", "running", "stopping"}] /\ inc \in [Nodes -> Nat]
  /\ parts \in [Nodes -> SUBSET Parts]
  /\ exit \in [Nodes -> {"none", "returned", "killed"}]

ElectTypeOK ==
  /\ lease \in Identities \cup {NoId}
  /\ elect \in [Nodes -> {"off", "candidate", "leading", "serving", "left", "kept", "ended"}]
  /\ reported \in [Nodes -> Identities \cup {NoId}]

Callbacks == {NoCallback} \cup [pc : {"close", "store"}, leader : Identities \cup {NoId}]

BootTypeOK ==
  /\ callback \in [Nodes -> Callbacks]
  /\ initClosed \in [Nodes -> BOOLEAN] /\ id \in [Nodes -> Identities \cup {NoId}]
  /\ \A n \in Nodes : callback[n].pc = "store" \/ id[n] # NoId => initClosed[n]

RestTypeOK ==
  /\ cluster \in Clusters
  /\ fix \in [Nodes -> {"idle", "wanted", "get"}] /\ table \in [Nodes -> SUBSET Identities]
  /\ probe \in [Nodes -> {"waiting", "ok", "notReady"}]
  /\ faults \in Nat

\* The parts make up TypeOK.
LEMMA TypeParts == TypeOK <=> ProcTypeOK /\ ElectTypeOK /\ BootTypeOK /\ RestTypeOK
BY Zenon DEF TypeOK, ProcTypeOK, ElectTypeOK, BootTypeOK, RestTypeOK, Callbacks

\* An identity is made of a node and a number of starts.
LEMMA SelfType == ASSUME ProcTypeOK, NEW n \in Nodes PROVE Self(n) \in Identities
BY DEF ProcTypeOK, Self, Identities

\* A step either leaves the processes alone or is one that starts or stops one.
LEMMA ProcTypeStep == ASSUME TypeOK, [Next]_vars PROVE ProcTypeOK'
<1> USE TypeParts
<1> SUFFICES ASSUME ProcTypeOK, [Next]_vars PROVE ProcTypeOK'
  OBVIOUS
<1>0. CASE UNCHANGED procVars
  BY <1>0 DEF procVars, ProcTypeOK
<1>1. CASE UNCHANGED vars
  BY <1>1, <1>0 DEF vars
<1>2. ASSUME NEW n \in Nodes, Start(n) PROVE ProcTypeOK'
  BY <1>2 DEF Start, ProcTypeOK, Parts
<1>3. ASSUME NEW n \in Nodes, Terminate(n) PROVE ProcTypeOK'
  BY <1>3 DEF Terminate, ProcTypeOK
<1>4. ASSUME NEW n \in Nodes, NEW p, PartReturns(n, p) PROVE ProcTypeOK'
  BY <1>4 DEF PartReturns, ProcTypeOK
<1>5. ASSUME NEW n \in Nodes, NEW how \in {"returned", "killed"}, Gone(n, how) PROVE ProcTypeOK'
  BY <1>5 DEF Gone, ProcTypeOK
<1>6. ASSUME NEW n \in Nodes, LoseLease(n) PROVE ProcTypeOK'
  BY <1>6 DEF LoseLease, ProcTypeOK
<1>7. ASSUME NEW n \in Nodes,
             RouterRun(n) \/ Bootstrapper(n) \/ Table(n) \/ (\E m \in Nodes : Discover(n, m)) \/ Probe(n)
      PROVE  UNCHANGED procVars
  BY <1>7 DEF RouterRun, Bootstrapper, Observe, Acquire, CallbackClose, CallbackStore, Table, FixStart,
     FixConnect, Evict, Discover, Probe, ProbeStart, ProbeAnswer
<1> QED
  BY <1>0, <1>1, <1>2, <1>3, <1>4, <1>5, <1>6, <1>7
  DEF Next, Process, Stop, TrackReturns, RouterReturns, RouterClose, ServerShutdown, Exit, Kill

\* The election: a lease is taken by the process that runs, and reported as it is.
LEMMA ElectTypeStep == ASSUME TypeOK, [Next]_vars PROVE ElectTypeOK'
<1> SUFFICES ASSUME ProcTypeOK, ElectTypeOK, [Next]_vars PROVE ElectTypeOK'
  BY TypeParts
<1>0. CASE UNCHANGED electVars
  BY <1>0 DEF electVars, ElectTypeOK
<1>1. CASE UNCHANGED vars
  BY <1>1, <1>0 DEF vars
<1>2. ASSUME NEW n \in Nodes, Start(n) \/ RouterRun(n) PROVE ElectTypeOK'
  BY <1>2 DEF Start, RouterRun, ElectTypeOK
<1>3. ASSUME NEW n \in Nodes, NEW leader \in Identities \cup {NoId}, Report(n, leader)
      PROVE  reported' \in [Nodes -> Identities \cup {NoId}]
  BY <1>3 DEF Report, ElectTypeOK
<1>4. ASSUME NEW n \in Nodes, Observe(n) PROVE ElectTypeOK'
  BY <1>3, <1>4 DEF Observe, ElectTypeOK
<1>5. ASSUME NEW n \in Nodes, Acquire(n) PROVE ElectTypeOK'
  BY <1>3, <1>5, SelfType DEF Acquire, ElectTypeOK
<1>6. ASSUME NEW n \in Nodes, LoseLease(n) \/ Terminate(n) PROVE ElectTypeOK'
  BY <1>6 DEF LoseLease, Terminate, ElectTypeOK
<1>7. ASSUME NEW n \in Nodes, RouterReturns(n) PROVE ElectTypeOK'
  BY <1>7 DEF RouterReturns, PartReturns, ElectTypeOK
<1>8. ASSUME NEW n \in Nodes,
             TrackReturns(n) \/ RouterClose(n) \/ ServerShutdown(n) \/ Exit(n) \/ Kill(n)
      PROVE  UNCHANGED electVars
  BY <1>8 DEF TrackReturns, RouterClose, ServerShutdown, PartReturns, Exit, Kill, Gone, electVars
<1>9. ASSUME NEW n \in Nodes,
             CallbackClose(n) \/ CallbackStore(n) \/ Table(n) \/ (\E m \in Nodes : Discover(n, m)) \/ Probe(n)
      PROVE  UNCHANGED electVars
  BY <1>9, Zenon DEF CallbackClose, CallbackStore, Table, FixStart, FixConnect, Evict, Discover, Probe,
     ProbeStart, ProbeAnswer
<1> QED
  BY <1>0, <1>1, <1>2, <1>4, <1>5, <1>6, <1>7, <1>8, <1>9 DEF Next, Process, Stop, Bootstrapper

\* The callback: initCh is closed before what it was called with is stored.
LEMMA BootTypeStep == ASSUME TypeOK, [Next]_vars PROVE BootTypeOK'
<1> SUFFICES ASSUME ProcTypeOK, ElectTypeOK, BootTypeOK, [Next]_vars PROVE BootTypeOK'
  BY TypeParts
<1>0. CASE UNCHANGED bootVars
  BY <1>0 DEF bootVars, BootTypeOK
<1>1. CASE UNCHANGED vars
  BY <1>1, <1>0 DEF vars
<1>2. ASSUME NEW n \in Nodes, NEW leader \in Identities \cup {NoId}, Report(n, leader)
      PROVE  /\ callback' \in [Nodes -> Callbacks]
             /\ \A m \in Nodes : callback'[m].pc = "store" => callback[m].pc = "store"
  <2> DEFINE call == [pc |-> "close", leader |-> leader]
  <2>1. call \in Callbacks /\ call.pc = "close"
    BY DEF Callbacks
  <2>2. callback' = [callback EXCEPT ![n] = call] /\ callback \in [Nodes -> Callbacks]
    BY <1>2 DEF Report, BootTypeOK
  <2> HIDE DEF call
  <2> QED
    BY <2>1, <2>2
<1>3. ASSUME NEW n \in Nodes, Observe(n) \/ Acquire(n) PROVE BootTypeOK'
  BY <1>2, <1>3, SelfType DEF Observe, Acquire, BootTypeOK, ElectTypeOK
<1>4. ASSUME NEW n \in Nodes, callback[n].pc \in {"close", "store"}
      PROVE  callback[n] \in [pc : {"close", "store"}, leader : Identities \cup {NoId}]
  BY <1>4 DEF BootTypeOK, Callbacks, NoCallback
<1>5. ASSUME NEW n \in Nodes, CallbackClose(n) PROVE BootTypeOK'
  <2>1. [callback[n] EXCEPT !.pc = "store"] \in Callbacks
    BY <1>4, <1>5 DEF CallbackClose, Callbacks
  <2>2. callback' = [callback EXCEPT ![n] = [callback[n] EXCEPT !.pc = "store"]]
    BY <1>5, Zenon DEF CallbackClose, BootTypeOK
  <2>3. callback' \in [Nodes -> Callbacks]
    BY <2>1, <2>2, Zenon DEF BootTypeOK
  <2>4. initClosed' = [initClosed EXCEPT ![n] = TRUE] /\ id' = id
    BY <1>5, Zenon DEF CallbackClose
  <2>5. \A m \in Nodes \ {n} : callback'[m] = callback[m]
    BY <2>2 DEF BootTypeOK
  <2> QED
    BY <2>3, <2>4, <2>5 DEF BootTypeOK
<1>6. ASSUME NEW n \in Nodes, CallbackStore(n) PROVE BootTypeOK'
  <2>1. callback[n].leader \in Identities \cup {NoId} /\ callback[n].pc = "store"
    BY <1>4, <1>6 DEF CallbackStore
  <2>2. NoCallback \in Callbacks /\ NoCallback.pc = "idle"
    BY DEF Callbacks, NoCallback
  <2> QED
    BY <1>6, <2>1, <2>2 DEF CallbackStore, BootTypeOK
<1>7. ASSUME NEW n \in Nodes, NEW how, Gone(n, how) PROVE BootTypeOK'
  <2>1. NoCallback \in Callbacks /\ NoCallback.pc = "idle"
    BY DEF Callbacks, NoCallback
  <2>2. /\ callback' = [callback EXCEPT ![n] = NoCallback]
        /\ initClosed' = [initClosed EXCEPT ![n] = FALSE] /\ id' = [id EXCEPT ![n] = NoId]
    BY <1>7, Zenon DEF Gone
  <2> QED
    BY <2>1, <2>2 DEF BootTypeOK
<1>8. ASSUME NEW n \in Nodes, NEW p, PartReturns(n, p) PROVE UNCHANGED bootVars
  BY <1>8 DEF PartReturns
<1>9. ASSUME NEW n \in Nodes,
             Start(n) \/ RouterRun(n) \/ Table(n) \/ (\E m \in Nodes : Discover(n, m)) \/ Probe(n)
               \/ Terminate(n) \/ LoseLease(n)
      PROVE  UNCHANGED bootVars
  BY <1>9, Zenon DEF Start, RouterRun, Table, FixStart, FixConnect, Evict, Discover, Probe, ProbeStart,
     ProbeAnswer, Terminate, LoseLease
<1> QED
  BY <1>0, <1>1, <1>3, <1>5, <1>6, <1>7, <1>8, <1>9, Zenon
  DEF Next, Process, Stop, Bootstrapper, TrackReturns, RouterReturns, RouterClose, ServerShutdown, Exit, Kill

\* The table, the probe and the faults: two hosts that connect learn each other's identity.
LEMMA RestTypeStep == ASSUME TypeOK, [Next]_vars PROVE RestTypeOK'
<1> SUFFICES ASSUME ProcTypeOK, RestTypeOK, [Next]_vars PROVE RestTypeOK'
  BY TypeParts
<1> DEFINE rest == <<cluster, fix, table, probe, faults>>
<1>0. CASE UNCHANGED rest
  BY <1>0 DEF RestTypeOK
<1>1. CASE UNCHANGED vars
  BY <1>1, <1>0 DEF vars, dhtVars
<1>2. ASSUME NEW n \in Nodes, NEW m \in Nodes, Connect(n, m)
      PROVE  table' \in [Nodes -> SUBSET Identities]
  BY <1>2, SelfType DEF Connect, RestTypeOK
<1>3. ASSUME NEW n \in Nodes, KdhtBootstrap(n) PROVE fix' \in [Nodes -> {"idle", "wanted", "get"}]
  BY <1>3 DEF KdhtBootstrap, RestTypeOK
<1>4. ASSUME NEW n \in Nodes, RouterRun(n) PROVE RestTypeOK'
  BY <1>3, <1>4 DEF RouterRun, RestTypeOK
<1>5. ASSUME NEW n \in Nodes, FixStart(n) \/ Evict(n) PROVE RestTypeOK'
  BY <1>5 DEF FixStart, Evict, RestTypeOK
<1>6. ASSUME NEW n \in Nodes, FixConnect(n) PROVE RestTypeOK'
  <2>1. table' \in [Nodes -> SUBSET Identities]
    BY <1>2, <1>6 DEF FixConnect, RestTypeOK
  <2> QED
    BY <1>6, <2>1 DEF FixConnect, RestTypeOK
<1>7. ASSUME NEW n \in Nodes, NEW m \in Nodes, Discover(n, m) PROVE RestTypeOK'
  BY <1>2, <1>7 DEF Discover, RestTypeOK
<1>8. ASSUME NEW n \in Nodes, Probe(n) PROVE RestTypeOK'
  <2>1. CASE ProbeStart(n)
    BY <2>1 DEF ProbeStart, RestTypeOK, dhtVars
  <2>2. CASE ProbeAnswer(n)
    BY <1>3, <2>2 DEF ProbeAnswer, RestTypeOK
  <2> QED
    BY <1>8, <2>1, <2>2 DEF Probe
<1>9. ASSUME NEW n \in Nodes, Terminate(n) \/ LoseLease(n) PROVE RestTypeOK'
  BY <1>9 DEF Terminate, LoseLease, Fault, RestTypeOK, dhtVars
<1>10. ASSUME NEW n \in Nodes, RouterClose(n) PROVE RestTypeOK'
  BY <1>10 DEF RouterClose, PartReturns, RestTypeOK
<1>11. ASSUME NEW n \in Nodes, TrackReturns(n) \/ RouterReturns(n) \/ ServerShutdown(n) PROVE UNCHANGED rest
  BY <1>11 DEF TrackReturns, RouterReturns, ServerShutdown, PartReturns
<1>12. ASSUME NEW n \in Nodes, Exit(n) \/ Kill(n) PROVE RestTypeOK'
  BY <1>12 DEF Exit, Kill, Gone, Fault, RestTypeOK
<1>13. ASSUME NEW n \in Nodes, Start(n) \/ Bootstrapper(n) PROVE UNCHANGED rest
  BY <1>13, Zenon DEF Start, Bootstrapper, Observe, Acquire, CallbackClose, CallbackStore, dhtVars
<1> QED
  BY <1>0, <1>1, <1>4, <1>5, <1>6, <1>7, <1>8, <1>9, <1>10, <1>11, <1>12, <1>13, Zenon
  DEF Next, Process, Stop, Table

\* The state keeps its types, whatever is started, stopped, killed or lost.
THEOREM BootstrapTypes == Spec => []TypeOK
<1>1. Init => TypeOK
  BY BootstrapAssumption DEF Init, TypeOK, NoCallback, Identities
<1>2. TypeOK /\ [Next]_vars => TypeOK'
  BY ProcTypeStep, ElectTypeStep, BootTypeStep, RestTypeStep, Zenon
  DEF TypeOK, ProcTypeOK, ElectTypeOK, BootTypeOK, RestTypeOK, Callbacks
<1> QED
  BY <1>1, <1>2, PTL DEF Spec

-----------------------------------------------------------------------------
(* The lease *)

\* LeaseReleased speaks of processes that have ended. It holds because, before, the
\* goroutine of the router is there as long as its election may hold the lease, and
\* because a lease never names a process that is yet to be started.
NotOfTheFuture == \A n \in Nodes, i \in Nat : lease = <<n, i>> => i <= inc[n]

HolderElected == \A n \in Nodes : lease = Self(n) => elect[n] \in {"leading", "left", "kept"}

RouterRuns ==
  \A n \in Nodes : proc[n] # "down" =>
    /\ elect[n] \in {"off", "candidate", "leading"} => "router" \in parts[n]
    /\ elect[n] \in {"left", "kept"} => "router" \notin parts[n]

ExitedIsDown == \A n \in Nodes : exit[n] = "returned" => proc[n] = "down"

LeaseInv == NotOfTheFuture /\ HolderElected /\ RouterRuns /\ ExitedIsDown /\ LeaseReleased

\* Every step keeps it.
LEMMA LeaseInvStep == ASSUME TypeOK, LeaseInv, [Next]_vars PROVE LeaseInv'
<1> DEFINE state == <<proc, inc, parts, exit, lease, elect>>
<1> USE DEF NotOfTheFuture, HolderElected, RouterRuns, ExitedIsDown, LeaseReleased
<1> ProcTypeOK /\ ElectTypeOK
  BY TypeParts
<1>0. CASE UNCHANGED state
  BY <1>0 DEF LeaseInv, Self
<1>1. CASE UNCHANGED vars
  BY <1>1, <1>0 DEF vars, procVars, electVars
<1>2. ASSUME NEW n \in Nodes, Start(n) PROVE LeaseInv'
  BY <1>2 DEF Start, LeaseInv, ProcTypeOK, ElectTypeOK, Self, Identities, Parts
<1>3. ASSUME NEW n \in Nodes, RouterRun(n) PROVE LeaseInv'
  BY <1>3 DEF RouterRun, LeaseInv, ProcTypeOK, ElectTypeOK, Self, procVars
<1>4. ASSUME NEW n \in Nodes, Acquire(n) PROVE LeaseInv'
  BY <1>4 DEF Acquire, LeaseInv, ProcTypeOK, ElectTypeOK, Self, procVars
<1>5. ASSUME NEW n \in Nodes, LoseLease(n) PROVE LeaseInv'
  BY <1>5, BootstrapAssumption DEF LoseLease, LeaseInv, ProcTypeOK, ElectTypeOK, Self, Identities
<1>6. ASSUME NEW n \in Nodes, Terminate(n) PROVE LeaseInv'
  BY <1>6 DEF Terminate, LeaseInv, ProcTypeOK, ElectTypeOK, Self
<1>7. ASSUME NEW n \in Nodes, RouterReturns(n) PROVE LeaseInv'
  <2>1. elect[n] \notin {"left", "kept"} /\ proc[n] = "stopping" /\ exit[n] # "returned"
    BY <1>7 DEF RouterReturns, PartReturns, LeaseInv
  <2>2. PICK how \in {"ended", "kept"} : elect' = [elect EXCEPT ![n] = how]
    BY <1>7 DEF RouterReturns
  <2>3. (lease' = lease \/ lease' = NoId) /\ (lease' = Self(n) => how = "kept")
    BY <1>7, <2>1, <2>2, BootstrapAssumption, SelfType
    DEF RouterReturns, LeaseInv, Identities, ElectTypeOK
  <2>4. /\ inc' = inc /\ proc' = proc /\ exit' = exit
        /\ parts' = [parts EXCEPT ![n] = @ \ {"router"}]
    BY <1>7 DEF RouterReturns, PartReturns
  <2>5. NotOfTheFuture' /\ HolderElected' /\ LeaseReleased'
    BY <2>1, <2>2, <2>3, <2>4, BootstrapAssumption, SelfType
    DEF LeaseInv, ProcTypeOK, ElectTypeOK, Self, Identities
  <2>6. RouterRuns' /\ ExitedIsDown'
    BY <2>2, <2>4 DEF LeaseInv, ProcTypeOK, ElectTypeOK
  <2> QED
    BY <2>5, <2>6 DEF LeaseInv
<1>8. ASSUME NEW n \in Nodes, TrackReturns(n) \/ RouterClose(n) \/ ServerShutdown(n) PROVE LeaseInv'
  BY <1>8 DEF TrackReturns, RouterClose, ServerShutdown, PartReturns, LeaseInv, ProcTypeOK, ElectTypeOK, Self
<1>9. ASSUME NEW n \in Nodes, Exit(n) \/ Kill(n) PROVE LeaseInv'
  <2>1. /\ inc' = inc /\ lease' = lease /\ elect' = elect
        /\ proc' = [proc EXCEPT ![n] = "down"]
        /\ \A m \in Nodes \ {n} : exit'[m] = exit[m] /\ parts'[m] = parts[m]
    BY <1>9 DEF Exit, Kill, Gone, electVars, ProcTypeOK
  <2>2. exit'[n] = "returned" => proc[n] # "down" /\ "router" \notin parts[n]
    BY <1>9 DEF Exit, Kill, Gone, ProcTypeOK
  <2>3. exit'[n] = "returned" /\ lease = Self(n) => elect[n] \in {"left", "kept"}
    BY <2>2 DEF LeaseInv
  <2>4. NotOfTheFuture' /\ HolderElected' /\ RouterRuns' /\ ExitedIsDown'
    BY <2>1 DEF LeaseInv, Self, ProcTypeOK
  <2>5. LeaseReleased'
    BY <2>1, <2>3 DEF LeaseInv, Self
  <2> QED
    BY <2>4, <2>5 DEF LeaseInv
<1>10. ASSUME NEW n \in Nodes,
              Observe(n) \/ CallbackClose(n) \/ CallbackStore(n) \/ Table(n)
                \/ (\E m \in Nodes : Discover(n, m)) \/ Probe(n)
       PROVE  UNCHANGED state
  BY <1>10, Zenon DEF Observe, CallbackClose, CallbackStore, Table, FixStart, FixConnect, Evict, Discover,
     Probe, ProbeStart, ProbeAnswer, procVars, electVars
<1> QED
  BY <1>0, <1>1, <1>2, <1>3, <1>4, <1>5, <1>6, <1>7, <1>8, <1>9, <1>10, Zenon
  DEF Next, Process, Stop, Bootstrapper

\* A process that ends by itself leaves the lease in its name only if its election had
\* lost it before or failed to release it: g.Wait waits for Run of the bootstrapper.
THEOREM LeaseIsReleased == Spec => []LeaseReleased
<1>1. Init => LeaseInv
  BY BootstrapAssumption
  DEF Init, LeaseInv, NotOfTheFuture, HolderElected, RouterRuns, ExitedIsDown, LeaseReleased, Self
<1>2. TypeOK /\ LeaseInv /\ [Next]_vars => LeaseInv'
  BY LeaseInvStep
<1>3. LeaseInv => LeaseReleased
  BY DEF LeaseInv
<1> QED
  BY <1>1, <1>2, <1>3, BootstrapTypes, PTL DEF Spec
=============================================================================
