----------------------------- MODULE Bootstrap -----------------------------
(***************************************************************************)
(* How the processes of a cluster find each other, and how they start and  *)
(* stop: registryCommand of main.go with its error group, NewP2PRouter,    *)
(* Run, Ready and Close of pkg/routing/p2p.go, the two bootstrappers of    *)
(* pkg/routing/bootstrap.go, readyHandler of pkg/registry/registry.go and  *)
(* Verify of pkg/oci/containerd.go.                                        *)
(*                                                                         *)
(* Leader election (client-go), the hash table (libp2p) and the kubelet    *)
(* are external. The election reports a leader to OnNewLeader in a         *)
(* goroutine of its own; the table calls BootstrapPeersFunc in one of its  *)
(* goroutines; the kubelet calls the readiness handler. All three meet in  *)
(* initCh and id of the bootstrapper.                                      *)
(***************************************************************************)
EXTENDS Integers, FiniteSets

CONSTANTS
  Nodes,
  Clusters,   \* what they may be like, [kind, peer, settings, maxFaults]:
              \* args.BootstrapKind, whether HTTPBootstrapPeer answers what it accepts,
              \* node -> [config, discard, paths, listen, interfaces], and a
              \* bound: stops, kills and losses of the lease, over all nodes
  ConfigPath, \* ContainerdRegistryConfigPath
  HTTPPeer,   \* the node HTTPBootstrapPeer points to
  NoId        \* no identity: the empty string, holder of a lease that was released, or
              \* a Get that failed

ASSUME BootstrapAssumption ==
  /\ HTTPPeer \in Nodes /\ NoId \notin Nodes \X Nat
  /\ \A c \in Clusters : /\ c.kind \in {"kubernetes", "http"} /\ c.peer \in {"answers", "hangs"}
                         /\ c.maxFaults \in Nat

VARIABLES
  cluster,     \* what this cluster is like
  proc,        \* node -> "down", "running", "stopping" (the group's context is done)
  inc,         \* node -> how often it was started; the host has a new key each time
  parts,       \* node -> goroutines of the error group that have not returned
  exit,        \* node -> how its last process ended: "none", "returned", "killed"
  lease,       \* holder identity of the lease
  elect,       \* node -> bootstrapper.Run: "off", "candidate", "leading", "serving", or how
               \* it returned: "left" (lease lost), "kept" (not released), "ended"
  reported,    \* node -> the leader the election has last reported
  callback,    \* node -> OnNewLeader: the leader it was called with, and what it does next
  initClosed,  \* node -> initCh is closed
  id,          \* node -> id of the KubernetesBootstrapper
  fix,         \* node -> the table's goroutine: "idle", "wanted", "get"
  table,       \* node -> identities in its routing table
  probe,       \* node -> the readiness handler: "waiting", or its last answer
  faults       \* how much of cluster.maxFaults is used

procVars == <<proc, inc, parts, exit>>
electVars == <<lease, elect, reported>>
bootVars == <<callback, initClosed, id>>
dhtVars == <<fix, table>>
vars == <<cluster, procVars, electVars, bootVars, dhtVars, probe, faults>>

Parts == {"servers", "router", "close", "track"}
Identities == Nodes \X Nat
Self(n) == <<n, inc[n]>>
NoCallback == [pc |-> "idle", leader |-> NoId]

Fault == faults < cluster.maxFaults /\ faults' = faults + 1

-----------------------------------------------------------------------------
(* Start *)

\* verifyStatusResponse.
Verify(s) == s.config = "parsable" /\ ~s.discard /\ ConfigPath \in s.paths

\* listenMultiaddrs: no host listens on all interfaces, of both versions.
ListenMultiaddrs(s) == IF s.listen = "all" THEN s.interfaces ELSE {s.listen} \cap s.interfaces

\* The AddrsFactory option: one address that is not a loopback, IPv6 before IPv4.
HostAddrs(s) ==
  IF "ip6" \in ListenMultiaddrs(s) THEN {"ip6"} ELSE ListenMultiaddrs(s) \cap {"ip4"}

\* registryCommand gets as far as g.Wait.
Startable(n) ==
  Verify(cluster.settings[n]) /\ Cardinality(HostAddrs(cluster.settings[n])) = 1

\* registryCommand up to its g.Wait. A process that cannot start ends, and is tried again.
Start(n) ==
  /\ proc[n] = "down" /\ Startable(n)
  /\ proc' = [proc EXCEPT ![n] = "running"] /\ inc' = [inc EXCEPT ![n] = @ + 1]
  /\ parts' = [parts EXCEPT ![n] = Parts] /\ exit' = [exit EXCEPT ![n] = "none"]
  /\ elect' = [elect EXCEPT ![n] = "off"] /\ reported' = [reported EXCEPT ![n] = NoId]
  /\ UNCHANGED <<cluster, lease, bootVars, dhtVars, probe, faults>>

\* kdht.Bootstrap asks the table's goroutine to fix the table and does not wait.
KdhtBootstrap(n) == fix' = [fix EXCEPT ![n] = IF @ = "idle" THEN "wanted" ELSE @]

\* P2PRouter.Run: the table's bootstrap, then that of the bootstrapper.
RouterRun(n) ==
  /\ proc[n] = "running" /\ elect[n] = "off"
  /\ KdhtBootstrap(n)
  /\ elect' = [elect EXCEPT ![n] = IF cluster.kind = "http" THEN "serving" ELSE "candidate"]
  /\ UNCHANGED <<cluster, procVars, lease, reported, bootVars, table, probe, faults>>

-----------------------------------------------------------------------------
(* KubernetesBootstrapper.Run: the election, and its callback OnNewLeader *)

\* The holder still renews the lease.
Held == \E n \in Nodes : lease = Self(n) /\ elect[n] = "leading" /\ proc[n] # "down"

\* The election calls back with each holder it observes, the empty one of a released
\* lease included: OnNewLeader returns early only for UnknownLeader, which a lease
\* lock never reports. A callback has returned before the next leader: observations
\* are RetryPeriod, two seconds, apart.
Report(n, leader) ==
  /\ callback[n] = NoCallback
  /\ reported' = [reported EXCEPT ![n] = leader]
  /\ callback' = [callback EXCEPT ![n] = [pc |-> "close", leader |-> leader]]

Observe(n) ==
  /\ elect[n] = "candidate" /\ proc[n] = "running" /\ reported[n] # lease
  /\ Report(n, lease)
  /\ UNCHANGED <<cluster, procVars, lease, elect, initClosed, id, dhtVars, probe, faults>>

\* A lease that was released or has expired is taken by a candidate.
Acquire(n) ==
  /\ elect[n] = "candidate" /\ proc[n] = "running" /\ ~Held
  /\ lease' = Self(n)
  /\ elect' = [elect EXCEPT ![n] = "leading"]
  /\ Report(n, Self(n))
  /\ UNCHANGED <<cluster, procVars, initClosed, id, dhtVars, probe, faults>>

\* Mutant: Run opens a new initCh when it returns.
LoseLeaseReopens(n) ==
  /\ elect[n] = "leading" /\ proc[n] = "running" /\ Fault
  /\ elect' = [elect EXCEPT ![n] = "left"]
  /\ lease' \in {lease, NoId}
  /\ parts' = [parts EXCEPT ![n] = @ \ {"router"}]
  /\ initClosed' = [initClosed EXCEPT ![n] = FALSE]
  /\ UNCHANGED <<cluster, proc, inc, exit, reported, callback, id, dhtVars, probe>>

\* A leader does not renew within RenewDeadline: RunOrDie returns, Run returns nil,
\* and the node takes no further part in the election. Releasing the lease may fail too.
LoseLease(n) ==
  /\ elect[n] = "leading" /\ proc[n] = "running" /\ Fault
  /\ elect' = [elect EXCEPT ![n] = "left"]
  /\ lease' \in {lease, NoId}
  /\ parts' = [parts EXCEPT ![n] = @ \ {"router"}]
  /\ UNCHANGED <<cluster, proc, inc, exit, reported, bootVars, dhtVars, probe>>

\* Mutant: initCh is left as it is.
SkipClose(n) ==
  /\ callback[n].pc = "close"
  /\ callback' = [callback EXCEPT ![n].pc = "store"]
  /\ UNCHANGED <<cluster, procVars, electVars, initClosed, id, dhtVars, probe, faults>>

\* initCh is closed unless it is already,
CallbackClose(n) ==
  /\ callback[n].pc = "close"
  /\ initClosed' = [initClosed EXCEPT ![n] = TRUE]
  /\ callback' = [callback EXCEPT ![n].pc = "store"]
  /\ UNCHANGED <<cluster, procVars, electVars, id, dhtVars, probe, faults>>

\* Mutant: only the first leader is stored.
StoreFirst(n) ==
  /\ callback[n].pc = "store"
  /\ id' = [id EXCEPT ![n] = IF @ = NoId THEN callback[n].leader ELSE @]
  /\ callback' = [callback EXCEPT ![n] = NoCallback]
  /\ UNCHANGED <<cluster, procVars, electVars, initClosed, dhtVars, probe, faults>>

\* and then the identity is stored under the lock.
CallbackStore(n) ==
  /\ callback[n].pc = "store"
  /\ id' = [id EXCEPT ![n] = callback[n].leader]
  /\ callback' = [callback EXCEPT ![n] = NoCallback]
  /\ UNCHANGED <<cluster, procVars, electVars, initClosed, dhtVars, probe, faults>>

-----------------------------------------------------------------------------
(* Get of both bootstrappers *)

\* The client has no timeout for an answer. A peer that is not there is an error.
HTTPAnswers == cluster.peer = "answers"

\* The KubernetesBootstrapper waits for initCh, the HTTPBootstrapper for the answer.
GetReturns(n) == IF cluster.kind = "http" THEN HTTPAnswers ELSE initClosed[n]

\* Run of the HTTPBootstrapper of HTTPPeer answers /id.
HTTPServes == elect[HTTPPeer] = "serving" /\ proc[HTTPPeer] # "down"

\* The HTTPBootstrapper asks the peer each time, which may not be there. An identity
\* that is not stored yet, or is that of a released lease, does not parse: an error,
\* as NoId.
Get(n) ==
  IF cluster.kind = "http"
  THEN IF HTTPServes THEN Self(HTTPPeer) ELSE NoId
  ELSE id[n]

-----------------------------------------------------------------------------
(* The routing table *)

\* The host of this identity is open.
Reachable(i) == \E n \in Nodes : i = Self(n) /\ "close" \in parts[n]

Connect(n, m) == table' = [table EXCEPT ![n] = @ \cup {Self(m)}, ![m] = @ \cup {Self(n)}]

\* BootstrapPeersFunc: nobody on an error, and not the node itself.
BootstrapPeers(n) == {Get(n)} \ {NoId, Self(n)}

\* The table's goroutine looks for bootstrap peers only if the table is empty.
FixStart(n) ==
  /\ fix[n] = "wanted"
  /\ fix' = [fix EXCEPT ![n] = IF table[n] = {} THEN "get" ELSE "idle"]
  /\ UNCHANGED <<cluster, procVars, electVars, bootVars, table, probe, faults>>

FixConnect(n) ==
  /\ fix[n] = "get" /\ GetReturns(n)
  /\ fix' = [fix EXCEPT ![n] = "idle"]
  /\ \/ \E m \in Nodes : Self(m) \in BootstrapPeers(n) /\ Reachable(Self(m)) /\ Connect(n, m)
     \/ (\A i \in BootstrapPeers(n) : ~Reachable(i)) /\ UNCHANGED table
  /\ UNCHANGED <<cluster, procVars, electVars, bootVars, probe, faults>>

\* Lookups make a node acquainted with the peers of its peers.
Discover(n, m) ==
  /\ n # m /\ Self(m) \notin table[n] /\ Reachable(Self(n)) /\ Reachable(Self(m))
  /\ \E k \in Nodes : Self(k) \in table[n] /\ Self(m) \in table[k]
  /\ Connect(n, m)
  /\ UNCHANGED <<cluster, procVars, electVars, bootVars, fix, probe, faults>>

Evict(n) ==
  /\ \E i \in table[n] : ~Reachable(i) /\ table' = [table EXCEPT ![n] = @ \ {i}]
  /\ UNCHANGED <<cluster, procVars, electVars, bootVars, fix, probe, faults>>

-----------------------------------------------------------------------------
(* The readiness handler *)

\* The kubelet probes again also while an earlier handler waits, and they all return
\* together.
ProbeStart(n) ==
  /\ proc[n] = "running"
  /\ probe' = [probe EXCEPT ![n] = "waiting"]
  /\ UNCHANGED <<cluster, procVars, electVars, bootVars, dhtVars, faults>>

\* Mutant: an empty table is reported and left empty.
AnswerOnly(n) ==
  /\ probe[n] = "waiting" /\ GetReturns(n)
  /\ probe' = [probe EXCEPT ![n] =
       IF Get(n) = Self(n) \/ (Get(n) # NoId /\ table[n] # {}) THEN "ok" ELSE "notReady"]
  /\ UNCHANGED <<cluster, procVars, electVars, bootVars, dhtVars, faults>>

\* Ready, and readyHandler's answer: 200, or 500 also when there is no leader to
\* parse. Get does not know that the caller has gone.
ProbeAnswer(n) ==
  /\ probe[n] = "waiting" /\ GetReturns(n)
  /\ \/ /\ Get(n) = Self(n) \/ (Get(n) # NoId /\ table[n] # {})
        /\ probe' = [probe EXCEPT ![n] = "ok"] /\ UNCHANGED fix
     \/ Get(n) = NoId /\ probe' = [probe EXCEPT ![n] = "notReady"] /\ UNCHANGED fix
     \/ /\ Get(n) \notin {NoId, Self(n)} /\ table[n] = {}
        /\ KdhtBootstrap(n)
        /\ probe' = [probe EXCEPT ![n] = "notReady"]
  /\ UNCHANGED <<cluster, procVars, electVars, bootVars, table, faults>>

-----------------------------------------------------------------------------
(* Stop *)

\* SIGTERM, or an error of a goroutine of the group: the context is done. A server
\* that fails leaves its Shutdown to do, Run of the router fails before the election.
Terminate(n) ==
  /\ proc[n] = "running" /\ Fault
  /\ proc' = [proc EXCEPT ![n] = "stopping"]
  /\ \/ UNCHANGED <<parts, elect>>
     \/ parts' = [parts EXCEPT ![n] = @ \ {"track"}] /\ UNCHANGED elect
     \/ /\ elect[n] = "off" /\ elect' = [elect EXCEPT ![n] = "ended"]
        /\ parts' = [parts EXCEPT ![n] = @ \ {"router"}]
  /\ UNCHANGED <<cluster, inc, exit, lease, reported, bootVars, dhtVars, probe>>

\* A goroutine of the group returns.
PartReturns(n, p) ==
  /\ proc[n] = "stopping" /\ p \in parts[n]
  /\ parts' = [parts EXCEPT ![n] = @ \ {p}]
  /\ UNCHANGED <<cluster, proc, inc, exit, reported, bootVars, fix, probe, faults>>

TrackReturns(n) == PartReturns(n, "track") /\ UNCHANGED <<lease, elect, table>>

\* Run of either bootstrapper. ReleaseOnCancel gives up a lease that is held; when
\* the update fails the election logs it and returns all the same.
RouterReturns(n) ==
  /\ PartReturns(n, "router")
  /\ \/ /\ elect' = [elect EXCEPT ![n] = "ended"]
        /\ lease' = IF elect[n] = "leading" THEN NoId ELSE lease
     \/ /\ elect[n] = "leading" /\ elect' = [elect EXCEPT ![n] = "kept"]
        /\ UNCHANGED lease
  /\ UNCHANGED table

RouterClose(n) ==
  /\ PartReturns(n, "close")
  /\ table' = [table EXCEPT ![n] = {}]
  /\ UNCHANGED <<lease, elect>>

\* Mutant: Shutdown without a timeout.
ShutdownWaits(n) ==
  /\ probe[n] # "waiting"
  /\ PartReturns(n, "servers") /\ UNCHANGED <<lease, elect, table>>

\* Shutdown of both servers, which waits for handlers that run but not for ever:
\* after 30 seconds it returns an error.
ServerShutdown(n) == PartReturns(n, "servers") /\ UNCHANGED <<lease, elect, table>>

\* The process is gone, with all that it had in memory.
Gone(n, how) ==
  /\ proc' = [proc EXCEPT ![n] = "down"] /\ exit' = [exit EXCEPT ![n] = how]
  /\ parts' = [parts EXCEPT ![n] = {}]
  /\ callback' = [callback EXCEPT ![n] = NoCallback]
  /\ initClosed' = [initClosed EXCEPT ![n] = FALSE] /\ id' = [id EXCEPT ![n] = NoId]
  /\ fix' = [fix EXCEPT ![n] = "idle"] /\ table' = [table EXCEPT ![n] = {}]
  /\ probe' = [probe EXCEPT ![n] = "notReady"]
  /\ UNCHANGED <<cluster, inc, electVars>>

\* Mutant: the process ends when the first goroutine of the group returns.
ExitAtOnce(n) ==
  /\ proc[n] = "stopping" /\ parts[n] # Parts
  /\ Gone(n, "returned")
  /\ UNCHANGED faults

\* g.Wait has returned.
Exit(n) ==
  /\ proc[n] = "stopping" /\ parts[n] = {}
  /\ Gone(n, "returned")
  /\ UNCHANGED faults

Kill(n) == proc[n] # "down" /\ Fault /\ Gone(n, "killed")

-----------------------------------------------------------------------------

Init ==
  /\ cluster \in Clusters
  /\ proc = [n \in Nodes |-> "down"] /\ inc = [n \in Nodes |-> 0]
  /\ parts = [n \in Nodes |-> {}] /\ exit = [n \in Nodes |-> "none"]
  /\ lease = NoId /\ elect = [n \in Nodes |-> "off"] /\ reported = [n \in Nodes |-> NoId]
  /\ callback = [n \in Nodes |-> NoCallback]
  /\ initClosed = [n \in Nodes |-> FALSE] /\ id = [n \in Nodes |-> NoId]
  /\ fix = [n \in Nodes |-> "idle"] /\ table = [n \in Nodes |-> {}]
  /\ probe = [n \in Nodes |-> "notReady"]
  /\ faults = 0

Stop(n) == TrackReturns(n) \/ RouterReturns(n) \/ RouterClose(n) \/ ServerShutdown(n) \/ Exit(n)
Process(n) == Start(n) \/ RouterRun(n) \/ Stop(n)
Bootstrapper(n) == Observe(n) \/ Acquire(n) \/ CallbackClose(n) \/ CallbackStore(n)
Table(n) == FixStart(n) \/ FixConnect(n) \/ Evict(n)
Probe(n) == ProbeStart(n) \/ ProbeAnswer(n)

Next ==
  \E n \in Nodes :
    \/ Process(n) \/ Bootstrapper(n) \/ Table(n) \/ (\E m \in Nodes : Discover(n, m))
    \/ Probe(n) \/ Terminate(n) \/ Kill(n) \/ LoseLease(n)

\* Goroutines run, candidates retry, dead peers are noticed; the kubelet restarts a
\* process that has ended and keeps probing. No lookup has to happen.
Fairness ==
  \A n \in Nodes :
    WF_vars(Process(n)) /\ WF_vars(Bootstrapper(n)) /\ WF_vars(Table(n)) /\ WF_vars(Probe(n))

Spec == Init /\ [][Next]_vars /\ Fairness

-----------------------------------------------------------------------------
(* Properties *)

\* Types, and the order of the callback: initCh is closed before a leader is stored,
\* so a Get that finds one has not waited in vain.
TypeOK ==
  /\ cluster \in Clusters
  /\ proc \in [Nodes -> {"down", "running", "stopping"}] /\ inc \in [Nodes -> Nat]
  /\ parts \in [Nodes -> SUBSET Parts]
  /\ exit \in [Nodes -> {"none", "returned", "killed"}]
  /\ lease \in Identities \cup {NoId}
  /\ elect \in [Nodes -> {"off", "candidate", "leading", "serving", "left", "kept", "ended"}]
  /\ reported \in [Nodes -> Identities \cup {NoId}]
  /\ callback \in [Nodes -> {NoCallback} \cup [pc : {"close", "store"}, leader : Identities \cup {NoId}]]
  /\ initClosed \in [Nodes -> BOOLEAN] /\ id \in [Nodes -> Identities \cup {NoId}]
  /\ \A n \in Nodes : callback[n].pc = "store" \/ id[n] # NoId => initClosed[n]
  /\ fix \in [Nodes -> {"idle", "wanted", "get"}] /\ table \in [Nodes -> SUBSET Identities]
  /\ probe \in [Nodes -> {"waiting", "ok", "notReady"}]
  /\ faults \in Nat

Running == {n \in Nodes : proc[n] = "running"}

\* No part of the cluster is cut off from the rest.
Joined ==
  \A S \in SUBSET Running \ {{}, Running} :
    \E n \in S : \E m \in Running \ S : Self(m) \in table[n]

\* A process that ends by itself, on SIGTERM or because a part of it failed, leaves the
\* lease in its name only if the election had lost it before or failed to release it:
\* g.Wait waits until the election has tried, so that the others need not wait for the
\* lease to expire.
LeaseReleased ==
  \A n \in Nodes : exit[n] = "returned" /\ lease = Self(n) => elect[n] \in {"left", "kept"}

\* A process whose context is done ends, also when a readiness handler still waits
\* for a first leader that this process will never hear of, or for an HTTP peer that
\* never answers.
Stops == \A n \in Nodes : []<>(proc[n] # "stopping")

\* An HTTP peer leaves no request without an answer.
PeerAnswers == cluster.kind = "http" => HTTPAnswers

\* A readiness handler returns, although Get waits without a timeout, unless an HTTP
\* peer leaves it waiting.
ProbeReturns == \A n \in Nodes : []<>(PeerAnswers => probe[n] # "waiting")

\* A node that keeps running becomes ready and stays so, whoever led before, whatever
\* stopped or was lost, also after the empty holder of a released lease was reported:
\* the handler that finds the table empty has it filled.
BecomesReady ==
  \A n \in Nodes :
    <>[](n \in Running /\ (cluster.kind = "http" => HTTPServes /\ PeerAnswers))
      => <>[](probe[n] \in {"waiting", "ok"})

\* Processes that start, none of which ever stops or loses the lease, end up joined.
Forms == <>[](PeerAnswers /\ faults = 0 => Joined)

\* Nothing will change any more, except by new faults.
Settled ==
  /\ Running = Nodes /\ Held
  /\ \A n \in Nodes :
       /\ callback[n] = NoCallback /\ fix[n] = "idle"
       /\ reported[n] = lease /\ id[n] = lease
       /\ \A i \in table[n] : Reachable(i)

\* If all nodes are ready the cluster works: images are found wherever they are.
AllReadyMeansJoined == Settled /\ (\A n \in Nodes : probe[n] = "ok") => Joined
=============================================================================
