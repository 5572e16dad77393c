------------------------------ MODULE Registry ------------------------------
(***************************************************************************)
(* One client request travelling through the cluster's registries:         *)
(* handle, registryHandler, handleMirror, handleManifest and handleBlob of *)
(* pkg/registry/registry.go, with the goroutine of P2PRouter.Resolve of    *)
(* pkg/routing/p2p.go that feeds handleMirror through a bounded channel.   *)
(*                                                                         *)
(* Every node runs the same handler. A handler that proxies the request to *)
(* a peer starts another one there; hop i is the i-th handler of that      *)
(* chain. Requests share nothing but the nodes' content, which may change  *)
(* at any time, so one request is enough.                                  *)
(***************************************************************************)
EXTENDS Integers, Sequences, FiniteSets, Functions

CONSTANTS
  Nodes,             \* nodes that run Spegel
  PeerIDs,           \* identities in the DHT: a node takes a new one at every start
  HostID,            \* node -> its present identity
  Address,           \* identity -> the node at the IP of its provider record
  Addressable,       \* identities whose record has exactly one address, with an IP
  Service,           \* the Host of a request that comes through the node port
  NoPeer,            \* no provider in hand
  Requests,          \* client requests: [path, method, kind, name]
  ResolveRetries,    \* resolveRetries, 0 for no limit
  UnlimitedBuffer,   \* size of peerCh without a limit: 20 in the code
  ResolveLatestTag,  \* resolveLatestTag
  MaxHops,           \* bound: handlers in a chain
  MaxChanges         \* bound: changes to what the nodes hold

Hops == 1 .. MaxHops

\* name holds what the colons of a tag reference separate, <<>> for a digest:
\* <<"docker.io/app", "latest">>, <<"host", "5000/app", "latest">>.
RequestSet ==
  [path : {"v2", "ref", "unparsable", "other"}, method : {"GET", "HEAD", "POST"},
   kind : {"Manifest", "Blob"}, name : Seq(STRING)]

ASSUME RegistryAssumption ==
  /\ Service \notin Nodes /\ NoPeer \notin Nodes
  /\ IsFiniteSet(PeerIDs) /\ NoPeer \notin PeerIDs /\ Addressable \subseteq PeerIDs
  /\ HostID \in [Nodes -> PeerIDs] /\ Address \in [PeerIDs -> Nodes]
  /\ \A n \in Nodes : Address[HostID[n]] = n
  /\ Requests \subseteq RequestSet
  /\ ResolveRetries \in Nat /\ UnlimitedBuffer \in Nat \ {0}
  /\ ResolveLatestTag \in BOOLEAN
  /\ MaxHops \in Nat \ {0, 1} /\ MaxChanges \in Nat

VARIABLES
  req, host,  \* the request and its Host, which the proxy keeps
  gone,       \* the client has gone: the contexts of all hops are done
  tagged,     \* nodes whose image store has the name requested, if one is
  content,    \* nodes whose content store has the digest requested
  changes,    \* how much of MaxChanges is used
  node,       \* hop -> the node that handles it
  mirrored,   \* hop -> the request came with the mirrored header
  pc,         \* hop -> where the handler is
  outcome,    \* hop -> how the response was written, "none" before
  attempts,   \* hop -> mirrorAttempts
  tried,      \* hop -> history: providers whose address the request was proxied to
  resolver,   \* hop -> the goroutine of Resolve: "off", "running", "closed"
  found,      \* hop -> providers FindProvidersAsync has yielded
  pending,    \* hop -> the provider the goroutine has in hand
  accepted,   \* hop -> history: providers that passed the goroutine's filters
  peerCh      \* hop -> the channel of addresses, each shown by the provider it is from

nodeVars == <<tagged, content, changes>>
resolveVars == <<resolver, found, pending, accepted>>
handlerVars == <<node, mirrored, pc, outcome, attempts, tried>>
vars == <<req, host, gone, nodeVars, handlerVars, resolveVars, peerCh>>

Outcomes == {"none", "v2", "notFound", "unparsable", "latest", "resolveError", "cancelled",
             "exhausted", "proxied", "served", "noManifest", "noBlob"}

Status(o) ==
  CASE o \in {"v2", "proxied", "served"} -> 200
    [] o \in {"resolveError", "noBlob"} -> 500
    [] OTHER -> 404

-----------------------------------------------------------------------------
(* References *)

\* hasLatestTag takes the tag to be all that follows the first colon.
HasLatestTag == req.name # <<>> /\ Tail(req.name) = <<"latest">>

IsExternal(i) == host # node[i]

\* Mutant: the request is passed on as it came.
HeaderAsReceived(i) == mirrored[i]

\* registryHandler sets the header before it mirrors, and the proxy copies it.
ForwardedHeader(i) == TRUE

-----------------------------------------------------------------------------
(* The goroutine of P2PRouter.Resolve *)

Count == ResolveRetries

\* Mutant: a channel of one whatever the count.
BufferOfOne == 1

PeerBufferSize == IF Count = 0 THEN UnlimitedBuffer ELSE Count

\* Mutant: self is allowed for the requests of the node itself.
AllowSelfAlways(i) == TRUE

AllowSelf(i) == IsExternal(i)

\* Mutant: the count is checked one too late.
YieldOneMore(i, p) ==
  /\ resolver[i] = "running" /\ pending[i] = NoPeer
  /\ p \notin found[i]
  /\ Cardinality(found[i]) <= Count
  /\ found' = [found EXCEPT ![i] = @ \cup {p}]
  /\ pending' = [pending EXCEPT ![i] = p]
  /\ UNCHANGED <<req, host, gone, nodeVars, handlerVars, resolver, accepted, peerCh>>

\* The DHT yields a provider, each identity once. Its record may be stale: the node
\* may have dropped the content, or have another identity since.
Yield(i, p) ==
  /\ resolver[i] = "running" /\ pending[i] = NoPeer
  /\ p \notin found[i]
  /\ Count = 0 \/ Cardinality(found[i]) < Count
  /\ found' = [found EXCEPT ![i] = @ \cup {p}]
  /\ pending' = [pending EXCEPT ![i] = p]
  /\ UNCHANGED <<req, host, gone, nodeVars, handlerVars, resolver, accepted, peerCh>>

\* The goroutine skips its own identity unless it is allowed, and records it cannot
\* use. A record of the node's under an earlier identity passes.
Passes(i, p) == (AllowSelf(i) \/ p # HostID[node[i]]) /\ p \in Addressable

Discard(i) ==
  /\ pending[i] # NoPeer /\ ~Passes(i, pending[i])
  /\ pending' = [pending EXCEPT ![i] = NoPeer]
  /\ UNCHANGED <<req, host, gone, nodeVars, handlerVars, resolver, found, accepted, peerCh>>

\* Mutant: the send waits for room in the channel.
BlockForRoom(i) == Len(peerCh[i]) < PeerBufferSize

\* The select around the send has a default: it never waits.
CanSend(i) == TRUE

\* A provider that passes is sent if there is room and dropped if not.
Send(i) ==
  /\ pending[i] # NoPeer /\ Passes(i, pending[i])
  /\ CanSend(i)
  /\ peerCh' = [peerCh EXCEPT ![i] = IF Len(@) < PeerBufferSize THEN Append(@, pending[i]) ELSE @]
  /\ accepted' = [accepted EXCEPT ![i] = @ \cup {pending[i]}]
  /\ pending' = [pending EXCEPT ![i] = NoPeer]
  /\ UNCHANGED <<req, host, gone, nodeVars, handlerVars, resolver, found>>

\* Mutant: the goroutine ends without closing peerCh.
ExitWithoutClose == "exited"

ResolverEnd == "closed"

\* The lookup ends: it is exhausted, it timed out, or the handler has returned and
\* cancelled it. The goroutine closes peerCh.
Close(i) ==
  /\ resolver[i] = "running" /\ pending[i] = NoPeer
  /\ resolver' = [resolver EXCEPT ![i] = ResolverEnd]
  /\ UNCHANGED <<req, host, gone, nodeVars, handlerVars, found, pending, accepted, peerCh>>

-----------------------------------------------------------------------------
(* The handlers *)

Respond(i, o) ==
  /\ outcome' = [outcome EXCEPT ![i] = o]
  /\ pc' = [pc EXCEPT ![i] = "done"]
  /\ UNCHANGED <<req, host, gone, nodeVars, node, mirrored, attempts, tried, resolveVars, peerCh>>

GoTo(i, label) ==
  /\ pc' = [pc EXCEPT ![i] = label]
  /\ UNCHANGED <<req, host, gone, nodeVars, node, mirrored, outcome, attempts, tried, resolveVars, peerCh>>

\* handle and registryHandler, up to the choice between mirroring and serving.
Route(i) ==
  /\ pc[i] = "handle"
  /\ \/ /\ req.path = "other" \/ req.method = "POST"
        /\ Respond(i, "notFound")
     \/ /\ req.path # "other" /\ req.method # "POST"
        /\ \/ req.path = "v2" /\ Respond(i, "v2")
           \/ req.path = "unparsable" /\ Respond(i, "unparsable")
           \/ req.path = "ref" /\ GoTo(i, IF mirrored[i] THEN "serve" ELSE "mirror")

\* handleMirror before its loop. Resolve may fail to build the key.
Mirror(i) ==
  /\ pc[i] = "mirror"
  /\ IF ~ResolveLatestTag /\ HasLatestTag
     THEN Respond(i, "latest")
     ELSE \/ Respond(i, "resolveError")
          \/ /\ pc' = [pc EXCEPT ![i] = "loop"]
             /\ resolver' = [resolver EXCEPT ![i] = "running"]
             /\ UNCHANGED <<req, host, gone, nodeVars, node, mirrored, outcome, attempts, tried,
                            found, pending, accepted, peerCh>>

LoopCancelled(i) == pc[i] = "loop" /\ gone /\ Respond(i, "cancelled")

LoopClosed(i) ==
  pc[i] = "loop" /\ peerCh[i] = <<>> /\ resolver[i] = "closed" /\ Respond(i, "exhausted")

\* An address is received and the request proxied to the node there, which starts a
\* handler.
Attempt(i) ==
  /\ pc[i] = "loop" /\ peerCh[i] # <<>> /\ i < MaxHops
  /\ peerCh' = [peerCh EXCEPT ![i] = Tail(@)]
  /\ attempts' = [attempts EXCEPT ![i] = @ + 1]
  /\ tried' = [tried EXCEPT ![i] = @ \cup {Head(peerCh[i])}]
  /\ pc' = [pc EXCEPT ![i] = "proxy", ![i + 1] = "handle"]
  /\ node' = [node EXCEPT ![i + 1] = Address[Head(peerCh[i])]]
  /\ mirrored' = [mirrored EXCEPT ![i + 1] = ForwardedHeader(i)]
  /\ outcome' = [outcome EXCEPT ![i + 1] = "none"]
  /\ UNCHANGED <<req, host, gone, nodeVars, resolveVars>>

\* Mutant: the loop goes on after a peer has answered.
LoopAnyway(o) == "loop"

\* After a 200 the handler returns, after anything else it tries the next peer.
AfterProxy(o) == IF Status(o) = 200 THEN "done" ELSE "loop"

\* The peer has answered: ModifyResponse lets only a 200 through to the client.
ProxyAnswered(i) ==
  /\ i < MaxHops /\ pc[i] = "proxy" /\ pc[i + 1] = "done"
  /\ outcome' = [outcome EXCEPT ![i] = IF Status(outcome[i + 1]) = 200 THEN "proxied" ELSE @]
  /\ pc' = [pc EXCEPT ![i] = AfterProxy(outcome[i + 1]), ![i + 1] = "idle"]
  /\ UNCHANGED <<req, host, gone, nodeVars, node, mirrored, attempts, tried, resolveVars, peerCh>>

\* Mutant: the same peer is asked again.
RetrySamePeer(i) ==
  /\ i < MaxHops /\ pc[i] = "proxy"
  /\ pc' = [pc EXCEPT ![i + 1] = "handle"]
  /\ outcome' = [outcome EXCEPT ![i + 1] = "none"]
  /\ UNCHANGED <<req, host, gone, nodeVars, node, mirrored, attempts, tried, resolveVars, peerCh>>

\* The peer cannot be reached, or the connection breaks before it has answered:
\* ErrorHandler writes nothing. A break after that cuts off a response that has begun.
ProxyFailed(i) ==
  /\ i < MaxHops /\ pc[i] = "proxy"
  /\ pc' = [pc EXCEPT ![i] = "loop", ![i + 1] = "idle"]
  /\ UNCHANGED <<req, host, gone, nodeVars, node, mirrored, outcome, attempts, tried, resolveVars, peerCh>>

\* Resolve and Size of the OCI client: what containerd knows of the reference.
ResolveTag(i) == node[i] \in tagged

\* Mutant: content that is not there has size zero.
SizeOfNothing(i) == TRUE

SizeKnown(i) == node[i] \in content

\* handleManifest resolves a tag, handleBlob asks for the size; HEAD needs no more of a blob.
Serve(i) ==
  /\ pc[i] = "serve"
  /\ \/ /\ req.kind = "Manifest"
        /\ IF req.name = <<>> \/ ResolveTag(i) THEN GoTo(i, "read") ELSE Respond(i, "noManifest")
     \/ /\ req.kind = "Blob"
        /\ IF ~SizeKnown(i) THEN Respond(i, "noBlob")
           ELSE IF req.method = "HEAD" THEN Respond(i, "served") ELSE GoTo(i, "read")

\* GetManifest: what was there a moment ago may be gone, and for a document that
\* does not say its media type the lookup of it may fail.
GetManifest(i) ==
  \/ node[i] \in content /\ Respond(i, "served")
  \/ Respond(i, "noManifest")

GetBlob(i) == Respond(i, IF node[i] \in content THEN "served" ELSE "noBlob")

Read(i) ==
  /\ pc[i] = "read"
  /\ \/ req.kind = "Manifest" /\ GetManifest(i)
     \/ req.kind = "Blob" /\ GetBlob(i)

-----------------------------------------------------------------------------
(* The environment *)

ClientGone ==
  /\ ~gone
  /\ gone' = TRUE
  /\ UNCHANGED <<req, host, nodeVars, handlerVars, resolveVars, peerCh>>

\* Images are pulled and removed, content is collected.
Change(n) ==
  /\ changes < MaxChanges
  /\ changes' = changes + 1
  /\ \/ content' \in {content \cup {n}, content \ {n}} /\ UNCHANGED tagged
     \/ req.name # <<>> /\ tagged' \in {tagged \cup {n}, tagged \ {n}} /\ UNCHANGED content
  /\ UNCHANGED <<req, host, gone, handlerVars, resolveVars, peerCh>>

-----------------------------------------------------------------------------

\* The request comes to a node by its own address or through the node port.
Init ==
  /\ req \in Requests
  /\ node \in [Hops -> Nodes] /\ \A i \in Hops : node[i] = node[1]
  /\ host \in {node[1], Service} /\ gone = FALSE
  /\ tagged \in SUBSET Nodes /\ (req.name = <<>> => tagged = {})
  /\ content \in SUBSET Nodes /\ changes = 0
  /\ mirrored = [i \in Hops |-> FALSE]
  /\ pc = [i \in Hops |-> IF i = 1 THEN "handle" ELSE "idle"]
  /\ outcome = [i \in Hops |-> "none"]
  /\ attempts = [i \in Hops |-> 0] /\ tried = [i \in Hops |-> {}]
  /\ resolver = [i \in Hops |-> "off"] /\ found = [i \in Hops |-> {}]
  /\ pending = [i \in Hops |-> NoPeer] /\ accepted = [i \in Hops |-> {}]
  /\ peerCh = [i \in Hops |-> <<>>]

Loop(i) == LoopCancelled(i) \/ LoopClosed(i) \/ Attempt(i)
ProxyReturns(i) == ProxyAnswered(i) \/ ProxyFailed(i)
Handler(i) == Route(i) \/ Mirror(i) \/ Loop(i) \/ ProxyReturns(i) \/ Serve(i) \/ Read(i)
Resolver(i) == (\E p \in PeerIDs : Yield(i, p)) \/ Discard(i) \/ Send(i) \/ Close(i)

Next ==
  \/ \E i \in Hops : Handler(i) \/ Resolver(i)
  \/ ClientGone
  \/ \E n \in Nodes : Change(n)

\* The client's node runs its goroutines, its lookup ends by resolveTimeout, and the
\* transport passes on an answer, or the end of the client's context. Nothing makes
\* a peer answer: the transport has no timeout for that.
Fairness ==
  /\ WF_vars(Route(1)) /\ WF_vars(Mirror(1)) /\ WF_vars(Loop(1))
  /\ WF_vars(ProxyAnswered(1)) /\ WF_vars(gone /\ ProxyFailed(1))
  /\ WF_vars(Discard(1) \/ Send(1)) /\ WF_vars(Close(1))

Spec == Init /\ [][Next]_vars /\ Fairness

-----------------------------------------------------------------------------
(* Properties *)

TypeOK ==
  /\ req \in Requests /\ host \in Nodes \cup {Service} /\ gone \in BOOLEAN
  /\ tagged \subseteq Nodes /\ content \subseteq Nodes /\ changes \in 0 .. MaxChanges
  /\ node \in [Hops -> Nodes] /\ mirrored \in [Hops -> BOOLEAN]
  /\ pc \in [Hops -> {"idle", "handle", "mirror", "loop", "proxy", "serve", "read", "done"}]
  /\ outcome \in [Hops -> Outcomes]
  /\ attempts \in [Hops -> Nat] /\ tried \in [Hops -> SUBSET PeerIDs]
  /\ resolver \in [Hops -> {"off", "running", "closed"}]
  /\ found \in [Hops -> SUBSET PeerIDs] /\ accepted \in [Hops -> SUBSET PeerIDs]
  /\ pending \in [Hops -> PeerIDs \cup {NoPeer}]
  /\ peerCh \in [Hops -> Seq(PeerIDs)]

\* The mirrored header stops the request from being mirrored by a peer: no chain
\* of handlers is longer than the client's node and one peer.
NoForwardingLoop == \A i \in Hops : i > 2 => pc[i] = "idle"

\* A request that comes to the node itself is proxied back to that node only by a
\* record it left in the DHT before a restart, never by one of its present identity.
SelfOnlyByOldRecord ==
  host = node[1] => \A p \in tried[1] : Address[p] = node[1] => p # HostID[node[1]]

\* mirrorResolveRetries is the maximum number of mirrors attempted.
AttemptsBounded == ResolveRetries > 0 => attempts[1] <= ResolveRetries

\* With a limit on the retries, a request is answered 404 for want of mirrors only
\* after every usable provider the lookup yielded was tried: none is lost between
\* the goroutine of Resolve and the handler, neither to a full channel nor to its
\* closing.
NoProviderLost ==
  ResolveRetries > 0 /\ outcome[1] = "exhausted" => accepted[1] \subseteq tried[1]

\* Once the client's handler has written a response it writes no other and
\* contacts no further peer.
RespondsOnce ==
  [][outcome[1] # "none" => outcome'[1] = outcome[1] /\ tried'[1] = tried[1]]_vars

\* What the client's handler has come to, as a client can tell.
Promise ==
  INSTANCE MirrorPromise WITH
    Peers <- Nodes, Providers <- PeerIDs,
    peer <- IF pc[1] = "proxy" THEN node[2] ELSE NoPeer,
    offer <- IF pc[1] # "proxy" \/ pc[2] # "done" THEN "none"
             ELSE IF Status(outcome[2]) = 200 THEN "content" ELSE "refusal",
    asked <- tried[1],
    answer <- CASE outcome[1] = "none" -> "none"
                [] outcome[1] = "proxied" -> "content"
                [] OTHER -> "own"

\* The handlers keep the promise of a mirror: peers are asked one after the other, each
\* provider found leads to at most one attempt, the client gets one answer, and content
\* only from a node that held it when it was asked.
PromiseKept == Promise!Spec

\* With resolveLatestTag off, latest tags are not resolved.
LatestNotMirrored ==
  ~ResolveLatestTag /\ req.name # <<>> /\ req.name[Len(req.name)] = "latest" => tried[1] = {}

\* Unless some peer holds its request for ever, the client gets an answer.
Answered == []<>(pc[2] \in {"idle", "done"}) => <>(pc[1] = "done")

\* The handler returns once the client has gone, even while a peer hangs.
HandlerReleased == gone ~> pc[1] = "done"

\* The goroutine of Resolve ends, also when the handler has stopped reading from
\* its channel.
ResolverEnds == resolver[1] = "running" ~> resolver[1] = "closed"
=============================================================================
