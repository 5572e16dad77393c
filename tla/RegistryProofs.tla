--------------------------- MODULE RegistryProofs ---------------------------
(* Proofs about Registry, for any number of nodes, retries, hops and requests. *)
EXTENDS Registry, TLAPS, FiniteSetTheorems

\* The facts about the constants the proofs use.
LEMMA Constants ==
  /\ NoPeer \notin Nodes /\ NoPeer \notin PeerIDs /\ Service \notin Nodes
  /\ Addressable \subseteq PeerIDs /\ Address \in [PeerIDs -> Nodes]
  /\ ResolveRetries \in Nat /\ UnlimitedBuffer \in Nat \ {0}
  /\ MaxHops \in Nat /\ MaxHops > 1 /\ MaxChanges \in Nat
  /\ Count \in Nat /\ PeerBufferSize \in Nat \ {0}
  /\ 1 \in Hops /\ 2 \in Hops /\ Hops \subseteq Nat
  /\ \A i \in Hops : (i = 1 \/ i > 1) /\ (i < MaxHops => i + 1 \in Hops)
BY RegistryAssumption DEF Count, PeerBufferSize, Hops

-----------------------------------------------------------------------------
(* Types *)

\* The effect of the two ways a handler step ends.
LEMMA RespondType ==
  ASSUME TypeOK, NEW i \in Hops, NEW o \in Outcomes, Respond(i, o)
  PROVE  TypeOK'
BY DEF Respond, TypeOK, nodeVars, resolveVars

LEMMA GoToType ==
  ASSUME TypeOK, NEW i \in Hops, NEW l \in {"serve", "mirror", "read"}, GoTo(i, l)
  PROVE  TypeOK'
BY DEF GoTo, TypeOK, nodeVars, resolveVars

\* Every hop has its own part of the state.
LEMMA PerHop ==
  ASSUME TypeOK
  PROVE  /\ DOMAIN node = Hops /\ DOMAIN pc = Hops /\ DOMAIN outcome = Hops
         /\ DOMAIN attempts = Hops /\ DOMAIN tried = Hops /\ DOMAIN peerCh = Hops
         /\ DOMAIN resolver = Hops /\ DOMAIN found = Hops /\ DOMAIN pending = Hops
         /\ DOMAIN accepted = Hops
BY DEF TypeOK

\* What an attempt of the client's handler does to the hops it touches.
LEMMA AttemptStep ==
  ASSUME TypeOK, Attempt(1)
  PROVE  /\ pc'[1] = "proxy" /\ pc'[2] = "handle"
         /\ node'[1] = node[1] /\ node'[2] = Address[Head(peerCh[1])] /\ outcome'[1] = outcome[1]
         /\ peerCh'[1] = Tail(peerCh[1]) /\ attempts'[1] = attempts[1] + 1
         /\ tried'[1] = tried[1] \cup {Head(peerCh[1])}
<1>1. 1 \in Hops /\ 2 \in Hops /\ 1 + 1 = 2
  BY Constants
<1>2. /\ pc' = [pc EXCEPT ![1] = "proxy", ![2] = "handle"]
      /\ node' = [node EXCEPT ![2] = Address[Head(peerCh[1])]] /\ outcome' = [outcome EXCEPT ![2] = "none"]
  BY <1>1 DEF Attempt
<1>3. /\ peerCh' = [peerCh EXCEPT ![1] = Tail(@)] /\ attempts' = [attempts EXCEPT ![1] = @ + 1]
      /\ tried' = [tried EXCEPT ![1] = @ \cup {Head(peerCh[1])}]
  BY DEF Attempt
<1>4. pc'[1] = "proxy" /\ pc'[2] = "handle"
  BY <1>1, <1>2, PerHop
<1>5. node'[1] = node[1] /\ node'[2] = Address[Head(peerCh[1])] /\ outcome'[1] = outcome[1]
  BY <1>1, <1>2, PerHop
<1>6. peerCh'[1] = Tail(peerCh[1]) /\ attempts'[1] = attempts[1] + 1
  BY <1>1, <1>3, PerHop
<1>7. tried'[1] = tried[1] \cup {Head(peerCh[1])}
  BY <1>1, <1>3, PerHop
<1>8. QED
  BY <1>4, <1>5, <1>6, <1>7

\* Routing and serving end in one of two ways,
LEMMA RespondOrGoTo ==
  ASSUME NEW i, Route(i) \/ Serve(i) \/ Read(i)
  PROVE  \/ \E o \in {"notFound", "v2", "unparsable", "noManifest", "noBlob", "served"} : Respond(i, o)
         \/ \E l \in {"serve", "mirror", "read"} : GoTo(i, l)
<1>1. CASE Route(i)
  BY <1>1 DEF Route
<1>2. CASE Serve(i)
  BY <1>2 DEF Serve
<1>3. CASE Read(i)
  BY <1>3 DEF Read, GetManifest, GetBlob
<1>4. QED
  BY <1>1, <1>2, <1>3

\* which leave the other hops, the lookup and the channel alone.
LEMMA OwnHopOnly ==
  ASSUME TypeOK, NEW i \in Hops, Route(i) \/ Serve(i) \/ Read(i)
  PROVE  /\ UNCHANGED <<req, host, content, node, attempts, tried, resolver, found, pending, accepted, peerCh>>
         /\ \A j \in Hops : j # i => pc'[j] = pc[j] /\ outcome'[j] = outcome[j]
<1>1. ASSUME NEW o, Respond(i, o)
      PROVE  /\ UNCHANGED <<req, host, content, node, attempts, tried, resolver, found, pending, accepted, peerCh>>
             /\ \A j \in Hops : j # i => pc'[j] = pc[j] /\ outcome'[j] = outcome[j]
  BY <1>1, PerHop DEF Respond, nodeVars, resolveVars
<1>2. ASSUME NEW l, GoTo(i, l)
      PROVE  /\ UNCHANGED <<req, host, content, node, attempts, tried, resolver, found, pending, accepted, peerCh>>
             /\ \A j \in Hops : j # i => pc'[j] = pc[j] /\ outcome'[j] = outcome[j]
  BY <1>2, PerHop DEF GoTo, nodeVars, resolveVars
<1>3. QED
  BY <1>1, <1>2, RespondOrGoTo

\* No step of the goroutine of Resolve leaves the type invariant.
LEMMA ResolverType ==
  ASSUME TypeOK, NEW i \in Hops, Resolver(i)
  PROVE  TypeOK'
<1> USE Constants DEF TypeOK, nodeVars, handlerVars
<1>1. ASSUME NEW p \in PeerIDs, Yield(i, p)
      PROVE  TypeOK'
  BY <1>1 DEF Yield
<1>2. CASE Discard(i)
  BY <1>2 DEF Discard
<1>3. CASE Send(i)
  <2>1. pending[i] \in PeerIDs
    BY <1>3 DEF Send
  <2>2. peerCh' \in [Hops -> Seq(PeerIDs)]
    BY <1>3, <2>1 DEF Send
  <2>3. QED
    BY <1>3, <2>1, <2>2 DEF Send
<1>4. CASE Close(i)
  BY <1>4 DEF Close, ResolverEnd
<1>5. QED
  BY <1>1, <1>2, <1>3, <1>4 DEF Resolver

\* No step of a handler leaves the type invariant.
LEMMA HandlerType ==
  ASSUME TypeOK, NEW i \in Hops, Handler(i)
  PROVE  TypeOK'
<1> USE Constants
<1>1. CASE Route(i)
  <2>1. {"notFound", "v2", "unparsable"} \subseteq Outcomes
    BY DEF Outcomes
  <2>2. QED
    BY <1>1, <2>1, RespondType, GoToType DEF Route
<1>2. CASE Mirror(i)
  <2>1. {"latest", "resolveError"} \subseteq Outcomes
    BY DEF Outcomes
  <2>2. CASE Respond(i, "latest") \/ Respond(i, "resolveError")
    BY <2>1, <2>2, RespondType
  <2>3. CASE ~(Respond(i, "latest") \/ Respond(i, "resolveError"))
    BY <1>2, <2>3 DEF Mirror, TypeOK, nodeVars
  <2>4. QED
    BY <2>2, <2>3
<1>3. CASE LoopCancelled(i) \/ LoopClosed(i)
  <2>1. {"cancelled", "exhausted"} \subseteq Outcomes
    BY DEF Outcomes
  <2>2. QED
    BY <1>3, <2>1, RespondType DEF LoopCancelled, LoopClosed
<1>4. CASE Attempt(i)
  <2>1. peerCh[i] \in Seq(PeerIDs) /\ peerCh[i] # <<>> /\ i + 1 \in Hops
    BY <1>4 DEF Attempt, TypeOK
  <2>2. Head(peerCh[i]) \in PeerIDs /\ Tail(peerCh[i]) \in Seq(PeerIDs)
    BY <2>1
  <2>3. pc' \in [Hops -> {"idle", "handle", "mirror", "loop", "proxy", "serve", "read", "done"}]
    BY <1>4, <2>1 DEF Attempt, TypeOK
  <2>4. /\ node' \in [Hops -> Nodes] /\ tried' \in [Hops -> SUBSET PeerIDs]
        /\ attempts' \in [Hops -> Nat]
    <3>1. node' \in [Hops -> Nodes]
      BY <1>4, <2>2 DEF Attempt, TypeOK
    <3>2. attempts' \in [Hops -> Nat]
      <4>1. attempts' = [attempts EXCEPT ![i] = attempts[i] + 1]
        BY <1>4 DEF Attempt
      <4>2. attempts \in [Hops -> Nat] /\ attempts[i] + 1 \in Nat
        BY DEF TypeOK
      <4>3. QED
        BY <4>1, <4>2
    <3>3. tried' \in [Hops -> SUBSET PeerIDs]
      <4>1. tried' = [tried EXCEPT ![i] = tried[i] \cup {Head(peerCh[i])}]
        BY <1>4 DEF Attempt
      <4>2. tried[i] \cup {Head(peerCh[i])} \in SUBSET PeerIDs
        BY <2>2 DEF TypeOK
      <4>3. QED
        BY <4>1, <4>2 DEF TypeOK
    <3>4. QED
      BY <3>1, <3>2, <3>3
  <2>7. mirrored' \in [Hops -> BOOLEAN]
    BY <1>4, <2>1 DEF Attempt, TypeOK, ForwardedHeader
  <2>5. outcome' \in [Hops -> Outcomes] /\ peerCh' \in [Hops -> Seq(PeerIDs)]
    BY <1>4, <2>1, <2>2 DEF Attempt, TypeOK, Outcomes
  <2>6. QED
    BY <1>4, <2>3, <2>4, <2>5, <2>7 DEF Attempt, TypeOK, nodeVars, resolveVars
<1>5. CASE ProxyAnswered(i)
  BY <1>5 DEF ProxyAnswered, AfterProxy, TypeOK, nodeVars, resolveVars, Outcomes
<1>6. CASE ProxyFailed(i)
  BY <1>6 DEF ProxyFailed, TypeOK, nodeVars, resolveVars
<1>7. CASE Serve(i) \/ Read(i)
  <2>1. {"noManifest", "noBlob", "served"} \subseteq Outcomes
    BY DEF Outcomes
  <2>2. QED
    BY <1>7, <2>1, RespondType, GoToType DEF Serve, Read, GetManifest, GetBlob
<1>8. QED
  BY <1>1, <1>2, <1>3, <1>4, <1>5, <1>6, <1>7 DEF Handler, Loop, ProxyReturns

\* Type correctness: channels hold nodes, every counter is a natural number, and
\* handler and goroutine are always at a place of the code.
THEOREM TypeCorrect == Spec => []TypeOK
<1>1. Init => TypeOK
  <2> SUFFICES ASSUME Init PROVE TypeOK
    OBVIOUS
  <2>1. pc \in [Hops -> {"idle", "handle", "mirror", "loop", "proxy", "serve", "read", "done"}]
    BY DEF Init
  <2>2. attempts \in [Hops -> Nat] /\ peerCh \in [Hops -> Seq(PeerIDs)] /\ changes \in 0 .. MaxChanges
    BY Constants DEF Init
  <2>3. /\ outcome \in [Hops -> Outcomes] /\ tried \in [Hops -> SUBSET PeerIDs]
        /\ resolver \in [Hops -> {"off", "running", "closed"}]
        /\ found \in [Hops -> SUBSET PeerIDs] /\ accepted \in [Hops -> SUBSET PeerIDs]
        /\ pending \in [Hops -> PeerIDs \cup {NoPeer}]
    BY DEF Init, Outcomes
  <2>4. /\ req \in Requests /\ host \in Nodes \cup {Service} /\ gone \in BOOLEAN
        /\ tagged \subseteq Nodes /\ content \subseteq Nodes
        /\ node \in [Hops -> Nodes] /\ mirrored \in [Hops -> BOOLEAN]
    BY Constants DEF Init
  <2>5. QED
    BY <2>1, <2>2, <2>3, <2>4 DEF TypeOK
<1>2. TypeOK /\ [Next]_vars => TypeOK'
  <2> SUFFICES ASSUME TypeOK, [Next]_vars PROVE TypeOK'
    OBVIOUS
  <2>1. CASE ClientGone
    BY <2>1 DEF ClientGone, TypeOK, nodeVars, handlerVars, resolveVars
  <2>2. ASSUME NEW n \in Nodes, Change(n)
        PROVE  TypeOK'
    <3>1. changes' \in 0 .. MaxChanges
      BY <2>2, Constants DEF Change, TypeOK
    <3>2. content' \subseteq Nodes /\ tagged' \subseteq Nodes
      BY <2>2 DEF Change, TypeOK
    <3>3. QED
      BY <2>2, <3>1, <3>2 DEF Change, TypeOK, handlerVars, resolveVars
  <2>3. CASE UNCHANGED vars
    BY <2>3 DEF vars, TypeOK, nodeVars, handlerVars, resolveVars
  <2>4. QED
    BY <2>1, <2>2, <2>3, HandlerType, ResolverType DEF Next
<1>3. QED
  BY <1>1, <1>2, PTL DEF Spec

-----------------------------------------------------------------------------
(* The chain of handlers *)

\* A peer never mirrors: its request carries the header, so it serves. With that,
\* a handler that proxies is the first one. It is over once it has responded.
ChainInv ==
  /\ \A i \in Hops : i > 1 =>
       /\ pc[i] \in {"idle", "handle", "serve", "read", "done"}
       /\ pc[i] # "idle" => mirrored[i]
       /\ i > 2 => pc[i] = "idle"
  /\ outcome[1] # "none" => pc[1] = "done"

LEMMA ChainInvStep == TypeOK /\ ChainInv /\ [Next]_vars => ChainInv'
<1> SUFFICES ASSUME TypeOK, ChainInv, [Next]_vars
             PROVE  ChainInv'
  OBVIOUS
<1> USE Constants DEF TypeOK, ChainInv
<1>1. ASSUME NEW i \in Hops, NEW o, Respond(i, o), pc[i] # "idle"
      PROVE  ChainInv'
  BY <1>1 DEF Respond
<1>2. ASSUME NEW i \in Hops, NEW l, GoTo(i, l), pc[i] \notin {"idle", "done"},
             i > 1 => l \in {"serve", "read"}
      PROVE  ChainInv'
  BY <1>2 DEF GoTo
<1>3. ASSUME NEW i \in Hops, Route(i)
      PROVE  ChainInv'
  BY <1>1, <1>2, <1>3 DEF Route
<1>4. ASSUME NEW i \in Hops, Mirror(i)
      PROVE  ChainInv'
  <2>1. i = 1
    BY <1>4 DEF Mirror
  <2>2. CASE Respond(i, "latest") \/ Respond(i, "resolveError")
    BY <1>1, <1>4, <2>2 DEF Mirror
  <2>3. CASE ~(Respond(i, "latest") \/ Respond(i, "resolveError"))
    BY <1>4, <2>1, <2>3 DEF Mirror
  <2>4. QED
    BY <2>2, <2>3
<1>5. ASSUME NEW i \in Hops, LoopCancelled(i) \/ LoopClosed(i)
      PROVE  ChainInv'
  BY <1>1, <1>5 DEF LoopCancelled, LoopClosed
<1>6. ASSUME NEW i \in Hops, Attempt(i)
      PROVE  ChainInv'
  <2>1. i = 1
    BY <1>6 DEF Attempt
  <2>2. /\ pc' = [pc EXCEPT ![1] = "proxy", ![2] = "handle"]
        /\ mirrored' = [mirrored EXCEPT ![2] = TRUE]
        /\ outcome' = [outcome EXCEPT ![2] = "none"]
    BY <1>6, <2>1 DEF Attempt, ForwardedHeader
  <2>3. outcome[1] = "none"
    BY <1>6, <2>1 DEF Attempt
  <2>4. QED
    BY <2>2, <2>3
<1>7. ASSUME NEW i \in Hops, ProxyAnswered(i) \/ ProxyFailed(i)
      PROVE  ChainInv'
  <2>1. i = 1 /\ outcome[1] = "none"
    BY <1>7 DEF ProxyAnswered, ProxyFailed
  <2>2. CASE ProxyAnswered(i)
    BY <2>1, <2>2 DEF ProxyAnswered, AfterProxy
  <2>3. CASE ProxyFailed(i)
    BY <2>1, <2>3 DEF ProxyFailed
  <2>4. QED
    BY <1>7, <2>2, <2>3
<1>8. ASSUME NEW i \in Hops, Serve(i) \/ Read(i)
      PROVE  ChainInv'
  BY <1>1, <1>2, <1>8 DEF Serve, Read, GetManifest, GetBlob
<1>9. ASSUME NEW i \in Hops, Resolver(i)
      PROVE  ChainInv'
  BY <1>9 DEF Resolver, Yield, Discard, Send, Close, handlerVars
<1>10. CASE ClientGone \/ (\E n \in Nodes : Change(n)) \/ UNCHANGED vars
  BY <1>10 DEF ClientGone, Change, vars, handlerVars
<1>11. QED
  BY <1>3, <1>4, <1>5, <1>6, <1>7, <1>8, <1>9, <1>10 DEF Next, Handler, Loop, ProxyReturns

LEMMA ChainInvariant == Spec => []ChainInv
<1>1. Init => ChainInv
  BY Constants DEF Init, ChainInv
<1>2. QED
  BY <1>1, ChainInvStep, TypeCorrect, PTL DEF Spec

\* registryHandler's header stops a request after one hop, for chains and clusters
\* of any size: no third handler ever runs.
THEOREM NoForwardingLoops == Spec => []NoForwardingLoop
<1>1. ChainInv => NoForwardingLoop
  BY Constants DEF ChainInv, NoForwardingLoop
<1>2. QED
  BY <1>1, ChainInvariant, PTL

\* handleMirror writes one response and contacts no peer after it, whatever the
\* peers and the lookup still do.
THEOREM HandlerRespondsOnce == Spec => RespondsOnce
<1>1. TypeOK /\ ChainInv /\ [Next]_vars
        => [outcome[1] # "none" => outcome'[1] = outcome[1] /\ tried'[1] = tried[1]]_vars
  <2> SUFFICES ASSUME TypeOK, ChainInv, Next, pc[1] = "done"
               PROVE  outcome'[1] = outcome[1] /\ tried'[1] = tried[1]
    BY DEF ChainInv
  <2> USE Constants DEF TypeOK
  <2>1. ASSUME NEW i \in Hops, Handler(i)
        PROVE  outcome'[1] = outcome[1] /\ tried'[1] = tried[1]
    <3>1. i # 1 /\ i > 1
      BY <2>1 DEF Handler, Route, Mirror, Loop, LoopCancelled, LoopClosed, Attempt,
                  ProxyReturns, ProxyAnswered, ProxyFailed, Serve, Read, GetManifest, GetBlob
    <3>2. Route(i) \/ Serve(i) \/ Read(i)
      BY <2>1, <3>1 DEF ChainInv, Handler, Mirror, Loop, LoopCancelled, LoopClosed, Attempt,
                        ProxyReturns, ProxyAnswered, ProxyFailed
    <3>3. QED
      BY <3>1, <3>2, OwnHopOnly
  <2>2. ASSUME NEW i \in Hops, Resolver(i)
        PROVE  outcome'[1] = outcome[1] /\ tried'[1] = tried[1]
    BY <2>2 DEF Resolver, Yield, Discard, Send, Close, handlerVars
  <2>3. CASE ClientGone \/ \E n \in Nodes : Change(n)
    BY <2>3 DEF ClientGone, Change, handlerVars
  <2>4. QED
    BY <2>1, <2>2, <2>3 DEF Next
<1>2. QED
  BY <1>1, TypeCorrect, ChainInvariant, PTL DEF Spec, RespondsOnce

-----------------------------------------------------------------------------
(* The peers between the lookup and the client's handler *)

\* What a channel holds after a send and after a receive.
LEMMA RangeAppend ==
  ASSUME NEW S, NEW s \in Seq(S), NEW x \in S
  PROVE  Range(Append(s, x)) = Range(s) \cup {x}
<1>1. /\ Append(s, x) \in Seq(S) /\ DOMAIN Append(s, x) = 1 .. Len(s) + 1
      /\ Append(s, x)[Len(s) + 1] = x /\ \A k \in 1 .. Len(s) : Append(s, x)[k] = s[k]
      /\ DOMAIN s = 1 .. Len(s) /\ Len(s) \in Nat
  OBVIOUS
<1>2. QED
  BY <1>1 DEF Range

LEMMA RangeTail ==
  ASSUME NEW S, NEW s \in Seq(S), s # <<>>
  PROVE  Range(s) = {Head(s)} \cup Range(Tail(s))
<1>1. /\ DOMAIN s = 1 .. Len(s) /\ Len(s) \in Nat \ {0} /\ Head(s) = s[1]
      /\ DOMAIN Tail(s) = 1 .. Len(s) - 1 /\ \A k \in 1 .. Len(s) - 1 : Tail(s)[k] = s[k + 1]
  OBVIOUS
<1>2. \A k \in DOMAIN s : k = 1 \/ k - 1 \in DOMAIN Tail(s)
  BY <1>1
<1>3. \A k \in DOMAIN Tail(s) : k + 1 \in DOMAIN s
  BY <1>1
<1>4. Range(s) \subseteq {Head(s)} \cup Range(Tail(s))
  BY <1>1, <1>2 DEF Range
<1>5. {Head(s)} \cup Range(Tail(s)) \subseteq Range(s)
  BY <1>1, <1>3 DEF Range
<1>6. QED
  BY <1>4, <1>5

\* Every provider counted by the lookup is at one place: in the hands of the
\* goroutine, in the channel, attempted, or discarded. So the channel, as large as
\* the count, has room for every provider that passes, and none is lost.
InHand == IF pending[1] = NoPeer THEN 0 ELSE 1

SupplyInv ==
  /\ pending[1] # NoPeer => resolver[1] = "running"
  /\ attempts[1] + Len(peerCh[1]) + InHand <= Cardinality(found[1])
  /\ ResolveRetries > 0 => /\ Cardinality(found[1]) <= ResolveRetries
                           /\ accepted[1] \subseteq tried[1] \cup Range(peerCh[1])
  /\ host = node[1] => HostID[node[1]] \notin tried[1] \cup Range(peerCh[1])
  /\ outcome[1] = "exhausted" => resolver[1] = "closed" /\ peerCh[1] = <<>>

\* The state SupplyInv speaks of.
supply == <<host, node[1], outcome[1], attempts[1], tried[1],
            resolver[1], found[1], pending[1], accepted[1], peerCh[1]>>

\* The handlers of the later hops leave it alone:
LEMMA SecondHopSteps ==
  ASSUME TypeOK, ChainInv, NEW i \in Hops, i > 1, Handler(i)
  PROVE  UNCHANGED supply
<1>1. Route(i) \/ Serve(i) \/ Read(i)
  BY DEF ChainInv, Handler, Mirror, Loop, LoopCancelled, LoopClosed, Attempt,
         ProxyReturns, ProxyAnswered, ProxyFailed
<1>2. UNCHANGED <<host, node, attempts, tried, resolver, found, pending, accepted, peerCh>>
      /\ \A j \in Hops : j # i => outcome'[j] = outcome[j]
  BY <1>1, OwnHopOnly
<1>3. 1 \in Hops /\ 1 # i
  BY Constants
<1>4. QED
  BY <1>2, <1>3 DEF supply

\* the steps that change it are the first handler's and its goroutine's.
LEMMA SupplySteps ==
  ASSUME TypeOK, ChainInv, [Next]_vars
  PROVE  \/ \E o \in Outcomes : Respond(1, o) /\ (o = "exhausted" => LoopClosed(1))
         \/ Mirror(1) \/ Attempt(1) \/ ProxyAnswered(1) \/ Resolver(1)
         \/ UNCHANGED supply
<1> USE Constants DEF TypeOK
<1>1. ASSUME NEW i \in Hops, i > 1, Handler(i)
      PROVE  UNCHANGED supply
  BY <1>1, SecondHopSteps
<1>2. CASE Route(1) \/ Serve(1) \/ Read(1)
  <2>1. {"notFound", "v2", "unparsable", "noManifest", "noBlob", "served"} \subseteq Outcomes \ {"exhausted"}
    BY DEF Outcomes
  <2>2. ASSUME NEW l, GoTo(1, l)
        PROVE  UNCHANGED supply
    BY <2>2 DEF GoTo, supply, resolveVars
  <2>3. \/ \E o \in {"notFound", "v2", "unparsable", "noManifest", "noBlob", "served"} : Respond(1, o)
        \/ \E l \in {"serve", "mirror", "read"} : GoTo(1, l)
    BY <1>2, RespondOrGoTo
  <2>4. QED
    BY <2>1, <2>2, <2>3
<1>4. CASE ProxyFailed(1)
  BY <1>4 DEF ProxyFailed, supply, resolveVars
<1>5. CASE LoopCancelled(1) \/ LoopClosed(1)
  BY <1>5 DEF LoopCancelled, LoopClosed, Outcomes
<1>6. ASSUME NEW i \in Hops, i > 1, Resolver(i)
      PROVE  UNCHANGED supply
  <2>1. UNCHANGED <<host, node, outcome, attempts, tried>>
    BY <1>6 DEF Resolver, Yield, Discard, Send, Close, handlerVars
  <2>2. UNCHANGED <<resolver[1], found[1], pending[1], accepted[1], peerCh[1]>>
    <3>0. ASSUME NEW f, NEW x, DOMAIN f = Hops
          PROVE  [f EXCEPT ![i] = x][1] = f[1]
      BY <1>6, <3>0
    <3>1. ASSUME NEW p \in PeerIDs, Yield(i, p)
          PROVE  UNCHANGED <<resolver[1], found[1], pending[1], accepted[1], peerCh[1]>>
      <4>1. /\ found' = [found EXCEPT ![i] = found[i] \cup {p}] /\ pending' = [pending EXCEPT ![i] = p]
            /\ UNCHANGED <<resolver, accepted, peerCh>>
        BY <3>1 DEF Yield
      <4>2. found'[1] = found[1] /\ pending'[1] = pending[1]
        BY <3>0, <4>1, PerHop
      <4>3. QED
        BY <4>1, <4>2
    <3>2. CASE Discard(i)
      <4>1. pending' = [pending EXCEPT ![i] = NoPeer] /\ UNCHANGED <<resolver, found, accepted, peerCh>>
        BY <3>2 DEF Discard
      <4>2. pending'[1] = pending[1]
        BY <3>0, <4>1, PerHop
      <4>3. QED
        BY <4>1, <4>2
    <3>3. CASE Send(i)
      <4>1. /\ peerCh' = [peerCh EXCEPT ![i] = IF Len(peerCh[i]) < PeerBufferSize
                                               THEN Append(peerCh[i], pending[i]) ELSE peerCh[i]]
            /\ accepted' = [accepted EXCEPT ![i] = accepted[i] \cup {pending[i]}]
            /\ pending' = [pending EXCEPT ![i] = NoPeer] /\ UNCHANGED <<resolver, found>>
        BY <3>3 DEF Send
      <4>2. peerCh'[1] = peerCh[1]
        BY <3>0, <4>1, PerHop
      <4>3. accepted'[1] = accepted[1] /\ pending'[1] = pending[1]
        BY <3>0, <4>1, PerHop
      <4>4. QED
        BY <4>1, <4>2, <4>3
    <3>4. CASE Close(i)
      <4>1. resolver' = [resolver EXCEPT ![i] = ResolverEnd] /\ UNCHANGED <<found, pending, accepted, peerCh>>
        BY <3>4 DEF Close
      <4>2. resolver'[1] = resolver[1]
        BY <3>0, <4>1, PerHop
      <4>3. QED
        BY <4>1, <4>2
    <3>5. QED
      BY <1>6, <3>1, <3>2, <3>3, <3>4 DEF Resolver
  <2>3. QED
    BY <2>1, <2>2 DEF supply
<1>7. CASE ClientGone \/ (\E n \in Nodes : Change(n)) \/ UNCHANGED vars
  BY <1>7 DEF ClientGone, Change, vars, handlerVars, resolveVars, supply
<1>8. ASSUME NEW i \in Hops, Handler(i)
      PROVE  \/ \E o \in Outcomes : Respond(1, o) /\ (o = "exhausted" => LoopClosed(1))
             \/ Mirror(1) \/ Attempt(1) \/ ProxyAnswered(1) \/ Resolver(1)
             \/ UNCHANGED supply
  <2>1. CASE i = 1
    BY <1>2, <1>4, <1>5, <1>8, <2>1 DEF Handler, Loop, ProxyReturns
  <2>2. CASE i > 1
    BY <1>1, <1>8, <2>2
  <2>3. QED
    BY <2>1, <2>2
<1>9. ASSUME NEW i \in Hops, Resolver(i)
      PROVE  Resolver(1) \/ UNCHANGED supply
  <2>1. i = 1 \/ i > 1
    OBVIOUS
  <2>2. QED
    BY <1>6, <1>9, <2>1
<1>10. QED
  BY <1>7, <1>8, <1>9 DEF Next

LEMMA SupplyInvStep == TypeOK /\ ChainInv /\ SupplyInv /\ [Next]_vars => SupplyInv'
<1> SUFFICES ASSUME TypeOK, ChainInv, SupplyInv, [Next]_vars
             PROVE  SupplyInv'
  OBVIOUS
<1> USE Constants
<1>f. ASSUME NEW T \in SUBSET PeerIDs
      PROVE  IsFiniteSet(T) /\ Cardinality(T) \in Nat
  BY RegistryAssumption, FS_Subset, FS_CardinalityType
<1>t. /\ attempts[1] \in Nat /\ peerCh[1] \in Seq(PeerIDs) /\ Len(peerCh[1]) \in Nat
      /\ found[1] \in SUBSET PeerIDs /\ Cardinality(found[1]) \in Nat /\ InHand \in {0, 1}
  BY <1>f DEF TypeOK, InHand
<1>1. ASSUME NEW o \in Outcomes, Respond(1, o), o = "exhausted" => LoopClosed(1)
      PROVE  SupplyInv'
  BY <1>1 DEF Respond, SupplyInv, InHand, TypeOK, resolveVars, LoopClosed
<1>2. CASE Mirror(1)
  <2>1. CASE Respond(1, "latest") \/ Respond(1, "resolveError")
    BY <1>1, <2>1 DEF Outcomes
  <2>2. CASE ~(Respond(1, "latest") \/ Respond(1, "resolveError"))
    <3>1. outcome[1] = "none"
      BY <1>2 DEF Mirror, ChainInv
    <3>2. QED
      BY <1>2, <2>2, <3>1 DEF Mirror, SupplyInv, InHand, TypeOK
  <2>3. QED
    BY <2>1, <2>2
<1>3. CASE Attempt(1)
  <2>1. /\ peerCh'[1] = Tail(peerCh[1]) /\ peerCh[1] # <<>>
        /\ attempts'[1] = attempts[1] + 1 /\ tried'[1] = tried[1] \cup {Head(peerCh[1])}
        /\ node'[1] = node[1] /\ outcome'[1] = outcome[1]
        /\ UNCHANGED <<host, resolver, found, pending, accepted>>
    <3>1. peerCh[1] # <<>> /\ UNCHANGED <<host, resolver, found, pending, accepted>>
      BY <1>3 DEF Attempt, resolveVars
    <3>2. QED
      BY <1>3, <3>1, AttemptStep
  <2>2. /\ Len(peerCh[1]) > 0 /\ Len(peerCh'[1]) = Len(peerCh[1]) - 1
        /\ Range(peerCh[1]) = {Head(peerCh[1])} \cup Range(peerCh'[1])
    <3> DEFINE ch == peerCh[1]
    <3>0. ch \in Seq(PeerIDs) /\ ch # <<>>
      BY <1>t, <2>1
    <3> HIDE DEF ch
    <3>1. Len(ch) > 0 /\ Len(Tail(ch)) = Len(ch) - 1
      BY <3>0
    <3>2. Range(ch) = {Head(ch)} \cup Range(Tail(ch))
      BY <3>0, RangeTail
    <3>3. QED
      BY <2>1, <3>1, <3>2 DEF ch
  <2>3. InHand' = InHand
    BY <2>1 DEF InHand
  <2>4. outcome[1] = "none"
    BY <1>3 DEF Attempt, ChainInv
  <2>5. attempts'[1] + Len(peerCh'[1]) + InHand' <= Cardinality(found'[1])
    <3>1. attempts[1] + Len(peerCh[1]) + InHand <= Cardinality(found[1])
      BY DEF SupplyInv
    <3>2. QED
      BY <1>t, <2>1, <2>2, <2>3, <3>1
  <2>6. QED
    BY <2>1, <2>2, <2>4, <2>5 DEF SupplyInv
<1>4. CASE ProxyAnswered(1)
  <2>1. outcome'[1] # "exhausted"
    BY <1>4 DEF ProxyAnswered, ChainInv, TypeOK
  <2>2. QED
    BY <1>4, <2>1 DEF ProxyAnswered, SupplyInv, InHand, resolveVars
<1>5. ASSUME NEW p \in PeerIDs, Yield(1, p)
      PROVE  SupplyInv'
  <2>1. /\ found'[1] = found[1] \cup {p} /\ p \notin found[1]
        /\ pending[1] = NoPeer /\ pending'[1] = p /\ resolver[1] = "running"
        /\ ResolveRetries > 0 => Cardinality(found[1]) < ResolveRetries
        /\ UNCHANGED <<host, node, outcome, attempts, tried, resolver, accepted, peerCh>>
    BY <1>5, PerHop DEF Yield, Count, handlerVars
  <2>2. Cardinality(found'[1]) = Cardinality(found[1]) + 1
    <3>1. IsFiniteSet(found[1])
      BY <1>f, <1>t
    <3>2. Cardinality(found[1] \cup {p}) = Cardinality(found[1]) + 1
      BY <2>1, <3>1, FS_AddElement
    <3>3. QED
      BY <2>1, <3>2
  <2>3. InHand = 0 /\ InHand' = 1
    BY <2>1 DEF InHand
  <2>4. attempts'[1] + Len(peerCh'[1]) + InHand' <= Cardinality(found'[1])
    <3>1. attempts[1] + Len(peerCh[1]) + InHand <= Cardinality(found[1])
      BY DEF SupplyInv
    <3>2. attempts'[1] = attempts[1] /\ Len(peerCh'[1]) = Len(peerCh[1])
      BY <2>1
    <3>3. QED
      BY <1>t, <2>2, <2>3, <3>1, <3>2
  <2>5. ResolveRetries > 0 => Cardinality(found'[1]) <= ResolveRetries
    <3>1. SUFFICES ASSUME ResolveRetries > 0 PROVE Cardinality(found'[1]) <= ResolveRetries
      OBVIOUS
    <3>2. Cardinality(found[1]) < ResolveRetries
      BY <2>1, <3>1
    <3>3. Cardinality(found[1]) \in Nat /\ ResolveRetries \in Nat
      BY <1>t
    <3>4. QED
      BY <2>2, <3>2, <3>3
  <2>6. QED
    BY <2>1, <2>4, <2>5 DEF SupplyInv
<1>6. CASE Discard(1)
  <2>1. /\ pending[1] # NoPeer /\ pending'[1] = NoPeer
        /\ UNCHANGED <<host, node, outcome, attempts, tried, resolver, found, accepted, peerCh>>
    BY <1>6, PerHop DEF Discard, handlerVars
  <2>2. InHand = 1 /\ InHand' = 0
    BY <2>1 DEF InHand
  <2>3. attempts'[1] + Len(peerCh'[1]) + InHand' <= Cardinality(found'[1])
    <3>1. attempts[1] + Len(peerCh[1]) + InHand <= Cardinality(found[1])
      BY DEF SupplyInv
    <3>2. attempts'[1] = attempts[1] /\ peerCh'[1] = peerCh[1] /\ found'[1] = found[1]
      BY <2>1
    <3>3. QED
      BY <1>t, <2>2, <3>1, <3>2
  <2>4. QED
    BY <2>1, <2>3 DEF SupplyInv
<1>7. CASE Send(1)
  <2>1. /\ pending[1] \in PeerIDs /\ pending'[1] = NoPeer
        /\ accepted'[1] = accepted[1] \cup {pending[1]}
        /\ peerCh'[1] = IF Len(peerCh[1]) < PeerBufferSize THEN Append(peerCh[1], pending[1]) ELSE peerCh[1]
        /\ UNCHANGED <<host, node, outcome, attempts, tried, resolver, found>>
    <3>1. pending[1] \in PeerIDs
      BY <1>7 DEF Send, TypeOK
    <3>2. QED
      BY <1>7, <3>1, PerHop DEF Send, handlerVars
  <2>2. InHand = 1 /\ InHand' = 0 /\ outcome[1] # "exhausted"
    BY <2>1 DEF InHand, SupplyInv
  <2>3. /\ Len(Append(peerCh[1], pending[1])) = Len(peerCh[1]) + 1
        /\ Range(Append(peerCh[1], pending[1])) = Range(peerCh[1]) \cup {pending[1]}
    <3> DEFINE ch == peerCh[1]
               x == pending[1]
    <3>1. ch \in Seq(PeerIDs) /\ x \in PeerIDs
      BY <1>t, <2>1
    <3> HIDE DEF ch, x
    <3>2. Range(Append(ch, x)) = Range(ch) \cup {x}
      BY <3>1, RangeAppend, Zenon
    <3>3. Len(Append(ch, x)) = Len(ch) + 1
      BY <3>1
    <3>4. QED
      BY <3>2, <3>3 DEF ch, x
  <2>4. host = node[1] => pending[1] # HostID[node[1]]
    BY <1>7 DEF Send, Passes, AllowSelf, IsExternal
  <2>5. ResolveRetries > 0 => Len(peerCh[1]) < PeerBufferSize
    <3>1. attempts[1] + Len(peerCh[1]) + InHand <= Cardinality(found[1])
          /\ (ResolveRetries > 0 => Cardinality(found[1]) <= ResolveRetries)
      BY DEF SupplyInv, Count
    <3>2. QED
      BY <1>t, <2>2, <3>1, Constants DEF PeerBufferSize, Count
  <2>6. attempts'[1] + Len(peerCh'[1]) + InHand' <= Cardinality(found'[1])
    <3>1. attempts[1] + Len(peerCh[1]) + InHand <= Cardinality(found[1])
      BY DEF SupplyInv
    <3>2. attempts'[1] = attempts[1] /\ found'[1] = found[1] /\ Len(peerCh'[1]) <= Len(peerCh[1]) + 1
          /\ Len(peerCh'[1]) \in Nat
      <4>1. attempts'[1] = attempts[1] /\ found'[1] = found[1]
        BY <2>1
      <4>2. Len(peerCh'[1]) = Len(peerCh[1]) + 1 \/ Len(peerCh'[1]) = Len(peerCh[1])
        BY <2>1, <2>3
      <4>3. QED
        BY <1>t, <4>1, <4>2
    <3>3. QED
      BY <1>t, <2>2, <3>1, <3>2
  <2>7. QED
    BY <2>1, <2>2, <2>3, <2>4, <2>5, <2>6 DEF SupplyInv
<1>8. CASE Close(1)
  BY <1>8 DEF Close, SupplyInv, InHand, TypeOK, handlerVars, ResolverEnd
<1>9. CASE UNCHANGED supply
  BY <1>9 DEF supply, SupplyInv, InHand
<1>10. QED
  BY <1>1, <1>2, <1>3, <1>4, <1>5, <1>6, <1>7, <1>8, <1>9, SupplySteps DEF Resolver

LEMMA SupplyInvariant == Spec => []SupplyInv
<1>1. Init => SupplyInv
  <2> SUFFICES ASSUME Init PROVE SupplyInv
    OBVIOUS
  <2>1. Cardinality({}) = 0 /\ Len(<<>>) = 0 /\ Range(<<>>) = {}
    BY FS_EmptySet DEF Range
  <2>2. /\ pending[1] = NoPeer /\ attempts[1] = 0 /\ peerCh[1] = <<>> /\ outcome[1] = "none"
        /\ found[1] = {} /\ accepted[1] = {} /\ tried[1] = {}
    BY Constants DEF Init
  <2>3. InHand = 0
    BY <2>2 DEF InHand
  <2>4. attempts[1] + Len(peerCh[1]) + InHand <= Cardinality(found[1])
    BY <2>1, <2>2, <2>3
  <2>5. ResolveRetries > 0 => Cardinality(found[1]) <= ResolveRetries
    BY <2>1, <2>2, Constants
  <2>6. QED
    BY <2>1, <2>2, <2>4, <2>5 DEF SupplyInv
<1>2. QED
  BY <1>1, SupplyInvStep, TypeCorrect, ChainInvariant, PTL DEF Spec

\* A request made to the node itself is proxied back to it only by a record of an
\* identity it had before a restart, however the DHT orders its answers.
THEOREM ProxiedToSelfByOldRecordOnly == Spec => []SelfOnlyByOldRecord
<1>1. SupplyInv => SelfOnlyByOldRecord
  BY DEF SupplyInv, SelfOnlyByOldRecord
<1>2. QED
  BY <1>1, SupplyInvariant, PTL

\* mirrorResolveRetries bounds the attempts, for any value of it.
THEOREM AttemptsAreBounded == Spec => []AttemptsBounded
<1>1. TypeOK /\ SupplyInv => AttemptsBounded
  <2> SUFFICES ASSUME TypeOK, SupplyInv, ResolveRetries > 0
               PROVE  attempts[1] <= ResolveRetries
    BY DEF AttemptsBounded
  <2>1. Cardinality(found[1]) \in Nat
    BY RegistryAssumption, Constants, FS_Subset, FS_CardinalityType DEF TypeOK
  <2>2. attempts[1] \in Nat /\ Len(peerCh[1]) \in Nat /\ InHand \in {0, 1}
    BY Constants DEF TypeOK, InHand
  <2>3. attempts[1] + Len(peerCh[1]) + InHand <= Cardinality(found[1])
        /\ Cardinality(found[1]) <= ResolveRetries
    BY DEF SupplyInv, Count
  <2>4. QED
    BY <2>1, <2>2, <2>3, Constants
<1>2. QED
  BY <1>1, SupplyInvariant, TypeCorrect, PTL

\* The non-blocking send of Resolve drops no provider when the retries are limited:
\* a request is given up only after every usable provider was tried.
THEOREM NoProviderIsLost == Spec => []NoProviderLost
<1>1. SupplyInv => NoProviderLost
  <2>1. Range(<<>>) = {}
    BY DEF Range
  <2>2. QED
    BY <2>1 DEF SupplyInv, NoProviderLost
<1>2. QED
  BY <1>1, SupplyInvariant, PTL

-----------------------------------------------------------------------------
(* The promise of a mirror *)

\* The lookup yields a provider once, so each is at one place only, and a peer that
\* was tried is not in the channel again. Only a reference is ever mirrored.
OnceInv ==
  /\ tried[1] \cup Range(peerCh[1]) \subseteq found[1]
  /\ pending[1] # NoPeer => pending[1] \in found[1] \ (tried[1] \cup Range(peerCh[1]))
  /\ tried[1] \cap Range(peerCh[1]) = {}
  /\ \A j, k \in DOMAIN peerCh[1] : peerCh[1][j] = peerCh[1][k] => j = k
  /\ pc[1] \in {"mirror", "loop", "proxy"} => req.path = "ref" /\ req.method # "POST"

\* Receiving from a channel without repetitions leaves one without what was received.
LEMMA TailOnce ==
  ASSUME NEW S, NEW s \in Seq(S), s # <<>>, \A j, k \in DOMAIN s : s[j] = s[k] => j = k
  PROVE  /\ Head(s) \notin Range(Tail(s))
         /\ \A j, k \in DOMAIN Tail(s) : Tail(s)[j] = Tail(s)[k] => j = k
<1>1. /\ DOMAIN s = 1 .. Len(s) /\ Len(s) \in Nat \ {0} /\ Head(s) = s[1]
      /\ DOMAIN Tail(s) = 1 .. Len(s) - 1 /\ \A k \in 1 .. Len(s) - 1 : Tail(s)[k] = s[k + 1]
  OBVIOUS
<1>2. ASSUME NEW k \in DOMAIN Tail(s)
      PROVE  Tail(s)[k] = s[k + 1] /\ k + 1 \in DOMAIN s /\ k + 1 # 1 /\ k \in Nat
  BY <1>1
<1>3. Head(s) \notin Range(Tail(s))
  BY <1>1, <1>2 DEF Range
<1>4. ASSUME NEW j \in DOMAIN Tail(s), NEW k \in DOMAIN Tail(s), Tail(s)[j] = Tail(s)[k]
      PROVE  j = k
  <2>1. j + 1 = k + 1
    BY <1>2, <1>4
  <2>2. QED
    BY <1>2, <2>1
<1>5. QED
  BY <1>3, <1>4

\* Sending what is not in it leaves a channel without repetitions.
LEMMA AppendOnce ==
  ASSUME NEW S, NEW s \in Seq(S), NEW x \in S, x \notin Range(s),
         \A j, k \in DOMAIN s : s[j] = s[k] => j = k
  PROVE  \A j, k \in DOMAIN Append(s, x) : Append(s, x)[j] = Append(s, x)[k] => j = k
<1>1. /\ DOMAIN Append(s, x) = 1 .. Len(s) + 1 /\ Append(s, x)[Len(s) + 1] = x
      /\ \A k \in 1 .. Len(s) : Append(s, x)[k] = s[k]
      /\ DOMAIN s = 1 .. Len(s) /\ Len(s) \in Nat
  OBVIOUS
<1>2. \A k \in DOMAIN s : Append(s, x)[k] = s[k] /\ s[k] # x
  BY <1>1 DEF Range
<1>3. \A k \in DOMAIN Append(s, x) : k \in DOMAIN s \/ k = Len(s) + 1
  BY <1>1
<1>4. QED
  BY <1>1, <1>2, <1>3

\* The state OnceInv speaks of, without where the handler is.
LEMMA OnceSupply ==
  ASSUME OnceInv, UNCHANGED <<req, tried[1], peerCh[1], found[1], pending[1]>>,
         pc'[1] \in {"mirror", "loop", "proxy"} => req.path = "ref" /\ req.method # "POST"
  PROVE  OnceInv'
BY DEF OnceInv

LEMMA OnceInvStep == TypeOK /\ ChainInv /\ OnceInv /\ [Next]_vars => OnceInv'
<1> SUFFICES ASSUME TypeOK, ChainInv, OnceInv, [Next]_vars
             PROVE  OnceInv'
  OBVIOUS
<1> USE Constants
<1>1. ASSUME NEW i \in Hops, Route(i)
      PROVE  OnceInv'
  <2>1. UNCHANGED <<req, tried, peerCh, found, pending>> /\ (i # 1 => pc'[1] = pc[1])
    BY <1>1, OwnHopOnly
  <2>2. CASE i # 1
    BY <2>1, <2>2, OnceSupply DEF OnceInv
  <2>3. CASE i = 1
    <3>1. (\E o : Respond(1, o))
          \/ (req.path = "ref" /\ req.method # "POST" /\ \E l : GoTo(1, l))
      BY <1>1, <2>3 DEF Route
    <3>2. ASSUME NEW o, Respond(1, o)
          PROVE  pc'[1] = "done"
      BY <3>2, PerHop DEF Respond
    <3>3. QED
      BY <2>1, <3>1, <3>2, OnceSupply DEF OnceInv
  <2>4. QED
    BY <2>2, <2>3
<1>2. ASSUME NEW i \in Hops, Mirror(i)
      PROVE  OnceInv'
  <2>1. pc[i] = "mirror" /\ (pc'[1] # pc[1] => i = 1)
    BY <1>2, PerHop DEF Mirror, Respond
  <2>2. UNCHANGED <<req, tried, peerCh, found, pending>>
    BY <1>2 DEF Mirror, Respond, resolveVars
  <2>3. QED
    BY <2>1, <2>2, OnceSupply DEF OnceInv
<1>3. ASSUME NEW i \in Hops, LoopCancelled(i) \/ LoopClosed(i) \/ Serve(i) \/ Read(i)
      PROVE  OnceInv'
  <2>1. ASSUME NEW o, Respond(i, o)
        PROVE  (pc'[1] = pc[1] \/ pc'[1] = "done") /\ UNCHANGED <<req, tried, peerCh, found, pending>>
    BY <2>1, PerHop DEF Respond, resolveVars
  <2>2. ASSUME GoTo(i, "read")
        PROVE  (pc'[1] = pc[1] \/ pc'[1] = "read") /\ UNCHANGED <<req, tried, peerCh, found, pending>>
    BY <2>2, PerHop DEF GoTo, resolveVars
  <2>3. (\E o : Respond(i, o)) \/ GoTo(i, "read")
    BY <1>3 DEF LoopCancelled, LoopClosed, Serve, Read, GetManifest, GetBlob
  <2>4. /\ pc'[1] = pc[1] \/ pc'[1] \in {"done", "read"}
        /\ UNCHANGED <<req, tried, peerCh, found, pending>>
    BY <2>1, <2>2, <2>3
  <2>5. QED
    BY <2>4, OnceSupply DEF OnceInv
<1>4. ASSUME NEW i \in Hops, Attempt(i)
      PROVE  OnceInv'
  <2>1. i = 1 /\ pc[1] = "loop"
    BY <1>4 DEF Attempt, ChainInv
  <2>2. /\ peerCh[1] \in Seq(PeerIDs) /\ peerCh[1] # <<>>
        /\ peerCh'[1] = Tail(peerCh[1]) /\ tried'[1] = tried[1] \cup {Head(peerCh[1])}
        /\ UNCHANGED <<req, found, pending>>
    <3>1. peerCh[1] \in Seq(PeerIDs)
      BY DEF TypeOK
    <3>2. QED
      BY <1>4, <2>1, <3>1, AttemptStep DEF Attempt, resolveVars
  <2>3. Range(peerCh[1]) = {Head(peerCh[1])} \cup Range(peerCh'[1])
    BY <2>2, RangeTail
  <2>4. /\ Head(peerCh[1]) \notin Range(peerCh'[1])
        /\ \A j, k \in DOMAIN peerCh'[1] : peerCh'[1][j] = peerCh'[1][k] => j = k
    <3>1. \A j, k \in DOMAIN peerCh[1] : peerCh[1][j] = peerCh[1][k] => j = k
      BY DEF OnceInv
    <3>2. peerCh[1] \in Seq(PeerIDs) /\ peerCh[1] # <<>> /\ peerCh'[1] = Tail(peerCh[1])
      BY <2>2
    <3>3. QED
      BY <3>1, <3>2, TailOnce
  <2>5. tried'[1] \cup Range(peerCh'[1]) = tried[1] \cup Range(peerCh[1])
    BY <2>2, <2>3
  <2>6. tried'[1] \cap Range(peerCh'[1]) = {}
    <3>1. tried[1] \cap Range(peerCh[1]) = {}
      BY DEF OnceInv
    <3>2. tried'[1] = tried[1] \cup {Head(peerCh[1])}
      BY <2>2
    <3>3. QED
      BY <2>3, <2>4, <3>1, <3>2
  <2>7. req'.path = "ref" /\ req'.method # "POST"
    BY <2>1, <2>2 DEF OnceInv
  <2>8. QED
    BY <2>2, <2>4, <2>5, <2>6, <2>7 DEF OnceInv
<1>5. ASSUME NEW i \in Hops, ProxyAnswered(i) \/ ProxyFailed(i)
      PROVE  OnceInv'
  <2>1. i = 1 /\ pc[1] = "proxy"
    BY <1>5 DEF ProxyAnswered, ProxyFailed, ChainInv
  <2>2. UNCHANGED <<req, tried, peerCh, found, pending>>
    BY <1>5 DEF ProxyAnswered, ProxyFailed, resolveVars
  <2>3. QED
    BY <2>1, <2>2, OnceSupply DEF OnceInv
<1>6. ASSUME NEW i \in Hops, NEW p \in PeerIDs, Yield(i, p)
      PROVE  OnceInv'
  <2>1. CASE i = 1
    <3>1. /\ found'[1] = found[1] \cup {p} /\ p \notin found[1] /\ pending'[1] = p
          /\ UNCHANGED <<req, tried, peerCh, pc>>
      BY <1>6, <2>1 DEF Yield, TypeOK, handlerVars
    <3>2. QED
      BY <3>1 DEF OnceInv
  <2>2. CASE i # 1
    <3>1. UNCHANGED <<req, tried, peerCh, pc, found[1], pending[1]>>
      BY <1>6, <2>2, PerHop, Constants DEF Yield, handlerVars
    <3>2. QED
      BY <3>1, OnceSupply DEF OnceInv
  <2>3. QED
    BY <2>1, <2>2
<1>7. ASSUME NEW i \in Hops, Discard(i) \/ Close(i)
      PROVE  OnceInv'
  <2>1. UNCHANGED <<req, tried, peerCh, found, pc>>
        /\ (pending'[1] = pending[1] \/ pending'[1] = NoPeer)
    BY <1>7, PerHop DEF Discard, Close, handlerVars
  <2>2. QED
    BY <2>1 DEF OnceInv
<1>8. ASSUME NEW i \in Hops, Send(i)
      PROVE  OnceInv'
  <2>1. CASE i = 1
    <3>1. /\ pending[1] \in PeerIDs /\ pending'[1] = NoPeer /\ peerCh[1] \in Seq(PeerIDs)
          /\ peerCh'[1] \in {Append(peerCh[1], pending[1]), peerCh[1]}
          /\ UNCHANGED <<req, tried, found, pc>>
      BY <1>8, <2>1 DEF Send, TypeOK, handlerVars
    <3>2. pending[1] \in found[1] \ (tried[1] \cup Range(peerCh[1]))
      BY <3>1 DEF OnceInv
    <3>3. CASE peerCh'[1] = Append(peerCh[1], pending[1])
      <4>1. Range(peerCh'[1]) = Range(peerCh[1]) \cup {pending[1]}
        <5>1. Range(Append(peerCh[1], pending[1])) = Range(peerCh[1]) \cup {pending[1]}
          <6> DEFINE ch == peerCh[1]
                     x == pending[1]
          <6>1. ch \in Seq(PeerIDs) /\ x \in PeerIDs
            BY <3>1
          <6> HIDE DEF ch, x
          <6>2. Range(Append(ch, x)) = Range(ch) \cup {x}
            BY <6>1, RangeAppend, Zenon
          <6>3. QED
            BY <6>2 DEF ch, x
        <5>2. QED
          BY <3>3, <5>1
      <4>2. \A j, k \in DOMAIN peerCh'[1] : peerCh'[1][j] = peerCh'[1][k] => j = k
        <5>1. \A j, k \in DOMAIN peerCh[1] : peerCh[1][j] = peerCh[1][k] => j = k
          BY DEF OnceInv
        <5>2. pending[1] \notin Range(peerCh[1])
          BY <3>2
        <5>3. \A j, k \in DOMAIN Append(peerCh[1], pending[1]) :
                Append(peerCh[1], pending[1])[j] = Append(peerCh[1], pending[1])[k] => j = k
          BY <3>1, <5>1, <5>2, AppendOnce
        <5>4. QED
          BY <3>3, <5>3
      <4>3. /\ tried'[1] \cup Range(peerCh'[1]) \subseteq found'[1]
            /\ tried'[1] \cap Range(peerCh'[1]) = {}
        BY <3>1, <3>2, <4>1 DEF OnceInv
      <4>4. QED
        BY <3>1, <4>2, <4>3 DEF OnceInv
    <3>4. CASE peerCh'[1] = peerCh[1]
      BY <3>1, <3>4 DEF OnceInv
    <3>5. QED
      BY <3>1, <3>3, <3>4
  <2>2. CASE i # 1
    <3>1. UNCHANGED <<req, tried, found, pc, peerCh[1], pending[1]>>
      BY <1>8, <2>2, PerHop, Constants DEF Send, handlerVars
    <3>2. QED
      BY <3>1, OnceSupply DEF OnceInv
  <2>3. QED
    BY <2>1, <2>2
<1>9. CASE ClientGone \/ (\E n \in Nodes : Change(n)) \/ UNCHANGED vars
  BY <1>9, OnceSupply DEF ClientGone, Change, vars, handlerVars, resolveVars, OnceInv
<1>10. QED
  BY <1>1, <1>2, <1>3, <1>4, <1>5, <1>6, <1>7, <1>8, <1>9
     DEF Next, Handler, Loop, ProxyReturns, Resolver

LEMMA OnceInvariant == Spec => []OnceInv
<1>1. Init => OnceInv
  <2>1. Range(<<>>) = {} /\ DOMAIN <<>> = {}
    BY DEF Range
  <2>2. QED
    BY <2>1, Constants DEF Init, OnceInv
<1>2. QED
  BY <1>1, OnceInvStep, TypeCorrect, ChainInvariant, PTL DEF Spec

\* The registry keeps the promise of a mirror, for any number of nodes and any order
\* of lookups, answers and failures: each step of the handlers is one of its steps,
\* or none.
THEOREM RegistryKeepsPromise == Spec => PromiseKept
<1> USE Constants
<1>1. Init => Promise!Init
  BY DEF Init, Promise!Init
<1>2. TypeOK /\ ChainInv /\ OnceInv /\ [Next]_vars => [Promise!Next]_(Promise!vars)
  <2> SUFFICES ASSUME TypeOK, ChainInv, OnceInv, [Next]_vars
               PROVE  [Promise!Next]_(Promise!vars)
    OBVIOUS
  <2>1. ASSUME NEW o \in Outcomes \ {"none", "proxied"}, Respond(1, o), pc[1] \notin {"proxy", "done"},
               outcome[1] = "none"
        PROVE  Promise!OwnAnswer
    BY <2>1, PerHop DEF Respond, Promise!OwnAnswer, nodeVars
  <2>2. ASSUME NEW l, GoTo(1, l), pc[1] # "proxy", l # "proxy"
        PROVE  UNCHANGED Promise!vars
    BY <2>2 DEF GoTo, Promise!vars, TypeOK, nodeVars
  <2>3. CASE Route(1)
    <3>1. pc[1] = "handle" /\ outcome[1] = "none"
      BY <2>3 DEF Route, ChainInv
    <3>2. {"notFound", "v2", "unparsable"} \subseteq Outcomes \ {"none", "proxied"}
      BY DEF Outcomes
    <3>3. (\E o \in {"notFound", "v2", "unparsable"} : Respond(1, o))
          \/ (\E l \in {"serve", "mirror"} : GoTo(1, l))
      BY <2>3 DEF Route
    <3>4. QED
      BY <2>1, <2>2, <3>1, <3>2, <3>3 DEF Promise!Next
  <2>4. CASE Mirror(1)
    <3>1. pc[1] = "mirror" /\ outcome[1] = "none"
      BY <2>4 DEF Mirror, ChainInv
    <3>2. {"latest", "resolveError"} \subseteq Outcomes \ {"none", "proxied"}
      BY DEF Outcomes
    <3>3. CASE \E o \in {"latest", "resolveError"} : Respond(1, o)
      BY <2>1, <3>1, <3>2, <3>3 DEF Promise!Next
    <3>4. CASE ~\E o \in {"latest", "resolveError"} : Respond(1, o)
      <4>1. pc' = [pc EXCEPT ![1] = "loop"] /\ UNCHANGED <<content, node, outcome, tried>>
        BY <2>4, <3>4 DEF Mirror, nodeVars
      <4>2. QED
        BY <3>1, <4>1 DEF Promise!vars, TypeOK
    <3>5. QED
      BY <3>3, <3>4
  <2>5. CASE LoopCancelled(1) \/ LoopClosed(1)
    <3>1. pc[1] = "loop" /\ outcome[1] = "none"
      BY <2>5 DEF LoopCancelled, LoopClosed, ChainInv
    <3>2. {"cancelled", "exhausted"} \subseteq Outcomes \ {"none", "proxied"}
      BY DEF Outcomes
    <3>3. QED
      BY <2>1, <2>5, <3>1, <3>2 DEF LoopCancelled, LoopClosed, Promise!Next
  <2>6. CASE Attempt(1)
    <3>1. /\ pc[1] = "loop" /\ outcome[1] = "none" /\ peerCh[1] \in Seq(PeerIDs) /\ peerCh[1] # <<>>
      BY <2>6 DEF Attempt, ChainInv, TypeOK
    <3>2. Head(peerCh[1]) \in PeerIDs /\ Head(peerCh[1]) \in Range(peerCh[1])
      <4> DEFINE ch == peerCh[1]
      <4>1. ch \in Seq(PeerIDs) /\ ch # <<>>
        BY <3>1
      <4> HIDE DEF ch
      <4>2. Range(ch) = {Head(ch)} \cup Range(Tail(ch))
        BY <4>1, RangeTail
      <4>3. Head(ch) \in PeerIDs
        BY <4>1
      <4>4. QED
        BY <4>2, <4>3 DEF ch
    <3>3. Head(peerCh[1]) \notin tried[1]
      BY <3>2 DEF OnceInv
    <3>4. /\ pc'[1] = "proxy" /\ pc'[2] = "handle" /\ node'[2] = Address[Head(peerCh[1])]
          /\ tried'[1] = tried[1] \cup {Head(peerCh[1])} /\ outcome'[1] = outcome[1]
          /\ UNCHANGED content
      <4>1. UNCHANGED content
        BY <2>6 DEF Attempt, nodeVars
      <4>2. QED
        BY <2>6, <4>1, AttemptStep
    <3>5. Promise!Ask(Head(peerCh[1]))
      BY <3>1, <3>3, <3>4 DEF Promise!Ask
    <3>6. QED
      BY <3>2, <3>5 DEF Promise!Next
  <2>7. CASE ProxyAnswered(1)
    <3>1. /\ pc[1] = "proxy" /\ pc[2] = "done" /\ outcome[1] = "none" /\ node[2] \in Nodes
          /\ UNCHANGED <<content, node, tried>>
      <4>1. 2 \in Hops => node[2] \in Nodes
        BY DEF TypeOK
      <4>2. 2 \in Hops
        BY <2>7, Constants DEF ProxyAnswered
      <4>3. pc[1] = "proxy" => outcome[1] = "none"
        BY DEF ChainInv
      <4>4. QED
        <5>1. pc[1] = "proxy" /\ pc[1 + 1] = "done" /\ UNCHANGED <<content, node, tried>>
          BY <2>7 DEF ProxyAnswered, nodeVars
        <5>2. 1 + 1 = 2
          OBVIOUS
        <5>3. QED
          BY <4>1, <4>2, <4>3, <5>1, <5>2
    <3>2. CASE Status(outcome[2]) = 200
      <4>1. pc'[1] = "done" /\ outcome'[1] = "proxied"
        <5>1. outcome' = [outcome EXCEPT ![1] = "proxied"]
              /\ pc' = [pc EXCEPT ![1] = "done", ![2] = "idle"]
          <6>1. 1 + 1 = 2
            OBVIOUS
          <6>2. QED
            BY <2>7, <3>2, <6>1 DEF ProxyAnswered, AfterProxy
        <5>2. DOMAIN pc = Hops /\ DOMAIN outcome = Hops /\ 1 \in Hops
          BY PerHop, Constants
        <5>3. QED
          BY <5>1, <5>2
      <4>2. QED
        BY <3>1, <3>2, <4>1 DEF Promise!Relay, Promise!Next
    <3>3. CASE Status(outcome[2]) # 200
      <4>1. pc'[1] = "loop" /\ outcome'[1] = "none"
        <5>1. /\ outcome' = [outcome EXCEPT ![1] = @]
              /\ pc' = [pc EXCEPT ![1] = "loop", ![2] = "idle"]
          <6>1. 1 + 1 = 2
            OBVIOUS
          <6>2. QED
            BY <2>7, <3>3, <6>1 DEF ProxyAnswered, AfterProxy
        <5>2. DOMAIN pc = Hops /\ DOMAIN outcome = Hops /\ 1 \in Hops
          BY PerHop, Constants
        <5>3. QED
          BY <3>1, <5>1, <5>2
      <4>2. QED
        BY <3>1, <4>1 DEF Promise!Drop, Promise!Next
    <3>4. QED
      BY <3>2, <3>3
  <2>8. CASE ProxyFailed(1)
    <3>1. /\ pc[1] = "proxy" /\ pc'[1] = "loop" /\ node[2] \in Nodes
          /\ UNCHANGED <<content, node, tried, outcome>>
      <4>1. pc[1] = "proxy" /\ UNCHANGED <<content, node, tried, outcome>>
        BY <2>8 DEF ProxyFailed, nodeVars
      <4>2. 1 \in Hops /\ 2 \in Hops /\ 1 + 1 = 2
        BY Constants
      <4>3. pc' = [pc EXCEPT ![1] = "loop", ![2] = "idle"]
        BY <2>8, <4>2 DEF ProxyFailed
      <4>4. pc'[1] = "loop"
        BY <4>2, <4>3, PerHop
      <4>5. node[2] \in Nodes
        BY <4>2 DEF TypeOK
      <4>6. QED
        BY <4>1, <4>4, <4>5
    <3>2. QED
      BY <3>1 DEF Promise!Drop, Promise!Next
  <2>9. CASE Serve(1) \/ Read(1)
    <3>1. pc[1] \in {"serve", "read"} /\ outcome[1] = "none"
      BY <2>9 DEF Serve, Read, ChainInv
    <3>2. {"noManifest", "noBlob", "served"} \subseteq Outcomes \ {"none", "proxied"}
      BY DEF Outcomes
    <3>3. (\E o \in {"noManifest", "noBlob", "served"} : Respond(1, o)) \/ GoTo(1, "read")
      BY <2>9 DEF Serve, Read, GetManifest, GetBlob
    <3>4. QED
      BY <2>1, <2>2, <3>1, <3>2, <3>3 DEF Promise!Next
  <2>10. ASSUME NEW i \in Hops, i > 1, Handler(i)
         PROVE  [Promise!Next]_(Promise!vars)
    <3>1. i = 2 /\ (Route(2) \/ Serve(2) \/ Read(2)) /\ pc[2] \in {"handle", "serve", "read"}
      <4>1. pc[i] \in {"idle", "handle", "serve", "read", "done"} /\ (i > 2 => pc[i] = "idle")
        BY <2>10 DEF ChainInv
      <4>2. ~Mirror(i) /\ ~Loop(i) /\ ~ProxyReturns(i)
        BY <4>1 DEF Mirror, Loop, LoopCancelled, LoopClosed, Attempt, ProxyReturns, ProxyAnswered, ProxyFailed
      <4>3. Route(i) \/ Serve(i) \/ Read(i)
        BY <2>10, <4>2 DEF Handler
      <4>4. pc[i] \in {"handle", "serve", "read"}
        BY <4>3 DEF Route, Serve, Read
      <4>5. i = 2
        BY <2>10, <4>1, <4>4 DEF Hops
      <4> QED
        BY <4>3, <4>4, <4>5
    <3>2. CASE \E l \in {"serve", "mirror", "read"} : GoTo(2, l)
      <4>1. PICK l \in {"serve", "mirror", "read"} : GoTo(2, l)
        BY <3>2
      <4>2. pc' = [pc EXCEPT ![2] = l] /\ UNCHANGED <<content, node, outcome, tried>>
        BY <4>1 DEF GoTo, nodeVars
      <4>3. pc'[1] = pc[1] /\ pc'[2] = l
        BY <4>2, PerHop, Constants
      <4>4. pc[2] # "done" /\ l # "done"
        BY <3>1
      <4>5. QED
        BY <4>2, <4>3, <4>4 DEF Promise!vars
    <3>3. ASSUME NEW o, Respond(2, o), pc[1] # "proxy"
          PROVE  UNCHANGED Promise!vars
      <4>1. /\ outcome' = [outcome EXCEPT ![2] = o] /\ pc' = [pc EXCEPT ![2] = "done"]
            /\ UNCHANGED <<content, node, tried>>
        BY <3>3 DEF Respond, nodeVars
      <4>2. outcome'[1] = outcome[1] /\ pc'[1] = pc[1]
        BY <4>1, PerHop, Constants
      <4>3. QED
        BY <3>3, <4>1, <4>2 DEF Promise!vars
    <3>4. ASSUME NEW o, Respond(2, o), pc[1] = "proxy", Status(o) = 200 => node[2] \in content
          PROVE  Promise!Offer
      <4>1. /\ pc'[1] = "proxy" /\ pc'[2] = "done" /\ outcome'[2] = o /\ outcome'[1] = outcome[1]
            /\ UNCHANGED <<content, node, tried>>
        <5>1. /\ outcome' = [outcome EXCEPT ![2] = o] /\ pc' = [pc EXCEPT ![2] = "done"]
              /\ UNCHANGED <<content, node, tried>>
          BY <3>4 DEF Respond, nodeVars
        <5>2. 1 \in Hops /\ 2 \in Hops /\ DOMAIN outcome = Hops /\ DOMAIN pc = Hops
          BY PerHop, Constants
        <5>3. outcome'[1] = outcome[1] /\ outcome'[2] = o
          BY <5>1, <5>2
        <5>4. pc'[1] = pc[1] /\ pc'[2] = "done"
          BY <5>1, <5>2
        <5>5. QED
          BY <3>4, <5>1, <5>3, <5>4
      <4>2. node[2] \in Nodes
        BY DEF TypeOK
      <4>3. QED
        BY <3>1, <3>4, <4>1, <4>2 DEF Promise!Offer
    <3>5. ASSUME NEW o, Respond(2, o), Status(o) = 200 => node[2] \in content
          PROVE  [Promise!Next]_(Promise!vars)
      BY <3>3, <3>4, <3>5 DEF Promise!Next
    <3>6. \A o \in {"notFound", "unparsable", "noManifest", "noBlob"} : Status(o) # 200
      BY DEF Status
    <3>7. CASE Serve(2) \/ Read(2)
      BY <3>2, <3>5, <3>6, <3>7 DEF Serve, Read, GetManifest, GetBlob, SizeKnown
    <3>8. CASE Route(2) /\ pc[1] = "proxy"
      BY <3>2, <3>5, <3>6, <3>8 DEF Route, OnceInv
    <3>9. CASE Route(2) /\ pc[1] # "proxy"
      BY <3>2, <3>3, <3>9 DEF Route
    <3>10. QED
      BY <3>1, <3>7, <3>8, <3>9
  <2>11. ASSUME NEW i \in Hops, Resolver(i)
         PROVE  UNCHANGED Promise!vars
    BY <2>11 DEF Resolver, Yield, Discard, Send, Close, handlerVars, nodeVars, Promise!vars
  <2>12. CASE ClientGone \/ UNCHANGED vars
    BY <2>12 DEF ClientGone, vars, handlerVars, nodeVars, Promise!vars
  <2>13. ASSUME NEW n \in Nodes, Change(n)
         PROVE  Promise!Hold
    BY <2>13 DEF Change, handlerVars, Promise!Hold, TypeOK
  <2>14. QED
    BY <2>3, <2>4, <2>5, <2>6, <2>7, <2>8, <2>9, <2>10, <2>11, <2>12, <2>13
       DEF Next, Handler, Loop, ProxyReturns, Promise!Next
<1>3. QED
  BY <1>1, <1>2, TypeCorrect, ChainInvariant, OnceInvariant, PTL DEF Spec, PromiseKept, Promise!Spec
=============================================================================
