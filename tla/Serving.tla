------------------------------ MODULE Serving ------------------------------
(***************************************************************************)
(* What one node reads from containerd, and how it answers with it:        *)
(* AllIdentifiers, Resolve, Size, GetManifest, lookupMediaType and GetBlob *)
(* of pkg/oci/containerd.go, handleManifest and handleBlob of              *)
(* pkg/registry/registry.go, the response writer of internal/mux, and the  *)
(* throttler of pkg/throttle that all blob responses share.                *)
(*                                                                         *)
(* Calls run beside each other, each with one task. Containerd retags,     *)
(* removes and collects between any two of their steps.                    *)
(***************************************************************************)
EXTENDS Integers, Sequences, FiniteSets, Functions, FiniteSetsExt

CONSTANTS
  Calls,       \* goroutines that serve a request or walk an image
  Workloads,   \* what they may have to do, and with which arguments:
               \* [task: call -> [op, method, name, dgst], speed: [v, unit] or None, contentPath]
  Docs,        \* digest -> [type, form, children, size, sources]
  Names, None, \* image names, and no image
  Stores,      \* contents of the image store to start from and to change to
  Locals,      \* contents of the content store to start from
  Unit,        \* unit -> its factor
  MaxInt,      \* the greatest int; there is one more below zero than above
  Chunk,       \* size of the buffer of io.Copy
  Burst,       \* burstLimit
  MaxIdle,     \* bound: ticks of the clock while nobody sleeps
  MaxChanges   \* bound: changes to the image store and the content store

Digests == DOMAIN Docs
Types == {"index", "manifest", "config", "layer"}
\* What the bytes are: JSON with a mediaType, that isImageConfig, or neither; or no JSON.
Forms == {"typed", "image", "json", "binary"}
Children(d) == Range(Docs[d].children)
TaskTypes ==
  [op : {"manifest", "blob", "walk"}, method : {"GET", "HEAD", ""},
   name : Names \cup {None}, dgst : Digests \cup {None}]

ASSUME ContentAssumption ==
  /\ \A d \in Digests : /\ Docs[d].type \in Types /\ Docs[d].form \in Forms
                        /\ Docs[d].form = "image" => Docs[d].type = "config"
                        /\ Docs[d].children \in Seq(Digests) /\ Docs[d].size \in Nat
                        /\ Docs[d].type = "manifest" =>
                             \A e \in Children(d) : Docs[e].type \in {"config", "layer"}
  /\ Stores \subseteq [Names -> Digests \cup {None}] /\ Locals \subseteq SUBSET Digests

ASSUME BoundsAssumption ==
  /\ {Chunk, Burst, MaxInt} \subseteq Nat \ {0} /\ Chunk <= Burst
  /\ MaxIdle \in Nat /\ MaxChanges \in Nat

ASSUME WorkloadAssumption ==
  /\ IsFiniteSet(Calls)
  /\ \A w \in Workloads : /\ w.task \in [Calls -> TaskTypes]
                          /\ \A c \in Calls : w.task[c].op = "walk" => w.task[c].name \in Names
                          /\ w.speed # None => w.speed.v \in Nat /\ Unit[w.speed.unit] \in Nat

VARIABLES
  store, local,  \* the image store, and the digests in the content store
  contentPath,   \* args.ContainerdContentPath is set: blobs are read from files
  speed,         \* args.BlobSpeed
  tokens,        \* of the limiter; negative when the future is reserved
  sleep,         \* call -> how long it still sleeps, Forever if it never wakes
  now, total,    \* history: time since the limiter was made, bytes of blobs written
  task,          \* call -> its task
  pc,            \* call -> what it does next
  dgst,          \* call -> the digest it looks for
  aside,         \* call -> what lookupMediaType has found: a source label, then a parent
  todo, keys,    \* call -> of a walk: descriptors to visit, identifiers so far
  platforms,     \* call -> those of the index it reads that it has not looked for yet
  descs,         \* call -> and those it has found
  left,          \* call -> bytes of the blob still to copy
  resp,          \* call -> the response of package mux: its status and size
  sent,          \* call -> its status, body and headers
  changes        \* how much of MaxChanges is used

stores == <<store, local, changes>>
limiter == <<tokens, sleep, now, total>>
walked == <<todo, keys, platforms, descs>>
found == <<dgst, aside, walked>>
answer == <<left, resp, sent>>
vars == <<stores, contentPath, speed, limiter, task, pc, found, answer>>

NotSent == [status |-> 0, size |-> 0, type |-> None, dgst |-> None]

-----------------------------------------------------------------------------
(* Byterate and Throttler *)

\* The product of two ints.
Wrap(n) == ((n + MaxInt + 1) % (2 * (MaxInt + 1))) - (MaxInt + 1)

\* Mutant: the rate in thousands.
ByterateInThousands(s) == Wrap(s.v * Unit[s.unit]) \div Unit.KBps

\* UnmarshalText: the number must fit, nobody asks whether the product does.
Byterate(s) == Wrap(s.v * Unit[s.unit])

\* Mutant: the bucket is full at the start.
FullBucket == Burst

\* NewThrottler takes all tokens out.
InitialTokens == 0

Throttled == speed # None
Forever == -1

\* Reservation.OK. A limiter of rate zero lives on its burst, which NewThrottler has
\* used up, or promises tokens in a future that never comes, as one of negative rate does.
Reserved == IF Throttled /\ Byterate(speed) = 0 THEN BOOLEAN ELSE {TRUE}

\* Reservation.Delay when that many tokens are left.
Delay(t) ==
  IF t >= 0 THEN 0
  ELSE IF Byterate(speed) <= 0 THEN Forever
  ELSE (Byterate(speed) - 1 - t) \div Byterate(speed)

\* The tokens of a tick.
Rate == Max({0, Byterate(speed)})

\* The clock, which only the limiter looks at. Tokens come at its rate.
Tick ==
  /\ Throttled
  /\ now < MaxIdle \/ \E c \in Calls : sleep[c] > 0
  /\ now' = now + 1
  /\ tokens' = Min({Burst, tokens + Rate})
  /\ sleep' = [c \in Calls |-> IF sleep[c] > 0 THEN sleep[c] - 1 ELSE sleep[c]]
  /\ UNCHANGED <<stores, contentPath, speed, total, task, pc, found, answer>>

-----------------------------------------------------------------------------
(* The response *)

\* WriteHeader: the first status is the one that is recorded and goes out.
FirstStatus(r, status) == [r EXCEPT !.status = IF @ = 0 THEN status ELSE @]

WriteError(c, status) ==
  /\ resp' = [resp EXCEPT ![c] = FirstStatus(resp[c], status)]
  /\ sent' = [sent EXCEPT ![c] = FirstStatus(sent[c], status)]

Status(r) == IF r.status = 0 THEN 200 ELSE r.status

\* A handler returns; net/http sends a 200 if it has not set a status.
Ok(s) == FirstStatus(s, 200)

Done(c) == pc' = [pc EXCEPT ![c] = "done"]
Goto(c, label) == pc' = [pc EXCEPT ![c] = label]

Fail(c, status) ==
  /\ WriteError(c, status) /\ Done(c)
  /\ UNCHANGED <<stores, contentPath, speed, limiter, task, found, left>>

-----------------------------------------------------------------------------
(* handleManifest and GetManifest *)

\* handleManifest and handleBlob know where to begin, and AllIdentifiers.
Is(c, op, label) == task[c].op = op /\ pc[c] = label

\* A tag is resolved once; what it is bound to later does not matter.
ManifestDigest(c) ==
  /\ Is(c, "manifest", "start")
  /\ LET d == IF task[c].name = None THEN task[c].dgst ELSE store[task[c].name]
     IN  \/ d = None /\ Fail(c, 404)
         \/ /\ d # None
            /\ dgst' = [dgst EXCEPT ![c] = d] /\ Goto(c, "read")
            /\ UNCHANGED <<stores, contentPath, speed, limiter, task, aside, walked, answer>>

\* The manifest is in memory: headers, and the body unless it is a HEAD.
Reply(c, type) ==
  LET n == IF task[c].method = "HEAD" THEN 0 ELSE Docs[dgst[c]].size
  IN  /\ sent' = [sent EXCEPT ![c] =
           [status |-> 200, size |-> n, type |-> type, dgst |-> dgst[c]]]
      /\ resp' = [resp EXCEPT ![c].size = n]
      /\ Done(c)
      /\ UNCHANGED <<stores, contentPath, speed, limiter, task, found, left>>

\* GetManifest up to lookupMediaType, whatever the digest is of.
ManifestRead(c) ==
  /\ Is(c, "manifest", "read")
  /\ \/ (dgst[c] \notin local \/ Docs[dgst[c]].form = "binary") /\ Fail(c, 404)
     \/ /\ dgst[c] \in local
        /\ \/ Docs[dgst[c]].form = "typed" /\ Reply(c, Docs[dgst[c]].type)
           \/ Docs[dgst[c]].form = "image" /\ Reply(c, "config")
           \/ /\ Docs[dgst[c]].form = "json"
              /\ Goto(c, "images")
              /\ UNCHANGED <<stores, contentPath, speed, limiter, task, found, answer>>

\* lookupMediaType: the descriptor of an image with this target,
LookupImages(c) ==
  /\ pc[c] = "images"
  /\ \/ dgst[c] \in Range(store) /\ Reply(c, Docs[dgst[c]].type)
     \/ /\ dgst[c] \notin Range(store) /\ Goto(c, "info")
        /\ UNCHANGED <<stores, contentPath, speed, limiter, task, found, answer>>

\* or one of its distribution labels,
LookupInfo(c) ==
  /\ pc[c] = "info"
  /\ \/ (dgst[c] \notin local \/ Docs[dgst[c]].sources = {}) /\ Fail(c, 404)
     \/ /\ dgst[c] \in local
        /\ \E s \in Docs[dgst[c]].sources : aside' = [aside EXCEPT ![c] = s]
        /\ Goto(c, "parents")
        /\ UNCHANGED <<stores, contentPath, speed, limiter, task, dgst, walked, answer>>

Parents(c) == {p \in local : aside[c] \in Docs[p].sources /\ dgst[c] \in Children(p)}

\* for the first content with that label that refers to it,
LookupParent(c) ==
  /\ pc[c] = "parents"
  /\ \/ Parents(c) = {} /\ Fail(c, 404)
     \/ /\ \E p \in Parents(c) : aside' = [aside EXCEPT ![c] = p]
        /\ Goto(c, "parent")
        /\ UNCHANGED <<stores, contentPath, speed, limiter, task, dgst, walked, answer>>

\* Mutant: the media type of the parent.
ParentType(p, d) == Docs[p].type

\* The media type p's descriptor of d gives.
Descriptor(p, d) == Docs[CHOOSE e \in Children(p) : e = d].type

\* and the descriptor in it.
LookupDescriptor(c) ==
  /\ pc[c] = "parent"
  /\ \/ aside[c] \notin local /\ Fail(c, 404)
     \/ aside[c] \in local /\ Reply(c, Descriptor(aside[c], dgst[c]))

-----------------------------------------------------------------------------
(* handleBlob and GetBlob *)

BlobSize(c) ==
  /\ Is(c, "blob", "start")
  /\ \/ task[c].dgst \notin local /\ Fail(c, 500)
     \/ /\ task[c].dgst \in local
        /\ dgst' = [dgst EXCEPT ![c] = task[c].dgst]
        /\ \/ /\ task[c].method = "HEAD" /\ Done(c)
              /\ sent' = [sent EXCEPT ![c] = Ok([@ EXCEPT !.dgst = task[c].dgst])]
           \/ /\ task[c].method = "GET" /\ Goto(c, "open")
              /\ sent' = [sent EXCEPT ![c].dgst = task[c].dgst]
        /\ UNCHANGED <<stores, contentPath, speed, limiter, task, aside, walked, left, resp>>

BlobOpen(c) ==
  /\ pc[c] = "open"
  /\ \/ dgst[c] \notin local /\ Fail(c, 500)
     \/ /\ dgst[c] \in local
        /\ left' = [left EXCEPT ![c] = Docs[dgst[c]].size] /\ Goto(c, "copy")
        /\ UNCHANGED <<stores, contentPath, speed, limiter, task, found, resp, sent>>

\* Mutant: a file that is removed cannot be read on.
ReadableWhileLocal(c) == dgst[c] \in local

\* An open file can be read to its end, the content store is asked for each part.
Readable(c) == contentPath \/ dgst[c] \in local

\* Mutant: the buffer is written whole, also if the end of the blob does not fill it.
WholeBuffer(c) == Chunk

\* What one round of io.Copy reads.
Part(c) == Min({left[c], Chunk})

\* One round of io.Copy. With a throttler it writes through writer.Write: first the
\* bytes, then the tokens for them are taken, from the bucket of all calls, and slept
\* for. It fails if they cannot be had, and io.Copy with it.
BlobCopy(c) ==
  /\ pc[c] = "copy" /\ sleep[c] = 0 /\ left[c] > 0 /\ Readable(c)
  /\ left' = [left EXCEPT ![c] = @ - Part(c)]
  /\ sent' = [sent EXCEPT ![c] = Ok([@ EXCEPT !.size = sent[c].size + Part(c)])]
  /\ total' = total + Part(c)
  /\ resp' = IF Throttled THEN [resp EXCEPT ![c].size = @ + Part(c)] ELSE resp
  /\ \/ ~Throttled /\ UNCHANGED <<tokens, sleep, pc>>
     \/ /\ Throttled /\ TRUE \in Reserved
        /\ tokens' = tokens - Part(c) /\ sleep' = [sleep EXCEPT ![c] = Delay(tokens')]
        /\ UNCHANGED pc
     \/ FALSE \in Reserved /\ Done(c) /\ UNCHANGED <<tokens, sleep>>
  /\ UNCHANGED <<stores, contentPath, speed, now, task, found>>

\* Mutant: ReadFrom does not count.
NotCounted(c) == resp[c].size

\* The size when io.Copy returns: ReadFrom adds all of it, Write has added each part.
Counted(c) == IF Throttled THEN resp[c].size ELSE sent[c].size

\* io.Copy returns: all is copied, or it cannot be read on, or the client has gone.
\* handleBlob logs the error.
BlobEnd(c, why) ==
  /\ pc[c] = "copy" /\ sleep[c] = 0
  /\ CASE why = "eof" -> left[c] = 0
       [] why = "unreadable" -> left[c] > 0 /\ ~Readable(c)
       [] why = "gone" -> left[c] > 0
  /\ resp' = [resp EXCEPT ![c].size = Counted(c)]
  /\ sent' = [sent EXCEPT ![c] = Ok(@)]
  /\ Goto(c, IF why = "gone" THEN "gone" ELSE "done")
  /\ UNCHANGED <<stores, contentPath, speed, limiter, task, found, left>>

-----------------------------------------------------------------------------
(* AllIdentifiers *)

WalkStart(c) ==
  /\ Is(c, "walk", "start")
  /\ \/ store[task[c].name] = None /\ Goto(c, "error") /\ UNCHANGED <<dgst, todo>>
     \/ /\ store[task[c].name] # None
        /\ dgst' = [dgst EXCEPT ![c] = store[task[c].name]]
        /\ todo' = [todo EXCEPT ![c] = <<store[task[c].name]>>]
        /\ Goto(c, "walk")
  /\ UNCHANGED <<stores, contentPath, speed, limiter, task, aside, keys, platforms, descs, answer>>

\* The handler of images.Walk on the next descriptor: what it adds to the keys, and
\* for an index the platforms it has to look for.
WalkVisit(c) ==
  /\ pc[c] = "walk" /\ todo[c] # <<>>
  /\ LET d == Head(todo[c])
     IN  \/ /\ Docs[d].type = "index" /\ d \in local
            /\ keys' = [keys EXCEPT ![c] = Append(@, d)]
            /\ todo' = [todo EXCEPT ![c] = Tail(@)]
            /\ platforms' = [platforms EXCEPT ![c] = Docs[d].children]
            /\ Goto(c, "platforms")
         \/ /\ Docs[d].type = "manifest" /\ d \in local
            /\ keys' = [keys EXCEPT ![c] = Append(@, d) \o Docs[d].children]
            /\ todo' = [todo EXCEPT ![c] = Tail(@)]
            /\ UNCHANGED <<platforms, pc>>
         \/ /\ Docs[d].type \notin {"index", "manifest"} \/ d \notin local
            /\ Goto(c, "error")
            /\ UNCHANGED <<keys, todo, platforms>>
  /\ UNCHANGED <<stores, contentPath, speed, limiter, task, dgst, aside, descs, answer>>

\* Mutant: one local platform will do.
FirstPlatform(c) == IF Head(platforms[c]) \in local THEN <<>> ELSE Tail(platforms[c])

\* The loop over the platforms goes on, whether this one is there or not.
NextPlatforms(c) == Tail(platforms[c])

\* One question to the content store. A platform that is not there is skipped.
WalkPlatform(c) ==
  /\ pc[c] = "platforms" /\ platforms[c] # <<>>
  /\ descs' = [descs EXCEPT ![c] =
       IF Head(platforms[c]) \in local THEN Append(@, Head(platforms[c])) ELSE @]
  /\ platforms' = [platforms EXCEPT ![c] = NextPlatforms(c)]
  /\ UNCHANGED <<stores, contentPath, speed, limiter, task, pc, dgst, aside, todo, keys, answer>>

\* The platforms that were there come before the other descriptors.
WalkDescend(c) ==
  /\ pc[c] = "platforms" /\ platforms[c] = <<>>
  /\ \/ descs[c] = <<>> /\ Goto(c, "error") /\ UNCHANGED <<todo, descs>>
     \/ /\ descs[c] # <<>>
        /\ todo' = [todo EXCEPT ![c] = descs[c] \o @]
        /\ descs' = [descs EXCEPT ![c] = <<>>]
        /\ Goto(c, "walk")
  /\ UNCHANGED <<stores, contentPath, speed, limiter, task, dgst, aside, keys, platforms, answer>>

WalkEnd(c) ==
  /\ pc[c] = "walk" /\ todo[c] = <<>>
  /\ Done(c)
  /\ UNCHANGED <<stores, contentPath, speed, limiter, task, found, answer>>

-----------------------------------------------------------------------------
(* Containerd: the environment *)

Change ==
  /\ changes < MaxChanges /\ changes' = changes + 1
  /\ \/ store' \in Stores \ {store} /\ UNCHANGED local
     \/ \E d \in local : local' = local \ {d} /\ UNCHANGED store
  /\ UNCHANGED <<contentPath, speed, limiter, task, pc, found, answer>>

-----------------------------------------------------------------------------

Init ==
  /\ store \in Stores /\ local \in Locals /\ changes = 0
  /\ \E w \in Workloads : task = w.task /\ speed = w.speed /\ contentPath = w.contentPath
  /\ tokens = InitialTokens /\ sleep = [c \in Calls |-> 0] /\ now = 0 /\ total = 0
  /\ pc = [c \in Calls |-> "start"]
  /\ dgst = [c \in Calls |-> None] /\ aside = [c \in Calls |-> None]
  /\ todo = [c \in Calls |-> <<>>] /\ keys = [c \in Calls |-> <<>>]
  /\ platforms = [c \in Calls |-> <<>>] /\ descs = [c \in Calls |-> <<>>]
  /\ left = [c \in Calls |-> 0]
  /\ resp = [c \in Calls |-> [status |-> 0, size |-> 0]]
  /\ sent = [c \in Calls |-> NotSent]

Manifest(c) ==
  \/ ManifestDigest(c) \/ ManifestRead(c)
  \/ LookupImages(c) \/ LookupInfo(c) \/ LookupParent(c) \/ LookupDescriptor(c)
Blob(c) ==
  BlobSize(c) \/ BlobOpen(c) \/ BlobCopy(c) \/ \E why \in {"eof", "unreadable", "gone"} : BlobEnd(c, why)
Walk(c) == WalkStart(c) \/ WalkVisit(c) \/ WalkPlatform(c) \/ WalkDescend(c) \/ WalkEnd(c)

Next == (\E c \in Calls : Manifest(c) \/ Blob(c) \/ Walk(c)) \/ Tick \/ Change

\* Goroutines that can run do, and time passes for those that sleep.
Fairness == WF_vars(Tick) /\ \A c \in Calls : WF_vars(Manifest(c) \/ Blob(c) \/ Walk(c))

Spec == Init /\ [][Next]_vars /\ Fairness

-----------------------------------------------------------------------------
(* Properties *)

TypeOK ==
  /\ store \in [Names -> Digests \cup {None}] /\ local \subseteq Digests
  /\ \E w \in Workloads : task = w.task /\ speed = w.speed /\ contentPath = w.contentPath
  /\ tokens \in Int /\ tokens <= Burst /\ now \in Nat /\ total \in Nat /\ changes \in 0 .. MaxChanges
  /\ \A c \in Calls :
       /\ sleep[c] \in Nat \cup {Forever} /\ left[c] \in Nat
       /\ pc[c] \in {"start", "read", "images", "info", "parents", "parent", "open", "copy",
                     "walk", "platforms", "done", "gone", "error"}
       /\ dgst[c] \in Digests \cup {None}
       /\ {todo[c], keys[c], platforms[c], descs[c]} \subseteq Seq(Digests)
       /\ resp[c] \in [status : {0, 404, 500}, size : Nat]
       /\ sent[c].status \in {0, 200, 404, 500} /\ sent[c].size \in Nat
       /\ sent[c].type \in Types \cup {None}

\* The client of the call is there to get its response.
Responding(c) == task[c].op # "walk" /\ pc[c] = "done"

\* What handle records when a handler returns, in logs and metrics, is what the client
\* was sent, by whichever of Write, ReadFrom and WriteError.
RecordedAsSent ==
  \A c \in Calls : Responding(c) =>
    Status(resp[c]) = sent[c].status /\ resp[c].size = sent[c].size

\* A manifest is served whole, with the media type of the document its digest header
\* names: also if the document does not say it, the tag has moved on, or the images
\* and parents lookupMediaType goes by are removed on the way.
ServedAsStored ==
  \A c \in Calls : Responding(c) /\ task[c].op = "manifest" /\ sent[c].status = 200 =>
    /\ sent[c].type = Docs[sent[c].dgst].type
    /\ sent[c].size = IF task[c].method = "HEAD" THEN 0 ELSE Docs[sent[c].dgst].size

\* The rate that was asked for is more than zero and fits an int.
RateFits == ~Throttled \/ speed.v * Unit[speed.unit] \in 1 .. MaxInt

\* With a content path, a blob that has begun to be served is served whole, even if
\* containerd collects it meanwhile. (At a rate that does not fit, it may be cut off.)
BlobWhole ==
  \A c \in Calls :
    Responding(c) /\ task[c].op = "blob" /\ task[c].method = "GET" /\ sent[c].status = 200
      /\ contentPath /\ RateFits => sent[c].size = Docs[sent[c].dgst].size

\* With an index its local platforms, with a manifest all of it.
Closed(S) ==
  \A d \in S : /\ Docs[d].type = "index" => Children(d) \cap local \subseteq S
               /\ Docs[d].type = "manifest" => Children(d) \subseteq S

\* The least such set with the target in it.
Identifiers(target) ==
  {d \in Digests : \A S \in SUBSET Digests : target \in S /\ Closed(S) => d \in S}

\* AllIdentifiers finds all identifiers of an image and no others. Whatever is
\* collected during the walk, it gives no part of a manifest without the rest.
WalkComplete ==
  \A c \in Calls : task[c].op = "walk" /\ pc[c] = "done" =>
    LET K == Range(keys[c])
    IN  /\ changes = 0 => K = Identifiers(dgst[c])
        /\ dgst[c] \in K
        /\ \A d \in K : /\ Docs[d].type = "manifest" => Children(d) \subseteq K
                        /\ Docs[d].type = "index" => Children(d) \cap K # {}

\* All transfers together keep to the rate, but for one buffer of each: the limiter
\* is shared, empty at the start, and paid after each write.
RateBounded == Throttled => total <= Rate * now + Cardinality(Calls) * Chunk

\* At a rate that fits, or at none, every request is answered and every walk ends. At
\* others writer.Write may sleep for ever.
CallsEnd == \A c \in Calls : RateFits ~> pc[c] \in {"done", "gone", "error"}
=============================================================================
