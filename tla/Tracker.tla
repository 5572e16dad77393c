------------------------------ MODULE Tracker ------------------------------
(***************************************************************************)
(* The image-state tracker of one node: Track, all and update of           *)
(* pkg/state/state.go, fed by Containerd.Subscribe and ListImages of       *)
(* pkg/oci/containerd.go and publishing through Router.Advertise.          *)
(*                                                                         *)
(* Three goroutines run beside containerd itself: the subscriber that      *)
(* turns containerd's envelopes into image events, the channel.Merge       *)
(* helpers that hold at most one value each, and Track's select loop.      *)
(* The image store can change between any two of their steps.              *)
(***************************************************************************)
EXTENDS Integers, Sequences, FiniteSets, Functions

CONSTANTS
  Names,             \* image names: records [repo, tag, dgst]; tag "" and dgst None when absent
  Digests,           \* digests of indexes, manifests, configs and layers
  None,              \* the empty digest, and "no value"
  Identifiers,       \* the digests images.Walk yields for a target, in order
  Bindings,          \* the <<name, digest>> pairs containerd may store
  ResolveLatestTag,  \* RegistryCmd.ResolveLatestTag
  Interruptions,     \* which of "cancel" and "stream" may happen
  MaxChanges,        \* bound: changes containerd makes to its image store
  MaxFaults          \* bound: calls that fail for a reason outside this model

ASSUME TrackerAssumption ==
  /\ \A n \in Names : /\ n = [repo |-> n.repo, tag |-> n.tag, dgst |-> n.dgst]
                      /\ n.dgst \in Digests \cup {None}
  /\ IsFiniteSet(Names)
  /\ None \notin Digests
  /\ Identifiers \in [Digests -> Seq(Digests)]
  /\ Bindings \subseteq Names \X Digests
  /\ ResolveLatestTag \in BOOLEAN
  /\ Interruptions \subseteq {"cancel", "stream"}
  /\ MaxChanges \in Nat /\ MaxFaults \in Nat

VARIABLES
  store,       \* containerd's image store: name -> target digest, or None
  stream,      \* envelopes containerd has published and the subscriber has not read
  streamErr,   \* containerd's error channel: "open", "held" (its error undelivered), "closed"
  envClosed,   \* containerd has closed the envelope channel
  sub,         \* the subscriber goroutine: what it is about to do, and with which event
  heldErr,     \* the Merge goroutine of errCh holds an error for Track
  immediate,   \* the tick of immediateCh has not been received
  ticks,       \* ticks waiting: one in the ticker's channel, one held by Merge
  ctxDone,     \* the context has been cancelled
  pc,          \* where Track is
  syncing,     \* update was called by all() rather than by the select loop
  todo,        \* images of the listing that all() has not reached
  targets,     \* digests all() believes advertised by this re-sync
  errs,        \* all() has collected an error
  cur, keys,   \* the event update() works on, and the keys it will advertise
  gauge,       \* the four Advertised* metrics
  advertised,  \* keys provided to the DHT since the start
  fresh,       \* history: keys provided by the running re-sync
  dirty,       \* history: names that changed since the running re-sync listed the store
  changes, faults  \* how much of the two bounds is used

containerdVars == <<store, stream, streamErr, envClosed, dirty, changes>>
subVars == <<sub, heldErr>>
tickVars == <<immediate, ticks>>
loopVars == <<pc, syncing, todo, targets, errs, cur, keys>>
outVars == <<gauge, advertised, fresh>>
vars == <<containerdVars, subVars, tickVars, loopVars, outVars, ctxDone, faults>>

EventTypes == {"CREATE", "UPDATE", "DELETE"}
Images == [name : Names, dgst : Digests]
ImageEvents == [img : Images, type : EventTypes]
TagKeys == {[repo |-> n.repo, tag |-> n.tag] : n \in Names}
Keys == TagKeys \cup Digests
NoGauges == [images |-> 0, tags |-> 0, digests |-> 0, keys |-> 0]

-----------------------------------------------------------------------------
(* Image names *)

\* Parse: a digest in the name must agree with the target, and one of the two
\* must be there. None stands for the error.
Parse(s, extraDgst) ==
  LET dgst == IF s.dgst = None THEN extraDgst ELSE s.dgst
  IN  IF dgst = None \/ (extraDgst # None /\ dgst # extraDgst)
      THEN None
      ELSE [name |-> s, dgst |-> dgst]

IsLatestTag(img) == img.name.tag = "latest"

TagName(img) == IF img.name.tag = "" THEN <<>> ELSE <<[repo |-> img.name.repo, tag |-> img.name.tag]>>

\* The keys update() starts from: not the latest tag, unless it is to be resolved.
TagKey(img) == IF ~ResolveLatestTag /\ IsLatestTag(img) THEN <<>> ELSE TagName(img)

\* AllIdentifiers looks the image up by name, so it walks the target of now, not the
\* digest of the listing or of the event.
AllIdentifiers(img) == Identifiers[store[img.name]]

\* Mutant: the tag is dropped together with the digests.
TagOnlyWithDigests(img, skipDigests) ==
  IF skipDigests THEN <<>> ELSE TagKey(img) \o AllIdentifiers(img)

\* What update() advertises.
KeysToAdvertise(img, skipDigests) ==
  TagKey(img) \o (IF skipDigests THEN <<>> ELSE AllIdentifiers(img))

Stored == {n \in Names : store[n] # None}

-----------------------------------------------------------------------------
(* Containerd: the environment *)

Publish(n, type) ==
  /\ changes < MaxChanges
  /\ changes' = changes + 1
  /\ stream' = IF streamErr = "open" THEN Append(stream, [name |-> n, type |-> type]) ELSE stream
  /\ dirty' = IF syncing THEN dirty \cup {n} ELSE dirty
  /\ UNCHANGED <<streamErr, envClosed, subVars, tickVars, loopVars, outVars, ctxDone, faults>>

SetImage(n, d) ==
  /\ <<n, d>> \in Bindings
  /\ store[n] # d
  /\ store' = [store EXCEPT ![n] = d]
  /\ Publish(n, IF store[n] = None THEN "CREATE" ELSE "UPDATE")

RemoveImage(n) ==
  /\ n \in Stored
  /\ store' = [store EXCEPT ![n] = None]
  /\ Publish(n, "DELETE")

\* The event stream breaks: an error is reported, and the envelope channel may
\* or may not be closed with it.
StreamFails ==
  /\ "stream" \in Interruptions
  /\ streamErr = "open"
  /\ streamErr' = "held"
  /\ envClosed' \in BOOLEAN
  /\ UNCHANGED <<store, stream, dirty, changes, subVars, tickVars, loopVars, outVars, ctxDone, faults>>

Cancel ==
  /\ "cancel" \in Interruptions
  /\ ~ctxDone
  /\ ctxDone' = TRUE
  /\ UNCHANGED <<containerdVars, subVars, tickVars, loopVars, outVars, faults>>

\* A call into containerd or the DHT fails. Once the context is cancelled any
\* call may; before that the bound counts the failures.
Fault ==
  \/ ctxDone /\ UNCHANGED faults
  \/ ~ctxDone /\ faults < MaxFaults /\ faults' = faults + 1

-----------------------------------------------------------------------------
(* The subscriber goroutine of Containerd.Subscribe *)

\* Mutant: the image is not read from the store.
EventImageByName(e) == Parse(e.name, None)

\* The image of an envelope: create and update events read the store again,
\* delete events have nothing but the name.
EventImage(e) ==
  IF e.type = "DELETE"
  THEN Parse(e.name, None)
  ELSE IF store[e.name] = None THEN None ELSE Parse(e.name, store[e.name])

\* Mutant: the goroutine goes on after an error.
ReceivedUnchecked(e) == [pc |-> "img", event |-> [img |-> EventImage(e), type |-> e.type]]

Received(e) ==
  IF EventImage(e) = None
  THEN [pc |-> "err", event |-> None]
  ELSE [pc |-> "img", event |-> [img |-> EventImage(e), type |-> e.type]]

\* An envelope is received; reading its image may fail.
SubReceive ==
  /\ sub.pc = "recv" /\ stream # <<>>
  /\ \/ sub' = Received(Head(stream)) /\ UNCHANGED faults
     \/ Head(stream).type # "DELETE" /\ Fault /\ sub' = [pc |-> "err", event |-> None]
  /\ stream' = Tail(stream)
  /\ UNCHANGED <<store, streamErr, envClosed, dirty, changes, heldErr,
                 tickVars, loopVars, outVars, ctxDone>>

\* errCh <- err: the Merge goroutine of errCh takes it when its hands are free.
SubReport ==
  /\ sub.pc = "err" /\ ~heldErr
  /\ heldErr' = TRUE
  /\ sub' = [pc |-> "recv", event |-> None]
  /\ UNCHANGED <<containerdVars, tickVars, loopVars, outVars, ctxDone, faults>>

\* Mutant: the goroutine ends without closing its channels.
SubExitSilently ==
  /\ sub.pc = "recv" /\ stream = <<>> /\ envClosed
  /\ sub' = [pc |-> "exited", event |-> None]
  /\ UNCHANGED <<containerdVars, heldErr, tickVars, loopVars, outVars, ctxDone, faults>>

\* The range over the envelopes ends: imgCh and errCh are closed.
SubClose ==
  /\ sub.pc = "recv" /\ stream = <<>> /\ envClosed
  /\ sub' = [pc |-> "closed", event |-> None]
  /\ UNCHANGED <<containerdVars, heldErr, tickVars, loopVars, outVars, ctxDone, faults>>

-----------------------------------------------------------------------------
(* The ticker, merged with immediateCh *)

\* Mutant: the periodic ticker is not merged in.
TickerNeverFires == FALSE /\ UNCHANGED vars

TickerFire ==
  /\ ticks < 2
  /\ ticks' = ticks + 1
  /\ UNCHANGED <<containerdVars, subVars, immediate, loopVars, outVars, ctxDone, faults>>

ReceiveTick ==
  \/ immediate /\ immediate' = FALSE /\ UNCHANGED ticks
  \/ ticks > 0 /\ ticks' = ticks - 1 /\ UNCHANGED immediate

-----------------------------------------------------------------------------
(* update(): called by the select loop for an event and by all() for an image *)

CountImage(g, img) ==
  [g EXCEPT !.images = @ + 1,
            !.tags = IF img.name.tag = "" THEN @ ELSE @ + 1,
            !.digests = IF img.name.tag = "" THEN @ + 1 ELSE @]

Return == pc' = IF syncing THEN "sync" ELSE "select"

\* update() up to the call of Advertise. A delete event only lowers the gauge.
Update(event, skipDigests) ==
  \/ /\ event.type = "DELETE"
     /\ gauge' = [gauge EXCEPT !.images = @ - 1]
     /\ Return
     /\ UNCHANGED <<cur, keys, errs, advertised, fresh, faults>>
  \/ /\ event.type # "DELETE"
     /\ skipDigests \/ event.img.name \in Stored
     /\ cur' = event
     /\ keys' = KeysToAdvertise(event.img, skipDigests)
     /\ pc' = "advertise"
     /\ UNCHANGED <<errs, outVars, faults>>
  \/ /\ event.type # "DELETE" /\ ~skipDigests  \* AllIdentifiers fails
     /\ \/ event.img.name \notin Stored /\ UNCHANGED faults
        \/ Fault
     /\ errs' = (errs \/ syncing)
     /\ Return
     /\ UNCHANGED <<cur, keys, outVars>>

Leave == cur' = None /\ keys' = <<>> /\ Return

\* Mutant: a target is recorded whether or not its keys were advertised.
TargetsAlways(ok) == IF syncing THEN targets \cup {cur.img.dgst} ELSE targets

\* all() records the digest of an image whose update succeeded.
TargetsAfter(ok) == IF syncing /\ ok THEN targets \cup {cur.img.dgst} ELSE targets

AdvertiseOK ==
  /\ pc = "advertise"
  /\ advertised' = advertised \cup Range(keys)
  /\ fresh' = IF syncing THEN fresh \cup Range(keys) ELSE fresh
  /\ targets' = TargetsAfter(TRUE)
  /\ gauge' = IF syncing THEN [CountImage(gauge, cur.img) EXCEPT !.keys = @ + Len(keys)]
              ELSE IF cur.type = "CREATE" THEN CountImage(gauge, cur.img) ELSE gauge
  /\ Leave
  /\ UNCHANGED <<containerdVars, subVars, tickVars, syncing, todo, errs, ctxDone, faults>>

\* Advertise stops at the first key that cannot be provided.
AdvertiseFail ==
  /\ pc = "advertise"
  /\ Fault
  /\ \E i \in 1 .. Len(keys) :
       LET provided == {keys[j] : j \in 1 .. i - 1}
       IN  /\ advertised' = advertised \cup provided
           /\ fresh' = IF syncing THEN fresh \cup provided ELSE fresh
  /\ errs' = (errs \/ syncing)
  /\ targets' = TargetsAfter(FALSE)
  /\ Leave
  /\ UNCHANGED <<containerdVars, subVars, tickVars, syncing, todo, gauge, ctxDone>>

-----------------------------------------------------------------------------
(* all(): the periodic re-sync *)

\* ListImages fails as a whole when one name does not parse.
Listable == \A n \in Stored : Parse(n, store[n]) # None

\* Mutant: the gauges are not reset.
KeepGauges == gauge

ResetGauges == NoGauges

TrackTick ==
  /\ pc = "select"
  /\ ReceiveTick
  /\ \/ /\ Listable
        /\ todo' = {Parse(n, store[n]) : n \in Stored}
        /\ gauge' = ResetGauges
        /\ pc' = "sync" /\ syncing' = TRUE
        /\ UNCHANGED <<store, stream, streamErr, envClosed, changes, faults>>
        /\ dirty' = {}
     \/ /\ \/ ~Listable /\ UNCHANGED faults
           \/ Fault
        /\ UNCHANGED <<containerdVars, todo, gauge, pc, syncing>>
  /\ UNCHANGED <<subVars, targets, errs, cur, keys, advertised, fresh, ctxDone>>

SyncImage ==
  /\ pc = "sync"
  /\ \E img \in todo :
       /\ todo' = todo \ {img}
       /\ Update([img |-> img, type |-> "UPDATE"], img.dgst \in targets)
  /\ UNCHANGED <<containerdVars, subVars, tickVars, syncing, targets, ctxDone>>

\* all() returns; Track logs the joined error, if any, and goes on.
SyncEnd ==
  /\ pc = "sync" /\ todo = {}
  /\ pc' = "select" /\ syncing' = FALSE
  /\ targets' = {} /\ errs' = FALSE /\ fresh' = {} /\ dirty' = {}
  /\ UNCHANGED <<store, stream, streamErr, envClosed, changes, subVars, tickVars, todo,
                 cur, keys, gauge, advertised, ctxDone, faults>>

-----------------------------------------------------------------------------
(* The other cases of Track's select *)

\* Mutant: a break in the case of the context, which only leaves the select.
BreakOnDone == pc = "select" /\ ctxDone /\ UNCHANGED vars

TrackDone ==
  /\ pc = "select" /\ ctxDone
  /\ pc' = "stopped"
  /\ UNCHANGED <<containerdVars, subVars, tickVars, syncing, todo, targets, errs, cur, keys,
                 outVars, ctxDone, faults>>

TrackEvent ==
  /\ pc = "select" /\ sub.pc = "img"
  /\ sub' = [pc |-> "recv", event |-> None]
  /\ Update(sub.event, FALSE)
  /\ UNCHANGED <<containerdVars, heldErr, tickVars, syncing, todo, targets, ctxDone>>

TrackError ==
  /\ pc = "select"
  /\ \/ heldErr /\ heldErr' = FALSE /\ UNCHANGED streamErr
     \/ streamErr = "held" /\ streamErr' = "closed" /\ UNCHANGED heldErr
  /\ UNCHANGED <<store, stream, envClosed, dirty, changes, sub, tickVars, loopVars, outVars,
                 ctxDone, faults>>

\* eventCh is closed, or the merged error channel is because both its inputs are:
\* Track returns an error.
TrackClosed ==
  /\ pc = "select" /\ sub.pc = "closed"
  /\ pc' = "failed"
  /\ UNCHANGED <<containerdVars, subVars, tickVars, syncing, todo, targets, errs, cur, keys,
                 outVars, ctxDone, faults>>

-----------------------------------------------------------------------------

Init ==
  /\ store \in [Names -> Digests \cup {None}]
  /\ \A n \in Stored : <<n, store[n]>> \in Bindings
  /\ stream = <<>> /\ streamErr = "open" /\ envClosed = FALSE
  /\ sub = [pc |-> "recv", event |-> None] /\ heldErr = FALSE
  /\ immediate = TRUE /\ ticks = 0 /\ ctxDone = FALSE
  /\ pc = "select" /\ syncing = FALSE /\ todo = {} /\ targets = {} /\ errs = FALSE
  /\ cur = None /\ keys = <<>>
  /\ gauge = NoGauges /\ advertised = {} /\ fresh = {} /\ dirty = {}
  /\ changes = 0 /\ faults = 0

Containerd ==
  \/ \E n \in Names : \E d \in Digests : SetImage(n, d)
  \/ \E n \in Names : RemoveImage(n)
  \/ StreamFails

Subscriber == SubReceive \/ SubReport \/ SubClose

\* Track between two selects.
Busy == AdvertiseOK \/ AdvertiseFail \/ SyncImage \/ SyncEnd

Select == TrackDone \/ TrackTick \/ TrackEvent \/ TrackError \/ TrackClosed

Next == Containerd \/ Cancel \/ Subscriber \/ TickerFire \/ Busy \/ Select

\* Goroutines that can run do run. Go's select picks among the ready cases at
\* random, so a case that is ready again and again is taken: strong fairness.
Fairness ==
  /\ WF_vars(SubReceive) /\ WF_vars(SubReport) /\ WF_vars(SubClose)
  /\ WF_vars(TickerFire)
  /\ WF_vars(Busy)
  /\ SF_vars(TrackDone) /\ SF_vars(TrackTick) /\ SF_vars(TrackEvent)
  /\ SF_vars(TrackError) /\ SF_vars(TrackClosed)

Spec == Init /\ [][Next]_vars /\ Fairness
-----------------------------------------------------------------------------
(* Properties *)

TypeOK ==
  /\ store \in [Names -> Digests \cup {None}]
  /\ stream \in Seq([name : Names, type : EventTypes])
  /\ streamErr \in {"open", "held", "closed"} /\ envClosed \in BOOLEAN
  /\ sub \in [pc : {"recv", "err", "closed"}, event : {None}] \cup [pc : {"img"}, event : ImageEvents]
  /\ heldErr \in BOOLEAN /\ immediate \in BOOLEAN /\ ticks \in 0 .. 2 /\ ctxDone \in BOOLEAN
  /\ pc \in {"select", "sync", "advertise", "stopped", "failed"}
  /\ syncing \in BOOLEAN /\ errs \in BOOLEAN
  /\ todo \subseteq Images /\ targets \subseteq Digests
  /\ cur \in (IF pc = "advertise" THEN ImageEvents ELSE {None})
  /\ keys \in Seq(Keys)
  /\ gauge \in [images : Int, tags : Nat, digests : Nat, keys : Nat]
  /\ advertised \subseteq Keys /\ fresh \subseteq Keys /\ dirty \subseteq Names
  /\ changes \in 0 .. MaxChanges /\ faults \in 0 .. MaxFaults

\* Every key of a stored image, had it been updated by itself.
AllKeys(n) == Range(KeysToAdvertise([name |-> n, dgst |-> store[n]], FALSE))

\* all() has gone through its listing.
SyncComplete == pc = "sync" /\ todo = {}

\* all() skips the digests of an image when targets has its digest. As long as
\* the store has not changed since the listing, every digest in targets has had
\* all its identifiers provided by this very re-sync, whichever images failed.
TargetsAdvertised ==
  syncing /\ dirty = {} => \A d \in targets : Range(Identifiers[d]) \subseteq fresh

\* A re-sync that met no error and no concurrent change has provided every tag
\* and every digest of every stored image, shared digests included.
SyncCovers ==
  SyncComplete /\ ~errs /\ dirty = {} => \A n \in Stored : AllKeys(n) \subseteq fresh

\* Whatever the events did to the gauges before, a clean re-sync makes the image
\* gauges count the stored images.
SyncRepairsGauges ==
  SyncComplete /\ ~errs /\ dirty = {} =>
    /\ gauge.images = Cardinality(Stored)
    /\ gauge.tags = Cardinality({n \in Stored : n.tag # ""})
    /\ gauge.digests = Cardinality({n \in Stored : n.tag = ""})

\* Track has received every event and every error, and no call has failed.
Quiescent ==
  /\ pc = "select" /\ stream = <<>> /\ sub.pc = "recv" /\ ~heldErr /\ ~immediate
  /\ streamErr = "open" /\ faults = 0 /\ ~ctxDone

\* Every node advertises what it stores: once Track is quiescent, the first
\* re-sync and the events between them have provided every key of every stored
\* image, without waiting for the ticker.
StoredImagesAdvertised == Quiescent => \A n \in Stored : AllKeys(n) \subseteq advertised

\* The same for an image that shares its target with no other, whatever the others do:
\* the subscriber reads the store again for each event, so an image that was bound
\* anew before its event is read is advertised as it is now.
UnsharedAdvertised ==
  Quiescent => \A n \in Stored :
    (\A m \in Names \ {n} : ~\E d \in Digests : {<<n, d>>, <<m, d>>} \subseteq Bindings)
      => AllKeys(n) \subseteq advertised

\* An image that stays in the store has all its keys provided again and again
\* while Track runs, whatever failed or was missed before: the records of the
\* DHT expire, so once is not enough.
StoredImageReadvertised ==
  \A n \in Names : \A d \in Digests :
    <>[](store[n] = d /\ pc \notin {"stopped", "failed"})
      => []<>(store[n] = d /\ AllKeys(n) \subseteq fresh)

\* Track returns once its context is cancelled.
TrackReturns == ctxDone ~> pc \in {"stopped", "failed"}

\* Track returns when containerd closes the stream of envelopes: the end of the
\* subscriber goroutine reaches the select loop.
StreamCloseNoticed == envClosed ~> pc \in {"stopped", "failed"}
=============================================================================
