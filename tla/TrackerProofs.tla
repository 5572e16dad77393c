---------------------------- MODULE TrackerProofs ----------------------------
(* Proofs about Tracker, for any image store, fault and interruption bound. *)
EXTENDS Tracker, TLAPS

\* The facts about the constants the proofs use.
LEMMA Constants ==
  /\ \A n \in Names : n.dgst \in Digests \cup {None}
  /\ None \notin Digests /\ Identifiers \in [Digests -> Seq(Digests)]
  /\ MaxChanges \in Nat /\ MaxFaults \in Nat
BY TrackerAssumption

-----------------------------------------------------------------------------
(* Names and keys *)

\* Parse succeeds with the digest it was given, if it was given one.
LEMMA ParseImage ==
  ASSUME NEW n \in Names, NEW d \in Digests \cup {None}, Parse(n, d) # None
  PROVE  /\ Parse(n, d) \in Images
         /\ d # None => Parse(n, d) = [name |-> n, dgst |-> d]
BY Constants DEF Parse, Images

\* update() starts from at most one key, that of the tag.
LEMMA TagKeyType ==
  ASSUME NEW img \in Images
  PROVE  TagKey(img) \in Seq(Keys)
<1>1. [repo |-> img.name.repo, tag |-> img.name.tag] \in Keys
  BY DEF Images, Keys, TagKeys
<1>2. <<>> \in Seq(Keys) /\ <<[repo |-> img.name.repo, tag |-> img.name.tag]>> \in Seq(Keys)
  BY <1>1
<1>3. QED
  BY <1>2 DEF TagKey, TagName

LEMMA IdentifiersType ==
  ASSUME NEW d \in Digests
  PROVE  Identifiers[d] \in Seq(Keys)
<1>1. Identifiers[d] \in Seq(Digests)
  BY Constants
<1>2. QED
  BY <1>1 DEF Keys

LEMMA KeysType ==
  ASSUME TypeOK, NEW img \in Images, NEW skip \in BOOLEAN, skip \/ img.name \in Stored
  PROVE  KeysToAdvertise(img, skip) \in Seq(Keys)
<1>1. CASE skip
  BY <1>1, TagKeyType DEF KeysToAdvertise, AllIdentifiers
<1>2. CASE ~skip
  <2>1. store[img.name] \in Digests
    BY <1>2 DEF Stored, TypeOK
  <2>2. QED
    BY <1>2, <2>1, TagKeyType, IdentifiersType DEF KeysToAdvertise, AllIdentifiers
<1>3. QED
  BY <1>1, <1>2

-----------------------------------------------------------------------------
(* Types *)

\* The type invariant, part by part.
Envelopes == [name : Names, type : EventTypes]
SubStates == [pc : {"recv", "err", "closed"}, event : {None}] \cup [pc : {"img"}, event : ImageEvents]

ContainerdType ==
  /\ store \in [Names -> Digests \cup {None}] /\ stream \in Seq(Envelopes)
  /\ streamErr \in {"open", "held", "closed"} /\ envClosed \in BOOLEAN
  /\ dirty \subseteq Names /\ changes \in 0 .. MaxChanges
SubType == sub \in SubStates /\ heldErr \in BOOLEAN
TickType == immediate \in BOOLEAN /\ ticks \in 0 .. 2
LoopType ==
  /\ pc \in {"select", "sync", "advertise", "stopped", "failed"}
  /\ syncing \in BOOLEAN /\ errs \in BOOLEAN
  /\ todo \subseteq Images /\ targets \subseteq Digests
  /\ cur \in (IF pc = "advertise" THEN ImageEvents ELSE {None})
  /\ keys \in Seq(Keys)
OutType ==
  /\ gauge \in [images : Int, tags : Nat, digests : Nat, keys : Nat]
  /\ advertised \subseteq Keys /\ fresh \subseteq Keys
BoundType == ctxDone \in BOOLEAN /\ faults \in 0 .. MaxFaults

LEMMA TypeParts ==
  TypeOK <=> ContainerdType /\ SubType /\ TickType /\ LoopType /\ OutType /\ BoundType
BY DEF TypeOK, ContainerdType, SubType, TickType, LoopType, OutType, BoundType, Envelopes, SubStates

LEMMA NextTypeParts ==
  ContainerdType' /\ SubType' /\ TickType' /\ LoopType' /\ OutType' /\ BoundType' => TypeOK'
BY DEF TypeOK, ContainerdType, SubType, TickType, LoopType, OutType, BoundType, Envelopes, SubStates

LEMMA TypeStutters ==
  /\ ContainerdType /\ UNCHANGED containerdVars => ContainerdType'
  /\ SubType /\ UNCHANGED subVars => SubType'
  /\ TickType /\ UNCHANGED tickVars => TickType'
  /\ LoopType /\ UNCHANGED loopVars => LoopType'
  /\ OutType /\ UNCHANGED outVars => OutType'
  /\ BoundType /\ UNCHANGED <<ctxDone, faults>> => BoundType'
<1>1. ContainerdType /\ UNCHANGED containerdVars => ContainerdType'
  BY DEF ContainerdType, containerdVars
<1>2. SubType /\ UNCHANGED subVars => SubType'
  BY DEF SubType, subVars
<1>3. TickType /\ UNCHANGED tickVars => TickType'
  BY DEF TickType, tickVars
<1>4. LoopType /\ UNCHANGED loopVars => LoopType'
  BY DEF LoopType, loopVars
<1>5. OutType /\ UNCHANGED outVars => OutType'
  BY DEF OutType, outVars
<1>6. BoundType /\ UNCHANGED <<ctxDone, faults>> => BoundType'
  BY DEF BoundType
<1>7. QED
  BY <1>1, <1>2, <1>3, <1>4, <1>5, <1>6

\* Containerd keeps the types.
LEMMA ContainerdStepType ==
  ASSUME TypeOK, Containerd
  PROVE  TypeOK'
<1>1. ASSUME NEW n \in Names, NEW t \in EventTypes, Publish(n, t),
             store' \in [Names -> Digests \cup {None}]
      PROVE  TypeOK'
  <2>1. stream' \in Seq(Envelopes)
    <3>1. [name |-> n, type |-> t] \in Envelopes /\ stream \in Seq(Envelopes)
      BY TypeParts DEF Envelopes, ContainerdType
    <3>2. Append(stream, [name |-> n, type |-> t]) \in Seq(Envelopes)
      BY <3>1
    <3>3. QED
      BY <1>1, <3>1, <3>2 DEF Publish
  <2>2. changes' \in 0 .. MaxChanges
    BY <1>1, Constants DEF Publish, TypeOK
  <2>3. ContainerdType'
    BY <1>1, <2>1, <2>2 DEF Publish, ContainerdType, TypeOK
  <2>4. QED
    BY <1>1, <2>3, TypeParts, NextTypeParts, TypeStutters DEF Publish
<1>2. ASSUME NEW n \in Names, NEW d \in Digests, SetImage(n, d)
      PROVE  TypeOK'
  <2>1. PICK t \in EventTypes : Publish(n, t)
    BY <1>2 DEF SetImage, EventTypes
  <2>2. store' \in [Names -> Digests \cup {None}]
    BY <1>2 DEF SetImage, TypeOK
  <2>3. QED
    BY <1>1, <2>1, <2>2
<1>3. ASSUME NEW n \in Names, RemoveImage(n)
      PROVE  TypeOK'
  <2>1. Publish(n, "DELETE") /\ "DELETE" \in EventTypes
    BY <1>3 DEF RemoveImage, EventTypes
  <2>2. store' \in [Names -> Digests \cup {None}]
    BY <1>3 DEF RemoveImage, TypeOK
  <2>3. QED
    BY <1>1, <2>1, <2>2
<1>4. CASE StreamFails
  <2>1. ContainerdType'
    BY <1>4 DEF StreamFails, ContainerdType, TypeOK, Envelopes
  <2>2. QED
    BY <1>4, <2>1, TypeParts, NextTypeParts, TypeStutters DEF StreamFails
<1>5. QED
  BY <1>2, <1>3, <1>4 DEF Containerd

\* So do the subscriber, the ticker and the cancellation.
LEMMA SubscriberStepType ==
  ASSUME TypeOK, Subscriber \/ TickerFire \/ Cancel
  PROVE  TypeOK'
<1>1. CASE SubReceive
  <2>1. Head(stream) \in Envelopes /\ stream' \in Seq(Envelopes)
    <3>1. stream \in Seq(Envelopes) /\ stream # <<>> /\ stream' = Tail(stream)
      BY <1>1, TypeParts DEF SubReceive, ContainerdType
    <3>2. QED
      BY <3>1
  <2>2. EventImage(Head(stream)) = None \/ EventImage(Head(stream)) \in Images
    <3>1. /\ Head(stream).name \in Names
          /\ store[Head(stream).name] \in Digests \cup {None}
      BY <2>1 DEF Envelopes, TypeOK
    <3>2. QED
      BY <3>1, ParseImage DEF EventImage
  <2>3. sub' \in SubStates
    <3>1. CASE EventImage(Head(stream)) = None
      BY <1>1, <3>1 DEF SubReceive, Received, SubStates
    <3>2. CASE EventImage(Head(stream)) # None
      <4>1. [img |-> EventImage(Head(stream)), type |-> Head(stream).type] \in ImageEvents
        BY <2>1, <2>2, <3>2 DEF ImageEvents, Envelopes
      <4>2. QED
        BY <1>1, <3>2, <4>1 DEF SubReceive, Received, SubStates
    <3>3. QED
      BY <3>1, <3>2
  <2>4. ContainerdType' /\ SubType'
    BY <1>1, <2>1, <2>3, TypeParts DEF SubReceive, ContainerdType, SubType
  <2>5. BoundType'
    BY <1>1, TypeParts, Constants DEF SubReceive, Fault, BoundType
  <2>6. QED
    BY <1>1, <2>4, <2>5, TypeParts, NextTypeParts, TypeStutters DEF SubReceive
<1>2. CASE SubReport \/ SubClose
  <2>1. SubType'
    <3>1. sub' \in SubStates
      BY <1>2 DEF SubReport, SubClose, SubStates
    <3>2. heldErr' \in BOOLEAN
      BY <1>2, TypeParts DEF SubReport, SubClose, SubType
    <3>3. QED
      BY <3>1, <3>2 DEF SubType
  <2>2. QED
    BY <1>2, <2>1, TypeParts, NextTypeParts, TypeStutters DEF SubReport, SubClose
<1>3. CASE TickerFire
  <2>1. TickType'
    BY <1>3 DEF TickerFire, TickType, TypeOK
  <2>2. QED
    BY <1>3, <2>1, TypeParts, NextTypeParts, TypeStutters DEF TickerFire
<1>4. CASE Cancel
  <2>1. BoundType'
    BY <1>4, TypeParts DEF Cancel, BoundType
  <2>2. QED
    BY <1>4, <2>1, TypeParts, NextTypeParts, TypeStutters DEF Cancel
<1>5. QED
  BY <1>1, <1>2, <1>3, <1>4 DEF Subscriber

\* What update() leaves to its callers: the loop's state and the metrics.
LEMMA UpdateType ==
  ASSUME TypeOK, cur = None, NEW event \in ImageEvents, NEW skip \in BOOLEAN, Update(event, skip)
  PROVE  /\ pc' \in {"select", "sync", "advertise"} /\ errs' \in BOOLEAN
         /\ cur' \in (IF pc' = "advertise" THEN ImageEvents ELSE {None}) /\ keys' \in Seq(Keys)
         /\ OutType' /\ faults' \in 0 .. MaxFaults
<1>1. CASE /\ event.type = "DELETE" /\ gauge' = [gauge EXCEPT !.images = @ - 1] /\ Return
           /\ UNCHANGED <<cur, keys, errs, advertised, fresh, faults>>
  <2>1. gauge' \in [images : Int, tags : Nat, digests : Nat, keys : Nat]
    BY <1>1 DEF TypeOK
  <2>2. OutType'
    BY <1>1, <2>1 DEF OutType, TypeOK
  <2>3. QED
    BY <1>1, <2>2 DEF Return, TypeOK
<1>2. CASE /\ skip \/ event.img.name \in Stored
           /\ cur' = event /\ keys' = KeysToAdvertise(event.img, skip) /\ pc' = "advertise"
           /\ UNCHANGED <<errs, outVars, faults>>
  <2>1. keys' \in Seq(Keys)
    BY <1>2, KeysType DEF ImageEvents
  <2>2. OutType'
    BY <1>2, TypeParts, TypeStutters
  <2>3. QED
    BY <1>2, <2>1, <2>2 DEF TypeOK
<1>3. CASE /\ UNCHANGED faults \/ Fault
           /\ errs' = (errs \/ syncing) /\ Return /\ UNCHANGED <<cur, keys, outVars>>
  <2>1. OutType'
    BY <1>3, TypeParts, TypeStutters
  <2>2. faults' \in 0 .. MaxFaults
    BY <1>3, Constants DEF TypeOK, Fault
  <2>3. errs' \in BOOLEAN
    BY <1>3 DEF TypeOK
  <2>4. QED
    BY <1>3, <2>1, <2>2, <2>3 DEF TypeOK, Return
<1>4. QED
  BY <1>1, <1>2, <1>3 DEF Update

Gauges == [images : Int, tags : Nat, digests : Nat, keys : Nat]

LEMMA CountImageType ==
  ASSUME NEW g \in Gauges, NEW img
  PROVE  CountImage(g, img) \in Gauges
<1>1. CASE img.name.tag = ""
  <2>1. CountImage(g, img) = [g EXCEPT !.images = g.images + 1, !.tags = g.tags, !.digests = g.digests + 1]
    BY <1>1 DEF CountImage
  <2>2. g.images + 1 \in Int /\ g.tags \in Nat /\ g.digests + 1 \in Nat /\ g.keys \in Nat
    BY DEF Gauges
  <2>3. QED
    BY <2>1, <2>2 DEF Gauges
<1>2. CASE img.name.tag # ""
  <2>1. CountImage(g, img) = [g EXCEPT !.images = g.images + 1, !.tags = g.tags + 1, !.digests = g.digests]
    BY <1>2 DEF CountImage
  <2>2. g.images + 1 \in Int /\ g.tags + 1 \in Nat /\ g.digests \in Nat /\ g.keys \in Nat
    BY DEF Gauges
  <2>3. QED
    BY <2>1, <2>2 DEF Gauges
<1>3. QED
  BY <1>1, <1>2

\* The re-sync and the advertising keep the types.
LEMMA BusyStepType ==
  ASSUME TypeOK, Busy
  PROVE  TypeOK'
<1> USE Constants
<1>1. ASSUME AdvertiseOK \/ AdvertiseFail
      PROVE  /\ cur' = None /\ keys' = <<>> /\ pc' \in {"sync", "select"}
             /\ targets' \subseteq Digests /\ cur \in ImageEvents
  BY <1>1 DEF AdvertiseOK, AdvertiseFail, Leave, Return, TargetsAfter, TypeOK, ImageEvents, Images
<1>2. CASE AdvertiseOK
  <2>1. LoopType'
    <3>1. UNCHANGED <<syncing, todo, errs>>
      BY <1>2 DEF AdvertiseOK
    <3>2. QED
      BY <1>1, <1>2, <3>1 DEF LoopType, TypeOK
  <2>2. Range(keys) \subseteq Keys /\ Len(keys) \in Nat
    BY DEF TypeOK, Range
  <2>3. gauge \in Gauges /\ CountImage(gauge, cur.img) \in Gauges
    BY CountImageType DEF Gauges, TypeOK
  <2>4. ASSUME NEW g \in Gauges
        PROVE  [g EXCEPT !.keys = @ + Len(keys)] \in Gauges
    BY <2>2 DEF Gauges
  <2>5. gauge' \in Gauges
    BY <1>2, <2>3, <2>4 DEF AdvertiseOK
  <2>6. OutType'
    BY <1>2, <2>2, <2>5 DEF AdvertiseOK, OutType, TypeOK, Gauges
  <2>7. QED
    BY <1>2, <2>1, <2>6, TypeParts, NextTypeParts, TypeStutters DEF AdvertiseOK
<1>3. CASE AdvertiseFail
  <2>1. LoopType'
    <3>1. errs' \in BOOLEAN /\ UNCHANGED <<syncing, todo>>
      BY <1>3 DEF AdvertiseFail, TypeOK
    <3>2. QED
      BY <1>1, <1>3, <3>1 DEF LoopType, TypeOK
  <2>2. OutType'
    <3>1. PICK i \in 1 .. Len(keys) :
            /\ advertised' = advertised \cup {keys[j] : j \in 1 .. i - 1}
            /\ fresh' = IF syncing THEN fresh \cup {keys[j] : j \in 1 .. i - 1} ELSE fresh
      BY <1>3 DEF AdvertiseFail
    <3>2. {keys[j] : j \in 1 .. i - 1} \subseteq Keys
      BY DEF TypeOK
    <3>3. QED
      BY <1>3, <3>1, <3>2 DEF AdvertiseFail, OutType, TypeOK
  <2>3. BoundType'
    <3>1. faults' \in 0 .. MaxFaults
      BY <1>3 DEF AdvertiseFail, Fault, TypeOK
    <3>2. QED
      BY <1>3, <3>1, TypeParts DEF AdvertiseFail, BoundType
  <2>4. QED
    BY <1>3, <2>1, <2>2, <2>3, TypeParts, NextTypeParts, TypeStutters DEF AdvertiseFail
<1>4. CASE SyncImage
  <2>1. PICK img \in todo : todo' = todo \ {img}
                            /\ Update([img |-> img, type |-> "UPDATE"], img.dgst \in targets)
    BY <1>4 DEF SyncImage
  <2>2. [img |-> img, type |-> "UPDATE"] \in ImageEvents /\ (img.dgst \in targets) \in BOOLEAN
    BY <2>1 DEF ImageEvents, EventTypes, TypeOK
  <2>3. cur = None
    BY <1>4 DEF SyncImage, TypeOK
  <2>4. /\ pc' \in {"select", "sync", "advertise"} /\ errs' \in BOOLEAN
        /\ cur' \in (IF pc' = "advertise" THEN ImageEvents ELSE {None}) /\ keys' \in Seq(Keys)
        /\ OutType' /\ faults' \in 0 .. MaxFaults
    BY <2>1, <2>2, <2>3, UpdateType
  <2>5. LoopType'
    BY <1>4, <2>1, <2>4 DEF SyncImage, LoopType, TypeOK
  <2>6. BoundType'
    BY <1>4, <2>4, TypeParts DEF SyncImage, BoundType
  <2>7. QED
    BY <1>4, <2>4, <2>5, <2>6, TypeParts, NextTypeParts, TypeStutters DEF SyncImage
<1>5. CASE SyncEnd
  <2>1. ContainerdType'
    BY <1>5, TypeParts DEF SyncEnd, ContainerdType
  <2>2. LoopType'
    BY <1>5 DEF SyncEnd, LoopType, TypeOK
  <2>3. OutType'
    BY <1>5, TypeParts DEF SyncEnd, OutType
  <2>4. QED
    BY <1>5, <2>1, <2>2, <2>3, TypeParts, NextTypeParts, TypeStutters DEF SyncEnd
<1>6. QED
  BY <1>2, <1>3, <1>4, <1>5 DEF Busy

\* The cases of Track's select keep the types.
LEMMA SelectStepType ==
  ASSUME TypeOK, Select
  PROVE  TypeOK'
<1> USE Constants
<1>1. CASE TrackDone \/ TrackClosed
  <2>1. LoopType'
    BY <1>1, TypeParts DEF TrackDone, TrackClosed, LoopType
  <2>2. QED
    BY <1>1, <2>1, TypeParts, NextTypeParts, TypeStutters DEF TrackDone, TrackClosed
<1>2. CASE TrackTick
  <2>1. TickType'
    <3>1. ReceiveTick /\ immediate \in BOOLEAN /\ ticks \in 0 .. 2
      BY <1>2 DEF TrackTick, TypeOK
    <3>2. CASE immediate' = FALSE /\ UNCHANGED ticks
      BY <3>1, <3>2 DEF TickType
    <3>3. CASE ticks > 0 /\ ticks' = ticks - 1 /\ UNCHANGED immediate
      <4>1. ticks' \in 0 .. 2
        BY <3>1, <3>3
      <4>2. QED
        BY <3>1, <3>3, <4>1 DEF TickType
    <3>4. QED
      BY <3>1, <3>2, <3>3 DEF ReceiveTick
  <2>2. UNCHANGED <<subVars, targets, errs, cur, keys, advertised, fresh, ctxDone>>
    BY <1>2 DEF TrackTick
  <2>3. CASE /\ Listable /\ todo' = {Parse(n, store[n]) : n \in Stored}
             /\ gauge' = ResetGauges /\ pc' = "sync" /\ syncing' = TRUE
             /\ UNCHANGED <<store, stream, streamErr, envClosed, changes, faults>>
             /\ dirty' = {}
    <3>1. todo' \subseteq Images
      <4>1. ASSUME NEW n \in Stored PROVE Parse(n, store[n]) \in Images
        <5>1. n \in Names /\ store[n] \in Digests
          BY DEF Stored, TypeOK
        <5>2. Parse(n, store[n]) # None
          BY <2>3 DEF Listable
        <5>3. QED
          BY <5>1, <5>2, ParseImage
      <4>2. QED
        BY <2>3, <4>1
    <3>2. LoopType'
      <4>1. pc = "select" /\ cur = None
        BY <1>2 DEF TrackTick, TypeOK
      <4>2. QED
        BY <2>2, <2>3, <3>1, <4>1, TypeParts DEF LoopType
    <3>3. OutType'
      <4>1. gauge' \in [images : Int, tags : Nat, digests : Nat, keys : Nat]
        BY <2>3 DEF ResetGauges, NoGauges
      <4>2. QED
        BY <2>2, <4>1, TypeParts DEF OutType
    <3>4. ContainerdType'
      BY <2>3, TypeParts DEF ContainerdType
    <3>5. QED
      BY <2>1, <2>2, <2>3, <3>2, <3>3, <3>4, TypeParts, NextTypeParts, TypeStutters
  <2>4. CASE (UNCHANGED faults \/ Fault) /\ UNCHANGED <<containerdVars, todo, gauge, pc, syncing>>
    <3>1. BoundType'
      <4>1. faults' \in 0 .. MaxFaults
        BY <2>4 DEF Fault, TypeOK
      <4>2. QED
        BY <2>2, <4>1, TypeParts DEF BoundType
    <3>2. UNCHANGED <<containerdVars, subVars, loopVars, outVars>>
      BY <2>2, <2>4 DEF loopVars, outVars
    <3>3. QED
      BY <2>1, <3>1, <3>2, TypeParts, NextTypeParts, TypeStutters
  <2>5. QED
    BY <1>2, <2>3, <2>4 DEF TrackTick
<1>3. CASE TrackEvent
  <2>1. sub.event \in ImageEvents
    BY <1>3 DEF TrackEvent, TypeOK
  <2>2. cur = None
    BY <1>3 DEF TrackEvent, TypeOK
  <2>3. /\ pc' \in {"select", "sync", "advertise"} /\ errs' \in BOOLEAN
        /\ cur' \in (IF pc' = "advertise" THEN ImageEvents ELSE {None}) /\ keys' \in Seq(Keys)
        /\ OutType' /\ faults' \in 0 .. MaxFaults
    BY <1>3, <2>1, <2>2, UpdateType DEF TrackEvent
  <2>4. LoopType'
    BY <1>3, <2>3 DEF TrackEvent, LoopType, TypeOK
  <2>5. SubType'
    <3>1. sub' \in SubStates
      BY <1>3 DEF TrackEvent, SubStates
    <3>2. QED
      BY <1>3, <3>1, TypeParts DEF TrackEvent, SubType
  <2>6. BoundType'
    BY <1>3, <2>3, TypeParts DEF TrackEvent, BoundType
  <2>7. QED
    BY <1>3, <2>3, <2>4, <2>5, <2>6, TypeParts, NextTypeParts, TypeStutters DEF TrackEvent
<1>4. CASE TrackError
  <2>1. ContainerdType' /\ SubType'
    <3>1. streamErr' \in {"open", "held", "closed"} /\ heldErr' \in BOOLEAN
      BY <1>4 DEF TrackError, TypeOK
    <3>2. QED
      BY <1>4, <3>1, TypeParts DEF TrackError, ContainerdType, SubType
  <2>2. QED
    BY <1>4, <2>1, TypeParts, NextTypeParts, TypeStutters DEF TrackError
<1>5. QED
  BY <1>1, <1>2, <1>3, <1>4 DEF Select

\* Type correctness: the listing holds images, what is advertised are keys of
\* images, and only the gauge of images can go below zero.
THEOREM TypeCorrect == Spec => []TypeOK
<1>1. Init => TypeOK
  <2> SUFFICES ASSUME Init PROVE TypeOK
    OBVIOUS
  <2>1. ContainerdType
    <3>1. /\ store \in [Names -> Digests \cup {None}] /\ stream = <<>> /\ streamErr = "open"
          /\ envClosed = FALSE /\ dirty = {} /\ changes = 0
      BY DEF Init
    <3>2. stream \in Seq(Envelopes) /\ changes \in 0 .. MaxChanges
      BY <3>1, Constants
    <3>3. QED
      BY <3>1, <3>2 DEF ContainerdType
  <2>2. SubType /\ TickType
    <3>1. sub = [pc |-> "recv", event |-> None] /\ heldErr = FALSE /\ immediate = TRUE /\ ticks = 0
      BY DEF Init
    <3>2. sub \in SubStates /\ ticks \in 0 .. 2
      BY <3>1 DEF SubStates
    <3>3. QED
      BY <3>1, <3>2 DEF SubType, TickType
  <2>3. LoopType
    <3>1. /\ pc = "select" /\ syncing = FALSE /\ todo = {} /\ targets = {} /\ errs = FALSE
          /\ cur = None /\ keys = <<>>
      BY DEF Init
    <3>2. keys \in Seq(Keys) /\ pc # "advertise"
      BY <3>1
    <3>3. QED
      BY <3>1, <3>2 DEF LoopType
  <2>4. OutType
    <3>1. gauge = NoGauges /\ advertised = {} /\ fresh = {}
      BY DEF Init
    <3>2. QED
      BY <3>1 DEF OutType, NoGauges
  <2>5. BoundType
    <3>1. ctxDone = FALSE /\ faults = 0
      BY DEF Init
    <3>2. faults \in 0 .. MaxFaults
      BY <3>1, Constants
    <3>3. QED
      BY <3>1, <3>2 DEF BoundType
  <2>6. QED
    BY <2>1, <2>2, <2>3, <2>4, <2>5, TypeParts
<1>2. TypeOK /\ [Next]_vars => TypeOK'
  <2> SUFFICES ASSUME TypeOK, [Next]_vars PROVE TypeOK'
    OBVIOUS
  <2>1. CASE UNCHANGED vars
    BY <2>1, TypeParts, NextTypeParts, TypeStutters DEF vars
  <2>2. QED
    BY <2>1, ContainerdStepType, SubscriberStepType, BusyStepType, SelectStepType DEF Next
<1>3. QED
  BY <1>1, <1>2, PTL DEF Spec

-----------------------------------------------------------------------------
(* The re-sync *)

\* An image of the listing, as long as the store has not changed since.
Img(n) == [name |-> n, dgst |-> store[n]]

\* The keys of an image are its tag and the identifiers of its target.
LEMMA RangeConcat ==
  ASSUME NEW S, NEW s \in Seq(S), NEW t \in Seq(S)
  PROVE  Range(s \o t) = Range(s) \cup Range(t)
<1>1. /\ DOMAIN s = 1 .. Len(s) /\ DOMAIN t = 1 .. Len(t) /\ Len(s) \in Nat /\ Len(t) \in Nat
      /\ DOMAIN (s \o t) = 1 .. Len(s) + Len(t)
      /\ \A k \in 1 .. Len(s) + Len(t) : (s \o t)[k] = IF k <= Len(s) THEN s[k] ELSE t[k - Len(s)]
  OBVIOUS
<1>2. Range(s \o t) \subseteq Range(s) \cup Range(t)
  <2> SUFFICES ASSUME NEW k \in 1 .. Len(s) + Len(t)
               PROVE  (s \o t)[k] \in Range(s) \cup Range(t)
    BY <1>1 DEF Range
  <2>1. CASE k <= Len(s)
    BY <1>1, <2>1 DEF Range
  <2>2. CASE k > Len(s)
    <3>1. k - Len(s) \in DOMAIN t
      BY <1>1, <2>2
    <3>2. QED
      BY <1>1, <2>2, <3>1 DEF Range
  <2>3. QED
    BY <1>1, <2>1, <2>2
<1>3. Range(s) \subseteq Range(s \o t)
  BY <1>1 DEF Range
<1>4. Range(t) \subseteq Range(s \o t)
  <2> SUFFICES ASSUME NEW k \in 1 .. Len(t)
               PROVE  t[k] \in Range(s \o t)
    BY <1>1 DEF Range
  <2>1. k + Len(s) \in DOMAIN (s \o t) /\ (s \o t)[k + Len(s)] = t[k]
    BY <1>1
  <2>2. QED
    BY <2>1 DEF Range
<1>5. QED
  BY <1>2, <1>3, <1>4

LEMMA KeysRange ==
  ASSUME NEW img \in Images, NEW skip \in BOOLEAN, skip \/ store[img.name] \in Digests
  PROVE  Range(KeysToAdvertise(img, skip))
           = Range(TagKey(img)) \cup (IF skip THEN {} ELSE Range(Identifiers[store[img.name]]))
<1>1. TagKey(img) \in Seq(Keys) /\ Range(<<>>) = {}
  BY TagKeyType DEF Range
<1>2. CASE skip
  <2>1. Range(TagKey(img) \o <<>>) = Range(TagKey(img)) \cup {}
    BY <1>1, RangeConcat
  <2>2. QED
    BY <1>2, <2>1 DEF KeysToAdvertise, AllIdentifiers
<1>3. CASE ~skip
  BY <1>1, <1>3, RangeConcat, IdentifiersType DEF KeysToAdvertise, AllIdentifiers
<1>4. QED
  BY <1>2, <1>3

LEMMA AllKeysRange ==
  ASSUME TypeOK, NEW n \in Stored
  PROVE  AllKeys(n) = Range(TagKey(Img(n))) \cup Range(Identifiers[store[n]])
<1>1. Img(n) \in Images /\ Img(n).name = n /\ store[n] \in Digests
  BY DEF Img, Images, Stored, TypeOK
<1>2. QED
  BY <1>1, KeysRange DEF AllKeys, Img

\* While the store stays as it was listed: a digest in targets has been advertised;
\* so has every image all() has passed without an error; the image it is at will
\* have been once Advertise succeeds, because the digests that update() skips are
\* those of a digest in targets.
Provided(n) == Range(TagKey(Img(n))) \cup Range(Identifiers[store[n]]) \subseteq fresh

Covered(n) == Img(n) \in todo \/ (pc = "advertise" /\ cur.img = Img(n)) \/ Provided(n)

SyncInv ==
  /\ pc = "sync" => syncing
  /\ pc \in {"select", "stopped", "failed"} => ~syncing
  /\ ~syncing => targets = {}
  /\ syncing /\ dirty = {} =>
       /\ \A d \in targets : Range(Identifiers[d]) \subseteq fresh
       /\ \A img \in todo : store[img.name] = img.dgst
       /\ pc = "advertise" =>
            /\ store[cur.img.name] = cur.img.dgst
            /\ Range(TagKey(cur.img)) \subseteq Range(keys)
            /\ cur.img.dgst \in targets \/ Range(Identifiers[cur.img.dgst]) \subseteq Range(keys)
       /\ ~errs => \A n \in Stored : Covered(n)

LEMMA SyncInvStep == TypeOK /\ SyncInv /\ [Next]_vars => SyncInv'
<1> SUFFICES ASSUME TypeOK, SyncInv, [Next]_vars
             PROVE  SyncInv'
  OBVIOUS
<1> USE Constants
<1>u. ASSUME UNCHANGED <<pc, syncing, todo, targets, errs, cur, keys, store, dirty, fresh>>
      PROVE  SyncInv'
  BY <1>u DEF SyncInv, Covered, Provided, Img, TagKey, TagName, IsLatestTag, Stored
<1>n. ASSUME ~syncing', targets' = {}, pc' # "sync"
      PROVE  SyncInv'
  BY <1>n DEF SyncInv
<1>1. ASSUME NEW n \in Names, NEW t, Publish(n, t)
      PROVE  SyncInv'
  <2>1. UNCHANGED <<pc, syncing, targets>> /\ (syncing => dirty' # {})
    BY <1>1 DEF Publish, loopVars
  <2>2. QED
    BY <2>1 DEF SyncInv
<1>2. CASE Containerd
  <2>1. CASE StreamFails
    BY <1>u, <2>1 DEF StreamFails, loopVars, outVars
  <2>2. QED
    BY <1>1, <1>2, <2>1 DEF Containerd, SetImage, RemoveImage
<1>3. CASE Cancel \/ Subscriber \/ TickerFire \/ TrackError \/ UNCHANGED vars
  BY <1>3, <1>u DEF Cancel, Subscriber, SubReceive, SubReport, SubClose, TickerFire, TrackError,
                    vars, containerdVars, loopVars, outVars
<1>4. CASE TrackDone \/ TrackClosed
  <2>1. pc = "select" /\ pc' # "sync" /\ UNCHANGED <<syncing, targets>>
    BY <1>4 DEF TrackDone, TrackClosed
  <2>2. ~syncing /\ targets = {}
    BY <2>1 DEF SyncInv
  <2>3. QED
    BY <1>n, <2>1, <2>2
<1>5. CASE TrackEvent
  <2>1. ~syncing /\ targets = {} /\ UNCHANGED <<syncing, targets>>
    BY <1>5 DEF TrackEvent, SyncInv
  <2>2. pc' # "sync"
    BY <1>5, <2>1 DEF TrackEvent, Update, Return
  <2>3. QED
    BY <1>n, <2>1, <2>2
<1>6. CASE TrackTick
  <2>1. pc = "select" /\ targets = {} /\ UNCHANGED <<targets, errs, cur, keys, fresh>>
    BY <1>6 DEF TrackTick, SyncInv
  <2>2. CASE /\ Listable /\ todo' = {Parse(n, store[n]) : n \in Stored}
             /\ pc' = "sync" /\ syncing' = TRUE /\ UNCHANGED store
    <3>1. \A n \in Stored : Parse(n, store[n]) = Img(n)
      BY <2>2, ParseImage DEF Listable, Stored, Img, TypeOK
    <3>2. todo' = {Img(n) : n \in Stored}
      BY <2>2, <3>1
    <3>3. \A img \in todo' : store'[img.name] = img.dgst
      BY <2>2, <3>2 DEF Img
    <3>4. \A n \in Stored' : Img(n)' \in todo'
      BY <2>2, <3>2 DEF Img, Stored
    <3>5. QED
      BY <2>1, <2>2, <3>3, <3>4 DEF SyncInv, Covered
  <2>3. CASE UNCHANGED <<containerdVars, todo, gauge, pc, syncing>>
    BY <1>u, <2>1, <2>3 DEF containerdVars
  <2>4. QED
    BY <1>6, <2>2, <2>3 DEF TrackTick
<1>7. CASE SyncEnd
  BY <1>7, <1>n DEF SyncEnd
<1>8. CASE SyncImage
  <2>1. PICK img \in todo : todo' = todo \ {img}
                            /\ Update([img |-> img, type |-> "UPDATE"], img.dgst \in targets)
    BY <1>8 DEF SyncImage
  <2>2. /\ pc = "sync" /\ syncing /\ img \in Images /\ UNCHANGED <<store, dirty, syncing, targets>>
    BY <1>8 DEF SyncImage, SyncInv, containerdVars, TypeOK
  <2>3. CASE /\ img.dgst \in targets \/ img.name \in Stored
             /\ cur' = [img |-> img, type |-> "UPDATE"]
             /\ keys' = KeysToAdvertise(img, img.dgst \in targets) /\ pc' = "advertise"
             /\ UNCHANGED <<errs, outVars>>
    <3> SUFFICES ASSUME dirty = {}
                 PROVE  SyncInv'
      BY <2>2, <2>3 DEF SyncInv
    <3>1. store[img.name] = img.dgst /\ img.dgst \in Digests /\ fresh' = fresh
      BY <2>2, <2>3 DEF SyncInv, Images, outVars
    <3>2. Range(keys') = Range(TagKey(img))
            \cup (IF img.dgst \in targets THEN {} ELSE Range(Identifiers[img.dgst]))
      <4>1. CASE img.dgst \in targets
        <5>1. keys' = KeysToAdvertise(img, TRUE)
          BY <2>3, <4>1 DEF KeysToAdvertise, AllIdentifiers
        <5>2. QED
          BY <2>2, <4>1, <5>1, KeysRange
      <4>2. CASE img.dgst \notin targets
        <5>1. keys' = KeysToAdvertise(img, FALSE)
          BY <2>3, <4>2 DEF KeysToAdvertise, AllIdentifiers
        <5>2. QED
          BY <2>2, <3>1, <4>2, <5>1, KeysRange
      <4>3. QED
        BY <4>1, <4>2
    <3>3. \A n \in Stored : n # img.name => (Img(n) \in todo => Img(n) \in todo')
      <4>1. \A n \in Stored : Img(n).name = n
        BY DEF Img
      <4>2. QED
        BY <2>1, <4>1
    <3>4. img = Img(img.name)
      BY <2>2, <3>1 DEF Img, Images
    <3>5. ASSUME NEW n \in Stored, ~errs
          PROVE  Covered(n)'
      <4>1. CASE n = img.name
        BY <2>2, <2>3, <3>4, <4>1 DEF Covered, Img
      <4>2. CASE n # img.name /\ Img(n) \in todo
        BY <2>2, <3>3, <4>2 DEF Covered, Img
      <4>3. CASE Provided(n)
        BY <2>2, <3>1, <4>3 DEF Covered, Provided, Img, TagKey, TagName, IsLatestTag
      <4>4. QED
        BY <2>2, <3>5, <4>1, <4>2, <4>3 DEF SyncInv, Covered
    <3>7. \A i \in todo' : store'[i.name] = i.dgst
      BY <2>1, <2>2 DEF SyncInv
    <3>8. /\ store'[cur'.img.name] = cur'.img.dgst
          /\ Range(TagKey(cur.img)') \subseteq Range(keys')
          /\ cur'.img.dgst \in targets' \/ Range(Identifiers[cur'.img.dgst]) \subseteq Range(keys')
      BY <2>2, <2>3, <3>1, <3>2 DEF TagKey, TagName, IsLatestTag
    <3>9. \A d \in targets' : Range(Identifiers[d]) \subseteq fresh'
      BY <2>2, <3>1 DEF SyncInv
    <3>10. Stored' = Stored
      BY <2>2 DEF Stored
    <3>11. QED
      BY <2>2, <2>3, <3>5, <3>7, <3>8, <3>9, <3>10 DEF SyncInv
  <2>4. CASE errs' = (errs \/ syncing) /\ Return /\ UNCHANGED <<cur, keys, outVars>>
    BY <2>1, <2>2, <2>4 DEF SyncInv, Return, outVars
  <2>5. QED
    BY <2>1, <2>3, <2>4 DEF Update
<1>9. CASE AdvertiseFail
  <2>1. /\ pc' = (IF syncing THEN "sync" ELSE "select") /\ errs' = (errs \/ syncing)
        /\ UNCHANGED <<store, dirty, syncing, todo, targets>> /\ fresh \subseteq fresh'
    BY <1>9 DEF AdvertiseFail, Leave, Return, TargetsAfter, containerdVars
  <2>2. QED
    BY <2>1 DEF SyncInv
<1>10. CASE AdvertiseOK
  <2>1. /\ pc = "advertise" /\ pc' = (IF syncing THEN "sync" ELSE "select")
        /\ UNCHANGED <<store, dirty, syncing, todo, errs>>
        /\ fresh' = IF syncing THEN fresh \cup Range(keys) ELSE fresh
        /\ targets' = IF syncing THEN targets \cup {cur.img.dgst} ELSE targets
    BY <1>10 DEF AdvertiseOK, Leave, Return, TargetsAfter, containerdVars
  <2> SUFFICES ASSUME syncing, dirty = {}
               PROVE  SyncInv'
    BY <2>1 DEF SyncInv
  <2>2. \A d \in targets' : Range(Identifiers[d]) \subseteq fresh'
    <3>1. \A d \in targets : Range(Identifiers[d]) \subseteq fresh
      BY DEF SyncInv
    <3>2. cur.img.dgst \in targets \/ Range(Identifiers[cur.img.dgst]) \subseteq Range(keys)
      BY <2>1 DEF SyncInv
    <3>3. QED
      BY <2>1, <3>1, <3>2
  <2>3. ASSUME NEW n \in Stored, ~errs
        PROVE  Covered(n)'
    <3>1. CASE Img(n) \in todo
      BY <2>1, <3>1 DEF Covered, Img
    <3>2. CASE cur.img = Img(n)
      <4>1. cur.img.dgst = store[n] /\ store[n] \in targets'
        <5>1. cur.img.dgst = store[n]
          BY <3>2 DEF Img
        <5>2. QED
          BY <2>1, <5>1
      <4>2. Range(TagKey(Img(n))) \subseteq fresh'
        BY <2>1, <3>2 DEF SyncInv
      <4>3. QED
        BY <2>1, <2>2, <4>1, <4>2 DEF Covered, Provided, Img, TagKey, TagName, IsLatestTag
    <3>3. CASE Provided(n)
      BY <2>1, <3>3 DEF Covered, Provided, Img, TagKey, TagName, IsLatestTag
    <3>4. QED
      BY <2>3, <3>1, <3>2, <3>3 DEF SyncInv, Covered
  <2>4. \A img \in todo' : store'[img.name] = img.dgst
    BY <2>1 DEF SyncInv
  <2>5. Stored' = Stored
    BY <2>1 DEF Stored
  <2>6. QED
    BY <2>1, <2>2, <2>3, <2>4, <2>5 DEF SyncInv
<1>11. QED
  BY <1>2, <1>3, <1>4, <1>5, <1>6, <1>7, <1>8, <1>9, <1>10 DEF Next, Busy, Select

LEMMA SyncInvariant == Spec => []SyncInv
<1>1. Init => SyncInv
  BY DEF Init, SyncInv
<1>2. QED
  BY <1>1, SyncInvStep, TypeCorrect, PTL DEF Spec

\* all()'s targets never claims a digest the re-sync has not advertised, whichever
\* of its images failed, unless the store changed after the listing.
THEOREM TargetsAreAdvertised == Spec => []TargetsAdvertised
<1>1. SyncInv => TargetsAdvertised
  BY DEF SyncInv, TargetsAdvertised
<1>2. QED
  BY <1>1, SyncInvariant, PTL

\* A clean re-sync advertises the tag and every digest of every stored image, for
\* any sharing of targets between them.
THEOREM SyncCoversStore == Spec => []SyncCovers
<1>1. TypeOK /\ SyncInv => SyncCovers
  <2> SUFFICES ASSUME TypeOK, SyncInv, SyncComplete, ~errs, dirty = {}, NEW n \in Stored
               PROVE  AllKeys(n) \subseteq fresh
    BY DEF SyncCovers
  <2>1. Provided(n)
    BY DEF SyncInv, SyncComplete, Covered
  <2>2. QED
    BY <2>1, AllKeysRange DEF Provided
<1>2. QED
  BY <1>1, SyncInvariant, TypeCorrect, PTL

-----------------------------------------------------------------------------
(* Images that share no target *)

\* ListImages and the subscriber fail on a name that does not parse with its target.
\* That is no fault of a call, and keeps all images from being advertised.
NamesParse == \A b \in Bindings : Parse(b[1], b[2]) # None

Unshared(n) == \A m \in Names \ {n} : ~\E d \in Digests : {<<n, d>>, <<m, d>>} \subseteq Bindings

Bound(img) == <<img.name, img.dgst>> \in Bindings

\* all() comes to a name once, and never finds the digest of an image that shares
\* none in targets.
ListInv ==
  /\ \A n \in Stored : <<n, store[n]>> \in Bindings
  /\ ~syncing => todo = {}
  /\ \A img \in todo : Bound(img)
  /\ \A img \in todo : Unshared(img.name) => img.dgst \notin targets
  /\ \A img \in todo : \A other \in todo : img.name = other.name => img = other
  /\ syncing /\ pc = "advertise" => Bound(cur.img) /\ \A img \in todo : img.name # cur.img.name

LEMMA ListInvStep == TypeOK /\ SyncInv /\ ListInv /\ [Next]_vars => ListInv'
<1> SUFFICES ASSUME TypeOK, SyncInv, ListInv, [Next]_vars PROVE ListInv'
  OBVIOUS
<1> USE Constants
<1>u. ASSUME UNCHANGED <<syncing, todo, targets, store>>, pc' # "advertise" \/ UNCHANGED <<pc, cur>>
      PROVE  ListInv'
  BY <1>u DEF ListInv, Bound, Stored
<1>1. ASSUME NEW n \in Names, NEW t, Publish(n, t),
             \/ store' = [store EXCEPT ![n] = None]
             \/ \E d \in Digests : <<n, d>> \in Bindings /\ store' = [store EXCEPT ![n] = d]
      PROVE  ListInv'
  <2>1. \A m \in Stored' : <<m, store'[m]>> \in Bindings
    BY <1>1 DEF ListInv, Stored, TypeOK
  <2>2. UNCHANGED <<pc, syncing, todo, targets, cur>>
    BY <1>1 DEF Publish, loopVars
  <2>3. QED
    BY <2>1, <2>2 DEF ListInv, Bound
<1>2. CASE Containerd
  <2>1. CASE StreamFails
    BY <1>u, <2>1 DEF StreamFails, loopVars
  <2>2. QED
    BY <1>1, <1>2, <2>1 DEF Containerd, SetImage, RemoveImage
<1>3. CASE Cancel \/ Subscriber \/ TickerFire \/ TrackError \/ UNCHANGED vars
  <2>1. UNCHANGED <<loopVars, store>>
    BY <1>3 DEF Cancel, Subscriber, SubReceive, SubReport, SubClose, TickerFire, TrackError,
                vars, containerdVars
  <2>2. QED
    BY <1>u, <2>1 DEF loopVars
<1>4. CASE TrackDone \/ TrackClosed
  BY <1>4, <1>u DEF TrackDone, TrackClosed, containerdVars
<1>5. CASE TrackEvent
  <2>1. ~syncing /\ UNCHANGED <<store, syncing, todo, targets>>
    BY <1>5 DEF TrackEvent, SyncInv, containerdVars
  <2>2. QED
    BY <2>1 DEF ListInv, Stored
<1>6. CASE TrackTick
  <2>1. pc = "select" /\ ~syncing /\ targets = {} /\ UNCHANGED targets
    BY <1>6 DEF TrackTick, SyncInv
  <2>2. CASE /\ Listable /\ todo' = {Parse(n, store[n]) : n \in Stored}
             /\ pc' = "sync" /\ syncing' = TRUE /\ UNCHANGED store
    <3>1. \A n \in Stored : Parse(n, store[n]) = Img(n)
      BY <2>2, ParseImage DEF Listable, Stored, Img, TypeOK
    <3>2. todo' = {Img(n) : n \in Stored}
      BY <2>2, <3>1
    <3>3. \A img \in todo' : Bound(img) /\ img = Img(img.name)
      <4>1. ASSUME NEW n \in Stored PROVE Bound(Img(n)) /\ Img(n) = Img(Img(n).name)
        <5>1. Img(n).name = n /\ Img(n).dgst = store[n] /\ <<n, store[n]>> \in Bindings
          BY DEF Img, ListInv
        <5>2. QED
          BY <5>1 DEF Bound
      <4>2. QED
        BY <3>2, <4>1
    <3>4. QED
      BY <2>1, <2>2, <3>3 DEF ListInv, Bound, Stored
  <2>3. CASE UNCHANGED <<containerdVars, todo, gauge, pc, syncing>>
    BY <1>u, <2>1, <2>3 DEF containerdVars
  <2>4. QED
    BY <1>6, <2>2, <2>3 DEF TrackTick
<1>7. CASE SyncEnd
  BY <1>7 DEF SyncEnd, ListInv, Stored
<1>8. CASE SyncImage
  <2>1. PICK img \in todo : todo' = todo \ {img}
                            /\ Update([img |-> img, type |-> "UPDATE"], img.dgst \in targets)
    BY <1>8 DEF SyncImage
  <2>2. UNCHANGED <<store, syncing, targets>> /\ Bound(img)
    BY <1>8 DEF SyncImage, containerdVars, ListInv
  <2>3. pc' = "advertise" => cur' = [img |-> img, type |-> "UPDATE"]
    BY <1>8, <2>1 DEF SyncImage, Update, Return
  <2>4. \A other \in todo' : other.name # img.name
    BY <2>1 DEF ListInv
  <2>5. syncing' /\ pc' = "advertise" => Bound(cur.img)' /\ \A other \in todo' : other.name # cur'.img.name
    <3>1. pc' = "advertise" => cur'.img = img
      BY <2>3
    <3>2. QED
      BY <2>2, <2>4, <3>1 DEF Bound
  <2>6. QED
    BY <2>1, <2>2, <2>5 DEF ListInv, Bound, Stored
<1>9. CASE AdvertiseFail
  <2>1. pc' # "advertise" /\ UNCHANGED <<store, syncing, todo, targets>>
    BY <1>9 DEF AdvertiseFail, Leave, Return, TargetsAfter, containerdVars
  <2>2. QED
    BY <1>u, <2>1
<1>10. CASE AdvertiseOK
  <2>1. /\ pc = "advertise" /\ pc' # "advertise" /\ UNCHANGED <<store, syncing, todo>>
        /\ targets' = IF syncing THEN targets \cup {cur.img.dgst} ELSE targets
    BY <1>10 DEF AdvertiseOK, Leave, Return, TargetsAfter, containerdVars
  <2>2. ASSUME NEW img \in todo, Unshared(img.name), syncing PROVE img.dgst # cur.img.dgst
    <3>1. /\ img \in Images /\ cur.img \in Images /\ img.name # cur.img.name /\ Bound(img) /\ Bound(cur.img)
      BY <2>1, <2>2 DEF ListInv, TypeOK, ImageEvents
    <3>2. cur.img.name \in Names \ {img.name} /\ img.dgst \in Digests
      BY <3>1 DEF Images
    <3>3. ~({<<img.name, img.dgst>>, <<cur.img.name, img.dgst>>} \subseteq Bindings)
      BY <2>2, <3>2 DEF Unshared
    <3>4. QED
      BY <3>1, <3>3 DEF Bound
  <2>3. \A img \in todo' : Unshared(img.name) => img.dgst \notin targets'
    BY <2>1, <2>2 DEF ListInv
  <2>4. QED
    BY <2>1, <2>3 DEF ListInv, Bound, Stored
<1>11. QED
  BY <1>2, <1>3, <1>4, <1>5, <1>6, <1>7, <1>8, <1>9, <1>10 DEF Next, Busy, Select

LEMMA ListInvInit == Init => ListInv
BY DEF Init, ListInv

\* Where the keys of an image are while it is not advertised: in an envelope, in the
\* event the subscriber offers, in update(), or still to be listed or reached by all().
Calm == faults = 0 /\ ~ctxDone /\ streamErr = "open"

Queued(n) == \E k \in 1 .. Len(stream) : stream[k].name = n /\ stream[k].type # "DELETE"
Offered(n) == sub.pc = "img" /\ sub.event.img.name = n /\ sub.event.type # "DELETE"
InUpdate(n) == pc = "advertise" /\ AllKeys(n) \subseteq Range(keys)
Listed(n) == immediate \/ \E img \in todo : img.name = n
OnItsWay(n) == AllKeys(n) \subseteq advertised \/ Queued(n) \/ Offered(n) \/ InUpdate(n) \/ Listed(n)

WayInv == Calm => \A n \in Stored : Unshared(n) => OnItsWay(n)

\* A call that fails ends the calm.
LEMMA FaultNoCalm ==
  ASSUME TypeOK, Fault, UNCHANGED ctxDone
  PROVE  ~Calm'
BY DEF Fault, Calm, TypeOK

LEMMA CalmBefore ==
  ASSUME TypeOK, [Next]_vars, Calm'
  PROVE  Calm
<1>1. ctxDone => ctxDone'
  BY DEF Next, Containerd, SetImage, RemoveImage, Publish, StreamFails, Cancel, Subscriber, SubReceive,
         SubReport, SubClose, TickerFire, Busy, AdvertiseOK, AdvertiseFail, SyncImage, SyncEnd,
         Select, TrackDone, TrackTick, TrackEvent, TrackError, TrackClosed, vars
<1>2. streamErr' = "open" => streamErr = "open"
  BY DEF Next, Containerd, SetImage, RemoveImage, Publish, StreamFails, Cancel, Subscriber, SubReceive,
         SubReport, SubClose, TickerFire, Busy, AdvertiseOK, AdvertiseFail, SyncImage, SyncEnd,
         Select, TrackDone, TrackTick, TrackEvent, TrackError, TrackClosed, vars, containerdVars
<1>3. UNCHANGED faults \/ Fault
  BY DEF Next, Containerd, SetImage, RemoveImage, Publish, StreamFails, Cancel, Subscriber, SubReceive,
         SubReport, SubClose, TickerFire, Busy, AdvertiseOK, AdvertiseFail, SyncImage, SyncEnd,
         Select, TrackDone, TrackTick, TrackEvent, TrackError, TrackClosed, Update, vars
<1>4. faults' = 0 => faults = 0 \/ ctxDone
  BY <1>3 DEF Fault, TypeOK
<1>5. QED
  BY <1>1, <1>2, <1>4 DEF Calm

\* The keys of an image depend on its name and on what the name is bound to.
LEMMA KeysOfName ==
  /\ \A img : KeysToAdvertise(img, FALSE) = KeysToAdvertise([name |-> img.name, dgst |-> store[img.name]], FALSE)
  /\ \A n : store'[n] = store[n] => AllKeys(n)' = AllKeys(n)
<1>1. ASSUME NEW img
      PROVE  KeysToAdvertise(img, FALSE) = KeysToAdvertise([name |-> img.name, dgst |-> store[img.name]], FALSE)
  BY DEF KeysToAdvertise, TagKey, TagName, IsLatestTag, AllIdentifiers
<1>2. ASSUME NEW n, store'[n] = store[n] PROVE AllKeys(n)' = AllKeys(n)
  BY <1>2 DEF AllKeys, KeysToAdvertise, TagKey, TagName, IsLatestTag, AllIdentifiers
<1>3. QED
  BY <1>1, <1>2

\* Most steps leave an image where it is.
LEMMA StaysOnItsWay ==
  ASSUME NEW n, OnItsWay(n), store'[n] = store[n], advertised \subseteq advertised',
         Queued(n) => Queued(n)', sub' = sub \/ sub.pc # "img",
         pc = "advertise" => UNCHANGED <<pc, keys>>, UNCHANGED immediate, todo \subseteq todo'
  PROVE  OnItsWay(n)'
<1>1. AllKeys(n)' = AllKeys(n)
  BY KeysOfName
<1>2. InUpdate(n) => InUpdate(n)'
  BY <1>1 DEF InUpdate
<1>3. Offered(n) => Offered(n)'
  BY DEF Offered
<1>4. Listed(n) => Listed(n)'
  BY DEF Listed
<1>5. QED
  BY <1>1, <1>2, <1>3, <1>4 DEF OnItsWay

\* update() takes over an image that is stored.
LEMMA UpdateTakesOver ==
  ASSUME TypeOK, NEW event, Update(event, FALSE), event.type # "DELETE", event.img.name \in Stored,
         UNCHANGED <<store, ctxDone>>, Calm'
  PROVE  InUpdate(event.img.name)'
<1>1. pc' = "advertise" /\ keys' = KeysToAdvertise(event.img, FALSE)
  BY FaultNoCalm DEF Update
<1>2. AllKeys(event.img.name) = Range(keys')
  BY <1>1, KeysOfName DEF AllKeys
<1>3. AllKeys(event.img.name)' = AllKeys(event.img.name)
  <2>1. PICK n : n = event.img.name
    OBVIOUS
  <2>2. QED
    BY <2>1, KeysOfName
<1>4. QED
  BY <1>1, <1>2, <1>3 DEF InUpdate

\* A step of containerd: a name that is bound anew is queued, unlike one that is removed.
LEMMA WayPublish ==
  ASSUME TypeOK, NEW n, OnItsWay(n) \/ n \notin Stored, n \in Stored', Calm, NEW m \in Names,
         NEW t, Publish(m, t), \E d : store' = [store EXCEPT ![m] = d],
         t = "DELETE" => store' = [store EXCEPT ![m] = None]
  PROVE  OnItsWay(n)'
<1>1. PICK e : e = [name |-> m, type |-> t]
  OBVIOUS
<1>2. stream' = Append(stream, e) /\ stream \in Seq(Envelopes) /\ e.name = m /\ e.type = t
  BY <1>1, TypeParts DEF Publish, Calm, ContainerdType
<1>3. /\ Len(stream) \in Nat /\ Len(stream') = Len(stream) + 1 /\ stream'[Len(stream) + 1] = e
      /\ \A k \in 1 .. Len(stream) : stream'[k] = stream[k]
  <2>1. stream \in Seq(Envelopes)
    BY <1>2
  <2>2. /\ Len(stream) \in Nat /\ Len(Append(stream, e)) = Len(stream) + 1
        /\ Append(stream, e)[Len(stream) + 1] = e
    BY <2>1
  <2>3. \A k \in 1 .. Len(stream) : Append(stream, e)[k] = stream[k]
    BY <2>1
  <2>4. QED
    BY <1>2, <2>2, <2>3
<1>4. CASE n = m
  <2>1. t # "DELETE"
    BY <1>4 DEF Stored, TypeOK
  <2>2. PICK k : k = Len(stream) + 1
    OBVIOUS
  <2>3. Queued(n)'
    <3>1. k \in 1 .. Len(stream')
      BY <1>3, <2>2
    <3>2. stream'[k].name = n /\ stream'[k].type # "DELETE"
      BY <1>2, <1>3, <1>4, <2>1, <2>2
    <3>3. QED
      BY <3>1, <3>2 DEF Queued
  <2>4. QED
    BY <2>3 DEF OnItsWay
<1>5. CASE n # m
  <2>1. store'[n] = store[n] /\ n \in Stored
    BY <1>5 DEF Stored, TypeOK
  <2>2. Queued(n) => Queued(n)'
    <3>1. ASSUME NEW k \in 1 .. Len(stream)
          PROVE  k \in 1 .. Len(stream') /\ stream'[k] = stream[k]
      <4>1. 1 .. Len(stream) \subseteq 1 .. Len(stream')
        BY <1>3
      <4>2. QED
        BY <1>3, <3>1, <4>1
    <3>2. QED
      BY <3>1 DEF Queued
  <2>3. UNCHANGED <<sub, pc, keys, immediate, todo, advertised>>
    BY DEF Publish, subVars, loopVars, tickVars, outVars
  <2>4. QED
    BY <2>1, <2>2, <2>3, StaysOnItsWay
<1>6. QED
  BY <1>4, <1>5

\* The subscriber reads the store for an envelope of the name, and offers the image.
LEMMA WayReceive ==
  ASSUME TypeOK, ListInv, NamesParse, NEW n \in Stored, OnItsWay(n), SubReceive, Calm'
  PROVE  OnItsWay(n)'
<1> DEFINE e == Head(stream)
<1>1. /\ sub.pc = "recv" /\ stream # <<>> /\ stream' = Tail(stream)
      /\ UNCHANGED <<store, pc, keys, immediate, todo, advertised>>
  BY DEF SubReceive, loopVars, tickVars, outVars
<1>2. sub' = Received(e)
  BY FaultNoCalm DEF SubReceive
<1>3. stream \in Seq(Envelopes)
  BY TypeParts DEF ContainerdType
<1>4. CASE e.name = n /\ e.type # "DELETE"
  <2>1. n \in Names /\ store[n] \in Digests /\ <<n, store[n]>> \in Bindings
    BY DEF Stored, TypeOK, ListInv
  <2>2. Parse(n, store[n]) # None
    <3>1. <<n, store[n]>>[1] = n /\ <<n, store[n]>>[2] = store[n]
      OBVIOUS
    <3>2. QED
      BY <2>1, <3>1 DEF NamesParse
  <2>3. Parse(n, store[n]) = [name |-> n, dgst |-> store[n]]
    BY <2>1, <2>2, ParseImage, Constants
  <2>4. EventImage(e) = Parse(n, store[n])
    BY <1>4, <2>1, Constants DEF EventImage
  <2>5. sub' = [pc |-> "img", event |-> [img |-> [name |-> n, dgst |-> store[n]], type |-> e.type]]
    BY <1>2, <2>2, <2>3, <2>4 DEF Received
  <2>6. Offered(n)'
    BY <1>4, <2>5 DEF Offered
  <2>7. QED
    BY <2>6 DEF OnItsWay
<1>5. CASE ~(e.name = n /\ e.type # "DELETE")
  <2>1. ASSUME NEW k \in 1 .. Len(stream), stream[k].name = n, stream[k].type # "DELETE"
        PROVE  k - 1 \in 1 .. Len(stream') /\ stream'[k - 1] = stream[k]
    <3>1. k # 1
      BY <1>1, <1>3, <1>5, <2>1
    <3>2. QED
      BY <1>1, <1>3, <3>1
  <2>2. Queued(n) => Queued(n)'
    BY <2>1 DEF Queued
  <2>3. QED
    BY <1>1, <2>2, StaysOnItsWay
<1>6. QED
  BY <1>4, <1>5

\* Advertise succeeds.
LEMMA WayAdvertised ==
  ASSUME TypeOK, NEW n, OnItsWay(n), AdvertiseOK
  PROVE  OnItsWay(n)'
<1>1. /\ pc = "advertise" /\ advertised' = advertised \cup Range(keys)
      /\ UNCHANGED <<store, stream, sub, immediate, todo>>
  BY DEF AdvertiseOK, containerdVars, subVars, tickVars
<1>2. AllKeys(n)' = AllKeys(n)
  BY <1>1, KeysOfName
<1>3. CASE InUpdate(n)
  BY <1>1, <1>2, <1>3 DEF InUpdate, OnItsWay
<1>4. CASE AllKeys(n) \subseteq advertised
  BY <1>1, <1>2, <1>4 DEF OnItsWay
<1>5. CASE Queued(n) \/ Offered(n) \/ Listed(n)
  BY <1>1, <1>5 DEF Queued, Offered, Listed, OnItsWay
<1>6. QED
  BY <1>3, <1>4, <1>5 DEF OnItsWay

\* all() comes to an image of the listing; if it is not this one, nothing happens to it.
LEMMA WaySync ==
  ASSUME TypeOK, ListInv, NEW n \in Stored, Unshared(n), OnItsWay(n), SyncImage, Calm'
  PROVE  OnItsWay(n)'
<1>1. PICK img \in todo : todo' = todo \ {img}
                          /\ Update([img |-> img, type |-> "UPDATE"], img.dgst \in targets)
  BY DEF SyncImage
<1>2. pc = "sync" /\ UNCHANGED <<store, stream, sub, immediate, ctxDone>>
  BY DEF SyncImage, containerdVars, subVars, tickVars
<1>3. CASE img.name = n
  <2>1. Unshared(img.name) /\ img.dgst \notin targets
    BY <1>3, Zenon DEF ListInv
  <2>2. PICK event : event = [img |-> img, type |-> "UPDATE"]
    OBVIOUS
  <2>3. event.img = img /\ event.type # "DELETE" /\ Update(event, FALSE)
    <3>1. (img.dgst \in targets) = FALSE
      BY <2>1
    <3>2. QED
      BY <1>1, <2>2, <3>1
  <2>4. InUpdate(n)'
    BY <1>2, <1>3, <2>3, UpdateTakesOver
  <2>5. QED
    BY <2>4 DEF OnItsWay
<1>4. CASE img.name # n
  <2>1. advertised' = advertised
    BY <1>1 DEF Update, outVars
  <2>2. AllKeys(n)' = AllKeys(n)
    BY <1>2, KeysOfName
  <2>3. Listed(n) => Listed(n)'
    BY <1>1, <1>2, <1>4 DEF Listed
  <2>4. ~InUpdate(n)
    BY <1>2 DEF InUpdate
  <2>5. Queued(n) \/ Offered(n) => Queued(n)' \/ Offered(n)'
    BY <1>2 DEF Queued, Offered
  <2>6. QED
    BY <2>1, <2>2, <2>3, <2>4, <2>5 DEF OnItsWay
<1>5. QED
  BY <1>3, <1>4

\* The select loop takes the event the subscriber offers.
LEMMA WayEvent ==
  ASSUME TypeOK, NEW n \in Stored, OnItsWay(n), TrackEvent, Calm'
  PROVE  OnItsWay(n)'
<1>1. pc = "select" /\ sub.pc = "img" /\ UNCHANGED <<store, stream, immediate, todo, ctxDone>>
  BY DEF TrackEvent, containerdVars, tickVars
<1>2. PICK event : event = sub.event
  OBVIOUS
<1>3. Update(event, FALSE)
  BY <1>2 DEF TrackEvent
<1>4. CASE Offered(n)
  <2>1. InUpdate(n)'
    BY <1>1, <1>2, <1>3, <1>4, UpdateTakesOver DEF Offered
  <2>2. QED
    BY <2>1 DEF OnItsWay
<1>5. CASE ~Offered(n)
  <2>1. advertised' = advertised
    BY <1>3 DEF Update, outVars
  <2>2. AllKeys(n)' = AllKeys(n)
    BY <1>1, KeysOfName
  <2>3. ~InUpdate(n)
    BY <1>1 DEF InUpdate
  <2>4. Queued(n) \/ Listed(n) => Queued(n)' \/ Listed(n)'
    BY <1>1 DEF Queued, Listed
  <2>5. QED
    BY <1>5, <2>1, <2>2, <2>3, <2>4 DEF OnItsWay
<1>6. QED
  BY <1>4, <1>5

\* all() lists every image that is stored.
LEMMA WayTick ==
  ASSUME TypeOK, ListInv, NamesParse, NEW n \in Stored, TrackTick, Calm'
  PROVE  OnItsWay(n)'
<1>1. ASSUME NEW m \in Stored PROVE Parse(m, store[m]) # None /\ Parse(m, store[m]).name = m
  <2>1. m \in Names /\ store[m] \in Digests /\ <<m, store[m]>> \in Bindings
    BY DEF Stored, TypeOK, ListInv
  <2>2. <<m, store[m]>>[1] = m /\ <<m, store[m]>>[2] = store[m]
    OBVIOUS
  <2>3. Parse(m, store[m]) # None
    BY <2>1, <2>2 DEF NamesParse
  <2>4. Parse(m, store[m]) = [name |-> m, dgst |-> store[m]]
    BY <2>1, <2>3, ParseImage, Constants
  <2>5. Parse(m, store[m]).name = m
    BY <2>4
  <2>6. QED
    BY <2>3, <2>5
<1>2. Listable
  BY <1>1 DEF Listable
<1>3. todo' = {Parse(m, store[m]) : m \in Stored}
  BY <1>2, FaultNoCalm DEF TrackTick
<1>4. Listed(n)'
  BY <1>1, <1>3 DEF Listed
<1>5. QED
  BY <1>4 DEF OnItsWay

LEMMA WayInvStep == TypeOK /\ SyncInv /\ ListInv /\ NamesParse /\ WayInv /\ [Next]_vars => WayInv'
<1> SUFFICES ASSUME TypeOK, SyncInv, ListInv, NamesParse, WayInv, [Next]_vars, Calm',
                    NEW n \in Stored', Unshared(n)
             PROVE  OnItsWay(n)'
  BY DEF WayInv, Unshared
<1>1. Calm
  BY CalmBefore
<1>2. n \in Stored => OnItsWay(n)
  BY <1>1 DEF WayInv
<1>3. CASE Containerd
  <2>1. ~StreamFails
    BY DEF StreamFails, Calm
  <2>2. ASSUME NEW m \in Names, NEW d \in Digests, SetImage(m, d) PROVE OnItsWay(n)'
    <3>1. PICK t : t = IF store[m] = None THEN "CREATE" ELSE "UPDATE"
      OBVIOUS
    <3>2. Publish(m, t) /\ t # "DELETE" /\ store' = [store EXCEPT ![m] = d]
      BY <2>2, <3>1 DEF SetImage
    <3>3. QED
      BY <1>1, <1>2, <3>2, WayPublish
  <2>3. ASSUME NEW m \in Names, RemoveImage(m) PROVE OnItsWay(n)'
    BY <1>1, <1>2, <2>3, WayPublish DEF RemoveImage
  <2>4. QED
    BY <1>3, <2>1, <2>2, <2>3 DEF Containerd
<1>4. CASE ~Containerd
  <2>1. UNCHANGED store
    BY <1>4 DEF Next, Cancel, Subscriber, SubReceive, SubReport, SubClose, TickerFire,
                Busy, AdvertiseOK, AdvertiseFail, SyncImage, SyncEnd, Select, TrackDone, TrackTick,
                TrackEvent, TrackError, TrackClosed, vars, containerdVars
  <2>2. n \in Stored /\ OnItsWay(n)
    BY <1>2, <2>1 DEF Stored
  <2>3. CASE Cancel \/ TrackDone \/ AdvertiseFail
    <3>1. ~Calm'
      BY <1>1, <2>3, FaultNoCalm DEF Cancel, TrackDone, AdvertiseFail, Calm
    <3>2. QED
      BY <3>1
  <2>4. CASE SubReport \/ SubClose \/ TickerFire \/ TrackError \/ TrackClosed \/ SyncEnd \/ UNCHANGED vars
    <3>1. /\ UNCHANGED <<stream, keys, immediate, todo, advertised>>
          /\ sub' = sub \/ sub.pc # "img"
          /\ pc = "advertise" => UNCHANGED pc
      BY <2>4 DEF SubReport, SubClose, TickerFire, TrackError, TrackClosed, SyncEnd, vars,
                  containerdVars, subVars, tickVars, loopVars, outVars
    <3>2. Queued(n) => Queued(n)'
      BY <3>1 DEF Queued
    <3>3. QED
      BY <2>1, <2>2, <3>1, <3>2, StaysOnItsWay
  <2>5. QED
    BY <1>4, <2>2, <2>3, <2>4, WayReceive, WayAdvertised, WaySync, WayEvent, WayTick
       DEF Next, Subscriber, Busy, Select
<1>5. QED
  BY <1>3, <1>4

\* Once Track is quiescent, every image that shares no target is advertised in full,
\* whatever became of the others: the envelopes and the first re-sync between them
\* miss no change, in whichever order they come. Provided every name parses.
THEOREM UnsharedAreAdvertised == NamesParse => (Spec => []UnsharedAdvertised)
<1> SUFFICES ASSUME NamesParse PROVE Spec => []UnsharedAdvertised
  OBVIOUS
<1>1. Init => WayInv
  BY DEF Init, WayInv, OnItsWay, Listed
<1>2. SyncInv /\ ListInv /\ WayInv => UnsharedAdvertised
  <2> SUFFICES ASSUME SyncInv, ListInv, WayInv, Quiescent, NEW n \in Stored, Unshared(n)
               PROVE  AllKeys(n) \subseteq advertised
    BY DEF UnsharedAdvertised, Unshared
  <2>1. OnItsWay(n)
    BY DEF WayInv, Calm, Quiescent
  <2>2. ~Queued(n) /\ ~Offered(n) /\ ~InUpdate(n)
    BY DEF Quiescent, Queued, Offered, InUpdate
  <2>3. ~immediate /\ todo = {}
    BY DEF Quiescent, SyncInv, ListInv
  <2>4. QED
    BY <2>1, <2>2, <2>3 DEF OnItsWay, Listed
<1>3. QED
  BY <1>1, <1>2, WayInvStep, ListInvInit, ListInvStep, SyncInvariant, TypeCorrect, PTL DEF Spec
=============================================================================
