------------------------- MODULE TrackerGaugeProofs -------------------------
(* The gauges of Tracker after a re-sync, for any image store and any faults. *)
EXTENDS TrackerProofs, FiniteSetTheorems

-----------------------------------------------------------------------------
(* The gauges *)

\* While the store stays as it was listed and nothing has failed, the gauges count
\* the images that all() is through with. The image it is at will not come again.
Pending(n) == Img(n) \in todo \/ (pc = "advertise" /\ cur.img = Img(n))
Through == {n \in Stored : ~Pending(n)}

GaugeInv ==
  /\ syncing /\ pc = "advertise" => cur.img \notin todo
  /\ syncing /\ ~errs /\ dirty = {} =>
       /\ gauge.images = Cardinality(Through)
       /\ gauge.tags = Cardinality({n \in Through : n.tag # ""})
       /\ gauge.digests = Cardinality({n \in Through : n.tag = ""})

\* One more image is counted, as one with a tag or as one without.
LEMMA CountOneMore ==
  ASSUME NEW S, IsFiniteSet(S), NEW m, m \notin S
  PROVE  /\ Cardinality(S \cup {m}) = Cardinality(S) + 1
         /\ Cardinality({n \in S \cup {m} : n.tag # ""})
              = Cardinality({n \in S : n.tag # ""}) + (IF m.tag = "" THEN 0 ELSE 1)
         /\ Cardinality({n \in S \cup {m} : n.tag = ""})
              = Cardinality({n \in S : n.tag = ""}) + (IF m.tag = "" THEN 1 ELSE 0)
<1> DEFINE T == {n \in S : n.tag # ""}
           D == {n \in S : n.tag = ""}
           T1 == {n \in S \cup {m} : n.tag # ""}
           D1 == {n \in S \cup {m} : n.tag = ""}
<1>1. IsFiniteSet(T) /\ IsFiniteSet(D)
  BY FS_Subset
<1>2. m \notin T /\ m \notin D
  OBVIOUS
<1>3. T1 = IF m.tag = "" THEN T ELSE T \cup {m}
  OBVIOUS
<1>4. D1 = IF m.tag = "" THEN D \cup {m} ELSE D
  OBVIOUS
<1> HIDE DEF T, D, T1, D1
<1>5. Cardinality(T) \in Nat /\ Cardinality(D) \in Nat
  BY <1>1, FS_CardinalityType
<1>6. /\ Cardinality(T \cup {m}) = Cardinality(T) + 1 /\ Cardinality(D \cup {m}) = Cardinality(D) + 1
      /\ Cardinality(S \cup {m}) = Cardinality(S) + 1
  BY <1>1, <1>2, FS_AddElement
<1>7. /\ m.tag = "" => Cardinality(T1) = Cardinality(T) /\ Cardinality(D1) = Cardinality(D) + 1
      /\ m.tag # "" => Cardinality(T1) = Cardinality(T) + 1 /\ Cardinality(D1) = Cardinality(D)
  BY <1>3, <1>4, <1>6, Zenon
<1>8. /\ Cardinality(T1) = Cardinality(T) + (IF m.tag = "" THEN 0 ELSE 1)
      /\ Cardinality(D1) = Cardinality(D) + (IF m.tag = "" THEN 1 ELSE 0)
  <2> DEFINE t == Cardinality(T)
             d == Cardinality(D)
  <2>1. t \in Nat /\ d \in Nat /\ t + 0 = t /\ d + 0 = d
    BY <1>5
  <2> HIDE DEF t, d
  <2>2. CASE m.tag = ""
    BY <1>7, <2>1, <2>2, Zenon DEF t, d
  <2>3. CASE m.tag # ""
    BY <1>7, <2>1, <2>3, Zenon DEF t, d
  <2> QED
    BY <2>2, <2>3
<1> QED
  BY <1>6, <1>8 DEF T, D, T1, D1

\* What update() adds to the gauges when a re-sync calls it.
LEMMA CountImageFields ==
  ASSUME NEW g \in Gauges, NEW img, NEW k \in Nat
  PROVE  LET h == [CountImage(g, img) EXCEPT !.keys = @ + k]
         IN  /\ h.images = g.images + 1
             /\ h.tags = g.tags + (IF img.name.tag = "" THEN 0 ELSE 1)
             /\ h.digests = g.digests + (IF img.name.tag = "" THEN 1 ELSE 0)
<1>1. CountImage(g, img) \in Gauges
  BY CountImageType
<1>2. /\ CountImage(g, img).images = g.images + 1
      /\ CountImage(g, img).tags = g.tags + (IF img.name.tag = "" THEN 0 ELSE 1)
      /\ CountImage(g, img).digests = g.digests + (IF img.name.tag = "" THEN 1 ELSE 0)
  <2>1. CASE img.name.tag = ""
    <3>1. CountImage(g, img) = [g EXCEPT !.images = g.images + 1, !.tags = g.tags, !.digests = g.digests + 1]
      BY <2>1 DEF CountImage
    <3>2. /\ CountImage(g, img).images = g.images + 1
          /\ CountImage(g, img).tags = g.tags + 0 /\ CountImage(g, img).digests = g.digests + 1
      BY <3>1 DEF Gauges
    <3> QED
      BY <2>1, <3>2, Zenon
  <2>2. CASE img.name.tag # ""
    <3>1. CountImage(g, img) = [g EXCEPT !.images = g.images + 1, !.tags = g.tags + 1, !.digests = g.digests]
      BY <2>2 DEF CountImage
    <3>2. /\ CountImage(g, img).images = g.images + 1
          /\ CountImage(g, img).tags = g.tags + 1 /\ CountImage(g, img).digests = g.digests + 0
      BY <3>1 DEF Gauges
    <3> QED
      BY <2>2, <3>2, Zenon
  <2> QED
    BY <2>1, <2>2
<1> QED
  BY <1>1, <1>2 DEF Gauges

\* Every step keeps it.
LEMMA GaugeInvStep == TypeOK /\ SyncInv /\ GaugeInv /\ [Next]_vars => GaugeInv'
<1> SUFFICES ASSUME TypeOK, SyncInv, GaugeInv, [Next]_vars
             PROVE  GaugeInv'
  OBVIOUS
<1>u. ASSUME UNCHANGED <<pc, syncing, todo, errs, cur, store, dirty, gauge>>
      PROVE  GaugeInv'
  BY <1>u DEF GaugeInv, Through, Pending, Img, Stored
<1>n. ASSUME ~syncing'
      PROVE  GaugeInv'
  BY <1>n DEF GaugeInv
<1>1. ASSUME NEW n \in Names, NEW t, Publish(n, t)
      PROVE  GaugeInv'
  <2>1. UNCHANGED <<pc, syncing, todo, cur>> /\ (syncing => dirty' # {})
    BY <1>1 DEF Publish, loopVars
  <2> QED
    BY <2>1 DEF GaugeInv
<1>2. CASE Containerd
  BY <1>1, <1>2, <1>u DEF Containerd, SetImage, RemoveImage, StreamFails, loopVars, outVars
<1>3. CASE Cancel \/ Subscriber \/ TickerFire \/ TrackError \/ UNCHANGED vars
  BY <1>3, <1>u DEF Cancel, Subscriber, SubReceive, SubReport, SubClose, TickerFire, TrackError,
                    vars, containerdVars, loopVars, outVars
<1>4. CASE TrackDone \/ TrackClosed \/ TrackEvent \/ SyncEnd
  <2>1. ~syncing'
    BY <1>4 DEF TrackDone, TrackClosed, TrackEvent, SyncEnd, SyncInv
  <2> QED
    BY <1>n, <2>1
<1>5. CASE TrackTick
  <2>1. CASE UNCHANGED <<containerdVars, todo, gauge, pc, syncing>>
    BY <1>5, <1>u, <2>1 DEF TrackTick, containerdVars
  <2>2. CASE /\ Listable /\ todo' = {Parse(n, store[n]) : n \in Stored}
             /\ gauge' = ResetGauges /\ pc' = "sync" /\ UNCHANGED store
    <3>1. \A n \in Stored : Parse(n, store[n]) = Img(n)
      BY <2>2, ParseImage DEF Listable, Stored, Img, TypeOK
    <3>2. Through' = {}
      BY <2>2, <3>1 DEF Through, Pending, Img, Stored
    <3>3. Cardinality({}) = 0
      BY FS_EmptySet
    <3>4. {n \in Through' : n.tag # ""} = {} /\ {n \in Through' : n.tag = ""} = {}
      BY <3>2
    <3> QED
      BY <2>2, <3>2, <3>3, <3>4 DEF GaugeInv, ResetGauges, NoGauges
  <2> QED
    BY <1>5, <2>1, <2>2 DEF TrackTick
<1>6. CASE SyncImage
  <2>1. PICK img \in todo : todo' = todo \ {img}
                            /\ Update([img |-> img, type |-> "UPDATE"], img.dgst \in targets)
    BY <1>6 DEF SyncImage
  <2>2. pc = "sync" /\ syncing /\ UNCHANGED <<store, dirty, syncing>>
    BY <1>6 DEF SyncImage, SyncInv, containerdVars
  <2>3. CASE cur'.img = img /\ pc' = "advertise" /\ UNCHANGED <<errs, outVars>>
    <3>1. Through' = Through
      BY <2>1, <2>2, <2>3 DEF Through, Pending, Img, Stored
    <3> QED
      BY <2>1, <2>2, <2>3, <3>1 DEF GaugeInv, outVars
  <2>4. CASE errs' = (errs \/ syncing) /\ Return
    BY <2>2, <2>4 DEF GaugeInv, Return
  <2> QED
    BY <2>1, <2>3, <2>4 DEF Update
<1>7. CASE AdvertiseFail
  BY <1>7 DEF AdvertiseFail, Leave, Return, GaugeInv
<1>8. CASE AdvertiseOK
  <2>1. /\ pc = "advertise" /\ pc' = (IF syncing THEN "sync" ELSE "select")
        /\ UNCHANGED <<store, dirty, syncing, todo, errs>>
    BY <1>8 DEF AdvertiseOK, Leave, Return, containerdVars
  <2> SUFFICES ASSUME syncing, ~errs, dirty = {}
               PROVE  GaugeInv'
    BY <2>1 DEF GaugeInv
  <2> DEFINE m == cur.img.name
  <2>2. cur.img \in Images /\ m \in Stored /\ cur.img = Img(m) /\ Img(m) \notin todo
    <3>1. cur.img \in Images
      BY <2>1 DEF TypeOK, ImageEvents
    <3>2. m \in Names /\ cur.img.dgst \in Digests /\ cur.img = [name |-> m, dgst |-> cur.img.dgst]
      BY <3>1 DEF Images
    <3>3. store[m] = cur.img.dgst /\ cur.img \notin todo
      BY <2>1 DEF SyncInv, GaugeInv
    <3> QED
      BY <3>1, <3>2, <3>3, Constants DEF Img, Stored
  <2>3. \A n \in Stored : cur.img = Img(n) => n = m
    BY DEF Img
  <2>4. m \notin Through /\ Through' = Through \cup {m}
    BY <2>1, <2>2, <2>3 DEF Through, Pending, Img, Stored
  <2>5. IsFiniteSet(Through)
    BY FS_Subset, TrackerAssumption DEF Through, Stored
  <2>6. gauge \in Gauges /\ Len(keys) \in Nat
    BY DEF TypeOK, Gauges
  <2>7. gauge' = [CountImage(gauge, cur.img) EXCEPT !.keys = @ + Len(keys)]
    BY <1>8 DEF AdvertiseOK
  <2>8. /\ gauge'.images = gauge.images + 1
        /\ gauge'.tags = gauge.tags + (IF m.tag = "" THEN 0 ELSE 1)
        /\ gauge'.digests = gauge.digests + (IF m.tag = "" THEN 1 ELSE 0)
    BY <2>6, <2>7, CountImageFields
  <2>9. /\ gauge.images = Cardinality(Through)
        /\ gauge.tags = Cardinality({n \in Through : n.tag # ""})
        /\ gauge.digests = Cardinality({n \in Through : n.tag = ""})
    BY DEF GaugeInv
  <2> HIDE DEF m
  <2>10. /\ Cardinality(Through \cup {m}) = Cardinality(Through) + 1
         /\ Cardinality({n \in Through \cup {m} : n.tag # ""})
              = Cardinality({n \in Through : n.tag # ""}) + (IF m.tag = "" THEN 0 ELSE 1)
         /\ Cardinality({n \in Through \cup {m} : n.tag = ""})
              = Cardinality({n \in Through : n.tag = ""}) + (IF m.tag = "" THEN 1 ELSE 0)
    BY <2>4, <2>5, CountOneMore
  <2> QED
    BY <2>1, <2>4, <2>8, <2>9, <2>10 DEF GaugeInv
<1> QED
  BY <1>2, <1>3, <1>4, <1>5, <1>6, <1>7, <1>8 DEF Next, Busy, Select

\* A clean re-sync makes the image gauges count the stored images, whatever the events
\* did to them before.
THEOREM GaugesAreRepaired == Spec => []SyncRepairsGauges
<1>1. Init => GaugeInv
  BY DEF Init, GaugeInv
<1>2. SyncInv /\ GaugeInv => SyncRepairsGauges
  <2> SUFFICES ASSUME SyncInv, GaugeInv, SyncComplete, ~errs, dirty = {}
               PROVE  /\ gauge.images = Cardinality(Stored)
                      /\ gauge.tags = Cardinality({n \in Stored : n.tag # ""})
                      /\ gauge.digests = Cardinality({n \in Stored : n.tag = ""})
    BY DEF SyncRepairsGauges
  <2>1. Through = Stored /\ syncing
    BY DEF Through, Pending, SyncComplete, SyncInv
  <2> QED
    BY <2>1 DEF GaugeInv
<1> QED
  BY <1>1, <1>2, GaugeInvStep, SyncInvariant, TypeCorrect, PTL DEF Spec
=============================================================================
