----------------------------- MODULE WalkProofs ----------------------------
(***************************************************************************)
(* For any image, and any number of walks beside other calls:              *)
(* AllIdentifiers finds all identifiers of an image and no others, and     *)
(* whatever is collected meanwhile no part of a manifest without the rest. *)
(*                                                                         *)
(* A manifest's parts join the keys with it. An index is owed a platform   *)
(* until the walk descends, and what it is owed is among the descriptors   *)
(* found, still to look for or still to visit.                             *)
(***************************************************************************)
EXTENDS ServingProofs

-----------------------------------------------------------------------------
(* Sequences as sets *)

LEMMA RangeOfEmpty == Range(<<>>) = {}
BY DEF Range

LEMMA RangeOfOne ==
  ASSUME NEW x
  PROVE  Range(<<x>>) = {x}
<1>1. DOMAIN <<x>> = {1} /\ <<x>>[1] = x
  OBVIOUS
<1> QED
  BY <1>1 DEF Range

LEMMA RangeOfTail ==
  ASSUME NEW S, NEW s \in Seq(S), s # <<>>
  PROVE  Range(s) = {Head(s)} \cup Range(Tail(s)) /\ Head(s) \in S /\ Tail(s) \in Seq(S)
<1>1. /\ Len(s) \in Nat \ {0} /\ DOMAIN s = 1 .. Len(s) /\ Head(s) = s[1]
      /\ DOMAIN Tail(s) = 1 .. Len(s) - 1 /\ Head(s) \in S /\ Tail(s) \in Seq(S)
      /\ \A k \in 1 .. Len(s) - 1 : Tail(s)[k] = s[k + 1]
  OBVIOUS
<1>2. ASSUME NEW k \in 1 .. Len(s) PROVE s[k] \in {Head(s)} \cup Range(Tail(s))
  <2>1. CASE k = 1
    BY <1>1, <2>1
  <2>2. CASE k # 1
    <3>1. k - 1 \in 1 .. Len(s) - 1 /\ Tail(s)[k - 1] = s[k]
      BY <1>1, <2>2
    <3> QED
      BY <1>1, <3>1 DEF Range
  <2> QED
    BY <2>1, <2>2
<1>3. ASSUME NEW k \in 1 .. Len(s) - 1 PROVE Tail(s)[k] \in Range(s)
  <2>1. k + 1 \in DOMAIN s /\ Tail(s)[k] = s[k + 1]
    BY <1>1
  <2> QED
    BY <2>1 DEF Range
<1>4. Head(s) \in Range(s)
  BY <1>1 DEF Range
<1>5. Range(s) \subseteq {Head(s)} \cup Range(Tail(s))
  BY <1>1, <1>2 DEF Range
<1>6. Range(Tail(s)) \subseteq Range(s)
  BY <1>1, <1>3 DEF Range
<1> QED
  BY <1>1, <1>4, <1>5, <1>6

LEMMA RangeOfJoin ==
  ASSUME NEW S, NEW s \in Seq(S), NEW t \in Seq(S)
  PROVE  Range(s \o t) = Range(s) \cup Range(t)
<1>1. /\ Len(s) \in Nat /\ Len(t) \in Nat /\ DOMAIN s = 1 .. Len(s) /\ DOMAIN t = 1 .. Len(t)
      /\ DOMAIN (s \o t) = 1 .. Len(s) + Len(t)
      /\ \A k \in 1 .. Len(s) + Len(t) : (s \o t)[k] = IF k <= Len(s) THEN s[k] ELSE t[k - Len(s)]
  OBVIOUS
<1>2. ASSUME NEW k \in DOMAIN (s \o t) PROVE (s \o t)[k] \in Range(s) \cup Range(t)
  <2>1. CASE k <= Len(s)
    BY <1>1, <2>1 DEF Range
  <2>2. CASE k > Len(s)
    <3>1. k - Len(s) \in DOMAIN t /\ (s \o t)[k] = t[k - Len(s)]
      BY <1>1, <2>2
    <3> QED
      BY <3>1 DEF Range
  <2> QED
    BY <1>1, <2>1, <2>2
<1>3. ASSUME NEW k \in DOMAIN s PROVE s[k] \in Range(s \o t)
  <2>1. k \in DOMAIN (s \o t) /\ (s \o t)[k] = s[k]
    BY <1>1
  <2> QED
    BY <2>1 DEF Range
<1>4. ASSUME NEW k \in DOMAIN t PROVE t[k] \in Range(s \o t)
  <2>1. Len(s) + k \in DOMAIN (s \o t) /\ (s \o t)[Len(s) + k] = t[k]
    BY <1>1
  <2> QED
    BY <2>1 DEF Range
<1>5. Range(s \o t) \subseteq Range(s) \cup Range(t)
  BY <1>2 DEF Range
<1>6. Range(s) \subseteq Range(s \o t) /\ Range(t) \subseteq Range(s \o t)
  BY <1>3, <1>4 DEF Range
<1> QED
  BY <1>5, <1>6

LEMMA RangeOfAppend ==
  ASSUME NEW S, NEW s \in Seq(S), NEW x \in S
  PROVE  Range(Append(s, x)) = Range(s) \cup {x} /\ Append(s, x) \in Seq(S)
<1> DEFINE one == <<x>>
<1>1. Append(s, x) = s \o one /\ one \in Seq(S) /\ Append(s, x) \in Seq(S)
  OBVIOUS
<1>2. Range(one) = {x}
  BY RangeOfOne
<1> HIDE DEF one
<1>3. Range(s \o one) = Range(s) \cup Range(one)
  BY <1>1, RangeOfJoin
<1> QED
  BY <1>1, <1>2, <1>3

-----------------------------------------------------------------------------
(* The identifiers of an image *)

\* They are the least closed set with its target.
LEMMA TargetIdentified ==
  ASSUME NEW t \in Digests
  PROVE  t \in Identifiers(t)
BY DEF Identifiers

LEMMA IdentifiersClosed ==
  ASSUME NEW t \in Digests
  PROVE  Closed(Identifiers(t))
<1> SUFFICES ASSUME NEW d \in Identifiers(t)
             PROVE  /\ Docs[d].type = "index" => Children(d) \cap local \subseteq Identifiers(t)
                    /\ Docs[d].type = "manifest" => Children(d) \subseteq Identifiers(t)
  BY DEF Closed
<1>1. d \in Digests /\ Children(d) \subseteq Digests
  <2>1. d \in Digests
    BY DEF Identifiers
  <2>2. Docs[d].children \in Seq(Digests)
    BY <2>1, ContentAssumption
  <2> QED
    BY <2>1, <2>2 DEF Children, Range
<1>2. ASSUME NEW e \in Children(d), NEW S \in SUBSET Digests, t \in S, Closed(S),
             \/ Docs[d].type = "index" /\ e \in local
             \/ Docs[d].type = "manifest"
      PROVE  e \in S
  <2>1. d \in S
    BY <1>2 DEF Identifiers
  <2> QED
    BY <1>2, <2>1 DEF Closed
<1> QED
  BY <1>1, <1>2 DEF Identifiers

LEMMA IdentifiersLeast ==
  ASSUME NEW t \in Digests, NEW S \in SUBSET Digests, t \in S, Closed(S)
  PROVE  Identifiers(t) \subseteq S
BY DEF Identifiers

-----------------------------------------------------------------------------
(* The inductive invariant *)

K(c) == Range(keys[c])
T(c) == Range(todo[c])
P(c) == Range(platforms[c])
D(c) == Range(descs[c])

\* The target has been visited or will be.
Reached(c) == dgst[c] \in Digests /\ dgst[c] \in K(c) \cup T(c)

Manifests(c) == \A d \in K(c) : Docs[d].type = "manifest" => Children(d) \subseteq K(c)

\* The index whose platforms are looked for.
Reading(c, i) == pc[c] = "platforms" /\ i \in K(c) /\ Docs[i].type = "index" /\ P(c) \cup D(c) \subseteq Children(i)

\* Every other index has a platform.
Indexes(c) ==
  /\ pc[c] = "platforms" => \E i : Reading(c, i)
  /\ \A j \in K(c) : Docs[j].type = "index" => Children(j) \cap (K(c) \cup T(c)) # {} \/ Reading(c, j)

\* Nothing is lost and nothing added while containerd leaves the image alone.
Exact(c) ==
  changes = 0 =>
    /\ \A j \in K(c) : Docs[j].type = "index" => Children(j) \cap local \subseteq K(c) \cup T(c) \cup P(c) \cup D(c)
    /\ K(c) \cup T(c) \cup D(c) \subseteq Identifiers(dgst[c])

Walking(c) ==
  /\ Reached(c) /\ Manifests(c) /\ Indexes(c) /\ Exact(c)
  /\ pc[c] # "platforms" => platforms[c] = <<>> /\ descs[c] = <<>>
  /\ pc[c] = "done" => todo[c] = <<>>

WalkInv(c) ==
  task[c].op = "walk" =>
    /\ pc[c] = "start" => keys[c] = <<>> /\ todo[c] = <<>> /\ platforms[c] = <<>> /\ descs[c] = <<>>
    /\ pc[c] \in {"walk", "platforms", "done"} => Walking(c)

-----------------------------------------------------------------------------
(* Steps *)

SameWalk(c) ==
  /\ pc'[c] = pc[c] /\ dgst'[c] = dgst[c] /\ keys'[c] = keys[c] /\ todo'[c] = todo[c]
  /\ platforms'[c] = platforms[c] /\ descs'[c] = descs[c] /\ task' = task

\* A walk does not notice the others, nor that containerd changes something: then it
\* need no longer be exact.
LEMMA WalkFrame ==
  ASSUME NEW c \in Calls, WalkInv(c), SameWalk(c),
         changes' # 0 \/ (changes' = changes /\ local' = local)
  PROVE  WalkInv(c)'
<1>1. /\ K(c)' = K(c) /\ T(c)' = T(c) /\ P(c)' = P(c) /\ D(c)' = D(c)
  BY DEF SameWalk, K, T, P, D
<1>2. Reached(c) => Reached(c)'
  BY <1>1 DEF Reached, SameWalk
<1>3. Manifests(c) => Manifests(c)'
  BY <1>1 DEF Manifests, Children
<1>4. Indexes(c) => Indexes(c)'
  <2>1. \A i : Reading(c, i)' <=> Reading(c, i)
    BY <1>1 DEF Reading, SameWalk, Children
  <2> QED
    BY <1>1, <2>1 DEF Indexes, SameWalk, Children
<1>5. Exact(c) => Exact(c)'
  <2>1. CASE changes' # 0
    BY <2>1 DEF Exact
  <2>2. CASE changes' = changes /\ local' = local
    <3>1. Identifiers(dgst[c])' = Identifiers(dgst[c])
      BY <2>2 DEF Identifiers, Closed, Children, SameWalk
    <3> QED
      BY <1>1, <2>2, <3>1 DEF Exact, SameWalk, Children
  <2> QED
    BY <2>1, <2>2
<1> QED
  BY <1>2, <1>3, <1>4, <1>5 DEF WalkInv, Walking, SameWalk

\* What a step of a walk has to show, once it is known what becomes of its sets.
LEMMA WalkingStep ==
  ASSUME NEW c \in Calls, UNCHANGED <<stores, task>>, Reached(c)', Manifests(c)', Indexes(c)',
         changes = 0 =>
           /\ \A j \in K(c)' : Docs[j].type = "index" =>
                Children(j) \cap local \subseteq K(c)' \cup T(c)' \cup P(c)' \cup D(c)'
           /\ K(c)' \cup T(c)' \cup D(c)' \subseteq Identifiers(dgst'[c]),
         pc'[c] # "start",
         pc'[c] # "platforms" => platforms'[c] = <<>> /\ descs'[c] = <<>>,
         pc'[c] = "done" => todo'[c] = <<>>
  PROVE  WalkInv(c)'
<1>1. changes' = changes /\ local' = local
  BY DEF stores
<1>2. Identifiers(dgst[c])' = Identifiers(dgst'[c])
  BY <1>1 DEF Identifiers, Closed, Children
<1>3. Exact(c)'
  BY <1>1, <1>2 DEF Exact, Children
<1> QED
  BY <1>3 DEF WalkInv, Walking

\* A walk that fails says nothing about its keys.
LEMMA WalkFails ==
  ASSUME FoundType, NEW c \in Calls, Goto(c, "error")
  PROVE  WalkInv(c)'
BY DEF FoundType, Goto, WalkInv

\* Containerd's Get.
LEMMA WalkStartStep ==
  ASSUME ServingInv, TypeInv, NEW c \in Calls, WalkInv(c), WalkStart(c)
  PROVE  WalkInv(c)'
<1> DEFINE t == store[task[c].name]
<1>1. FoundType /\ WalkType /\ task[c].op = "walk" /\ pc[c] = "start"
  BY DEF TypeInv, WalkStart, Is
<1>2. CASE t = None
  BY <1>1, <1>2, WalkFails DEF WalkStart
<1>3. CASE t # None
  <2>1. t \in Digests
    BY <1>1, <1>3, WalkedImage
  <2>2. /\ dgst'[c] = t /\ todo'[c] = <<t>> /\ pc'[c] = "walk"
        /\ keys'[c] = <<>> /\ platforms'[c] = <<>> /\ descs'[c] = <<>> /\ UNCHANGED <<stores, task>>
    BY <1>1, <1>3 DEF WalkStart, Goto, FoundType, WalkType, WalkInv
  <2> HIDE DEF t
  <2>3. K(c)' = {} /\ T(c)' = {t} /\ P(c)' = {} /\ D(c)' = {}
    BY <2>2, RangeOfEmpty, RangeOfOne DEF K, T, P, D
  <2>4. Reached(c)' /\ Manifests(c)' /\ Indexes(c)'
    BY <2>1, <2>2, <2>3 DEF Reached, Manifests, Indexes
  <2>5. t \in Identifiers(t)
    BY <2>1, TargetIdentified
  <2> QED
    BY <2>2, <2>3, <2>4, <2>5, WalkingStep
<1> QED
  BY <1>2, <1>3

\* What a walk is known to be like before it visits a descriptor.
LEMMA BetweenVisits ==
  ASSUME ServingInv, TypeInv, NEW c \in Calls, WalkInv(c), pc[c] \in {"walk", "platforms"}
  PROVE  /\ Walking(c) /\ WalkType /\ FoundType /\ local \subseteq Digests
         /\ keys[c] \in Seq(Digests) /\ todo[c] \in Seq(Digests)
         /\ platforms[c] \in Seq(Digests) /\ descs[c] \in Seq(Digests)
         /\ K(c) \subseteq Digests /\ T(c) \subseteq Digests /\ P(c) \subseteq Digests /\ D(c) \subseteq Digests
<1>1. task[c].op = "walk"
  BY DEF ServingInv, CallInv, InHandler
<1>2. Walking(c) /\ WalkType /\ FoundType
  BY <1>1 DEF WalkInv, TypeInv
<1>3. /\ keys[c] \in Seq(Digests) /\ todo[c] \in Seq(Digests)
      /\ platforms[c] \in Seq(Digests) /\ descs[c] \in Seq(Digests)
  BY <1>2 DEF WalkType
<1>4. ASSUME NEW s \in Seq(Digests) PROVE Range(s) \subseteq Digests
  BY DEF Range
<1>5. K(c) \subseteq Digests /\ T(c) \subseteq Digests /\ P(c) \subseteq Digests /\ D(c) \subseteq Digests
  BY <1>3, <1>4 DEF K, T, P, D
<1>6. local \subseteq Digests
  BY DEF ServingInv, Shapes
<1> QED
  BY <1>2, <1>3, <1>5, <1>6

\* An index joins the keys, and its platforms are looked for.
LEMMA VisitIndex ==
  ASSUME ServingInv, TypeInv, NEW c \in Calls, WalkInv(c), WalkVisit(c), Goto(c, "platforms")
  PROVE  WalkInv(c)'
<1>0. PICK d : d = Head(todo[c])
  OBVIOUS
<1>1. pc[c] = "walk" /\ todo[c] # <<>>
  BY DEF WalkVisit
<1>2. /\ Walking(c) /\ WalkType /\ FoundType /\ keys[c] \in Seq(Digests) /\ todo[c] \in Seq(Digests)
  BY <1>1, BetweenVisits
<1>3. platforms[c] = <<>> /\ descs[c] = <<>>
  BY <1>1, <1>2 DEF Walking
<1>4. pc' = [pc EXCEPT ![c] = "platforms"] /\ pc'[c] = "platforms"
  BY <1>2 DEF Goto, FoundType
<1>5. /\ Docs[d].type = "index"
      /\ keys' = [keys EXCEPT ![c] = Append(@, d)] /\ todo' = [todo EXCEPT ![c] = Tail(@)]
      /\ platforms' = [platforms EXCEPT ![c] = Docs[d].children]
      /\ UNCHANGED <<stores, task, dgst, descs>>
  <2>1. ~Goto(c, "error") /\ pc' # pc
    BY <1>1, <1>2, <1>4 DEF Goto, FoundType
  <2> QED
    BY <1>0, <2>1 DEF WalkVisit
<1>6. /\ keys'[c] = Append(keys[c], d) /\ todo'[c] = Tail(todo[c])
      /\ platforms'[c] = Docs[d].children /\ descs'[c] = <<>> /\ dgst'[c] = dgst[c]
  BY <1>2, <1>3, <1>5 DEF WalkType
<1>7. d \in Digests /\ T(c) = {d} \cup T(c)'
  <2>1. Range(todo[c]) = {d} \cup Range(Tail(todo[c])) /\ d \in Digests
    BY <1>0, <1>1, <1>2, RangeOfTail
  <2> QED
    BY <1>6, <2>1 DEF T
<1>8. K(c)' = K(c) \cup {d}
  BY <1>2, <1>6, <1>7, RangeOfAppend DEF K
<1>9. P(c)' = Children(d) /\ D(c)' = {} /\ P(c) = {} /\ D(c) = {}
  BY <1>3, <1>6, RangeOfEmpty DEF P, D, Children
<1>10. Reached(c)'
  BY <1>2, <1>6, <1>7, <1>8 DEF Walking, Reached
<1>11. Manifests(c)'
  BY <1>2, <1>5, <1>8 DEF Walking, Manifests, Children
<1>12. Reading(c, d)'
  BY <1>4, <1>5, <1>8, <1>9 DEF Reading, Children
<1>13. Indexes(c)'
  <2>1. \A j \in K(c) : Docs[j].type = "index" => Children(j) \cap (K(c) \cup T(c)) # {}
    BY <1>1, <1>2 DEF Walking, Indexes, Reading
  <2> QED
    BY <1>7, <1>8, <1>12, <2>1 DEF Indexes, Children
<1>14. ASSUME changes = 0
       PROVE  /\ \A j \in K(c)' : Docs[j].type = "index" =>
                   Children(j) \cap local \subseteq K(c)' \cup T(c)' \cup P(c)' \cup D(c)'
              /\ K(c)' \cup T(c)' \cup D(c)' \subseteq Identifiers(dgst'[c])
  BY <1>2, <1>6, <1>7, <1>8, <1>9, <1>14 DEF Walking, Exact
<1> QED
  BY <1>4, <1>5, <1>10, <1>11, <1>13, <1>14, WalkingStep

\* A manifest joins the keys with its config and its layers.
LEMMA VisitManifest ==
  ASSUME ServingInv, TypeInv, NEW c \in Calls, WalkInv(c), WalkVisit(c), UNCHANGED pc
  PROVE  WalkInv(c)'
<1>0. PICK d : d = Head(todo[c])
  OBVIOUS
<1>1. pc[c] = "walk" /\ todo[c] # <<>>
  BY DEF WalkVisit
<1>2. /\ Walking(c) /\ WalkType /\ FoundType /\ keys[c] \in Seq(Digests) /\ todo[c] \in Seq(Digests)
  BY <1>1, BetweenVisits
<1>3. platforms[c] = <<>> /\ descs[c] = <<>>
  BY <1>1, <1>2 DEF Walking
<1>4. /\ Docs[d].type = "manifest"
      /\ keys' = [keys EXCEPT ![c] = Append(@, d) \o Docs[d].children] /\ todo' = [todo EXCEPT ![c] = Tail(@)]
      /\ UNCHANGED <<stores, task, dgst, descs, platforms>>
  <2>1. ~Goto(c, "platforms") /\ ~Goto(c, "error")
    BY <1>1, <1>2 DEF Goto, FoundType
  <2> QED
    BY <1>0, <2>1 DEF WalkVisit
<1>5. /\ keys'[c] = Append(keys[c], d) \o Docs[d].children /\ todo'[c] = Tail(todo[c])
      /\ platforms'[c] = <<>> /\ descs'[c] = <<>> /\ dgst'[c] = dgst[c] /\ pc'[c] = "walk"
  BY <1>1, <1>2, <1>3, <1>4 DEF WalkType
<1>6. d \in Digests /\ T(c) = {d} \cup T(c)'
  <2>1. Range(todo[c]) = {d} \cup Range(Tail(todo[c])) /\ d \in Digests
    BY <1>0, <1>1, <1>2, RangeOfTail
  <2> QED
    BY <1>5, <2>1 DEF T
<1>7. Docs[d].children \in Seq(Digests) /\ \A e \in Children(d) : Docs[e].type \in {"config", "layer"}
  BY <1>4, <1>6, ContentAssumption
<1>8. K(c)' = K(c) \cup {d} \cup Children(d)
  <2>1. Range(Append(keys[c], d)) = K(c) \cup {d} /\ Append(keys[c], d) \in Seq(Digests)
    BY <1>2, <1>6, RangeOfAppend DEF K
  <2>2. ASSUME NEW s \in Seq(Digests), NEW t \in Seq(Digests) PROVE Range(s \o t) = Range(s) \cup Range(t)
    BY RangeOfJoin
  <2>3. Range(Append(keys[c], d) \o Docs[d].children) = K(c) \cup {d} \cup Range(Docs[d].children)
    BY <1>7, <2>1, <2>2
  <2> QED
    BY <1>5, <2>3 DEF K, Children
<1>9. P(c)' = {} /\ D(c)' = {} /\ P(c) = {} /\ D(c) = {}
  BY <1>3, <1>5, RangeOfEmpty DEF P, D
<1>10. Reached(c)'
  BY <1>2, <1>5, <1>6, <1>8 DEF Walking, Reached
<1>11. Manifests(c)'
  <2>1. ASSUME NEW e \in K(c)', Docs[e].type = "manifest" PROVE Children(e) \subseteq K(c)'
    <3>1. e \in K(c) \/ e = d
      BY <1>7, <1>8, <2>1
    <3> QED
      BY <1>2, <1>8, <2>1, <3>1 DEF Walking, Manifests
  <2> QED
    BY <2>1 DEF Manifests, Children
<1>12. ASSUME NEW j \in K(c)', Docs[j].type = "index" PROVE j \in K(c)
  BY <1>4, <1>7, <1>8, <1>12
<1>13. Indexes(c)'
  <2>1. \A j \in K(c) : Docs[j].type = "index" => Children(j) \cap (K(c) \cup T(c)) # {}
    BY <1>1, <1>2 DEF Walking, Indexes, Reading
  <2>2. \A j \in K(c)' : Docs[j].type = "index" => Children(j) \cap (K(c)' \cup T(c)') # {}
    BY <1>6, <1>8, <1>12, <2>1
  <2> QED
    BY <1>5, <2>2 DEF Indexes, Children
<1>14. ASSUME changes = 0
       PROVE  /\ \A j \in K(c)' : Docs[j].type = "index" =>
                   Children(j) \cap local \subseteq K(c)' \cup T(c)' \cup P(c)' \cup D(c)'
              /\ K(c)' \cup T(c)' \cup D(c)' \subseteq Identifiers(dgst'[c])
  <2>1. /\ \A j \in K(c) : Docs[j].type = "index" => Children(j) \cap local \subseteq K(c) \cup T(c)
        /\ K(c) \cup T(c) \subseteq Identifiers(dgst[c])
    BY <1>2, <1>9, <1>14 DEF Walking, Exact
  <2>2. Children(d) \subseteq Identifiers(dgst[c])
    BY <1>2, <1>4, <1>6, <2>1, IdentifiersClosed DEF Walking, Reached, Closed
  <2> QED
    BY <1>5, <1>6, <1>8, <1>9, <1>12, <2>1, <2>2
<1> QED
  BY <1>4, <1>5, <1>10, <1>11, <1>13, <1>14, WalkingStep

\* One platform is looked for: it is found, or nothing is owed.
LEMMA PlatformStep ==
  ASSUME ServingInv, TypeInv, NEW c \in Calls, WalkInv(c), WalkPlatform(c)
  PROVE  WalkInv(c)'
<1>0. PICK h : h = Head(platforms[c])
  OBVIOUS
<1>1. pc[c] = "platforms" /\ platforms[c] # <<>> /\ UNCHANGED <<stores, task, pc, dgst, todo, keys>>
  BY DEF WalkPlatform
<1>2. /\ Walking(c) /\ WalkType /\ platforms[c] \in Seq(Digests) /\ descs[c] \in Seq(Digests)
  BY <1>1, BetweenVisits
<1>3. /\ platforms'[c] = Tail(platforms[c])
      /\ descs'[c] = IF h \in local THEN Append(descs[c], h) ELSE descs[c]
  BY <1>0, <1>2 DEF WalkPlatform, NextPlatforms, WalkType
<1>4. h \in Digests /\ P(c) = {h} \cup P(c)'
  <2>1. Range(platforms[c]) = {h} \cup Range(Tail(platforms[c])) /\ h \in Digests
    BY <1>0, <1>1, <1>2, RangeOfTail
  <2> QED
    BY <1>3, <2>1 DEF P
<1>5. D(c)' = IF h \in local THEN D(c) \cup {h} ELSE D(c)
  <2>1. Range(Append(descs[c], h)) = Range(descs[c]) \cup {h}
    BY <1>2, <1>4, RangeOfAppend
  <2> QED
    BY <1>3, <2>1 DEF D
<1>6. K(c)' = K(c) /\ T(c)' = T(c)
  BY <1>1 DEF K, T
<1>7. Reached(c)' /\ Manifests(c)'
  BY <1>1, <1>2, <1>6 DEF Walking, Reached, Manifests, Children
<1>8. ASSUME NEW i, Reading(c, i) PROVE Reading(c, i)'
  BY <1>1, <1>4, <1>5, <1>6, <1>8 DEF Reading, Children
<1>9. Indexes(c)'
  BY <1>1, <1>2, <1>6, <1>8 DEF Walking, Indexes, Children
<1>10. ASSUME changes = 0
       PROVE  /\ \A j \in K(c)' : Docs[j].type = "index" =>
                   Children(j) \cap local \subseteq K(c)' \cup T(c)' \cup P(c)' \cup D(c)'
              /\ K(c)' \cup T(c)' \cup D(c)' \subseteq Identifiers(dgst'[c])
  <2>1. /\ \A j \in K(c) : Docs[j].type = "index" =>
             Children(j) \cap local \subseteq K(c) \cup T(c) \cup P(c) \cup D(c)
        /\ K(c) \cup T(c) \cup D(c) \subseteq Identifiers(dgst[c])
    BY <1>2, <1>10 DEF Walking, Exact
  <2>2. PICK i : i \in K(c) /\ Docs[i].type = "index" /\ h \in Children(i)
    BY <1>1, <1>2, <1>4 DEF Walking, Indexes, Reading
  <2>3. h \in local => h \in Identifiers(dgst[c])
    BY <1>2, <2>1, <2>2, IdentifiersClosed DEF Walking, Reached, Closed
  <2>4. \A j \in K(c) : Docs[j].type = "index" =>
          Children(j) \cap local \subseteq K(c) \cup T(c) \cup P(c)' \cup D(c)'
    BY <1>4, <1>5, <2>1
  <2> QED
    BY <1>1, <1>5, <1>6, <2>1, <2>3, <2>4
<1> QED
  BY <1>1, <1>7, <1>9, <1>10, WalkingStep

\* The platforms found come next. There is one, or the walk fails.
LEMMA DescendStep ==
  ASSUME ServingInv, TypeInv, NEW c \in Calls, WalkInv(c), WalkDescend(c)
  PROVE  WalkInv(c)'
<1>1. pc[c] = "platforms" /\ platforms[c] = <<>> /\ UNCHANGED <<stores, task, dgst, keys, platforms>>
  BY DEF WalkDescend
<1>2. /\ Walking(c) /\ WalkType /\ FoundType /\ todo[c] \in Seq(Digests) /\ descs[c] \in Seq(Digests)
  BY <1>1, BetweenVisits
<1>3. CASE Goto(c, "error")
  BY <1>2, <1>3, WalkFails
<1>4. CASE ~Goto(c, "error")
  <2>1. /\ descs[c] # <<>> /\ todo'[c] = descs[c] \o todo[c] /\ descs'[c] = <<>> /\ pc'[c] = "walk"
    BY <1>2, <1>4 DEF WalkDescend, WalkType, FoundType, Goto
  <2>2. K(c)' = K(c) /\ P(c) = {} /\ P(c)' = {} /\ D(c)' = {}
    BY <1>1, <2>1, RangeOfEmpty DEF K, P, D
  <2>3. T(c)' = D(c) \cup T(c)
    <3>1. Range(descs[c] \o todo[c]) = Range(descs[c]) \cup Range(todo[c])
      BY <1>2, RangeOfJoin
    <3> QED
      BY <2>1, <3>1 DEF T, D
  <2>4. D(c) # {}
    <3>1. Range(descs[c]) = {Head(descs[c])} \cup Range(Tail(descs[c]))
      BY <1>2, <2>1, RangeOfTail
    <3> QED
      BY <3>1 DEF D
  <2>5. Reached(c)' /\ Manifests(c)'
    BY <1>1, <1>2, <2>2, <2>3 DEF Walking, Reached, Manifests, Children
  <2>6. ASSUME NEW j \in K(c), Docs[j].type = "index" PROVE Children(j) \cap (K(c) \cup T(c)') # {}
    <3>1. CASE Children(j) \cap (K(c) \cup T(c)) # {}
      BY <2>3, <3>1
    <3>2. CASE Reading(c, j)
      BY <2>3, <2>4, <3>2 DEF Reading
    <3> QED
      BY <1>2, <2>6, <3>1, <3>2 DEF Walking, Indexes
  <2>7. Indexes(c)'
    BY <2>1, <2>2, <2>6 DEF Indexes, Children
  <2>8. ASSUME changes = 0
        PROVE  /\ \A j \in K(c)' : Docs[j].type = "index" =>
                    Children(j) \cap local \subseteq K(c)' \cup T(c)' \cup P(c)' \cup D(c)'
               /\ K(c)' \cup T(c)' \cup D(c)' \subseteq Identifiers(dgst'[c])
    <3>1. /\ \A j \in K(c) : Docs[j].type = "index" =>
               Children(j) \cap local \subseteq K(c) \cup T(c) \cup P(c) \cup D(c)
          /\ K(c) \cup T(c) \cup D(c) \subseteq Identifiers(dgst[c])
      BY <1>2, <2>8 DEF Walking, Exact
    <3> QED
      BY <1>1, <2>2, <2>3, <3>1
  <2> QED
    BY <1>1, <2>1, <2>5, <2>7, <2>8, WalkingStep
<1> QED
  BY <1>3, <1>4

\* Nothing is left to visit.
LEMMA EndStep ==
  ASSUME ServingInv, TypeInv, NEW c \in Calls, WalkInv(c), WalkEnd(c)
  PROVE  WalkInv(c)'
<1>1. /\ pc[c] = "walk" /\ todo[c] = <<>> /\ UNCHANGED <<stores, task, dgst, todo, keys, platforms, descs>>
  BY DEF WalkEnd, found, walked
<1>2. Walking(c) /\ FoundType
  BY <1>1, BetweenVisits
<1>3. pc'[c] = "done"
  BY <1>2 DEF WalkEnd, Done, FoundType
<1>4. /\ K(c)' = K(c) /\ T(c)' = T(c) /\ P(c)' = P(c) /\ D(c)' = D(c)
  BY <1>1 DEF K, T, P, D
<1>5. Reached(c)' /\ Manifests(c)'
  BY <1>1, <1>2, <1>4 DEF Walking, Reached, Manifests, Children
<1>6. Indexes(c)'
  BY <1>1, <1>2, <1>3, <1>4 DEF Walking, Indexes, Reading, Children
<1>7. ASSUME changes = 0
      PROVE  /\ \A j \in K(c)' : Docs[j].type = "index" =>
                  Children(j) \cap local \subseteq K(c)' \cup T(c)' \cup P(c)' \cup D(c)'
             /\ K(c)' \cup T(c)' \cup D(c)' \subseteq Identifiers(dgst'[c])
  BY <1>1, <1>2, <1>4, <1>7 DEF Walking, Exact
<1>8. platforms'[c] = <<>> /\ descs'[c] = <<>>
  BY <1>1, <1>2 DEF Walking
<1> QED
  BY <1>1, <1>3, <1>5, <1>6, <1>7, <1>8, WalkingStep

\* A step of a walk is that of one call.
LEMMA OwnWalk ==
  ASSUME ServingInv, TypeInv, NEW c \in Calls, \A e \in Calls : WalkInv(e), Walk(c)
  PROVE  \A e \in Calls : WalkInv(e)'
<1>1. WalkInv(c)'
  <2>1. CASE WalkVisit(c)
    <3>1. Goto(c, "platforms") \/ Goto(c, "error") \/ UNCHANGED pc
      BY <2>1 DEF WalkVisit
    <3>2. CASE Goto(c, "error")
      BY <3>2, WalkFails DEF TypeInv
    <3> QED
      BY <2>1, <3>1, <3>2, VisitIndex, VisitManifest
  <2> QED
    BY <2>1, WalkStartStep, PlatformStep, DescendStep, EndStep DEF Walk
<1>2. ASSUME NEW e \in Calls \ {c} PROVE WalkInv(e)'
  <2>1. /\ task' = task /\ changes' = changes /\ local' = local
        /\ pc' = pc \/ \E x : pc' = [pc EXCEPT ![c] = x]
        /\ dgst' = dgst \/ \E x : dgst' = [dgst EXCEPT ![c] = x]
    BY DEF Walk, WalkStart, WalkVisit, WalkPlatform, WalkDescend, WalkEnd, Goto, Done, found, stores
  <2>2. /\ keys' = keys \/ \E x : keys' = [keys EXCEPT ![c] = x]
        /\ todo' = todo \/ \E x : todo' = [todo EXCEPT ![c] = x]
        /\ platforms' = platforms \/ \E x : platforms' = [platforms EXCEPT ![c] = x]
        /\ descs' = descs \/ \E x : descs' = [descs EXCEPT ![c] = x]
    BY DEF Walk, WalkStart, WalkVisit, WalkPlatform, WalkDescend, WalkEnd, found, walked
  <2>3. FoundType /\ WalkType
    BY DEF TypeInv
  <2>4. SameWalk(e)
    BY <2>1, <2>2, <2>3 DEF SameWalk, FoundType, WalkType
  <2> QED
    BY <2>1, <2>4, WalkFrame
<1> QED
  BY <1>1, <1>2

\* A request is no walk.
LEMMA NoWalk ==
  ASSUME ServingInv, TypeInv, NEW c \in Calls, \A e \in Calls : WalkInv(e), Manifest(c) \/ Blob(c)
  PROVE  \A e \in Calls : WalkInv(e)'
<1>1. /\ UNCHANGED <<stores, task, walked>> /\ task[c].op # "walk"
      /\ pc' = pc \/ \E x : pc' = [pc EXCEPT ![c] = x]
  <2>1. CASE Manifest(c) \/ BlobSize(c) \/ BlobOpen(c)
    BY <2>1, RequestStep
  <2>2. CASE BlobCopy(c) \/ \E why \in {"eof", "unreadable", "gone"} : BlobEnd(c, why)
    <3>1. pc[c] = "copy" /\ UNCHANGED <<stores, task, walked>>
      BY <2>2 DEF BlobCopy, BlobEnd, found
    <3>2. task[c].op = "blob"
      BY <3>1 DEF ServingInv, CallInv, InHandler
    <3>3. pc' = pc \/ \E x : pc' = [pc EXCEPT ![c] = x]
      BY <2>2 DEF BlobCopy, BlobEnd, Goto, Done
    <3> QED
      BY <3>1, <3>2, <3>3
  <2> QED
    BY <2>1, <2>2 DEF Blob
<1>2. dgst' = dgst \/ \E x : dgst' = [dgst EXCEPT ![c] = x]
  <2>1. ASSUME Fail(c, 404) \/ Fail(c, 500) \/ \E type : Reply(c, type) PROVE dgst' = dgst
    BY <2>1 DEF Fail, Reply, found
  <2>2. CASE Manifest(c)
    BY <2>1, <2>2 DEF Manifest, ManifestDigest, ManifestRead, LookupImages, LookupInfo, LookupParent,
                      LookupDescriptor, found
  <2>3. CASE Blob(c)
    BY <2>1, <2>3 DEF Blob, BlobSize, BlobOpen, BlobCopy, BlobEnd, found
  <2> QED
    BY <2>2, <2>3
<1>3. FoundType
  BY DEF TypeInv
<1>4. WalkInv(c)'
  BY <1>1 DEF WalkInv
<1>5. ASSUME NEW e \in Calls \ {c} PROVE WalkInv(e)'
  <2>1. SameWalk(e)
    BY <1>1, <1>2, <1>3 DEF SameWalk, FoundType, walked
  <2> QED
    BY <1>1, <2>1, WalkFrame DEF stores
<1> QED
  BY <1>4, <1>5

LEMMA WalkInvStep ==
  ServingInv /\ TypeInv /\ (\A c \in Calls : WalkInv(c)) /\ [Next]_vars => (\A c \in Calls : WalkInv(c))'
<1> SUFFICES ASSUME ServingInv, TypeInv, \A c \in Calls : WalkInv(c), [Next]_vars
             PROVE  \A c \in Calls : WalkInv(c)'
  OBVIOUS
<1>1. ASSUME NEW c \in Calls, Manifest(c) \/ Blob(c) \/ Walk(c) PROVE \A e \in Calls : WalkInv(e)'
  BY <1>1, OwnWalk, NoWalk
<1>2. ASSUME Tick \/ UNCHANGED vars, NEW e \in Calls PROVE WalkInv(e)'
  <2>1. UNCHANGED <<stores, task, pc, found>>
    BY <1>2 DEF Tick, vars
  <2>2. SameWalk(e) /\ changes' = changes /\ local' = local
    BY <2>1 DEF SameWalk, stores, found, walked
  <2> QED
    BY <2>2, WalkFrame
<1>3. ASSUME Change, NEW e \in Calls PROVE WalkInv(e)'
  <2>1. changes' = changes + 1 /\ changes \in Nat
    BY <1>3 DEF Change, TypeInv, LimiterType
  <2>2. UNCHANGED <<task, pc, found>>
    BY <1>3 DEF Change
  <2>3. SameWalk(e)
    BY <2>2 DEF SameWalk, found, walked
  <2>4. changes' # 0
    BY <2>1
  <2> QED
    BY <2>3, <2>4, WalkFrame
<1> QED
  BY <1>1, <1>2, <1>3 DEF Next

LEMMA WalkInvInit == Init => \A c \in Calls : WalkInv(c)
BY DEF Init, WalkInv

-----------------------------------------------------------------------------
(* The property *)

\* What is found of an image is all of it, unless containerd changes what is there;
\* then it is still a manifest with all its parts.
THEOREM WalksAreComplete == Spec => []WalkComplete
<1>1. ASSUME ServingInv, \A c \in Calls : WalkInv(c), TypeInv PROVE WalkComplete
  <2> SUFFICES ASSUME NEW c \in Calls, task[c].op = "walk", pc[c] = "done"
               PROVE  /\ changes = 0 => K(c) = Identifiers(dgst[c])
                      /\ dgst[c] \in K(c)
                      /\ \A d \in K(c) : /\ Docs[d].type = "manifest" => Children(d) \subseteq K(c)
                                         /\ Docs[d].type = "index" => Children(d) \cap K(c) # {}
    BY DEF WalkComplete, K
  <2>1. Walking(c)
    BY <1>1 DEF WalkInv
  <2>2. T(c) = {} /\ P(c) = {} /\ D(c) = {}
    BY <2>1, RangeOfEmpty DEF Walking, T, P, D
  <2>3. dgst[c] \in K(c) /\ dgst[c] \in Digests
    BY <2>1, <2>2 DEF Walking, Reached
  <2>4. \A d \in K(c) : /\ Docs[d].type = "manifest" => Children(d) \subseteq K(c)
                        /\ Docs[d].type = "index" => Children(d) \cap K(c) # {}
    BY <2>1, <2>2 DEF Walking, Manifests, Indexes, Reading
  <2>5. ASSUME changes = 0 PROVE K(c) = Identifiers(dgst[c])
    <3>1. Closed(K(c)) /\ K(c) \subseteq Identifiers(dgst[c])
      BY <2>1, <2>2, <2>5 DEF Walking, Exact, Manifests, Closed
    <3>2. keys[c] \in Seq(Digests)
      BY <1>1 DEF TypeInv, WalkType
    <3>3. K(c) \subseteq Digests
      BY <3>2 DEF K, Range
    <3> QED
      BY <2>3, <3>1, <3>3, IdentifiersLeast
  <2> QED
    BY <2>3, <2>4, <2>5
<1> QED
  BY <1>1, ServingInvInit, ServingInvStep, TypeInvInit, TypeInvStep, WalkInvInit, WalkInvStep, PTL DEF Spec
=============================================================================
