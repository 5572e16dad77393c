--------------------------- MODULE ServingProofs ---------------------------
(***************************************************************************)
(* For any number of calls, any content, any rate and any number of        *)
(* changes in containerd: what is recorded of a response is what was sent, *)
(* manifests are served as stored, and blobs from files whole.             *)
(***************************************************************************)
EXTENDS Serving, TLAPS

-----------------------------------------------------------------------------
(* The inductive invariant *)

RespTypes == [status : {0, 404, 500}, size : Nat]
SentTypes ==
  [status : {0, 200, 404, 500}, size : Nat, type : Types \cup {None},
   dgst : Digests \cup {None}]

Shapes ==
  /\ store \in [Names -> Digests \cup {None}] /\ local \subseteq Digests
  /\ task \in [Calls -> TaskTypes]
  /\ speed # None => speed.v \in Nat /\ Unit[speed.unit] \in Nat
  /\ DOMAIN pc = Calls /\ DOMAIN dgst = Calls /\ DOMAIN aside = Calls /\ DOMAIN left = Calls
  /\ resp \in [Calls -> RespTypes] /\ sent \in [Calls -> SentTypes]

\* Where a call is says which handler it is in, and what that has found so far.
InHandler(c) ==
  /\ pc[c] \in {"read", "images", "info", "parents", "parent"} =>
       task[c].op = "manifest" /\ dgst[c] \in Digests
  /\ pc[c] = "parent" => dgst[c] \in Children(aside[c])
  /\ pc[c] \in {"open", "copy"} =>
       task[c].op = "blob" /\ dgst[c] \in Digests /\ sent[c].dgst = dgst[c]
  /\ pc[c] \in {"walk", "platforms", "error"} => task[c].op = "walk"

\* Before it copies or returns it has sent nothing.
Silent(c) ==
  pc[c] \notin {"copy", "done", "gone"} =>
    resp[c].status = 0 /\ resp[c].size = 0 /\ sent[c].status = 0 /\ sent[c].size = 0

\* What is sent and what is left are the blob, and Write has counted what is sent.
Copying(c) ==
  pc[c] = "copy" =>
    /\ resp[c].status = 0 /\ sent[c].status \in {0, 200}
    /\ left[c] \in Nat /\ sent[c].size + left[c] = Docs[dgst[c]].size
    /\ Throttled => resp[c].size = sent[c].size

\* What the three properties say of one call.
Recorded(c) == Status(resp[c]) = sent[c].status /\ resp[c].size = sent[c].size

AsStored(c) ==
  task[c].op = "manifest" /\ sent[c].status = 200 =>
    /\ sent[c].type = Docs[sent[c].dgst].type
    /\ sent[c].size = IF task[c].method = "HEAD" THEN 0 ELSE Docs[sent[c].dgst].size

Whole(c) ==
  task[c].op = "blob" /\ task[c].method = "GET" /\ sent[c].status = 200
    /\ contentPath /\ RateFits => sent[c].size = Docs[sent[c].dgst].size

Finished(c) == Responding(c) => Recorded(c) /\ AsStored(c) /\ Whole(c)

CallInv(c) == InHandler(c) /\ Silent(c) /\ Copying(c) /\ Finished(c)

ServingInv == Shapes /\ \A c \in Calls : CallInv(c)

-----------------------------------------------------------------------------
(* Steps *)

Same(c) ==
  /\ pc'[c] = pc[c] /\ dgst'[c] = dgst[c] /\ aside'[c] = aside[c] /\ left'[c] = left[c]
  /\ resp'[c] = resp[c] /\ sent'[c] = sent[c]

Arguments == <<task, speed, contentPath>>

\* The state of other calls, of the limiter and of containerd does not matter to a call.
LEMMA Frame ==
  ASSUME NEW c \in Calls, CallInv(c), Same(c), UNCHANGED Arguments
  PROVE  CallInv(c)'
<1>1. InHandler(c)'
  BY DEF CallInv, InHandler, Same, Arguments, Children
<1>2. Silent(c)'
  BY DEF CallInv, Silent, Same, Arguments
<1>3. Copying(c)'
  BY DEF CallInv, Copying, Same, Arguments, Throttled
<1>4. Finished(c)'
  BY DEF CallInv, Finished, Responding, Recorded, AsStored, Whole, Same, Arguments, Throttled, RateFits, Status
<1> QED
  BY <1>1, <1>2, <1>3, <1>4 DEF CallInv

\* A rate that fits is kept as it is.
LEMMA FittingRate ==
  ASSUME Shapes, Throttled, RateFits
  PROVE  Byterate(speed) > 0
<1> DEFINE r == speed.v * Unit[speed.unit]
           H == MaxInt + 1
<1>1. r \in 1 .. MaxInt
  BY DEF RateFits
<1>2. H \in Nat /\ H > 0 /\ r + H \in Nat /\ r + H < 2 * H /\ r \in Int
  BY <1>1, BoundsAssumption
<1>3. ASSUME NEW x \in Nat, NEW k \in Nat, x < k PROVE x % k = x
  BY <1>3
<1>4. (r + H) % (2 * H) = r + H
  <2> HIDE DEF r, H
  <2>1. 2 * H \in Nat
    BY <1>2
  <2> QED
    BY <1>2, <1>3, <2>1
<1> HIDE DEF r
<1>5. Byterate(speed) = ((r + MaxInt + 1) % (2 * (MaxInt + 1))) - (MaxInt + 1)
  BY DEF Byterate, Wrap, r
<1>6. r + MaxInt + 1 = r + H
  BY <1>2, BoundsAssumption
<1> QED
  BY <1>1, <1>2, <1>4, <1>5, <1>6, BoundsAssumption

\* A handler that has sent nothing fails.
LEMMA FailStep ==
  ASSUME ServingInv, NEW c \in Calls, NEW status \in {404, 500}, Fail(c, status),
         pc[c] \notin {"copy", "done", "gone"}
  PROVE  ServingInv'
<1>1. /\ pc' = [pc EXCEPT ![c] = "done"]
      /\ UNCHANGED <<store, local, dgst, aside, left>> /\ UNCHANGED Arguments
  BY DEF Fail, Done, stores, found, Arguments
<1> DEFINE r == FirstStatus(resp[c], status)
           s == FirstStatus(sent[c], status)
<1>2. resp' = [resp EXCEPT ![c] = r]
  BY Zenon DEF Fail, WriteError
<1>3. sent' = [sent EXCEPT ![c] = s]
  BY Zenon DEF Fail, WriteError
<1>4. /\ resp[c] \in RespTypes /\ sent[c] \in SentTypes
      /\ resp[c].status = 0 /\ sent[c].status = 0 /\ resp[c].size = sent[c].size
  BY DEF ServingInv, Shapes, CallInv, Silent
<1>5. /\ r \in RespTypes /\ r.status = status /\ r.size = resp[c].size
      /\ s \in SentTypes /\ s.status = status /\ s.size = sent[c].size
  BY <1>4 DEF FirstStatus, RespTypes, SentTypes
<1> HIDE DEF r, s
<1>6. Shapes'
  BY <1>1, <1>2, <1>3, <1>5 DEF ServingInv, Shapes, Arguments
<1>7. CallInv(c)'
  <2>1. /\ pc'[c] = "done" /\ sent'[c].status = status /\ resp'[c].status = status
        /\ resp'[c].size = sent'[c].size
    BY <1>1, <1>2, <1>3, <1>4, <1>5 DEF ServingInv, Shapes
  <2> QED
    BY <2>1 DEF CallInv, InHandler, Silent, Copying, Finished, Recorded, AsStored, Whole, Status
<1>8. ASSUME NEW d \in Calls \ {c} PROVE CallInv(d)'
  BY <1>1, <1>2, <1>3, Frame DEF Same, ServingInv, Shapes
<1> QED
  BY <1>6, <1>7, <1>8 DEF ServingInv

\* handleManifest replies with the right media type.
LEMMA ReplyStep ==
  ASSUME ServingInv, NEW c \in Calls, Reply(c, Docs[dgst[c]].type),
         pc[c] \in {"read", "images", "info", "parents", "parent"}
  PROVE  ServingInv'
<1> DEFINE n == IF task[c].method = "HEAD" THEN 0 ELSE Docs[dgst[c]].size
           type == Docs[dgst[c]].type
           s == [status |-> 200, size |-> n, type |-> type, dgst |-> dgst[c]]
           r == [resp[c] EXCEPT !.size = n]
<1>1. /\ pc' = [pc EXCEPT ![c] = "done"]
      /\ UNCHANGED <<store, local, dgst, aside, left>> /\ UNCHANGED Arguments
  BY DEF Reply, Done, stores, found, Arguments
<1>2. resp' = [resp EXCEPT ![c] = r]
  BY Zenon DEF Reply, ServingInv, Shapes
<1>3. sent' = [sent EXCEPT ![c] = s]
  BY Zenon DEF Reply, ServingInv, Shapes
<1>4. /\ resp[c] \in RespTypes /\ sent[c] \in SentTypes
      /\ resp[c].status = 0 /\ sent[c].status = 0
      /\ task[c].op = "manifest" /\ dgst[c] \in Digests
  BY DEF ServingInv, Shapes, CallInv, Silent, InHandler
<1>5. n \in Nat /\ type \in Types
  BY <1>4, ContentAssumption
<1> HIDE DEF n, type
<1>6. r \in RespTypes /\ r.status = 0 /\ r.size = n
  BY <1>4, <1>5 DEF RespTypes
<1>7. s \in SentTypes /\ s.status = 200 /\ s.size = n /\ s.type = type /\ s.dgst = dgst[c]
  BY <1>4, <1>5 DEF SentTypes
<1> HIDE DEF r, s
<1>8. Shapes'
  BY <1>1, <1>2, <1>3, <1>6, <1>7 DEF ServingInv, Shapes, Arguments
<1>9. CallInv(c)'
  <2>1. pc'[c] = "done" /\ resp'[c] = r /\ sent'[c] = s /\ task'[c] = task[c]
    BY <1>1, <1>2, <1>3 DEF ServingInv, Shapes, Arguments
  <2>2. AsStored(c)'
    BY <2>1, <1>7 DEF AsStored, n, type
  <2> QED
    BY <2>1, <2>2, <1>4, <1>6, <1>7
    DEF CallInv, InHandler, Silent, Copying, Finished, Recorded, Whole, Status
<1>10. ASSUME NEW d \in Calls \ {c} PROVE CallInv(d)'
  BY <1>1, <1>2, <1>3, Frame DEF Same, ServingInv, Shapes
<1> QED
  BY <1>8, <1>9, <1>10 DEF ServingInv

\* A call looks something up and goes on, without a word to its client.
LEMMA LookStep ==
  ASSUME ServingInv, NEW c \in Calls, NEW label,
         pc[c] \notin {"copy", "done", "gone"}, label \notin {"copy", "done", "gone"},
         Goto(c, label), UNCHANGED <<store, local, left, resp, sent>>, UNCHANGED Arguments,
         DOMAIN dgst' = Calls, DOMAIN aside' = Calls,
         \A d \in Calls \ {c} : dgst'[d] = dgst[d] /\ aside'[d] = aside[d],
         InHandler(c)'
  PROVE  ServingInv'
<1>1. Shapes'
  BY DEF ServingInv, Shapes, Goto, Arguments
<1>2. pc'[c] = label
  BY DEF ServingInv, Shapes, Goto
<1>3. CallInv(c)'
  BY <1>2 DEF ServingInv, CallInv, Silent, Copying, Finished, Responding
<1>4. ASSUME NEW d \in Calls \ {c} PROVE CallInv(d)'
  BY Frame DEF Same, ServingInv, Shapes, Goto
<1> QED
  BY <1>1, <1>3, <1>4 DEF ServingInv

\* Every step of handleManifest, GetManifest and lookupMediaType.
LEMMA ManifestStep ==
  ASSUME ServingInv, NEW c \in Calls, Manifest(c)
  PROVE  ServingInv'
<1>1. CASE ManifestDigest(c)
  <2> DEFINE d == IF task[c].name = None THEN task[c].dgst ELSE store[task[c].name]
  <2>1. d \in Digests \cup {None}
    BY DEF ServingInv, Shapes, TaskTypes
  <2>2. pc[c] = "start" /\ task[c].op = "manifest"
    BY <1>1 DEF ManifestDigest, Is
  <2>3. CASE d = None /\ Fail(c, 404)
    BY <2>2, <2>3, FailStep
  <2>4. CASE d # None
    <3>1. /\ dgst' = [dgst EXCEPT ![c] = d] /\ Goto(c, "read")
          /\ UNCHANGED <<store, local, aside, left, resp, sent>> /\ UNCHANGED Arguments
      BY <1>1, <2>4 DEF ManifestDigest, stores, answer, Arguments
    <3>2. pc'[c] = "read" /\ dgst'[c] \in Digests /\ task'[c].op = "manifest"
      BY <2>1, <2>2, <2>4, <3>1 DEF Goto, ServingInv, Shapes, Arguments
    <3> HIDE DEF d
    <3>3. InHandler(c)'
      BY <3>2 DEF InHandler
    <3>4. /\ DOMAIN dgst' = Calls /\ DOMAIN aside' = Calls
          /\ \A e \in Calls \ {c} : dgst'[e] = dgst[e] /\ aside'[e] = aside[e]
      BY <3>1 DEF ServingInv, Shapes
    <3> QED
      BY <2>2, <3>1, <3>3, <3>4, LookStep
  <2> QED
    BY <1>1, <2>3, <2>4 DEF ManifestDigest
<1>2. ASSUME NEW label \in {"images", "info"}, Goto(c, label),
             UNCHANGED <<stores, contentPath, speed, limiter, task, found, answer>>,
             pc[c] \in {"read", "images", "info", "parents", "parent"}
      PROVE  ServingInv'
  <2>1. /\ UNCHANGED <<store, local, dgst, aside, left, resp, sent>> /\ UNCHANGED Arguments
    BY <1>2 DEF stores, found, answer, Arguments
  <2>2. pc'[c] = label
    BY <1>2 DEF Goto, ServingInv, Shapes
  <2>3. InHandler(c)'
    BY <1>2, <2>1, <2>2 DEF ServingInv, CallInv, InHandler, Arguments
  <2>4. DOMAIN dgst' = Calls /\ DOMAIN aside' = Calls
    BY <2>1 DEF ServingInv, Shapes
  <2> QED
    BY <1>2, <2>1, <2>3, <2>4, LookStep
<1>3. CASE ManifestRead(c)
  <2>1. pc[c] = "read"
    BY <1>3 DEF ManifestRead, Is
  <2>2. CASE Fail(c, 404)
    BY <2>1, <2>2, FailStep
  <2>3. CASE Reply(c, Docs[dgst[c]].type)
    BY <2>1, <2>3, ReplyStep
  <2>4. CASE /\ Goto(c, "images")
             /\ UNCHANGED <<stores, contentPath, speed, limiter, task, found, answer>>
    BY <1>2, <2>1, <2>4
  <2>5. Docs[dgst[c]].form = "image" => Docs[dgst[c]].type = "config"
    BY <2>1, ContentAssumption DEF ServingInv, CallInv, InHandler
  <2> QED
    BY <1>3, <2>2, <2>3, <2>4, <2>5 DEF ManifestRead
<1>4. CASE LookupImages(c)
  <2>1. pc[c] = "images"
    BY <1>4 DEF LookupImages
  <2>2. CASE Reply(c, Docs[dgst[c]].type)
    BY <2>1, <2>2, ReplyStep
  <2>3. CASE /\ Goto(c, "info")
             /\ UNCHANGED <<stores, contentPath, speed, limiter, task, found, answer>>
    BY <1>2, <2>1, <2>3
  <2> QED
    BY <1>4, <2>2, <2>3 DEF LookupImages
<1>5. ASSUME NEW label \in {"parents", "parent"}, NEW x, aside' = [aside EXCEPT ![c] = x], Goto(c, label),
             UNCHANGED <<stores, contentPath, speed, limiter, task, dgst, walked, answer>>,
             pc[c] \in {"read", "images", "info", "parents", "parent"},
             label = "parent" => dgst[c] \in Children(x)
      PROVE  ServingInv'
  <2>1. /\ UNCHANGED <<store, local, dgst, left, resp, sent>> /\ UNCHANGED Arguments
    BY <1>5 DEF stores, answer, Arguments
  <2>2. pc'[c] = label /\ aside'[c] = x
    BY <1>5 DEF Goto, ServingInv, Shapes
  <2>3. InHandler(c)'
    BY <1>5, <2>1, <2>2 DEF ServingInv, CallInv, InHandler, Arguments, Children
  <2>4. /\ DOMAIN dgst' = Calls /\ DOMAIN aside' = Calls
        /\ \A e \in Calls \ {c} : dgst'[e] = dgst[e] /\ aside'[e] = aside[e]
    BY <1>5, <2>1 DEF ServingInv, Shapes
  <2> QED
    BY <1>5, <2>1, <2>3, <2>4, LookStep
<1>6. CASE LookupInfo(c)
  <2>1. pc[c] = "info"
    BY <1>6 DEF LookupInfo
  <2>2. CASE Fail(c, 404)
    BY <2>1, <2>2, FailStep
  <2>3. CASE /\ \E s \in Docs[dgst[c]].sources : aside' = [aside EXCEPT ![c] = s]
             /\ Goto(c, "parents")
             /\ UNCHANGED <<stores, contentPath, speed, limiter, task, dgst, walked, answer>>
    BY <1>5, <2>1, <2>3
  <2> QED
    BY <1>6, <2>2, <2>3 DEF LookupInfo
<1>7. CASE LookupParent(c)
  <2>1. pc[c] = "parents"
    BY <1>7 DEF LookupParent
  <2>2. CASE Fail(c, 404)
    BY <2>1, <2>2, FailStep
  <2>3. CASE /\ \E p \in Parents(c) : aside' = [aside EXCEPT ![c] = p]
             /\ Goto(c, "parent")
             /\ UNCHANGED <<stores, contentPath, speed, limiter, task, dgst, walked, answer>>
    <3>1. PICK p \in Parents(c) : aside' = [aside EXCEPT ![c] = p]
      BY <2>3
    <3>2. dgst[c] \in Children(p)
      BY DEF Parents
    <3> QED
      BY <1>5, <2>1, <2>3, <3>1, <3>2
  <2> QED
    BY <1>7, <2>2, <2>3 DEF LookupParent
<1>8. CASE LookupDescriptor(c)
  <2>1. pc[c] = "parent" /\ dgst[c] \in Children(aside[c])
    BY <1>8 DEF LookupDescriptor, ServingInv, CallInv, InHandler
  <2>2. Descriptor(aside[c], dgst[c]) = Docs[dgst[c]].type
    BY <2>1 DEF Descriptor
  <2>3. CASE Fail(c, 404)
    BY <2>1, <2>3, FailStep
  <2>4. CASE Reply(c, Docs[dgst[c]].type)
    BY <2>1, <2>4, ReplyStep
  <2> QED
    BY <1>8, <2>2, <2>3, <2>4 DEF LookupDescriptor
<1> QED
  BY <1>1, <1>3, <1>4, <1>6, <1>7, <1>8 DEF Manifest

\* Every step of handleBlob and GetBlob but the copying.
LEMMA BlobStartStep ==
  ASSUME ServingInv, NEW c \in Calls, BlobSize(c) \/ BlobOpen(c)
  PROVE  ServingInv'
<1>1. CASE BlobSize(c) /\ Fail(c, 500)
  BY <1>1, FailStep DEF BlobSize, Is
<1>2. CASE BlobOpen(c) /\ Fail(c, 500)
  BY <1>2, FailStep DEF BlobOpen
<1>3. CASE BlobSize(c) /\ ~Fail(c, 500)
  <2> DEFINE s == [sent[c] EXCEPT !.dgst = task[c].dgst]
  <2>1. /\ pc[c] = "start" /\ task[c].op = "blob" /\ task[c].dgst \in local
        /\ dgst' = [dgst EXCEPT ![c] = task[c].dgst]
        /\ UNCHANGED <<store, local, aside, left, resp>> /\ UNCHANGED Arguments
    BY <1>3 DEF BlobSize, Is, stores, Arguments
  <2>2. /\ sent[c] \in SentTypes /\ sent[c].status = 0 /\ sent[c].size = 0
        /\ resp[c].status = 0 /\ resp[c].size = 0 /\ task[c].dgst \in Digests
    BY <2>1 DEF ServingInv, Shapes, CallInv, Silent
  <2>3. s \in SentTypes /\ s.status = 0 /\ s.size = 0 /\ s.dgst = task[c].dgst
    BY <2>2 DEF SentTypes
  <2>4. CASE task[c].method = "HEAD"
    <3>1. pc' = [pc EXCEPT ![c] = "done"] /\ sent' = [sent EXCEPT ![c] = Ok(s)]
      BY <1>3, <2>4, Zenon DEF BlobSize, Done, ServingInv, Shapes
    <3> HIDE DEF s
    <3>2. Ok(s) \in SentTypes /\ Ok(s).status = 200 /\ Ok(s).size = 0
      BY <2>3 DEF Ok, FirstStatus, SentTypes
    <3>3. Shapes'
      BY <2>1, <3>1, <3>2 DEF ServingInv, Shapes, Arguments
    <3>4. /\ pc'[c] = "done" /\ sent'[c] = Ok(s) /\ resp'[c] = resp[c] /\ task'[c] = task[c]
      BY <2>1, <3>1 DEF ServingInv, Shapes, Arguments
    <3>5. CallInv(c)'
      <4>1. pc'[c] = "done" /\ task'[c].op = "blob" /\ task'[c].method # "GET"
        BY <2>1, <2>4, <3>4
      <4>2. (InHandler(c) /\ Silent(c) /\ Copying(c) /\ AsStored(c) /\ Whole(c))'
        BY <4>1 DEF InHandler, Silent, Copying, AsStored, Whole
      <4>3. Recorded(c)'
        BY <2>2, <3>2, <3>4 DEF Recorded, Status
      <4> QED
        BY <4>2, <4>3 DEF CallInv, Finished
    <3>6. ASSUME NEW d \in Calls \ {c} PROVE CallInv(d)'
      BY <2>1, <3>1, Frame DEF Same, ServingInv, Shapes
    <3> QED
      BY <3>3, <3>5, <3>6 DEF ServingInv
  <2>5. CASE task[c].method # "HEAD"
    <3>1. pc' = [pc EXCEPT ![c] = "open"] /\ sent' = [sent EXCEPT ![c] = s]
      BY <1>3, <2>5, Zenon DEF BlobSize, Goto, ServingInv, Shapes
    <3> HIDE DEF s
    <3>2. Shapes'
      BY <2>1, <2>3, <3>1 DEF ServingInv, Shapes, Arguments
    <3>3. /\ pc'[c] = "open" /\ sent'[c] = s /\ resp'[c] = resp[c] /\ task'[c] = task[c]
          /\ dgst'[c] = task[c].dgst
      BY <2>1, <3>1 DEF ServingInv, Shapes, Arguments
    <3>4. CallInv(c)'
      BY <2>1, <2>2, <2>3, <3>3 DEF CallInv, InHandler, Silent, Copying, Finished, Responding
    <3>5. ASSUME NEW d \in Calls \ {c} PROVE CallInv(d)'
      BY <2>1, <3>1, Frame DEF Same, ServingInv, Shapes
    <3> QED
      BY <3>2, <3>4, <3>5 DEF ServingInv
  <2> QED
    BY <2>4, <2>5
<1>4. CASE BlobOpen(c) /\ ~Fail(c, 500)
  <2>1. /\ pc[c] = "open" /\ left' = [left EXCEPT ![c] = Docs[dgst[c]].size]
        /\ pc' = [pc EXCEPT ![c] = "copy"]
        /\ UNCHANGED <<store, local, dgst, aside, resp, sent>> /\ UNCHANGED Arguments
    BY <1>4 DEF BlobOpen, Goto, stores, found, Arguments
  <2>2. /\ task[c].op = "blob" /\ dgst[c] \in Digests /\ sent[c].dgst = dgst[c]
        /\ sent[c].status = 0 /\ sent[c].size = 0 /\ resp[c].status = 0 /\ resp[c].size = 0
    BY <2>1 DEF ServingInv, CallInv, InHandler, Silent
  <2>3. Docs[dgst[c]].size \in Nat
    BY <2>2, ContentAssumption
  <2>4. Shapes'
    BY <2>1 DEF ServingInv, Shapes, Arguments
  <2>5. pc'[c] = "copy" /\ left'[c] = Docs[dgst[c]].size
    BY <2>1 DEF ServingInv, Shapes
  <2>6. CallInv(c)'
    <3>1. /\ task'[c] = task[c] /\ dgst'[c] = dgst[c] /\ sent'[c] = sent[c] /\ resp'[c] = resp[c]
      BY <2>1 DEF Arguments
    <3>2. InHandler(c)'
      BY <2>2, <2>5, <3>1 DEF InHandler
    <3>3. sent'[c].size + left'[c] = Docs[dgst'[c]].size
      <4>1. sent'[c].size = 0 /\ left'[c] = Docs[dgst[c]].size /\ dgst'[c] = dgst[c]
        BY <2>2, <2>5, <3>1
      <4> QED
        BY <2>3, <4>1
    <3>4. Copying(c)'
      BY <2>2, <2>3, <2>5, <3>1, <3>3 DEF Copying
    <3>5. (Silent(c) /\ Finished(c))'
      BY <2>5 DEF Silent, Finished, Responding
    <3> QED
      BY <3>2, <3>4, <3>5 DEF CallInv
  <2>7. ASSUME NEW d \in Calls \ {c} PROVE CallInv(d)'
    BY <2>1, Frame DEF Same, ServingInv, Shapes
  <2> QED
    BY <2>4, <2>6, <2>7 DEF ServingInv
<1> QED
  BY <1>1, <1>2, <1>3, <1>4

\* A round of io.Copy takes no more than is left.
LEMMA PartOfBlob ==
  ASSUME NEW c \in Calls, left[c] \in Nat
  PROVE  Part(c) \in Nat /\ Part(c) <= left[c]
<1>1. Chunk \in Nat
  BY BoundsAssumption
<1>2. \E x \in {left[c], Chunk} : \A y \in {left[c], Chunk} : x <= y
  BY <1>1
<1> QED
  BY <1>1, <1>2 DEF Part, Min

\* A round of io.Copy.
LEMMA CopyStep ==
  ASSUME ServingInv, NEW c \in Calls, BlobCopy(c)
  PROVE  ServingInv'
<1> DEFINE n == Part(c)
           t == [sent[c] EXCEPT !.size = sent[c].size + n]
           s == Ok(t)
           r == IF Throttled THEN [resp[c] EXCEPT !.size = @ + n] ELSE resp[c]
<1>1. /\ pc[c] = "copy" /\ left' = [left EXCEPT ![c] = @ - n]
      /\ UNCHANGED <<store, local, dgst, aside>> /\ UNCHANGED Arguments
  BY DEF BlobCopy, stores, found, Arguments
<1>2. /\ resp[c] \in RespTypes /\ resp[c].status = 0 /\ (Throttled => resp[c].size = sent[c].size)
      /\ sent[c] \in SentTypes /\ sent[c].status \in {0, 200} /\ sent[c].dgst = dgst[c]
      /\ left[c] \in Nat /\ sent[c].size + left[c] = Docs[dgst[c]].size
      /\ task[c].op = "blob" /\ dgst[c] \in Digests
  <2>1. resp[c] \in RespTypes /\ sent[c] \in SentTypes
    BY DEF ServingInv, Shapes
  <2>2. InHandler(c) /\ Copying(c)
    BY DEF ServingInv, CallInv
  <2> QED
    BY <1>1, <2>1, <2>2 DEF Copying, InHandler
<1>3. n \in Nat /\ n <= left[c]
  BY <1>2, PartOfBlob
<1>4. sent' = [sent EXCEPT ![c] = s]
  BY Zenon DEF BlobCopy, ServingInv, Shapes
<1>5. resp' = [resp EXCEPT ![c] = r]
  <2>1. CASE Throttled
    BY <2>1, Zenon DEF BlobCopy, ServingInv, Shapes
  <2>2. CASE ~Throttled
    <3>1. resp' = resp /\ r = resp[c]
      BY <2>2 DEF BlobCopy
    <3> QED
      BY <3>1 DEF ServingInv, Shapes
  <2> QED
    BY <2>1, <2>2
<1> HIDE DEF n
<1>6. t \in SentTypes /\ t.status \in {0, 200} /\ t.size = sent[c].size + n /\ t.dgst = dgst[c]
  BY <1>2, <1>3 DEF SentTypes
<1> HIDE DEF t
<1>7. s \in SentTypes /\ s.status = 200 /\ s.size = sent[c].size + n /\ s.dgst = dgst[c]
  BY <1>6 DEF Ok, FirstStatus, SentTypes
<1>8. r \in RespTypes /\ r.status = 0 /\ (Throttled => r.size = sent[c].size + n)
  BY <1>2, <1>3 DEF RespTypes
<1> HIDE DEF s, r
<1>9. /\ left'[c] = left[c] - n /\ sent'[c] = s /\ resp'[c] = r /\ task'[c] = task[c] /\ dgst'[c] = dgst[c]
  BY <1>1, <1>4, <1>5 DEF ServingInv, Shapes, Arguments
<1>10. pc' = pc \/ (pc' = [pc EXCEPT ![c] = "done"] /\ FALSE \in Reserved)
  BY DEF BlobCopy, Done
<1>11. Shapes'
  BY <1>1, <1>4, <1>5, <1>7, <1>8, <1>10 DEF ServingInv, Shapes, Arguments
<1>12. Throttled' <=> Throttled
  BY <1>1 DEF Throttled, Arguments
<1>13. CASE pc' = pc
  <2>1. pc'[c] = "copy"
    BY <1>1, <1>13
  <2>2. CallInv(c)'
    <3>1. s.size + left'[c] = Docs[dgst'[c]].size /\ left'[c] \in Nat
      <4>1. sent[c].size \in Nat
        BY <1>2 DEF SentTypes
      <4>2. left'[c] = left[c] - n /\ s.size = sent[c].size + n
        BY <1>7, <1>9
      <4>3. dgst'[c] = dgst[c] /\ sent[c].size + left[c] = Docs[dgst[c]].size /\ left[c] \in Nat
        BY <1>2, <1>9
      <4>4. s.size + left'[c] = sent[c].size + left[c] /\ left'[c] \in Nat
        BY <1>3, <4>1, <4>2, <4>3
      <4> QED
        BY <4>3, <4>4
    <3>2. Copying(c)'
      BY <1>7, <1>8, <1>9, <1>12, <3>1 DEF Copying
    <3>3. InHandler(c)'
      <4>1. task'[c].op = "blob" /\ dgst'[c] \in Digests /\ sent'[c].dgst = dgst'[c]
        BY <1>2, <1>7, <1>9
      <4> QED
        BY <2>1, <4>1 DEF InHandler
    <3>4. (Silent(c) /\ Finished(c))'
      BY <2>1 DEF Silent, Finished, Responding
    <3> QED
      BY <3>2, <3>3, <3>4 DEF CallInv
  <2>3. ASSUME NEW d \in Calls \ {c} PROVE CallInv(d)'
    BY <1>1, <1>4, <1>5, <1>13, Frame DEF Same, ServingInv, Shapes
  <2> QED
    BY <1>11, <2>2, <2>3 DEF ServingInv
<1>14. CASE pc' = [pc EXCEPT ![c] = "done"] /\ FALSE \in Reserved
  <2>1. pc'[c] = "done"
    BY <1>14 DEF ServingInv, Shapes
  <2>2. Throttled /\ Byterate(speed) = 0
    BY <1>14 DEF Reserved
  <2>3. ~RateFits
    BY <2>2, FittingRate DEF ServingInv
  <2>4. ~RateFits'
    BY <1>1, <2>3 DEF RateFits, Throttled, Arguments
  <2>5. CallInv(c)'
    BY <1>2, <1>7, <1>8, <1>9, <2>1, <2>2, <2>4
    DEF CallInv, InHandler, Silent, Copying, Finished, Recorded, AsStored, Whole, Status
  <2>6. ASSUME NEW d \in Calls \ {c} PROVE CallInv(d)'
    BY <1>1, <1>4, <1>5, <1>14, Frame DEF Same, ServingInv, Shapes
  <2> QED
    BY <1>11, <2>5, <2>6 DEF ServingInv
<1> QED
  BY <1>10, <1>13, <1>14

\* The end of io.Copy. From a file it comes only with the end of the blob.
LEMMA CopyEndStep ==
  ASSUME ServingInv, NEW c \in Calls, NEW why \in {"eof", "unreadable", "gone"}, BlobEnd(c, why)
  PROVE  ServingInv'
<1> DEFINE r == [resp[c] EXCEPT !.size = Counted(c)]
           s == Ok(sent[c])
<1>1. /\ pc[c] = "copy" /\ pc' = [pc EXCEPT ![c] = IF why = "gone" THEN "gone" ELSE "done"]
      /\ UNCHANGED <<store, local, dgst, aside, left>> /\ UNCHANGED Arguments
  BY DEF BlobEnd, Goto, stores, found, Arguments
<1>2. /\ resp[c] \in RespTypes /\ resp[c].status = 0 /\ (Throttled => resp[c].size = sent[c].size)
      /\ sent[c] \in SentTypes /\ sent[c].status \in {0, 200} /\ sent[c].dgst = dgst[c]
      /\ left[c] \in Nat /\ sent[c].size + left[c] = Docs[dgst[c]].size
      /\ task[c].op = "blob" /\ dgst[c] \in Digests
  <2>1. resp[c] \in RespTypes /\ sent[c] \in SentTypes
    BY DEF ServingInv, Shapes
  <2>2. InHandler(c) /\ Copying(c)
    BY DEF ServingInv, CallInv
  <2> QED
    BY <1>1, <2>1, <2>2 DEF Copying, InHandler
<1>3. resp' = [resp EXCEPT ![c] = r]
  BY Zenon DEF BlobEnd, ServingInv, Shapes
<1>4. sent' = [sent EXCEPT ![c] = s]
  BY Zenon DEF BlobEnd, ServingInv, Shapes
<1>5. Counted(c) = sent[c].size /\ sent[c].size \in Nat
  <2>1. sent[c].size \in Nat
    BY <1>2 DEF SentTypes
  <2>2. Counted(c) = sent[c].size
    BY <1>2 DEF Counted
  <2> QED
    BY <2>1, <2>2
<1>6. r \in RespTypes /\ r.status = 0 /\ r.size = sent[c].size
  BY <1>2, <1>5 DEF RespTypes
<1>7. s \in SentTypes /\ s.status = 200 /\ s.size = sent[c].size /\ s.dgst = dgst[c]
  BY <1>2 DEF Ok, FirstStatus, SentTypes
<1>8. why # "gone" => left[c] = 0 \/ ~contentPath
  BY DEF BlobEnd, Readable
<1> HIDE DEF r, s
<1>9. Shapes'
  BY <1>1, <1>3, <1>4, <1>6, <1>7 DEF ServingInv, Shapes, Arguments
<1>10. /\ pc'[c] = IF why = "gone" THEN "gone" ELSE "done"
       /\ resp'[c] = r /\ sent'[c] = s /\ task'[c] = task[c] /\ contentPath' = contentPath
  BY <1>1, <1>3, <1>4 DEF ServingInv, Shapes, Arguments
<1>11. CallInv(c)'
  <2>0. pc'[c] \in {"gone", "done"} /\ task'[c].op = "blob"
    BY <1>2, <1>10
  <2>1. (InHandler(c) /\ Silent(c) /\ Copying(c) /\ AsStored(c))'
    BY <2>0 DEF InHandler, Silent, Copying, AsStored
  <2>2. Recorded(c)'
    BY <1>6, <1>7, <1>10 DEF Recorded, Status
  <2>3. ASSUME why # "gone" PROVE Whole(c)'
    <3>1. contentPath => s.size = Docs[s.dgst].size
      <4>1. s.size = sent[c].size /\ s.dgst = dgst[c]
        BY <1>7
      <4>2. contentPath => left[c] = 0
        BY <1>8, <2>3
      <4>3. sent[c].size \in Nat /\ sent[c].size + left[c] = Docs[dgst[c]].size
        BY <1>2, <1>5
      <4> QED
        BY <4>1, <4>2, <4>3
    <3> QED
      BY <1>10, <3>1 DEF Whole
  <2> QED
    BY <1>10, <2>1, <2>2, <2>3 DEF CallInv, Finished, Responding
<1>12. ASSUME NEW d \in Calls \ {c} PROVE CallInv(d)'
  BY <1>1, <1>3, <1>4, Frame DEF Same, ServingInv, Shapes
<1> QED
  BY <1>9, <1>11, <1>12 DEF ServingInv

\* AllIdentifiers sends nothing.
LEMMA WalkStep ==
  ASSUME ServingInv, NEW c \in Calls, Walk(c)
  PROVE  ServingInv'
<1>1. /\ UNCHANGED <<store, local, aside, left, resp, sent>> /\ UNCHANGED Arguments
      /\ dgst' = dgst \/ \E x : dgst' = [dgst EXCEPT ![c] = x]
  BY DEF Walk, WalkStart, WalkVisit, WalkPlatform, WalkDescend, WalkEnd, stores, found, answer, Arguments
<1>2. /\ task[c].op = "walk" /\ pc[c] \in {"start", "walk", "platforms"}
      /\ pc' = pc \/ \E label \in {"walk", "platforms", "error", "done"} : pc' = [pc EXCEPT ![c] = label]
  <2>1. pc[c] \in {"walk", "platforms"} => task[c].op = "walk"
    BY DEF ServingInv, CallInv, InHandler
  <2> QED
    BY <2>1 DEF Walk, WalkStart, WalkVisit, WalkPlatform, WalkDescend, WalkEnd, Is, Goto, Done
<1>3. Shapes'
  BY <1>1, <1>2 DEF ServingInv, Shapes, Arguments
<1>4. pc'[c] \in {"start", "walk", "platforms", "error", "done"}
  BY <1>2 DEF ServingInv, Shapes
<1>5. CallInv(c)'
  BY <1>1, <1>2, <1>4
  DEF ServingInv, CallInv, InHandler, Silent, Copying, Finished, Responding, Arguments
<1>6. ASSUME NEW d \in Calls \ {c} PROVE CallInv(d)'
  BY <1>1, <1>2, Frame DEF Same, ServingInv, Shapes
<1> QED
  BY <1>3, <1>5, <1>6 DEF ServingInv

\* Every step keeps the invariant.
LEMMA ServingInvStep == ServingInv /\ [Next]_vars => ServingInv'
<1> SUFFICES ASSUME ServingInv, [Next]_vars PROVE ServingInv'
  OBVIOUS
<1>1. ASSUME NEW c \in Calls, Manifest(c) \/ Blob(c) \/ Walk(c) PROVE ServingInv'
  BY <1>1, ManifestStep, BlobStartStep, CopyStep, CopyEndStep, WalkStep DEF Blob
<1>2. ASSUME UNCHANGED Arguments, UNCHANGED <<pc, dgst, aside, left, resp, sent>>,
             store' \in [Names -> Digests \cup {None}], local' \subseteq Digests
      PROVE  ServingInv'
  <2>1. Shapes'
    BY <1>2 DEF ServingInv, Shapes, Arguments
  <2>2. ASSUME NEW c \in Calls PROVE CallInv(c)'
    BY <1>2, Frame DEF Same, ServingInv
  <2> QED
    BY <2>1, <2>2 DEF ServingInv
<1>3. CASE Tick
  BY <1>2, <1>3 DEF Tick, stores, found, answer, Arguments, ServingInv, Shapes
<1>4. CASE Change
  BY <1>2, <1>4, ContentAssumption DEF Change, found, answer, Arguments, ServingInv, Shapes
<1>5. CASE UNCHANGED vars
  BY <1>2, <1>5 DEF vars, stores, found, answer, Arguments, ServingInv, Shapes
<1> QED
  BY <1>1, <1>3, <1>4, <1>5 DEF Next

\* It holds at the start.
LEMMA ServingInvInit == Init => ServingInv
<1> SUFFICES ASSUME Init PROVE ServingInv
  OBVIOUS
<1>1. PICK w \in Workloads : task = w.task /\ speed = w.speed
  BY DEF Init
<1>2. task \in [Calls -> TaskTypes] /\ (speed # None => speed.v \in Nat /\ Unit[speed.unit] \in Nat)
  BY <1>1, WorkloadAssumption
<1>3. [status |-> 0, size |-> 0] \in RespTypes /\ NotSent \in SentTypes
  BY DEF RespTypes, SentTypes, NotSent
<1>4. Shapes
  BY <1>2, <1>3, ContentAssumption DEF Init, Shapes
<1>5. ASSUME NEW c \in Calls PROVE CallInv(c)
  BY DEF Init, CallInv, InHandler, Silent, Copying, Finished, Responding, NotSent
<1> QED
  BY <1>4, <1>5 DEF ServingInv

-----------------------------------------------------------------------------
(* Types *)

LEMMA MinOfTwo ==
  ASSUME NEW a \in Int, NEW b \in Int
  PROVE  Min({a, b}) \in {a, b} /\ Min({a, b}) <= a /\ Min({a, b}) <= b
<1>1. \E x \in {a, b} : \A y \in {a, b} : x <= y
  OBVIOUS
<1> QED
  BY <1>1 DEF Min

LEMMA MaxOfTwo ==
  ASSUME NEW a \in Int, NEW b \in Int
  PROVE  Max({a, b}) \in {a, b} /\ Max({a, b}) >= a /\ Max({a, b}) >= b
<1>1. \E x \in {a, b} : \A y \in {a, b} : x >= y
  OBVIOUS
<1> QED
  BY <1>1 DEF Max

\* Whatever the product wraps to is an int, and tokens come at that rate or not at all.
LEMMA RateType ==
  ASSUME Shapes, Throttled
  PROVE  /\ Byterate(speed) \in Int /\ Rate \in Nat
         /\ Rate = (IF Byterate(speed) > 0 THEN Byterate(speed) ELSE 0)
<1>1. speed.v \in Nat /\ Unit[speed.unit] \in Nat
  BY DEF Shapes, Throttled
<1>2. speed.v * Unit[speed.unit] \in Nat
  BY <1>1
<1>3. ASSUME NEW n \in Nat PROVE Wrap(n) \in Int
  <2>1. n + MaxInt + 1 \in Nat /\ 2 * (MaxInt + 1) \in Nat \ {0} /\ MaxInt + 1 \in Nat
    BY BoundsAssumption
  <2>2. (n + MaxInt + 1) % (2 * (MaxInt + 1)) \in Int
    BY <2>1
  <2> QED
    BY <2>1, <2>2 DEF Wrap
<1>4. Byterate(speed) \in Int
  BY <1>2, <1>3 DEF Byterate
<1> QED
  BY <1>4, MaxOfTwo DEF Rate

\* Tokens that are owed take that long at least, and not longer than they have to.
LEMMA DelayEnough ==
  ASSUME Shapes, Throttled, NEW t \in Int
  PROVE  /\ Delay(t) \in Nat \cup {Forever}
         /\ Delay(t) # Forever => 0 <= t + Rate * Delay(t)
<1> DEFINE r == Byterate(speed)
<1>1. r \in Int /\ Rate = (IF r > 0 THEN r ELSE 0)
  BY RateType
<1> HIDE DEF r
<1>2. CASE t >= 0
  <2>1. Delay(t) = 0
    BY <1>2 DEF Delay
  <2>2. Rate * 0 = 0
    BY RateType
  <2> QED
    BY <1>2, <2>1, <2>2
<1>3. CASE t < 0 /\ r <= 0
  BY <1>1, <1>3 DEF Delay, r
<1>4. CASE t < 0 /\ r > 0
  <2>1. Delay(t) = (r - 1 - t) \div r
    BY <1>1, <1>4 DEF Delay, r
  <2>2. ASSUME NEW a \in Nat, NEW b \in Nat, b > 0
        PROVE  a \div b \in Nat /\ b * (a \div b) > a - b
    BY <2>2
  <2>3. r - 1 - t \in Nat /\ r \in Nat
    BY <1>1, <1>4
  <2>4. Delay(t) \in Nat /\ r * Delay(t) > (r - 1 - t) - r
    BY <1>4, <2>1, <2>2, <2>3
  <2>5. r * Delay(t) \in Int
    BY <2>3, <2>4
  <2> QED
    BY <1>1, <1>4, <2>3, <2>4, <2>5
<1> QED
  BY <1>1, <1>2, <1>3, <1>4

Labels == {"start", "read", "images", "info", "parents", "parent", "open", "copy", "walk",
           "platforms", "done", "gone", "error"}

ArgumentsType ==
  \E w \in Workloads : task = w.task /\ speed = w.speed /\ contentPath = w.contentPath

LimiterType ==
  /\ tokens \in Int /\ tokens <= Burst /\ now \in Nat /\ total \in Nat /\ changes \in 0 .. MaxChanges
  /\ sleep \in [Calls -> Nat \cup {Forever}] /\ left \in [Calls -> Nat]

FoundType == pc \in [Calls -> Labels] /\ dgst \in [Calls -> Digests \cup {None}]

WalkType ==
  /\ todo \in [Calls -> Seq(Digests)] /\ keys \in [Calls -> Seq(Digests)]
  /\ platforms \in [Calls -> Seq(Digests)] /\ descs \in [Calls -> Seq(Digests)]

\* What TypeOK says and ServingInv does not.
TypeInv == ArgumentsType /\ LimiterType /\ FoundType /\ WalkType

LEMMA TypeInvType == ServingInv /\ TypeInv => TypeOK
<1> SUFFICES ASSUME ServingInv, TypeInv PROVE TypeOK
  OBVIOUS
<1>1. /\ store \in [Names -> Digests \cup {None}] /\ local \subseteq Digests
      /\ \E w \in Workloads : task = w.task /\ speed = w.speed /\ contentPath = w.contentPath
      /\ tokens \in Int /\ tokens <= Burst /\ now \in Nat /\ total \in Nat /\ changes \in 0 .. MaxChanges
  BY DEF ServingInv, Shapes, TypeInv, ArgumentsType, LimiterType
<1>2. ASSUME NEW c \in Calls
      PROVE  /\ resp[c] \in [status : {0, 404, 500}, size : Nat]
             /\ sent[c].status \in {0, 200, 404, 500} /\ sent[c].size \in Nat
             /\ sent[c].type \in Types \cup {None}
  <2>1. resp[c] \in RespTypes /\ sent[c] \in SentTypes
    BY DEF ServingInv, Shapes
  <2> QED
    BY <2>1 DEF RespTypes, SentTypes
<1>3. ASSUME NEW c \in Calls
      PROVE  /\ sleep[c] \in Nat \cup {Forever} /\ left[c] \in Nat
             /\ dgst[c] \in Digests \cup {None}
             /\ {todo[c], keys[c], platforms[c], descs[c]} \subseteq Seq(Digests)
  BY DEF TypeInv, LimiterType, FoundType, WalkType
<1>4. ASSUME NEW c \in Calls
      PROVE  pc[c] \in {"start", "read", "images", "info", "parents", "parent", "open", "copy",
                       "walk", "platforms", "done", "gone", "error"}
  BY DEF TypeInv, FoundType, Labels
<1>5. \A c \in Calls :
        /\ sleep[c] \in Nat \cup {Forever} /\ left[c] \in Nat
        /\ pc[c] \in {"start", "read", "images", "info", "parents", "parent", "open", "copy",
                      "walk", "platforms", "done", "gone", "error"}
        /\ dgst[c] \in Digests \cup {None}
        /\ {todo[c], keys[c], platforms[c], descs[c]} \subseteq Seq(Digests)
        /\ resp[c] \in [status : {0, 404, 500}, size : Nat]
        /\ sent[c].status \in {0, 200, 404, 500} /\ sent[c].size \in Nat
        /\ sent[c].type \in Types \cup {None}
  <2> TAKE c \in Calls
  <2> QED
    BY <1>2, <1>3, <1>4
<1> QED
  BY <1>1, <1>5, Zenon DEF TypeOK

\* A step of a handler that leaves the limiter and the walks alone.
LEMMA HandlerTypes ==
  ASSUME TypeInv, NEW c \in Calls, UNCHANGED <<stores, contentPath, speed, limiter, task, walked>>,
         \E label \in Labels : pc' = [pc EXCEPT ![c] = label],
         dgst' = dgst \/ (\E d \in Digests \cup {None} : dgst' = [dgst EXCEPT ![c] = d]),
         left' = left \/ (\E n \in Nat : left' = [left EXCEPT ![c] = n])
  PROVE  TypeInv'
<1>1. ArgumentsType'
  BY DEF TypeInv, ArgumentsType
<1>2. LimiterType'
  <2>1. left' \in [Calls -> Nat]
    BY DEF TypeInv, LimiterType
  <2> QED
    BY <2>1 DEF TypeInv, LimiterType, limiter, stores
<1>3. FoundType'
  BY DEF TypeInv, FoundType
<1>4. WalkType'
  BY DEF TypeInv, WalkType, walked
<1> QED
  BY <1>1, <1>2, <1>3, <1>4 DEF TypeInv

\* Every step of handleManifest, and of handleBlob but the copying, goes on to another
\* label and leaves the limiter and the walks alone.
LEMMA RequestStep ==
  ASSUME ServingInv, NEW c \in Calls, Manifest(c) \/ BlobSize(c) \/ BlobOpen(c)
  PROVE  /\ UNCHANGED <<stores, contentPath, speed, limiter, task, walked>>
         /\ \E label \in Labels : pc' = [pc EXCEPT ![c] = label]
         /\ pc[c] \notin {"copy", "done"} /\ task[c].op # "walk"
<1> DEFINE Rest == /\ UNCHANGED <<stores, contentPath, speed, limiter, task, walked>>
                   /\ \E label \in Labels : pc' = [pc EXCEPT ![c] = label]
<1>0. {"done", "read", "images", "info", "parents", "parent", "open", "copy"} \subseteq Labels
  BY DEF Labels
<1>1. ASSUME NEW n, Fail(c, n) PROVE Rest
  BY <1>0, <1>1 DEF Fail, Done, found
<1>2. ASSUME NEW t, Reply(c, t) PROVE Rest
  BY <1>0, <1>2 DEF Reply, Done, found
<1>3. ASSUME Goto(c, "images") \/ Goto(c, "info"),
             UNCHANGED <<stores, contentPath, speed, limiter, task, found, answer>>
      PROVE  Rest
  BY <1>0, <1>3 DEF Goto, found
<1>4. ASSUME Goto(c, "read") \/ Goto(c, "parents") \/ Goto(c, "parent"),
             UNCHANGED <<stores, contentPath, speed, limiter, task, walked, answer>>
      PROVE  Rest
  BY <1>0, <1>4 DEF Goto
<1> HIDE DEF Rest
<1>5. ASSUME ManifestDigest(c) PROVE Rest
  BY <1>1, <1>4, <1>5 DEF ManifestDigest
<1>6. ASSUME ManifestRead(c) PROVE Rest
  BY <1>1, <1>2, <1>3, <1>6 DEF ManifestRead
<1>7. ASSUME LookupImages(c) PROVE Rest
  BY <1>2, <1>3, <1>7 DEF LookupImages
<1>8. ASSUME LookupInfo(c) PROVE Rest
  <2>1. ASSUME Goto(c, "parents"),
               UNCHANGED <<stores, contentPath, speed, limiter, task, dgst, walked, answer>>
        PROVE  Rest
    BY <1>4, <2>1
  <2> QED
    BY <1>1, <1>8, <2>1, Zenon DEF LookupInfo
<1>9. ASSUME LookupParent(c) PROVE Rest
  BY <1>1, <1>4, <1>9 DEF LookupParent
<1>10. ASSUME LookupDescriptor(c) PROVE Rest
  BY <1>1, <1>2, <1>10 DEF LookupDescriptor
<1>11. ASSUME BlobSize(c) PROVE Rest
  <2>1. CASE Fail(c, 500)
    BY <1>1, <2>1
  <2>2. CASE ~Fail(c, 500)
    BY <1>0, <1>11, <2>2 DEF BlobSize, Goto, Done, Rest, walked
  <2> QED
    BY <2>1, <2>2
<1>12. ASSUME BlobOpen(c) PROVE Rest
  <2>1. CASE Fail(c, 500)
    BY <1>1, <2>1
  <2>2. CASE ~Fail(c, 500)
    BY <1>0, <1>12, <2>2 DEF BlobOpen, Goto, Rest, found
  <2> QED
    BY <2>1, <2>2
<1>13. Rest
  BY <1>5, <1>6, <1>7, <1>8, <1>9, <1>10, <1>11, <1>12 DEF Manifest
<1>14. pc[c] \in {"start", "read", "images", "info", "parents", "parent", "open"}
       /\ (pc[c] = "start" => task[c].op \in {"manifest", "blob"})
  BY DEF Manifest, ManifestDigest, ManifestRead, LookupImages, LookupInfo, LookupParent,
         LookupDescriptor, BlobSize, BlobOpen, Is
<1>15. task[c].op # "walk"
  BY <1>14 DEF ServingInv, CallInv, InHandler
<1> QED
  BY <1>13, <1>14, <1>15 DEF Rest

LEMMA RequestTypes ==
  ASSUME ServingInv, TypeInv, NEW c \in Calls, Manifest(c) \/ BlobSize(c) \/ BlobOpen(c)
  PROVE  TypeInv'
<1>1. UNCHANGED <<stores, contentPath, speed, limiter, task, walked>>
      /\ \E label \in Labels : pc' = [pc EXCEPT ![c] = label]
  BY RequestStep
<1>2. ASSUME NEW n, Fail(c, n) PROVE UNCHANGED <<dgst, left>>
  BY <1>2 DEF Fail, found
<1>3. ASSUME NEW t, Reply(c, t) PROVE UNCHANGED <<dgst, left>>
  BY <1>3 DEF Reply, found
<1>4. ASSUME ManifestRead(c) \/ LookupImages(c) PROVE UNCHANGED <<dgst, left>>
  BY <1>2, <1>3, <1>4 DEF ManifestRead, LookupImages, found, answer
<1>5. ASSUME LookupInfo(c) \/ LookupParent(c) PROVE UNCHANGED <<dgst, left>>
  <2>1. ASSUME UNCHANGED <<stores, contentPath, speed, limiter, task, dgst, walked, answer>>
        PROVE  UNCHANGED <<dgst, left>>
    BY <2>1 DEF answer
  <2> QED
    BY <1>2, <1>5, <2>1, Zenon DEF LookupInfo, LookupParent
<1>6. ASSUME LookupDescriptor(c) PROVE UNCHANGED <<dgst, left>>
  BY <1>2, <1>3, <1>6 DEF LookupDescriptor
<1>7. ASSUME ManifestDigest(c) \/ BlobSize(c)
      PROVE  left' = left /\ (dgst' = dgst \/ \E d \in Digests \cup {None} : dgst' = [dgst EXCEPT ![c] = d])
  <2>1. task[c] \in TaskTypes /\ store \in [Names -> Digests \cup {None}]
    BY DEF ServingInv, Shapes
  <2>2. task[c].dgst \in Digests \cup {None} /\ task[c].name \in Names \cup {None}
    BY <2>1 DEF TaskTypes
  <2>3. task[c].name # None => store[task[c].name] \in Digests \cup {None}
    BY <2>1, <2>2
  <2> QED
    BY <1>2, <1>7, <2>2, <2>3 DEF ManifestDigest, BlobSize, answer
<1>8. ASSUME BlobOpen(c)
      PROVE  dgst' = dgst /\ (left' = left \/ \E n \in Nat : left' = [left EXCEPT ![c] = n])
  <2>1. dgst[c] \in Digests
    BY <1>8 DEF BlobOpen, ServingInv, CallInv, InHandler
  <2>2. Docs[dgst[c]].size \in Nat
    BY <2>1, ContentAssumption
  <2>3. QED
    <3>1. CASE Fail(c, 500)
      BY <1>2, <3>1
    <3>2. CASE ~Fail(c, 500)
      BY <1>8, <2>2, <3>2 DEF BlobOpen, found
    <3> QED
      BY <3>1, <3>2
<1>9. /\ dgst' = dgst \/ \E d \in Digests \cup {None} : dgst' = [dgst EXCEPT ![c] = d]
      /\ left' = left \/ \E n \in Nat : left' = [left EXCEPT ![c] = n]
  BY <1>4, <1>5, <1>6, <1>7, <1>8 DEF Manifest
<1> QED
  BY <1>1, <1>9, HandlerTypes

\* The copying.
LEMMA CopyTypes ==
  ASSUME ServingInv, TypeInv, NEW c \in Calls,
         BlobCopy(c) \/ \E why \in {"eof", "unreadable", "gone"} : BlobEnd(c, why)
  PROVE  TypeInv'
<1>1. CASE \E why \in {"eof", "unreadable", "gone"} : BlobEnd(c, why)
  <2>1. UNCHANGED <<stores, contentPath, speed, limiter, task, walked, dgst, left>>
    BY <1>1 DEF BlobEnd, found
  <2>2. \E label \in {"gone", "done"} : pc' = [pc EXCEPT ![c] = label]
    BY <1>1 DEF BlobEnd, Goto
  <2>3. {"gone", "done"} \subseteq Labels
    BY DEF Labels
  <2> QED
    BY <2>1, <2>2, <2>3, HandlerTypes
<1>2. CASE BlobCopy(c)
  <2>1. left[c] \in Nat /\ Part(c) \in Nat /\ Part(c) <= left[c]
    BY PartOfBlob DEF TypeInv, LimiterType
  <2>2. left' \in [Calls -> Nat]
    <3>1. left' = [left EXCEPT ![c] = left[c] - Part(c)] /\ left[c] - Part(c) \in Nat
      BY <1>2, <2>1 DEF BlobCopy
    <3> QED
      BY <3>1 DEF TypeInv, LimiterType
  <2>3. tokens' \in Int /\ tokens' <= Burst /\ sleep' \in [Calls -> Nat \cup {Forever}]
    <3>1. tokens \in Int /\ tokens <= Burst /\ sleep \in [Calls -> Nat \cup {Forever}] /\ Burst \in Nat
      BY BoundsAssumption DEF TypeInv, LimiterType
    <3>2. CASE UNCHANGED <<tokens, sleep>>
      BY <3>1, <3>2
    <3>3. CASE Throttled /\ tokens' = tokens - Part(c) /\ sleep' = [sleep EXCEPT ![c] = Delay(tokens')]
      <4>1. tokens' \in Int /\ tokens' <= Burst
        BY <2>1, <3>1, <3>3
      <4>2. Delay(tokens') \in Nat \cup {Forever}
        BY <3>3, <4>1, DelayEnough DEF ServingInv
      <4> QED
        BY <3>1, <3>3, <4>1, <4>2
    <3> QED
      BY <1>2, <3>2, <3>3, Zenon DEF BlobCopy
  <2>4. total' \in Nat
    BY <1>2, <2>1 DEF BlobCopy, TypeInv, LimiterType
  <2>5. LimiterType'
    BY <1>2, <2>2, <2>3, <2>4 DEF BlobCopy, TypeInv, LimiterType, stores
  <2>6. ArgumentsType' /\ WalkType'
    BY <1>2 DEF BlobCopy, TypeInv, ArgumentsType, WalkType, found, walked
  <2>7. FoundType'
    <3>1. dgst' = dgst /\ (pc' = pc \/ pc' = [pc EXCEPT ![c] = "done"])
      BY <1>2 DEF BlobCopy, found, Done
    <3> QED
      BY <3>1 DEF TypeInv, FoundType, Labels
  <2> QED
    BY <2>5, <2>6, <2>7 DEF TypeInv
<1> QED
  BY <1>1, <1>2

\* AllIdentifiers is asked for an image.
LEMMA WalkedImage ==
  ASSUME ServingInv, TypeInv, NEW c \in Calls, task[c].op = "walk"
  PROVE  task[c].name \in Names /\ store[task[c].name] \in Digests \cup {None}
<1>1. PICK w \in Workloads : task = w.task
  BY DEF TypeInv, ArgumentsType
<1>2. task[c].name \in Names
  BY <1>1, WorkloadAssumption
<1>3. store \in [Names -> Digests \cup {None}]
  BY DEF ServingInv, Shapes
<1> QED
  BY <1>2, <1>3

LEMMA FirstAndRest ==
  ASSUME NEW S, NEW s \in Seq(S), s # <<>>
  PROVE  Head(s) \in S /\ Tail(s) \in Seq(S)
OBVIOUS

\* AllIdentifiers.
LEMMA WalkTypes ==
  ASSUME ServingInv, TypeInv, NEW c \in Calls, Walk(c)
  PROVE  TypeInv'
<1>1. ArgumentsType' /\ LimiterType'
  <2>1. UNCHANGED <<stores, contentPath, speed, limiter, task, left>>
    BY DEF Walk, WalkStart, WalkVisit, WalkPlatform, WalkDescend, WalkEnd, answer
  <2> QED
    BY <2>1 DEF TypeInv, ArgumentsType, LimiterType, limiter, stores
<1>2. FoundType'
  <2>1. pc' = pc \/ \E label \in {"walk", "platforms", "error", "done"} : pc' = [pc EXCEPT ![c] = label]
    BY DEF Walk, WalkStart, WalkVisit, WalkPlatform, WalkDescend, WalkEnd, Goto, Done
  <2>2. pc' \in [Calls -> Labels]
    BY <2>1 DEF TypeInv, FoundType, Labels
  <2>3. dgst' = dgst \/ (task[c].op = "walk" /\ dgst' = [dgst EXCEPT ![c] = store[task[c].name]]
                         /\ store[task[c].name] \in Digests \cup {None})
    <3>1. task[c].op = "walk" => store[task[c].name] \in Digests \cup {None}
      BY WalkedImage
    <3> QED
      BY <3>1 DEF Walk, WalkStart, WalkVisit, WalkPlatform, WalkDescend, WalkEnd, Is, found
  <2> QED
    BY <2>2, <2>3 DEF TypeInv, FoundType
<1>3. WalkType'
  <2>1. /\ todo \in [Calls -> Seq(Digests)] /\ keys \in [Calls -> Seq(Digests)]
        /\ platforms \in [Calls -> Seq(Digests)] /\ descs \in [Calls -> Seq(Digests)]
    BY DEF TypeInv, WalkType
  <2>2. CASE WalkStart(c)
    <3>1. CASE UNCHANGED walked
      BY <2>1, <3>1 DEF WalkType, walked
    <3>2. CASE /\ store[task[c].name] # None /\ UNCHANGED <<keys, platforms, descs>>
               /\ todo' = [todo EXCEPT ![c] = <<store[task[c].name]>>]
      <4>1. store[task[c].name] \in Digests
        BY <2>2, <3>2, WalkedImage DEF WalkStart, Is
      <4>2. <<store[task[c].name]>> \in Seq(Digests)
        BY <4>1
      <4> QED
        BY <2>1, <3>2, <4>2 DEF WalkType
    <3> QED
      BY <2>2, <3>1, <3>2 DEF WalkStart, walked
  <2>3. CASE WalkVisit(c)
    <3> DEFINE d == Head(todo[c])
    <3>1. /\ todo[c] \in Seq(Digests) /\ todo[c] # <<>> /\ d \in Digests
          /\ Tail(todo[c]) \in Seq(Digests) /\ keys[c] \in Seq(Digests)
      <4>1. todo[c] \in Seq(Digests) /\ todo[c] # <<>> /\ keys[c] \in Seq(Digests)
        BY <2>1, <2>3 DEF WalkVisit
      <4> QED
        BY <4>1, FirstAndRest
    <3>2. Docs[d].children \in Seq(Digests)
      BY <3>1, ContentAssumption
    <3>3. Append(keys[c], d) \in Seq(Digests)
      BY <3>1
    <3>4. Append(keys[c], d) \o Docs[d].children \in Seq(Digests)
      BY <3>2, <3>3
    <3>5. /\ descs' = descs
          /\ todo' = todo \/ todo' = [todo EXCEPT ![c] = Tail(todo[c])]
          /\ platforms' = platforms \/ platforms' = [platforms EXCEPT ![c] = Docs[d].children]
          /\ \/ keys' = keys \/ keys' = [keys EXCEPT ![c] = Append(keys[c], d)]
             \/ keys' = [keys EXCEPT ![c] = Append(keys[c], d) \o Docs[d].children]
      BY <2>3 DEF WalkVisit
    <3> HIDE DEF d
    <3>6. todo' \in [Calls -> Seq(Digests)]
      BY <2>1, <3>1, <3>5
    <3>7. keys' \in [Calls -> Seq(Digests)]
      BY <2>1, <3>3, <3>4, <3>5
    <3>8. platforms' \in [Calls -> Seq(Digests)]
      BY <2>1, <3>2, <3>5
    <3> QED
      BY <2>1, <3>5, <3>6, <3>7, <3>8 DEF WalkType
  <2>4. CASE WalkPlatform(c)
    <3>1. /\ platforms[c] \in Seq(Digests) /\ platforms[c] # <<>> /\ descs[c] \in Seq(Digests)
          /\ Tail(platforms[c]) \in Seq(Digests) /\ Append(descs[c], Head(platforms[c])) \in Seq(Digests)
      BY <2>1, <2>4 DEF WalkPlatform
    <3>2. /\ UNCHANGED <<todo, keys>> /\ platforms' = [platforms EXCEPT ![c] = Tail(platforms[c])]
          /\ \/ descs' = [descs EXCEPT ![c] = Append(descs[c], Head(platforms[c]))]
             \/ descs' = [descs EXCEPT ![c] = descs[c]]
      BY <2>4 DEF WalkPlatform, NextPlatforms
    <3> QED
      BY <2>1, <3>1, <3>2 DEF WalkType
  <2>5. CASE WalkDescend(c)
    <3>1. descs[c] \o todo[c] \in Seq(Digests) /\ <<>> \in Seq(Digests)
      BY <2>1
    <3>2. /\ UNCHANGED <<keys, platforms>>
          /\ todo' = todo \/ todo' = [todo EXCEPT ![c] = descs[c] \o todo[c]]
          /\ descs' = descs \/ descs' = [descs EXCEPT ![c] = <<>>]
      BY <2>5 DEF WalkDescend
    <3> QED
      BY <2>1, <3>1, <3>2 DEF WalkType
  <2>6. CASE WalkEnd(c)
    BY <2>1, <2>6 DEF WalkEnd, found, walked, WalkType
  <2> QED
    BY <2>2, <2>3, <2>4, <2>5, <2>6 DEF Walk
<1> QED
  BY <1>1, <1>2, <1>3 DEF TypeInv

LEMMA TypeInvInit == Init => TypeInv
<1> SUFFICES ASSUME Init PROVE TypeInv
  OBVIOUS
<1>1. ArgumentsType
  BY DEF Init, ArgumentsType
<1>2. LimiterType
  <2>1. /\ tokens = 0 /\ now = 0 /\ total = 0 /\ changes = 0
        /\ sleep = [c \in Calls |-> 0] /\ left = [c \in Calls |-> 0]
    BY DEF Init, InitialTokens
  <2>2. tokens <= Burst /\ changes \in 0 .. MaxChanges
    BY <2>1, BoundsAssumption
  <2> QED
    BY <2>1, <2>2 DEF LimiterType
<1>3. FoundType
  BY DEF Init, FoundType, Labels
<1>4. WalkType
  <2>1. <<>> \in Seq(Digests)
    OBVIOUS
  <2> QED
    BY <2>1 DEF Init, WalkType
<1> QED
  BY <1>1, <1>2, <1>3, <1>4 DEF TypeInv

LEMMA TypeInvStep == ServingInv /\ TypeInv /\ [Next]_vars => TypeInv'
<1> SUFFICES ASSUME ServingInv, TypeInv, [Next]_vars PROVE TypeInv'
  OBVIOUS
<1>1. ASSUME NEW c \in Calls, Manifest(c) \/ Blob(c) \/ Walk(c) PROVE TypeInv'
  BY <1>1, RequestTypes, CopyTypes, WalkTypes DEF Blob
<1>2. CASE Tick
  <2>1. UNCHANGED <<stores, contentPath, speed, total, task, pc, found, answer>>
    BY <1>2 DEF Tick
  <2>2. ArgumentsType' /\ FoundType' /\ WalkType'
    BY <2>1 DEF TypeInv, ArgumentsType, FoundType, WalkType, found, walked
  <2>3. tokens \in Int /\ now \in Nat /\ sleep \in [Calls -> Nat \cup {Forever}] /\ Burst \in Nat
    BY BoundsAssumption DEF TypeInv, LimiterType
  <2>4. Rate \in Nat
    BY <1>2, RateType DEF Tick, ServingInv
  <2>5. tokens' \in Int /\ tokens' <= Burst
    <3>1. tokens + Rate \in Int
      BY <2>3, <2>4
    <3>2. tokens' = Min({Burst, tokens + Rate})
      BY <1>2 DEF Tick
    <3>3. /\ Min({Burst, tokens + Rate}) \in {Burst, tokens + Rate}
          /\ Min({Burst, tokens + Rate}) <= Burst
      BY <2>3, <3>1, MinOfTwo
    <3> QED
      BY <2>3, <3>1, <3>2, <3>3
  <2>6. sleep' \in [Calls -> Nat \cup {Forever}]
    <3>1. \A c \in Calls : (IF sleep[c] > 0 THEN sleep[c] - 1 ELSE sleep[c]) \in Nat \cup {Forever}
      BY <2>3 DEF Forever
    <3> QED
      BY <1>2, <3>1 DEF Tick
  <2>7. now' \in Nat
    BY <1>2, <2>3 DEF Tick
  <2>8. UNCHANGED <<changes, total, left>>
    BY <2>1 DEF stores, answer
  <2>9. LimiterType'
    BY <2>5, <2>6, <2>7, <2>8 DEF TypeInv, LimiterType
  <2> QED
    BY <2>2, <2>9 DEF TypeInv
<1>3. CASE Change
  <2>1. UNCHANGED <<contentPath, speed, limiter, task, pc, found, answer>>
    BY <1>3 DEF Change
  <2>2. ArgumentsType' /\ FoundType' /\ WalkType'
    BY <2>1 DEF TypeInv, ArgumentsType, FoundType, WalkType, found, walked
  <2>3. changes' \in 0 .. MaxChanges
    BY <1>3, BoundsAssumption DEF Change, TypeInv, LimiterType
  <2>4. LimiterType'
    BY <2>1, <2>3 DEF TypeInv, LimiterType, limiter, answer
  <2> QED
    BY <2>2, <2>4 DEF TypeInv
<1>4. CASE UNCHANGED vars
  BY <1>4 DEF vars, stores, limiter, found, walked, answer, TypeInv, ArgumentsType, LimiterType, FoundType, WalkType
<1> QED
  BY <1>1, <1>2, <1>3, <1>4 DEF Next

-----------------------------------------------------------------------------
(* The theorems *)

\* The state of the calls, of the limiter and of the walks stays in its types: the limiter
\* never holds more than its burst, and io.Copy never has less than nothing left to copy.
THEOREM ServingTypeCorrect == Spec => []TypeOK
BY ServingInvInit, ServingInvStep, TypeInvInit, TypeInvStep, TypeInvType, PTL DEF Spec

\* What handle records of a response is what its client was sent.
THEOREM RecordsWhatIsSent == Spec => []RecordedAsSent
<1>1. ServingInv => RecordedAsSent
  BY DEF ServingInv, CallInv, Finished, Recorded, RecordedAsSent
<1> QED
  BY <1>1, ServingInvInit, ServingInvStep, PTL DEF Spec

\* A manifest is served whole and with its own media type, however it was found.
THEOREM ServesAsStored == Spec => []ServedAsStored
<1>1. ServingInv => ServedAsStored
  BY DEF ServingInv, CallInv, Finished, AsStored, ServedAsStored
<1> QED
  BY <1>1, ServingInvInit, ServingInvStep, PTL DEF Spec

\* A blob that is read from a file is served whole, at any rate that fits.
THEOREM ServesWholeBlobs == Spec => []BlobWhole
<1>1. ServingInv => BlobWhole
  BY DEF ServingInv, CallInv, Finished, Whole, BlobWhole
<1> QED
  BY <1>1, ServingInvInit, ServingInvStep, PTL DEF Spec
=============================================================================
