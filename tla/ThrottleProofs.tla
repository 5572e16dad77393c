--------------------------- MODULE ThrottleProofs --------------------------
(***************************************************************************)
(* For any number of transfers at once and any rate: all of them together  *)
(* keep to the rate of the throttler, but for one buffer of each.          *)
(*                                                                         *)
(* What was written is paid for with tokens, or has been the last thing a  *)
(* call wrote. The tokens that are owed at any time to come are the last   *)
(* buffers of the calls that will sleep then.                              *)
(***************************************************************************)
EXTENDS ServingProofs, FiniteSetTheorems

\* The calls that will still sleep after that many ticks.
Owing(k) == {c \in Calls : pc[c] = "copy" /\ (sleep[c] > k \/ sleep[c] = Forever)}

\* The calls that have returned, maybe because their tokens were refused.
Ended == {c \in Calls : pc[c] = "done"}

PaidFor == total <= Rate * now - tokens + Chunk * Cardinality(Ended)

InDebt == \A k \in Nat : 0 - tokens - Rate * k <= Chunk * Cardinality(Owing(k))

RateInv == Throttled => PaidFor /\ InDebt

-----------------------------------------------------------------------------
(* Arithmetic, and sets of calls *)

LEMMA OneMore ==
  ASSUME NEW a \in Nat, NEW n \in Nat
  PROVE  a * n \in Nat /\ a * (n + 1) = a * n + a
OBVIOUS

LEMMA NoLess ==
  ASSUME NEW a \in Nat, NEW m \in Nat, NEW n \in Nat, m <= n
  PROVE  a * m <= a * n
OBVIOUS

LEMMA StillPaidFor ==
  ASSUME NEW w \in Int, NEW x \in Int, NEW y \in Int, NEW t \in Int, NEW u \in Int, NEW r \in Int,
         w <= x - t + y, u <= t + r
  PROVE  w <= (x + r) - u + y
<1>1. 0 - t <= r - u
  OBVIOUS
<1> QED
  BY <1>1

LEMMA SomeCalls ==
  ASSUME NEW S, NEW T, S \subseteq T, T \subseteq Calls
  PROVE  /\ IsFiniteSet(S) /\ IsFiniteSet(T)
         /\ Cardinality(S) \in Nat /\ Cardinality(T) \in Nat /\ Cardinality(S) <= Cardinality(T)
<1>1. IsFiniteSet(Calls)
  BY WorkloadAssumption
<1>2. IsFiniteSet(T)
  BY <1>1, FS_Subset
<1>3. IsFiniteSet(S) /\ Cardinality(S) <= Cardinality(T)
  BY <1>2, FS_Subset
<1> QED
  BY <1>2, <1>3, FS_CardinalityType

\* A buffer for each call of a set, and for one more.
LEMMA Buffers ==
  ASSUME NEW S, NEW T, S \subseteq T, T \subseteq Calls
  PROVE  /\ Chunk * Cardinality(S) \in Nat /\ Chunk * Cardinality(T) \in Nat
         /\ Chunk * Cardinality(S) <= Chunk * Cardinality(T)
<1>1. Chunk \in Nat
  BY BoundsAssumption
<1> QED
  BY <1>1, SomeCalls, OneMore, NoLess

LEMMA OneBufferMore ==
  ASSUME NEW S, S \subseteq Calls, NEW c \in Calls, c \notin S
  PROVE  /\ Chunk * Cardinality(S) \in Nat
         /\ Chunk * Cardinality(S \cup {c}) = Chunk * Cardinality(S) + Chunk
<1>1. Chunk \in Nat
  BY BoundsAssumption
<1>2. IsFiniteSet(S) /\ Cardinality(S) \in Nat
  BY SomeCalls
<1>3. Cardinality(S \cup {c}) = Cardinality(S) + 1
  BY <1>2, FS_AddElement
<1> QED
  BY <1>1, <1>2, <1>3, OneMore

LEMMA PartOfBuffer ==
  ASSUME NEW c \in Calls, left[c] \in Nat
  PROVE  Part(c) <= Chunk
<1>1. left[c] \in Int /\ Chunk \in Int
  BY BoundsAssumption
<1> QED
  BY <1>1, MinOfTwo DEF Part

-----------------------------------------------------------------------------
(* Steps *)

\* What takes no tokens and ends no sleep only adds to what the others are allowed.
LEMMA NoTokensTaken ==
  ASSUME ServingInv, TypeInv, RateInv, UNCHANGED <<speed, tokens, now, total>>,
         \A k \in Nat : Owing(k) \subseteq Owing(k)', Ended \subseteq Ended'
  PROVE  RateInv'
<1> SUFFICES ASSUME Throttled' PROVE (PaidFor /\ InDebt)'
  BY DEF RateInv
<1>1. Throttled /\ PaidFor /\ InDebt /\ Rate' = Rate
  BY DEF RateInv, Throttled, Rate, Byterate, Wrap
<1>2. Rate \in Nat /\ tokens \in Int /\ now \in Nat /\ total \in Nat
  BY <1>1, RateType DEF ServingInv, TypeInv, LimiterType
<1>3. PaidFor'
  <2>1. /\ Chunk * Cardinality(Ended) \in Nat /\ Chunk * Cardinality(Ended') \in Nat
        /\ Chunk * Cardinality(Ended) <= Chunk * Cardinality(Ended')
    BY Buffers DEF Ended
  <2>2. Rate * now \in Nat
    BY <1>2, OneMore
  <2> DEFINE x == Rate * now
             y == Chunk * Cardinality(Ended)
             z == Chunk * Cardinality(Ended')
  <2>3. total <= x - tokens + y
    BY <1>1 DEF PaidFor
  <2>4. PaidFor' <=> total <= x - tokens + z
    BY <1>1 DEF PaidFor
  <2> QED
    BY <1>2, <2>1, <2>2, <2>3, <2>4
<1>4. ASSUME NEW k \in Nat
      PROVE  0 - tokens' - Rate' * k <= Chunk * Cardinality(Owing(k)')
  <2>1. /\ Chunk * Cardinality(Owing(k)) \in Nat /\ Chunk * Cardinality(Owing(k)') \in Nat
        /\ Chunk * Cardinality(Owing(k)) <= Chunk * Cardinality(Owing(k)')
    BY Buffers DEF Owing
  <2>2. Rate * k \in Nat
    BY <1>2, OneMore
  <2> DEFINE x == Rate * k
             y == Chunk * Cardinality(Owing(k))
             z == Chunk * Cardinality(Owing(k)')
  <2>3. 0 - tokens - x <= y
    BY <1>1 DEF InDebt
  <2>4. tokens' = tokens /\ Rate' * k = x
    BY <1>1
  <2> QED
    BY <1>2, <2>1, <2>2, <2>3, <2>4
<1>5. InDebt'
  BY <1>4 DEF InDebt
<1> QED
  BY <1>3, <1>5

\* A round of io.Copy takes the tokens for what it writes and sleeps for what it owes.
LEMMA TokensTaken ==
  ASSUME ServingInv, TypeInv, RateInv, NEW c \in Calls, BlobCopy(c), Throttled,
         tokens' = tokens - Part(c), sleep' = [sleep EXCEPT ![c] = Delay(tokens')], pc' = pc
  PROVE  RateInv'
<1> DEFINE n == Part(c)
<1>1. /\ Rate' = Rate /\ pc[c] = "copy" /\ sleep[c] = 0 /\ now' = now /\ total' = total + n
  BY DEF BlobCopy, Rate, Byterate, Wrap
<1>2. /\ Rate \in Nat /\ tokens \in Int /\ now \in Nat /\ total \in Nat
      /\ sleep \in [Calls -> Nat \cup {Forever}]
  BY RateType DEF ServingInv, TypeInv, LimiterType
<1>3. n \in Nat /\ n <= Chunk /\ Chunk \in Nat
  BY PartOfBlob, PartOfBuffer, BoundsAssumption DEF TypeInv, LimiterType
<1>4. PaidFor /\ InDebt
  BY DEF RateInv
<1> HIDE DEF n
<1>5. tokens' = tokens - n /\ tokens' \in Int
  BY <1>2, <1>3 DEF n
<1>6. PaidFor'
  <2> DEFINE x == Rate * now
             y == Chunk * Cardinality(Ended)
  <2>1. x \in Nat /\ y \in Nat
    BY <1>2, OneMore, Buffers DEF Ended
  <2>2. total <= x - tokens + y
    BY <1>4 DEF PaidFor
  <2>3. Ended' = Ended
    BY DEF Ended
  <2>4. PaidFor' <=> total + n <= x - tokens' + y
    BY <1>1, <2>3 DEF PaidFor
  <2> HIDE DEF x, y
  <2> QED
    BY <1>2, <1>3, <1>5, <2>1, <2>2, <2>4
<1>7. ASSUME NEW k \in Nat
      PROVE  0 - tokens' - Rate * k <= Chunk * Cardinality(Owing(k)')
  <2>1. c \notin Owing(k) /\ Owing(k) \subseteq Owing(k)' /\ Owing(k)' \subseteq Calls
    BY <1>1, <1>2 DEF Owing, Forever
  <2> DEFINE x == Rate * k
             y == Chunk * Cardinality(Owing(k))
             z == Chunk * Cardinality(Owing(k)')
  <2>2. x \in Nat /\ y \in Nat /\ z \in Nat
    BY <1>2, <2>1, OneMore, Buffers
  <2>3. CASE Delay(tokens') = Forever \/ Delay(tokens') > k
    <3>1. Owing(k)' = Owing(k) \cup {c}
      BY <1>1, <1>2, <2>3 DEF Owing
    <3>2. z = y + Chunk
      BY <2>1, <3>1, OneBufferMore
    <3>3. 0 - tokens - x <= y
      BY <1>4 DEF InDebt
    <3> HIDE DEF x, y, z
    <3>4. 0 - tokens' - x <= z
      BY <1>2, <1>3, <1>5, <2>2, <3>2, <3>3
    <3> QED
      BY <3>4 DEF x, z
  <2>4. CASE Delay(tokens') # Forever /\ ~(Delay(tokens') > k)
    <3> DEFINE d == Delay(tokens')
    <3>1. d \in Nat /\ 0 <= tokens' + Rate * d
      BY <1>5, <2>4, DelayEnough DEF ServingInv
    <3> HIDE DEF d
    <3>2. d <= k
      BY <2>4, <3>1 DEF d
    <3>3. Rate * d <= x /\ Rate * d \in Nat
      BY <1>2, <3>1, <3>2, NoLess, OneMore
    <3> HIDE DEF x, z
    <3>4. 0 - tokens' - x <= z
      BY <1>5, <2>2, <3>1, <3>3
    <3> QED
      BY <3>4 DEF x, z
  <2> QED
    BY <2>3, <2>4
<1>8. InDebt'
  BY <1>1, <1>7 DEF InDebt
<1> QED
  BY <1>6, <1>8 DEF RateInv

\* If they are refused, the call ends with what it has written.
LEMMA TokensRefused ==
  ASSUME ServingInv, TypeInv, RateInv, NEW c \in Calls, BlobCopy(c), Throttled,
         Done(c), UNCHANGED <<tokens, sleep>>
  PROVE  RateInv'
<1> DEFINE n == Part(c)
<1>1. /\ Rate' = Rate /\ pc[c] = "copy" /\ sleep[c] = 0 /\ now' = now /\ total' = total + n
      /\ pc' = [pc EXCEPT ![c] = "done"]
  BY DEF BlobCopy, Rate, Byterate, Wrap, Done
<1>2. /\ Rate \in Nat /\ tokens \in Int /\ now \in Nat /\ total \in Nat
      /\ sleep \in [Calls -> Nat \cup {Forever}] /\ DOMAIN pc = Calls
  BY RateType DEF ServingInv, Shapes, TypeInv, LimiterType
<1>3. n \in Nat /\ n <= Chunk /\ Chunk \in Nat
  BY PartOfBlob, PartOfBuffer, BoundsAssumption DEF TypeInv, LimiterType
<1>4. PaidFor /\ InDebt
  BY DEF RateInv
<1> HIDE DEF n
<1>5. PaidFor'
  <2> DEFINE x == Rate * now
             y == Chunk * Cardinality(Ended)
             z == Chunk * Cardinality(Ended')
  <2>1. Ended' = Ended \cup {c} /\ c \notin Ended /\ Ended \subseteq Calls
    BY <1>1, <1>2 DEF Ended
  <2>2. x \in Nat /\ y \in Nat /\ z = y + Chunk
    BY <1>2, <2>1, OneMore, OneBufferMore
  <2>3. total <= x - tokens + y
    BY <1>4 DEF PaidFor
  <2>4. PaidFor' <=> total + n <= x - tokens + z
    BY <1>1 DEF PaidFor
  <2> HIDE DEF x, y, z
  <2> QED
    BY <1>2, <1>3, <2>2, <2>3, <2>4
<1>6. ASSUME NEW k \in Nat PROVE Owing(k)' = Owing(k)
  BY <1>1, <1>2 DEF Owing, Forever
<1>7. InDebt'
  BY <1>1, <1>4, <1>6 DEF InDebt
<1> QED
  BY <1>5, <1>7 DEF RateInv

\* A tick brings the tokens of the rate at most, and everyone nearer to the end of its sleep.
LEMMA TokensCome ==
  ASSUME ServingInv, TypeInv, RateInv, Tick
  PROVE  RateInv'
<1>1. /\ Throttled /\ Rate' = Rate /\ now' = now + 1 /\ UNCHANGED <<pc, total>>
      /\ tokens' = Min({Burst, tokens + Rate})
      /\ sleep' = [c \in Calls |-> IF sleep[c] > 0 THEN sleep[c] - 1 ELSE sleep[c]]
  BY DEF Tick, Rate, Byterate, Wrap
<1>2. /\ Rate \in Nat /\ tokens \in Int /\ now \in Nat /\ total \in Nat
      /\ sleep \in [Calls -> Nat \cup {Forever}] /\ Burst \in Nat
  BY <1>1, RateType, BoundsAssumption DEF ServingInv, TypeInv, LimiterType
<1>3. PaidFor /\ InDebt
  BY <1>1 DEF RateInv
<1>4. tokens' \in {Burst, tokens + Rate} /\ tokens' <= tokens + Rate /\ tokens' \in Int
  <2>1. tokens + Rate \in Int /\ Burst \in Int
    BY <1>2
  <2>2. tokens' \in {Burst, tokens + Rate} /\ tokens' <= tokens + Rate
    BY <1>1, <2>1, MinOfTwo
  <2> QED
    BY <2>1, <2>2
<1>5. PaidFor'
  <2> DEFINE x == Rate * now
             y == Chunk * Cardinality(Ended)
  <2>0. Rate * (now + 1) = x + Rate
    BY <1>2, OneMore
  <2>1. x \in Nat /\ y \in Nat
    BY <1>2, OneMore, Buffers DEF Ended
  <2>2. total <= x - tokens + y
    BY <1>3 DEF PaidFor
  <2>3. Ended' = Ended
    BY <1>1 DEF Ended
  <2>4. PaidFor' <=> total <= (x + Rate) - tokens' + y
    BY <1>1, <2>0, <2>3 DEF PaidFor
  <2> HIDE DEF x, y
  <2>5. tokens' <= tokens + Rate /\ tokens' \in Int
    BY <1>4
  <2>6. total <= (x + Rate) - tokens' + y
    <3>1. /\ total \in Int /\ x \in Int /\ y \in Int /\ tokens \in Int /\ tokens' \in Int /\ Rate \in Int
      BY <1>2, <2>1, <2>5
    <3> QED
      BY <2>2, <2>5, <3>1, StillPaidFor
  <2> QED
    BY <2>4, <2>6
<1>6. ASSUME NEW k \in Nat
      PROVE  0 - tokens' - Rate * k <= Chunk * Cardinality(Owing(k)')
  <2>1. Owing(k)' = Owing(k + 1)
    <3>1. ASSUME NEW c \in Calls
          PROVE  (sleep'[c] > k \/ sleep'[c] = Forever) <=> (sleep[c] > k + 1 \/ sleep[c] = Forever)
      <4>1. sleep'[c] = (IF sleep[c] > 0 THEN sleep[c] - 1 ELSE sleep[c]) /\ sleep[c] \in Nat \cup {Forever}
        BY <1>1, <1>2
      <4> QED
        BY <4>1 DEF Forever
    <3> QED
      BY <1>1, <3>1 DEF Owing
  <2> DEFINE x == Rate * k
             y == Chunk * Cardinality(Owing(k + 1))
  <2>2. x \in Nat /\ y \in Nat
    BY <1>2, OneMore, Buffers DEF Owing
  <2>3. 0 - tokens - (x + Rate) <= y
    <3>1. Rate * (k + 1) = x + Rate /\ k + 1 \in Nat
      BY <1>2, OneMore
    <3> QED
      BY <1>3, <3>1 DEF InDebt
  <2> HIDE DEF x, y
  <2>4. tokens' = Burst \/ tokens' = tokens + Rate
    BY <1>4
  <2>5. 0 - tokens' - x <= y
    BY <1>2, <2>2, <2>3, <2>4
  <2> QED
    BY <2>1, <2>5 DEF x, y
<1>7. InDebt'
  BY <1>1, <1>6 DEF InDebt
<1> QED
  BY <1>5, <1>7 DEF RateInv

\* No other step takes tokens or ends a sleep.
LEMMA RateInvStep == ServingInv /\ TypeInv /\ RateInv /\ [Next]_vars => RateInv'
<1> SUFFICES ASSUME ServingInv, TypeInv, RateInv, [Next]_vars PROVE RateInv'
  OBVIOUS
<1>1. DOMAIN pc = Calls /\ sleep \in [Calls -> Nat \cup {Forever}]
  BY DEF ServingInv, Shapes, TypeInv, LimiterType
<1>2. ASSUME UNCHANGED <<speed, limiter>>, NEW c \in Calls, NEW label,
             pc' = [pc EXCEPT ![c] = label],
             pc[c] # "done", pc[c] = "copy" => sleep[c] = 0
      PROVE  RateInv'
  <2>1. \A k \in Nat : Owing(k) \subseteq Owing(k)'
    BY <1>1, <1>2 DEF Owing, limiter, Forever
  <2>2. Ended \subseteq Ended'
    BY <1>1, <1>2 DEF Ended
  <2> QED
    BY <1>2, <2>1, <2>2, NoTokensTaken DEF limiter
<1>3. ASSUME UNCHANGED <<speed, tokens, now, total, sleep, pc>>
      PROVE  RateInv'
  <2>1. (\A k \in Nat : Owing(k)' = Owing(k)) /\ Ended' = Ended
    BY <1>3 DEF Owing, Ended
  <2> QED
    BY <1>3, <2>1, NoTokensTaken
<1>4. ASSUME NEW c \in Calls, Manifest(c) \/ BlobSize(c) \/ BlobOpen(c)
      PROVE  RateInv'
  <2>1. /\ UNCHANGED <<speed, limiter>> /\ pc[c] \notin {"done", "copy"}
        /\ \E label \in Labels : pc' = [pc EXCEPT ![c] = label]
    BY <1>4, RequestStep
  <2> QED
    BY <1>2, <2>1
<1>5. ASSUME NEW c \in Calls, NEW why \in {"eof", "unreadable", "gone"}, BlobEnd(c, why)
      PROVE  RateInv'
  <2>1. UNCHANGED <<speed, limiter>> /\ pc[c] = "copy" /\ sleep[c] = 0
        /\ \E label : pc' = [pc EXCEPT ![c] = label]
    BY <1>5 DEF BlobEnd, Goto
  <2> QED
    BY <1>2, <2>1
<1>6. ASSUME NEW c \in Calls, Walk(c)
      PROVE  RateInv'
  <2>1. UNCHANGED <<speed, limiter>>
    BY <1>6 DEF Walk, WalkStart, WalkVisit, WalkPlatform, WalkDescend, WalkEnd
  <2>2. (pc' = pc \/ \E label : pc' = [pc EXCEPT ![c] = label]) /\ pc[c] \notin {"done", "copy"}
    BY <1>6 DEF Walk, WalkStart, WalkVisit, WalkPlatform, WalkDescend, WalkEnd, Goto, Done, Is
  <2> QED
    BY <1>2, <1>3, <2>1, <2>2 DEF limiter
<1>7. ASSUME NEW c \in Calls, BlobCopy(c)
      PROVE  RateInv'
  <2>1. CASE ~Throttled
    BY <1>7, <2>1 DEF BlobCopy, RateInv, Throttled
  <2>2. CASE Throttled /\ tokens' = tokens - Part(c) /\ sleep' = [sleep EXCEPT ![c] = Delay(tokens')] /\ pc' = pc
    BY <1>7, <2>2, TokensTaken
  <2>3. CASE Throttled /\ Done(c) /\ UNCHANGED <<tokens, sleep>>
    BY <1>7, <2>3, TokensRefused
  <2> QED
    BY <1>7, <2>1, <2>2, <2>3, Zenon DEF BlobCopy
<1>8. CASE Change
  BY <1>3, <1>8 DEF Change, limiter
<1>9. CASE UNCHANGED vars
  BY <1>3, <1>9 DEF vars, limiter
<1> QED
  BY <1>4, <1>5, <1>6, <1>7, <1>8, <1>9, TokensCome DEF Next, Blob

LEMMA RateInvInit == Init => RateInv
<1> SUFFICES ASSUME Init, Throttled PROVE PaidFor /\ InDebt
  BY DEF RateInv
<1>1. ServingInv /\ TypeInv
  BY ServingInvInit, TypeInvInit
<1>2. Rate \in Nat /\ tokens = 0 /\ now = 0 /\ total = 0
  BY <1>1, RateType DEF Init, InitialTokens, ServingInv
<1>3. PaidFor
  <2>1. Chunk * Cardinality(Ended) \in Nat
    BY Buffers DEF Ended
  <2>2. Rate * now = 0
    BY <1>2
  <2> QED
    BY <1>2, <2>1, <2>2 DEF PaidFor
<1>4. ASSUME NEW k \in Nat PROVE 0 - tokens - Rate * k <= Chunk * Cardinality(Owing(k))
  <2>1. Chunk * Cardinality(Owing(k)) \in Nat
    BY Buffers DEF Owing
  <2>2. Rate * k \in Nat
    BY <1>2, OneMore
  <2> QED
    BY <1>2, <2>1, <2>2
<1> QED
  BY <1>3, <1>4 DEF InDebt

\* No call owes and has ended, so the buffers are at most one for each call.
LEMMA RateInvBounds == ServingInv /\ TypeInv /\ RateInv => RateBounded
<1> SUFFICES ASSUME ServingInv, TypeInv, RateInv, Throttled
             PROVE  total <= Rate * now + Cardinality(Calls) * Chunk
  BY DEF RateBounded
<1> DEFINE x == Rate * now
           m == Cardinality(Owing(0))
           n == Cardinality(Ended)
           a == Cardinality(Calls)
<1>1. Rate \in Nat /\ tokens \in Int /\ now \in Nat /\ total \in Nat /\ Chunk \in Nat
  BY RateType, BoundsAssumption DEF ServingInv, TypeInv, LimiterType
<1>2. x \in Nat
  BY <1>1, OneMore
<1>3. m \in Nat /\ n \in Nat /\ a \in Nat /\ m + n <= a
  <2>1. Owing(0) \cup Ended \subseteq Calls /\ Owing(0) \cap Ended = {}
    BY DEF Owing, Ended
  <2>2. IsFiniteSet(Owing(0)) /\ IsFiniteSet(Ended) /\ m \in Nat /\ n \in Nat
    BY <2>1, SomeCalls
  <2>3. Cardinality(Owing(0) \cup Ended) = m + n - Cardinality({})
    BY <2>1, <2>2, FS_Union
  <2>4. Cardinality({}) = 0
    BY FS_EmptySet
  <2>5. Cardinality(Owing(0) \cup Ended) <= a /\ a \in Nat
    BY <2>1, SomeCalls
  <2> HIDE DEF m, n, a
  <2> QED
    BY <2>2, <2>3, <2>4, <2>5
<1>4. total <= x - tokens + Chunk * n
  BY DEF RateInv, PaidFor
<1>5. 0 - tokens <= Chunk * m
  <2>1. 0 - tokens - Rate * 0 <= Chunk * m
    BY DEF RateInv, InDebt
  <2>2. Rate * 0 = 0
    BY <1>1
  <2>3. Chunk * m \in Nat
    BY <1>1, <1>3, OneMore
  <2> HIDE DEF m
  <2> QED
    BY <1>1, <2>1, <2>2, <2>3
<1> HIDE DEF x, m, n, a
<1>6. Chunk * m + Chunk * n <= a * Chunk
  <2>1. Chunk * m + Chunk * n = Chunk * (m + n)
    BY <1>1, <1>3
  <2>2. Chunk * (m + n) <= Chunk * a
    BY <1>1, <1>3, NoLess
  <2>3. Chunk * a = a * Chunk
    BY <1>1, <1>3
  <2> QED
    BY <2>1, <2>2, <2>3
<1>7. Chunk * m \in Nat /\ Chunk * n \in Nat /\ a * Chunk \in Nat
  BY <1>1, <1>3, OneMore
<1>8. total <= x + a * Chunk
  <2> DEFINE p == Chunk * m
             q == Chunk * n
             r == a * Chunk
  <2>1. p \in Nat /\ q \in Nat /\ r \in Nat /\ p + q <= r /\ 0 - tokens <= p /\ total <= x - tokens + q
    BY <1>4, <1>5, <1>6, <1>7
  <2> HIDE DEF p, q, r
  <2>2. total <= x + r
    BY <1>1, <1>2, <2>1
  <2> QED
    BY <2>2 DEF r
<1> QED
  BY <1>8 DEF x, a

\* All transfers together write no more than the rate allows since the throttler was made,
\* and one buffer for each call: for any number of calls, at any rate, also one that has
\* wrapped.
THEOREM RateIsBounded == Spec => []RateBounded
BY ServingInvInit, ServingInvStep, TypeInvInit, TypeInvStep, RateInvInit, RateInvStep, RateInvBounds, PTL DEF Spec
=============================================================================
