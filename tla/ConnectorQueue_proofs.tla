------------------------ MODULE ConnectorQueue_proofs ------------------------
(***************************************************************************)
(* Proofs about ConnectorQueue, for any set of deliveries, any caps, TTL,  *)
(* attempt budget and backoff schedule: the type invariant, that an        *)
(* acknowledged delivery stays stored, that no identity is stored twice,   *)
(* and that the dead-letter's reasons are true.                            *)
(*                                                                         *)
(* The inductive invariant speaks of the plan the lock holder has computed *)
(* and not yet written (SoundPlan): the two writes of one read-modify-     *)
(* write are steps of their own, so what makes them safe together is a     *)
(* property of the values they are about to store.                         *)
(***************************************************************************)
EXTENDS ConnectorQueue, WellFoundedInduction, TLAPS

(* The least and the greatest of some natural numbers. *)

LEMMA LeastNatural ==
  ASSUME NEW T \in SUBSET Nat, T # {}
  PROVE  \E m \in T : \A n \in T : m <= n
<1> DEFINE R == OpToRel(<, Nat)
<1>1. IsWellFoundedOn(R, Nat)
  BY NatLessThanWellFounded
<1>2. \A x, y \in Nat : y < x => <<y, x>> \in R
  BY DEF OpToRel
<1> HIDE DEF R
<1>3. \E m \in T : \A n \in T : ~ (<<n, m>> \in R)
  BY <1>1, WFMin
<1>4. PICK m \in T : \A n \in T : ~ (<<n, m>> \in R)
  BY <1>3
<1>5. ASSUME NEW n \in T PROVE m <= n
  <2>1. m \in Nat /\ n \in Nat /\ ~ (n < m)
    BY <1>2, <1>4
  <2> QED
    BY <2>1
<1> QED
  BY <1>5

LEMMA GreatestNatural ==
  ASSUME NEW N \in Nat, NEW T \in SUBSET (1..N), T # {}
  PROVE  \E m \in T : \A n \in T : n <= m
<1> DEFINE U == {N - n : n \in T}
<1>1. U \in SUBSET Nat /\ U # {}
  <2>1. \A n \in T : N - n \in Nat
    OBVIOUS
  <2> QED
    BY <2>1
<1>2. PICK u \in U : \A v \in U : u <= v
  BY <1>1, LeastNatural
<1>3. PICK m \in T : u = N - m
  OBVIOUS
<1>4. ASSUME NEW n \in T PROVE n <= m
  <2>1. N - m <= N - n
    BY <1>2, <1>3
  <2> QED
    BY <2>1
<1> QED
  BY <1>4

\* The first and the last entry of an identity that a batch carries are entries of it.
LEMMA BatchEnds ==
  ASSUME NEW es \in Seq(Entry), NEW i \in Carried(es)
  PROVE  FirstOf(es, i) \in Entry /\ LastOf(es, i) \in Entry
<1> DEFINE P == Places(es, i)
<1>1. P \in SUBSET (1..Len(es)) /\ Len(es) \in Nat
  BY DEF Places
<1>2. P # {}
  BY DEF Carried, Places
<1>3. P \in SUBSET Nat
  BY <1>1
<1> HIDE DEF P
<1>4. (CHOOSE k \in P : \A j \in P : k <= j) \in P
  BY <1>2, <1>3, LeastNatural
<1>5. (CHOOSE k \in P : \A j \in P : j <= k) \in P
  BY <1>1, <1>2, GreatestNatural
<1>6. \A k \in P : es[k] \in Entry
  BY <1>1
<1>7. FirstOf(es, i) = es[CHOOSE k \in P : \A j \in P : k <= j]
  BY DEF FirstOf, P
<1>8. LastOf(es, i) = es[CHOOSE k \in P : \A j \in P : j <= k]
  BY DEF LastOf, P
<1> QED
  BY <1>4, <1>5, <1>6, <1>7, <1>8

LEMMA CarriedType ==
  ASSUME NEW es \in Seq(Entry)
  PROVE  Carried(es) \subseteq Item
<1>1. ASSUME NEW k \in DOMAIN es PROVE ItemOf[es[k].delivery] \in Item
  <2>1. es[k] \in Entry
    OBVIOUS
  <2>2. es[k].delivery \in Delivery
    BY <2>1 DEF Entry
  <2> QED
    BY <2>2, DeliveryAssumption
<1> QED
  BY <1>1 DEF Carried

LEMMA SmallerType ==
  ASSUME NEW m \in Nat, NEW n \in Nat
  PROVE  Smaller(m, n) \in Nat /\ Smaller(m, n) <= n
BY DEF Smaller

\* Every delay of the backoff schedule is a positive number of ticks.
LEMMA DelayType ==
  ASSUME NEW n \in Nat
  PROVE  Delay(n) \in Nat
<1>0. BackoffSteps \in Nat
  BY BackoffAssumption
<1>1. Smaller(n, BackoffSteps) \in 0..BackoffSteps
  BY <1>0, SmallerType
<1>2. \A m \in 0..BackoffSteps : Backoff[m] \in Nat
  BY BackoffAssumption
<1> QED
  BY <1>1, <1>2 DEF Delay

-----------------------------------------------------------------------------
(* Sound plans *)

Unique(S) == \A x, y \in S : x.item = y.item => x = y

\* The body of DeadIsJustified, for any dead-letter value.
Justified(D) ==
  \A x \in D :
    /\ x.reason = "item_error" => x.attempts >= MaxAttempts
    /\ x.reason # "awaiting_transcript"
    /\ x.reason \in {"ttl_expired", "awaiting_transcript_timeout"}
         => x.receivedAt + TTL <= x.deadAt /\ x.attempts < MaxAttempts

Stored ==
  /\ pending \subseteq PendingItem /\ dead \subseteq DeadItem /\ now \in Nat
  /\ Unique(pending) /\ Unique(dead) /\ Justified(dead)

\* What a plan must be for its two writes to be safe, the second one done or not.
SoundPlan(items, D, gone, told) ==
  /\ items \subseteq PendingItem /\ D \subseteq DeadItem
  /\ gone \subseteq Item /\ told \subseteq Item
  /\ Unique(items) /\ Unique(D) /\ Justified(D)
  /\ Ids(pending) \subseteq Ids(items) \cup Ids(D) \cup gone
  /\ Ids(dead) \subseteq Ids(D) \cup gone
  /\ told \subseteq Ids(items)

LEMMA TimeoutsSound ==
  ASSUME Stored
  PROVE  /\ Timeouts \subseteq DeadItem /\ Justified(Timeouts)
         /\ Ids(Timeouts) = Ids(Expired)
         /\ Ids(pending) = Ids(Swept) \cup Ids(Expired)
         /\ Swept \subseteq PendingItem /\ Unique(Swept)
<1>1. ASSUME NEW x \in Expired
      PROVE  /\ x \in PendingItem /\ Timeout(x) \in DeadItem /\ Timeout(x).item = x.item
             /\ Timeout(x).reason \in {"ttl_expired", "awaiting_transcript_timeout"}
             /\ Timeout(x).receivedAt + TTL <= Timeout(x).deadAt /\ Timeout(x).attempts < MaxAttempts
  <2>1. x \in PendingItem /\ x.receivedAt + TTL <= now
    BY DEF Expired, Stored
  <2> QED
    BY <2>1, LimitAssumption DEF Timeout, Stored, PendingItem, DeadItem
<1>2. Timeouts \subseteq DeadItem /\ Justified(Timeouts) /\ Ids(Timeouts) = Ids(Expired)
  <2>1. Timeouts \subseteq DeadItem
    BY <1>1 DEF Timeouts
  <2>2. Justified(Timeouts)
    BY <1>1 DEF Timeouts, Justified
  <2>3. Ids(Timeouts) = Ids(Expired)
    BY <1>1 DEF Timeouts, Ids
  <2> QED
    BY <2>1, <2>2, <2>3
<1>3. Ids(pending) = Ids(Swept) \cup Ids(Expired) /\ Swept \subseteq pending
  BY DEF Ids, Swept, Expired
<1> QED
  BY <1>2, <1>3 DEF Stored, Unique

\* appendDead loses no identity but the evicted ones.
LEMMA DeadAfterSound ==
  ASSUME Stored, NEW promoted \in SUBSET DeadItem, Justified(promoted),
         NEW D \in DeadAfter(promoted)
  PROVE  /\ D \subseteq DeadItem /\ Unique(D) /\ Justified(D)
         /\ Evicted(D, promoted) \subseteq Item
         /\ Ids(dead) \subseteq Ids(D) \cup Evicted(D, promoted)
         /\ Ids(promoted) \subseteq Ids(D) \cup Evicted(D, promoted)
<1>1. D \subseteq dead \cup promoted /\ Unique(D)
  BY DEF DeadAfter, Unique
<1>2. D \subseteq DeadItem /\ Justified(D)
  BY <1>1 DEF Stored, Justified
<1>3. Ids(dead \cup promoted) = Ids(dead) \cup Ids(promoted)
  BY DEF Ids
<1>4. Ids(dead \cup promoted) \subseteq Item
  BY DEF Ids, Stored, DeadItem
<1> QED
  BY <1>1, <1>2, <1>3, <1>4 DEF Evicted

-----------------------------------------------------------------------------
(* The plans the four reads compute are sound. *)

LEMMA MergedSound ==
  ASSUME Stored, NEW es \in Seq(Entry)
  PROVE  /\ Merged(es) \subseteq PendingItem /\ Unique(Merged(es))
         /\ Ids(Merged(es)) = Ids(Swept) \cup Carried(es)
<1>1. Swept \subseteq PendingItem /\ Unique(Swept)
  BY TimeoutsSound
<1>2. Carried(es) \subseteq Item
  BY CarriedType
<1>3. ASSUME NEW x \in Swept PROVE Refreshed(es, x) \in PendingItem /\ Refreshed(es, x).item = x.item
  <2>1. x \in PendingItem
    BY <1>1
  <2>2. CASE x.item \in Carried(es)
    <3>1. LastOf(es, x.item).receivedAt \in Nat
      BY <2>2, BatchEnds DEF Entry
    <3> QED
      BY <2>1, <2>2, <3>1 DEF Refreshed, PendingItem
  <2>3. CASE x.item \notin Carried(es)
    BY <2>1, <2>3 DEF Refreshed
  <2> QED
    BY <2>2, <2>3
<1>4. ASSUME NEW i \in Carried(es) PROVE Fresh(es, i) \in PendingItem /\ Fresh(es, i).item = i
  <2>1. FirstOf(es, i) \in Entry /\ LastOf(es, i) \in Entry
    BY BatchEnds
  <2>2. MaxAttempts \in Nat \ {0} /\ BackoffSteps \in Nat
    BY LimitAssumption, BackoffAssumption
  <2>3. 0 \in 0..(MaxAttempts - 1) /\ 0 \in 0..BackoffSteps
    BY <2>2
  <2> QED
    BY <1>2, <2>1, <2>3 DEF Fresh, Entry, PendingItem
<1>5. Merged(es) \subseteq PendingItem
  BY <1>3, <1>4 DEF Merged
<1>6. Ids(Merged(es)) = Ids(Swept) \cup Carried(es)
  <2>1. Ids({Refreshed(es, x) : x \in Swept}) = Ids(Swept)
    BY <1>3 DEF Ids
  <2>2. Ids({Fresh(es, i) : i \in Carried(es) \ Ids(Swept)}) = Carried(es) \ Ids(Swept)
    BY <1>4 DEF Ids
  <2>3. Ids(Merged(es)) = Ids({Refreshed(es, x) : x \in Swept})
                          \cup Ids({Fresh(es, i) : i \in Carried(es) \ Ids(Swept)})
    BY DEF Ids, Merged
  <2> QED
    BY <2>1, <2>2, <2>3
<1>7. Unique(Merged(es))
  <2> SUFFICES ASSUME NEW x \in Merged(es), NEW y \in Merged(es), x.item = y.item
               PROVE  x = y
    BY DEF Unique
  <2>1. \/ \E u \in Swept : x = Refreshed(es, u)
        \/ \E i \in Carried(es) \ Ids(Swept) : x = Fresh(es, i)
    BY DEF Merged
  <2>2. \/ \E u \in Swept : y = Refreshed(es, u)
        \/ \E i \in Carried(es) \ Ids(Swept) : y = Fresh(es, i)
    BY DEF Merged
  <2>3. \A u \in Swept : u.item \in Ids(Swept)
    BY DEF Ids
  <2> QED
    BY <1>1, <1>3, <1>4, <2>1, <2>2, <2>3 DEF Unique
<1> QED
  BY <1>5, <1>6, <1>7

\* The plan of a flush: what the pending cap drops is released, and logged.
LEMMA FlushPlan ==
  ASSUME Stored, NEW es \in Seq(Entry),
         NEW kept \in Capped(Merged(es)), NEW D \in DeadAfter(Timeouts)
  PROVE  SoundPlan(kept, D, (Ids(Merged(es)) \ Ids(kept)) \cup Evicted(D, Timeouts),
                   Carried(es) \cap Ids(kept))
<1>1. /\ Timeouts \subseteq DeadItem /\ Justified(Timeouts) /\ Ids(Timeouts) = Ids(Expired)
      /\ Ids(pending) = Ids(Swept) \cup Ids(Expired)
  BY TimeoutsSound
<1>2. /\ D \subseteq DeadItem /\ Unique(D) /\ Justified(D) /\ Evicted(D, Timeouts) \subseteq Item
      /\ Ids(dead) \subseteq Ids(D) \cup Evicted(D, Timeouts)
      /\ Ids(Timeouts) \subseteq Ids(D) \cup Evicted(D, Timeouts)
  BY <1>1, DeadAfterSound
<1>3. /\ Merged(es) \subseteq PendingItem /\ Unique(Merged(es))
      /\ Ids(Merged(es)) = Ids(Swept) \cup Carried(es)
  BY MergedSound
<1>4. kept \subseteq Merged(es)
  BY DEF Capped
<1>5. Ids(Merged(es)) \subseteq Item /\ Carried(es) \subseteq Item
  BY <1>3, CarriedType DEF Ids, PendingItem
<1>6. kept \subseteq PendingItem /\ Unique(kept)
  BY <1>3, <1>4 DEF Unique
<1> QED
  BY <1>1, <1>2, <1>3, <1>5, <1>6 DEF SoundPlan

\* The plan of a sweep, and of an acknowledgement of the identities in S.
LEMMA SweepPlan ==
  ASSUME Stored, NEW S \in SUBSET Item, NEW D \in DeadAfter(Timeouts)
  PROVE  SoundPlan({x \in Swept : x.item \notin S}, D,
                   (S \cap Ids(Swept)) \cup Evicted(D, Timeouts), {})
<1>1. /\ Timeouts \subseteq DeadItem /\ Justified(Timeouts) /\ Ids(Timeouts) = Ids(Expired)
      /\ Ids(pending) = Ids(Swept) \cup Ids(Expired)
      /\ Swept \subseteq PendingItem /\ Unique(Swept)
  BY TimeoutsSound
<1>2. /\ D \subseteq DeadItem /\ Unique(D) /\ Justified(D) /\ Evicted(D, Timeouts) \subseteq Item
      /\ Ids(dead) \subseteq Ids(D) \cup Evicted(D, Timeouts)
      /\ Ids(Timeouts) \subseteq Ids(D) \cup Evicted(D, Timeouts)
  BY <1>1, DeadAfterSound
<1>3. Ids(Swept) \subseteq Ids({x \in Swept : x.item \notin S}) \cup (S \cap Ids(Swept))
  BY DEF Ids
<1>4. Unique({x \in Swept : x.item \notin S})
  BY <1>1 DEF Unique
<1> QED
  BY <1>1, <1>2, <1>3, <1>4 DEF SoundPlan

LEMMA BuriedIds ==
  ASSUME NEW B, NEW out
  PROVE  Ids({Buried(x, out[x.item]) : x \in B}) = Ids(B)
<1>1. \A x : Buried(x, out[x.item]).item = x.item
  BY DEF Buried
<1> QED
  BY <1>1 DEF Ids

\* The parts of a settle of S with the outcomes out.
Settlement(S, out, hit, finished, buried, promoted, items) ==
  /\ hit = {x \in Swept : x.item \in S}
  /\ finished = {x \in hit : out[x.item] = "done"}
  /\ buried = {x \in hit \ finished : Exhausted(x, out[x.item])}
  /\ promoted = Timeouts \cup {Buried(x, out[x.item]) : x \in buried}
  /\ items = (Swept \ hit) \cup
             {Requeued(x, out[x.item]) : x \in hit \ (finished \cup buried)}

\* The plan of a settlement with the outcomes out of the identities in S.
LEMMA SettlePlan ==
  ASSUME Stored, NEW S \in SUBSET Item, NEW out \in [S -> Errors \cup {"done"}],
         NEW hit, NEW finished, NEW buried, NEW promoted, NEW items,
         Settlement(S, out, hit, finished, buried, promoted, items),
         NEW D \in DeadAfter(promoted)
  PROVE  SoundPlan(items, D, Ids(finished) \cup Evicted(D, promoted), {})
<1> USE DEF Settlement
<1>1. /\ Timeouts \subseteq DeadItem /\ Justified(Timeouts) /\ Ids(Timeouts) = Ids(Expired)
      /\ Ids(pending) = Ids(Swept) \cup Ids(Expired)
      /\ Swept \subseteq PendingItem /\ Unique(Swept)
  BY TimeoutsSound
<1>2. ASSUME NEW x \in hit \ finished
      PROVE  /\ x \in PendingItem /\ out[x.item] \in Errors
             /\ AttemptsAfter(x, out[x.item]) \in 0..MaxAttempts
  <2>1. x \in PendingItem /\ out[x.item] \in Errors
    BY <1>1 DEF Errors
  <2>2. x.attempts \in 0..(MaxAttempts - 1) /\ MaxAttempts \in Nat
    BY <2>1, LimitAssumption DEF PendingItem
  <2> QED
    BY <2>1, <2>2 DEF AttemptsAfter
<1>3. ASSUME NEW x \in buried
      PROVE  /\ Buried(x, out[x.item]) \in DeadItem /\ Buried(x, out[x.item]).item = x.item
             /\ Justified({Buried(x, out[x.item])})
  <2>1. x \in hit \ finished /\ Exhausted(x, out[x.item])
    BY <1>3
  <2>2. /\ x \in PendingItem /\ out[x.item] \in Errors
        /\ AttemptsAfter(x, out[x.item]) \in 0..MaxAttempts
    BY <1>2, <2>1
  <2>3. Buried(x, out[x.item]) \in DeadItem /\ Buried(x, out[x.item]).item = x.item
    BY <2>2 DEF Buried, DeadItem, PendingItem, Stored
  <2>4. Justified({Buried(x, out[x.item])})
    BY <2>1, <2>2 DEF Justified, Buried, Exhausted, Errors
  <2> QED
    BY <2>3, <2>4
<1>4. promoted \in SUBSET DeadItem /\ Justified(promoted)
  BY <1>1, <1>3 DEF Justified
<1>5. Ids(promoted) = Ids(Expired) \cup Ids(buried)
  <2> DEFINE graves == {Buried(x, out[x.item]) : x \in buried}
  <2>1. Ids(graves) = Ids(buried)
    BY BuriedIds
  <2>2. promoted = Timeouts \cup graves
    OBVIOUS
  <2> HIDE DEF graves
  <2>3. Ids(promoted) = Ids(Timeouts) \cup Ids(graves)
    BY <2>2 DEF Ids
  <2> QED
    BY <1>1, <2>1, <2>3
<1>6. /\ D \subseteq DeadItem /\ Unique(D) /\ Justified(D) /\ Evicted(D, promoted) \subseteq Item
      /\ Ids(dead) \subseteq Ids(D) \cup Evicted(D, promoted)
      /\ Ids(promoted) \subseteq Ids(D) \cup Evicted(D, promoted)
  BY <1>4, DeadAfterSound
<1>7. ASSUME NEW x \in hit \ (finished \cup buried)
      PROVE  Requeued(x, out[x.item]) \in PendingItem /\ Requeued(x, out[x.item]).item = x.item
  <2> DEFINE o == out[x.item]
             requeues == IF Burns(o) THEN x.requeues ELSE Smaller(x.requeues + 1, BackoffSteps)
  <2>1. x \in PendingItem /\ o \in Errors /\ AttemptsAfter(x, o) \in 0..MaxAttempts /\ ~ Exhausted(x, o)
    BY <1>2
  <2>2. x.requeues \in 0..BackoffSteps /\ BackoffSteps \in Nat /\ MaxAttempts \in Nat \ {0}
        /\ x.attempts \in 0..(MaxAttempts - 1) /\ now \in Nat
    BY <2>1, LimitAssumption, BackoffAssumption DEF PendingItem, Stored
  <2>3. requeues \in 0..BackoffSteps
    <3>1. x.requeues + 1 \in Nat
      BY <2>2
    <3>2. Smaller(x.requeues + 1, BackoffSteps) \in 0..BackoffSteps
      <4> DEFINE m == x.requeues + 1
      <4>1. m \in Nat
        BY <3>1
      <4> HIDE DEF m
      <4>2. Smaller(m, BackoffSteps) \in Nat /\ Smaller(m, BackoffSteps) <= BackoffSteps
        BY <2>2, <4>1, SmallerType
      <4>3. Smaller(m, BackoffSteps) \in 0..BackoffSteps
        BY <2>2, <4>2
      <4> QED
        BY <4>3 DEF m
    <3> QED
      BY <2>2, <3>2
  <2>4. AttemptsAfter(x, o) \in 0..(MaxAttempts - 1)
    <3>1. CASE o = "item_error"
      BY <2>1, <2>2, <3>1 DEF Exhausted
    <3>2. CASE o = "awaiting_transcript"
      BY <2>2, <3>2 DEF AttemptsAfter, Burns
    <3> QED
      BY <2>1, <3>1, <3>2 DEF Exhausted, Errors
  <2>5. Delay(IF Burns(o) THEN AttemptsAfter(x, o) ELSE requeues) \in Nat
    BY <2>2, <2>3, <2>4, DelayType
  <2>6. now + Delay(IF Burns(o) THEN AttemptsAfter(x, o) ELSE requeues) \in Nat
    BY <2>2, <2>5
  <2> DEFINE t == now + Delay(IF Burns(o) THEN AttemptsAfter(x, o) ELSE requeues)
  <2>7. Requeued(x, o) =
          [item |-> x.item, first |-> x.first, receivedAt |-> x.receivedAt,
           attempts |-> AttemptsAfter(x, o), requeues |-> requeues, lastError |-> o,
           nextAttemptAt |-> t]
    BY DEF Requeued
  <2> HIDE DEF requeues, t
  <2> QED
    BY <2>1, <2>3, <2>4, <2>6, <2>7 DEF PendingItem, t
<1>8. items \subseteq PendingItem
  BY <1>1, <1>7
<1>9. Ids(pending) \subseteq Ids(items) \cup Ids(D) \cup Ids(finished) \cup Evicted(D, promoted)
  <2>1. Ids(Swept) \subseteq Ids(items) \cup Ids(finished) \cup Ids(buried)
    <3> SUFFICES ASSUME NEW x \in Swept
                 PROVE  x.item \in Ids(items) \cup Ids(finished) \cup Ids(buried)
      BY DEF Ids
    <3>1. CASE x \in hit \ (finished \cup buried)
      <4>1. Requeued(x, out[x.item]) \in items
        BY <3>1
      <4> QED
        BY <1>7, <3>1, <4>1 DEF Ids
    <3>2. CASE x \notin hit \ (finished \cup buried)
      BY <3>2 DEF Ids
    <3> QED
      BY <3>1, <3>2
  <2> SUFFICES ASSUME NEW i \in Ids(pending)
               PROVE  i \in Ids(items) \cup Ids(D) \cup Ids(finished) \cup Evicted(D, promoted)
    OBVIOUS
  <2>2. CASE i \in Ids(Swept)
    <3>1. CASE i \in Ids(buried)
      BY <1>5, <1>6, <3>1
    <3>2. CASE i \in Ids(items) \cup Ids(finished)
      BY <3>2
    <3> QED
      BY <2>1, <2>2, <3>1, <3>2
  <2>3. CASE i \in Ids(Expired)
    BY <1>5, <1>6, <2>3
  <2> QED
    BY <1>1, <2>2, <2>3
<1>10. Unique(items)
  <2> SUFFICES ASSUME NEW x \in items, NEW y \in items, x.item = y.item PROVE x = y
    BY DEF Unique
  <2>1. \/ x \in Swept \ hit
        \/ \E u \in hit \ (finished \cup buried) : x = Requeued(u, out[u.item])
    OBVIOUS
  <2>2. \/ y \in Swept \ hit
        \/ \E u \in hit \ (finished \cup buried) : y = Requeued(u, out[u.item])
    OBVIOUS
  <2>3. \A u \in hit : u \in Swept /\ u.item \in S
    OBVIOUS
  <2>4. \A u \in Swept \ hit : u.item \notin S
    OBVIOUS
  <2> QED
    BY <1>1, <1>7, <2>1, <2>2, <2>3, <2>4 DEF Unique
<1>11. Ids(finished) \subseteq Item
  BY <1>1 DEF Ids, PendingItem
<1> QED
  BY <1>6, <1>8, <1>9, <1>10, <1>11 DEF SoundPlan

-----------------------------------------------------------------------------
(* The inductive invariant *)

FlushHasBatch == \A k \in DOMAIN lock : lock[k].op = "flush" => lock[k].batch \in Batch

Contents == Unique(pending) /\ Unique(dead) /\ Justified(dead)

\* What is planned and not yet written is sound, its first write is the
\* dead-letter's, and a flush has identities to answer only from its read on.
PlanInv ==
  /\ phase \in {"writeDead", "writePending"}
       => SoundPlan(newPending, newDead, released, acked)
  /\ phase = "writePending" => newDead = dead
  /\ phase = "done" => acked \subseteq Ids(pending)
  /\ phase \in {"writeDead", "writePending", "done", "failed"} \/ acked = {}

IInv == TypeOK /\ FlushHasBatch /\ Contents /\ PlanInv /\ AckedIsStored

LEMMA StoredHolds ==
  ASSUME IInv
  PROVE  Stored
BY DEF IInv, TypeOK, Contents, Stored

\* A step that leaves the arrays, the plan and the phase alone.
LEMMA ContentsKept ==
  ASSUME IInv, UNCHANGED <<pending, dead, phase, plan, owed>>
  PROVE  Contents' /\ PlanInv' /\ AckedIsStored'
<1>1. Contents'
  BY DEF IInv, Contents, Unique, Justified
<1>2. AckedIsStored'
  BY DEF IInv, AckedIsStored, Ids
<1>3. PlanInv'
  <2>1. UNCHANGED <<pending, dead, phase, newPending, newDead, released, acked>>
    BY DEF plan
  <2>2. SoundPlan(newPending, newDead, released, acked)
          => SoundPlan(newPending, newDead, released, acked)'
    BY <2>1 DEF SoundPlan, Unique, Justified, Ids
  <2>3. acked \subseteq Ids(pending) => (acked \subseteq Ids(pending))'
    BY <2>1 DEF Ids
  <2> QED
    BY <2>1, <2>2, <2>3 DEF IInv, PlanInv
<1> QED
  BY <1>1, <1>2, <1>3

LEMMA LockGrows ==
  ASSUME IInv, NEW e \in Operation, e.op = "flush" => e.batch \in Batch,
         lock' = Append(lock, e)
  PROVE  lock' \in Seq(Operation) /\ lock' # <<>> /\ FlushHasBatch'
<1>1. lock \in Seq(Operation)
  BY DEF IInv, TypeOK
<1>2. lock' \in Seq(Operation) /\ lock' # <<>>
  BY <1>1
<1>3. ASSUME NEW k \in DOMAIN lock' PROVE lock'[k] = e \/ (k \in DOMAIN lock /\ lock'[k] = lock[k])
  BY <1>1
<1>4. FlushHasBatch'
  BY <1>3 DEF IInv, FlushHasBatch
<1> QED
  BY <1>2, <1>4

\* The holder of the lock, and the batch it flushes.
LEMMA HolderType ==
  ASSUME IInv, lock # <<>>
  PROVE  /\ Holder \in Operation
         /\ Holder.op = "flush" => Holder.batch \in Batch /\ Holding \in Seq(Entry)
<1>1. lock \in Seq(Operation) /\ 1 \in DOMAIN lock /\ Holder = lock[1]
  BY DEF IInv, TypeOK, Holder
<1>2. Holder \in Operation
  BY <1>1
<1>3. Holder.op = "flush" => Holder.batch \in Batch
  BY <1>1 DEF IInv, FlushHasBatch
<1>4. \A b \in Batch : batches[b].entries \in Seq(Entry)
  BY DEF IInv, TypeOK, BatchState
<1> QED
  BY <1>2, <1>3, <1>4 DEF Holding

\* When the holder's promise settles, the plan is dropped with its operation.
LEMMA SettledType ==
  ASSUME IInv, lock # <<>>, Settled
  PROVE  /\ lock' \in Seq(Operation) /\ FlushHasBatch'
         /\ phase' = "idle" /\ newPending' = {} /\ newDead' = {} /\ released' = {} /\ acked' = {}
         /\ batches' \in [Batch -> BatchState]
         /\ caller' \in [Delivery -> {"idle", "waiting", "over"}]
<1>1. lock \in Seq(Operation) /\ lock' = Tail(lock)
  BY DEF IInv, TypeOK, Settled
<1>2. lock' \in Seq(Operation)
  BY <1>1
<1>3. FlushHasBatch'
  <2>1. ASSUME NEW k \in DOMAIN lock' PROVE k + 1 \in DOMAIN lock /\ lock'[k] = lock[k + 1]
    BY <1>1
  <2> QED
    BY <2>1 DEF IInv, FlushHasBatch
<1>4. phase' = "idle" /\ newPending' = {} /\ newDead' = {} /\ released' = {} /\ acked' = {}
  BY DEF Settled, NoPlan
<1>5. batches' \in [Batch -> BatchState]
  <2>1. Free \in BatchState
    BY DEF Free, BatchState
  <2> QED
    BY <2>1 DEF IInv, TypeOK, Settled
<1>6. caller' \in [Delivery -> {"idle", "waiting", "over"}]
  BY DEF IInv, TypeOK, Settled
<1> QED
  BY <1>2, <1>3, <1>4, <1>5, <1>6

\* An operation that has read what is stored, and computed its plan, has changed nothing
\* but the plan, and does not go on to a reset.
LEMMA PlansTouchNothing ==
  ASSUME ReadFlush \/ ReadSettle \/ ReadAcknowledge \/ ReadSweep
  PROVE  UNCHANGED <<pending, dead, mangled, owed, batches>> /\ phase' # "reset"
<1> DEFINE Quiet == UNCHANGED <<pending, dead, mangled, owed, batches>> /\ phase' # "reset"
<1>1. ASSUME NEW items, NEW D, NEW gone, NEW told, NEW force, Persist(items, D, gone, told, force)
      PROVE  Quiet
  <2>1. UNCHANGED <<pending, dead, mangled, owed, batches>>
    BY <1>1 DEF Persist, stored
  <2>2. phase' \in {"writeDead", "writePending", "done"}
    BY <1>1 DEF Persist
  <2> QED BY <2>1, <2>2
<1> SUFFICES Quiet
  OBVIOUS
<1> HIDE DEF Quiet
<1>2. CASE ReadFlush
  BY <1>1, <1>2 DEF ReadFlush
<1>3. CASE ReadSettle
  BY <1>1, <1>3 DEF ReadSettle
<1>4. CASE ReadAcknowledge
  BY <1>1, <1>4 DEF ReadAcknowledge
<1>5. CASE ReadSweep
  BY <1>1, <1>5 DEF ReadSweep
<1> QED BY <1>2, <1>3, <1>4, <1>5

\* A read that ends in a sound plan keeps the invariant.
LEMMA PersistKeeps ==
  ASSUME IInv, phase = "read", NEW items, NEW D, NEW gone, NEW told, NEW force \in BOOLEAN,
         SoundPlan(items, D, gone, told), Persist(items, D, gone, told, force)
  PROVE  IInv'
<1>1. /\ UNCHANGED <<now, pending, dead, mangled, quarantined, batches, current, lock>>
      /\ UNCHANGED <<caller, owed, clearedAt>>
      /\ newPending' = items /\ newDead' = D /\ released' = gone /\ acked' = told
  BY DEF Persist, stored
<1>2. /\ phase' \in {"writeDead", "writePending", "done"} /\ lock # <<>>
      /\ phase' \in {"writePending", "done"} => D = dead
      /\ phase' = "done" => items = pending
  BY DEF Persist, IInv, TypeOK
<1>3. TypeOK'
  BY <1>1, <1>2 DEF IInv, TypeOK, SoundPlan, Phases
<1>4. FlushHasBatch'
  BY <1>1 DEF IInv, FlushHasBatch
<1>5. Contents'
  BY <1>1 DEF IInv, Contents, Unique, Justified
<1>6. PlanInv'
  <2>1. SoundPlan(newPending, newDead, released, acked)'
    BY <1>1 DEF SoundPlan, Unique, Justified, Ids
  <2>2. (phase = "done" => acked \subseteq Ids(pending))'
    BY <1>1, <1>2 DEF SoundPlan, Ids
  <2> QED
    BY <1>1, <1>2, <2>1, <2>2 DEF PlanInv
<1>7. AckedIsStored'
  BY <1>1 DEF IInv, AckedIsStored, Ids
<1> QED
  BY <1>3, <1>4, <1>5, <1>6, <1>7 DEF IInv

LEMMA InitIInv ==
  ASSUME Init
  PROVE  IInv
<1>1. TypeOK
  <2>1. Free \in BatchState
    BY DEF Free, BatchState
  <2>2. batches \in [Batch -> BatchState]
    BY <2>1 DEF Init
  <2>3. caller \in [Delivery -> {"idle", "waiting", "over"}]
    BY DEF Init
  <2>4. lock \in Seq(Operation) /\ phase \in Phases /\ phase = "idle"
    BY DEF Init, Phases
  <2>5. now \in Nat /\ clearedAt \in Nat
    BY DEF Init
  <2> QED
    BY <2>2, <2>3, <2>4, <2>5 DEF Init, TypeOK
<1>2. FlushHasBatch
  BY DEF Init, FlushHasBatch
<1>3. Contents /\ PlanInv /\ AckedIsStored
  BY DEF Init, Contents, Unique, Justified, PlanInv, AckedIsStored, Ids
<1> QED
  BY <1>1, <1>2, <1>3 DEF IInv

\* Deliveries, the coalescing timer, and the requests for the lock.
LEMMA CallersKeep ==
  ASSUME IInv,
         \/ Tick
         \/ \E d \in Delivery : Enqueue(d)
         \/ \E b \in Batch : WindowCloses(b)
         \/ \E op \in {"settle", "acknowledge", "sweep"} : Request(op)
         \/ Clear
  PROVE  IInv'
<1> USE DEF IInv, stored, InMemory, plan
<1>1. CASE Tick
  <2>1. TypeOK' /\ FlushHasBatch'
    BY <1>1 DEF Tick, TypeOK, FlushHasBatch
  <2>2. Contents' /\ PlanInv' /\ AckedIsStored'
    BY <1>1, ContentsKept DEF Tick
  <2> QED
    BY <2>1, <2>2
<1>2. ASSUME NEW d \in Delivery, Enqueue(d) PROVE IInv'
  <2> DEFINE e == [delivery |-> d, receivedAt |-> now]
  <2>1. e \in Entry /\ e.delivery = d
    BY DEF TypeOK, Entry
  <2>2. /\ UNCHANGED <<now, pending, dead, mangled, quarantined, lock, phase>>
        /\ UNCHANGED <<newPending, newDead, released, acked, owed, clearedAt>>
    BY <1>2 DEF Enqueue
  <2>3. caller' \in [Delivery -> {"idle", "waiting", "over"}]
    BY <1>2 DEF Enqueue, TypeOK
  <2>4. batches' \in [Batch -> BatchState] /\ current' \in Batch \cup {NoBatch}
    <3>1. CASE current # NoBatch
      <4>1. /\ batches' = [batches EXCEPT ![current].entries = Append(@, e)]
            /\ current' = current
        BY <1>2, <3>1 DEF Enqueue
      <4>2. current \in Batch /\ batches[current] \in BatchState
        BY <3>1 DEF TypeOK
      <4>3. Append(batches[current].entries, e) \in Seq(Entry)
        BY <2>1, <4>2 DEF BatchState
      <4> HIDE DEF e
      <4>4. [batches[current] EXCEPT !.entries = Append(batches[current].entries, e)] \in BatchState
        BY <4>2, <4>3 DEF BatchState
      <4> QED
        BY <4>1, <4>2, <4>4 DEF TypeOK
    <3>2. CASE current = NoBatch
      <4>1. PICK b \in Batch :
              /\ batches' = [batches EXCEPT ![b] = [stage |-> "window", superseded |-> FALSE,
                                                    entries |-> <<e>>]]
              /\ current' = b
        BY <1>2, <3>2 DEF Enqueue
      <4> HIDE DEF e
      <4>2. <<e>> \in Seq(Entry)
        BY <2>1
      <4>3. [stage |-> "window", superseded |-> FALSE, entries |-> <<e>>] \in BatchState
        BY <4>2 DEF BatchState
      <4> QED
        BY <4>1, <4>3 DEF TypeOK
    <3> QED
      BY <3>1, <3>2
  <2>5. TypeOK' /\ FlushHasBatch'
    BY <2>2, <2>3, <2>4 DEF TypeOK, FlushHasBatch
  <2>6. Contents' /\ PlanInv' /\ AckedIsStored'
    BY <2>2, ContentsKept
  <2> QED
    BY <2>5, <2>6
<1>3. ASSUME NEW b \in Batch, WindowCloses(b) PROVE IInv'
  <2> DEFINE e == [op |-> "flush", batch |-> b, called |-> 0]
  <2>1. e \in Operation /\ e.batch \in Batch
    BY DEF Operation
  <2>2. /\ UNCHANGED <<now, pending, dead, mangled, quarantined, current, phase>>
        /\ UNCHANGED <<newPending, newDead, released, acked, caller, owed, clearedAt>>
        /\ batches' = [batches EXCEPT ![b].stage = "waiting"]
        /\ lock' = Append(lock, e)
    BY <1>3 DEF WindowCloses
  <2> HIDE DEF e
  <2>3. lock' \in Seq(Operation) /\ lock' # <<>> /\ FlushHasBatch'
    BY <2>1, <2>2, LockGrows
  <2>4. batches' \in [Batch -> BatchState]
    BY <2>2 DEF TypeOK, BatchState
  <2>5. TypeOK'
    BY <2>2, <2>3, <2>4 DEF TypeOK
  <2>6. Contents' /\ PlanInv' /\ AckedIsStored'
    BY <2>2, ContentsKept
  <2> QED
    BY <2>3, <2>5, <2>6
<1>4. ASSUME NEW op \in {"settle", "acknowledge", "sweep"}, Request(op) PROVE IInv'
  <2> DEFINE e == [op |-> op, batch |-> NoBatch, called |-> 0]
  <2>1. e \in Operation /\ e.op # "flush"
    BY DEF Operation
  <2>2. /\ UNCHANGED <<now, pending, dead, mangled, quarantined, batches, current, phase>>
        /\ UNCHANGED <<newPending, newDead, released, acked, caller, owed, clearedAt>>
        /\ lock' = Append(lock, e)
    BY <1>4 DEF Request
  <2> HIDE DEF e
  <2>3. lock' \in Seq(Operation) /\ lock' # <<>> /\ FlushHasBatch'
    BY <2>1, <2>2, LockGrows
  <2>4. TypeOK'
    BY <2>2, <2>3 DEF TypeOK
  <2>5. Contents' /\ PlanInv' /\ AckedIsStored'
    BY <2>2, ContentsKept
  <2> QED
    BY <2>3, <2>4, <2>5
<1>5. CASE Clear
  <2> DEFINE e == [op |-> "clear", batch |-> NoBatch, called |-> now]
  <2>1. e \in Operation /\ e.op # "flush"
    BY DEF Operation, TypeOK
  <2>2. /\ UNCHANGED <<now, pending, dead, mangled, quarantined, phase>>
        /\ UNCHANGED <<newPending, newDead, released, acked, caller, owed, clearedAt>>
        /\ current' = NoBatch
        /\ lock' = Append(lock, e)
    BY <1>5 DEF Clear
  <2> HIDE DEF e
  <2>3. lock' \in Seq(Operation) /\ lock' # <<>> /\ FlushHasBatch'
    BY <2>1, <2>2, LockGrows
  <2>4. batches' \in [Batch -> BatchState]
    <3>1. CASE current = NoBatch
      BY <1>5, <3>1 DEF Clear, TypeOK
    <3>2. CASE current # NoBatch
      BY <1>5, <3>2 DEF Clear, TypeOK, BatchState
    <3> QED
      BY <3>1, <3>2
  <2>5. TypeOK'
    BY <2>2, <2>3, <2>4 DEF TypeOK
  <2>6. Contents' /\ PlanInv' /\ AckedIsStored'
    BY <2>2, ContentsKept
  <2> QED
    BY <2>3, <2>5, <2>6
<1> QED
  BY <1>1, <1>2, <1>3, <1>4, <1>5

\* The four reads that plan a read-modify-write.
LEMMA ReadsKeep ==
  ASSUME IInv, ReadFlush \/ ReadSettle \/ ReadAcknowledge \/ ReadSweep
  PROVE  IInv'
<1>1. Stored
  BY StoredHolds
<1>2. CASE ReadFlush
  <2>1. phase = "read" /\ lock # <<>> /\ Holder.op = "flush"
    BY <1>2 DEF ReadFlush, IInv, TypeOK
  <2>2. Holding \in Seq(Entry)
    BY <2>1, HolderType
  <2>3. PICK kept \in Capped(Merged(Holding)), D \in DeadAfter(Timeouts) :
          Persist(kept, D, (Ids(Merged(Holding)) \ Ids(kept)) \cup Evicted(D, Timeouts),
                  Carried(Holding) \cap Ids(kept), TRUE)
    BY <1>2 DEF ReadFlush
  <2>4. SoundPlan(kept, D, (Ids(Merged(Holding)) \ Ids(kept)) \cup Evicted(D, Timeouts),
                  Carried(Holding) \cap Ids(kept))
    BY <1>1, <2>2, FlushPlan
  <2> QED
    BY <2>1, <2>3, <2>4, PersistKeeps
<1>3. CASE ReadSettle
  <2>1. phase = "read"
    BY <1>3 DEF ReadSettle
  <2>2. PICK S \in (SUBSET Item) \ {{}} : \E out \in [S -> Errors \cup {"done"}] :
          LET hit      == {x \in Swept : x.item \in S}
              finished == {x \in hit : out[x.item] = "done"}
              buried   == {x \in hit \ finished : Exhausted(x, out[x.item])}
              promoted == Timeouts \cup {Buried(x, out[x.item]) : x \in buried}
              items    == (Swept \ hit) \cup
                          {Requeued(x, out[x.item]) : x \in hit \ (finished \cup buried)}
          IN \E D \in DeadAfter(promoted) :
               Persist(items, D, Ids(finished) \cup Evicted(D, promoted), {}, FALSE)
    BY <1>3 DEF ReadSettle
  <2>3. PICK out \in [S -> Errors \cup {"done"}] :
          LET hit      == {x \in Swept : x.item \in S}
              finished == {x \in hit : out[x.item] = "done"}
              buried   == {x \in hit \ finished : Exhausted(x, out[x.item])}
              promoted == Timeouts \cup {Buried(x, out[x.item]) : x \in buried}
              items    == (Swept \ hit) \cup
                          {Requeued(x, out[x.item]) : x \in hit \ (finished \cup buried)}
          IN \E D \in DeadAfter(promoted) :
               Persist(items, D, Ids(finished) \cup Evicted(D, promoted), {}, FALSE)
    BY <2>2
  <2> DEFINE hit      == {x \in Swept : x.item \in S}
             finished == {x \in hit : out[x.item] = "done"}
             buried   == {x \in hit \ finished : Exhausted(x, out[x.item])}
             promoted == Timeouts \cup {Buried(x, out[x.item]) : x \in buried}
             items    == (Swept \ hit) \cup
                         {Requeued(x, out[x.item]) : x \in hit \ (finished \cup buried)}
  <2>4. PICK D \in DeadAfter(promoted) :
          Persist(items, D, Ids(finished) \cup Evicted(D, promoted), {}, FALSE)
    BY <2>3
  <2>5. Settlement(S, out, hit, finished, buried, promoted, items)
    BY DEF Settlement
  <2> HIDE DEF hit, finished, buried, promoted, items
  <2>6. S \in SUBSET Item
    OBVIOUS
  <2> DEFINE gone == Ids(finished) \cup Evicted(D, promoted)
  <2>7. SoundPlan(items, D, gone, {})
    BY <1>1, <2>5, <2>6, SettlePlan
  <2>8. Persist(items, D, gone, {}, FALSE)
    BY <2>4
  <2> HIDE DEF gone
  <2> QED
    BY <2>1, <2>7, <2>8, PersistKeeps
<1>4. CASE ReadAcknowledge
  <2>1. phase = "read"
    BY <1>4 DEF ReadAcknowledge
  <2>2. PICK S \in (SUBSET Item) \ {{}}, D \in DeadAfter(Timeouts) :
          Persist({x \in Swept : x.item \notin S}, D,
                  (S \cap Ids(Swept)) \cup Evicted(D, Timeouts), {}, FALSE)
    BY <1>4 DEF ReadAcknowledge
  <2>3. SoundPlan({x \in Swept : x.item \notin S}, D,
                  (S \cap Ids(Swept)) \cup Evicted(D, Timeouts), {})
    BY <1>1, SweepPlan
  <2> QED
    BY <2>1, <2>2, <2>3, PersistKeeps
<1>5. CASE ReadSweep
  <2>1. phase = "read"
    BY <1>5 DEF ReadSweep
  <2>2. PICK D \in DeadAfter(Timeouts) : Persist(Swept, D, Evicted(D, Timeouts), {}, FALSE)
    BY <1>5 DEF ReadSweep
  <2>3. SoundPlan({x \in Swept : x.item \notin {}}, D, ({} \cap Ids(Swept)) \cup Evicted(D, Timeouts), {})
    <3>1. {} \in SUBSET Item
      OBVIOUS
    <3> QED
      BY <1>1, <3>1, SweepPlan
  <2>4. /\ {x \in Swept : x.item \notin {}} = Swept
        /\ ({} \cap Ids(Swept)) \cup Evicted(D, Timeouts) = Evicted(D, Timeouts)
    OBVIOUS
  <2>5. SoundPlan(Swept, D, Evicted(D, Timeouts), {})
    BY <2>3, <2>4
  <2> QED
    BY <2>1, <2>2, <2>5, PersistKeeps
<1> QED
  BY <1>2, <1>3, <1>4, <1>5

\* The two writes of a plan.
LEMMA WritesKeep ==
  ASSUME IInv, WriteDead \/ WritePending
  PROVE  IInv'
<1> USE DEF Outcomes, Proceed, stored, plan
<1>1. \A A, B : Ids(A \cup B) = Ids(A) \cup Ids(B)
  BY DEF Ids
<1>2. SoundPlan(newPending, newDead, released, acked)
  BY DEF IInv, PlanInv, WriteDead, WritePending
<1>3. CASE WriteDead
  <2>1. /\ UNCHANGED <<now, pending, mangled, quarantined, batches, current, lock>>
        /\ UNCHANGED <<newPending, newDead, released, acked, caller, clearedAt>>
    BY <1>3 DEF WriteDead
  <2>2. /\ \/ dead' = newDead /\ owed' = owed \ (released \ Ids(pending \cup newDead))
           \/ dead' = dead /\ owed' = owed /\ phase' = "failed"
        /\ phase' \in {"writePending", "done", "failed"}
        /\ phase' = "done" => newPending = pending
        /\ phase' # "failed" => dead' = newDead
    <3> DEFINE next == IF newPending # pending \/ Holder.op = "flush" THEN "writePending" ELSE "done"
    <3>1. PICK outcome \in Outcomes :
            /\ dead' = IF outcome[1] THEN newDead ELSE dead
            /\ owed' = IF outcome[1] THEN owed \ (released \ Ids(pending \cup newDead)) ELSE owed
            /\ phase' = IF outcome[2] THEN next ELSE "failed"
      BY <1>3 DEF WriteDead
    <3>2. next \in {"writePending", "done"} /\ (next = "done" => newPending = pending)
      OBVIOUS
    <3> HIDE DEF next
    <3>3. CASE outcome = <<TRUE, TRUE>>
      BY <3>1, <3>2, <3>3
    <3>4. CASE outcome = <<TRUE, FALSE>>
      BY <3>1, <3>2, <3>4
    <3>5. CASE outcome = <<FALSE, FALSE>>
      BY <3>1, <3>2, <3>5
    <3> QED
      BY <3>3, <3>4, <3>5
  <2>3. TypeOK'
    <3>1. lock # <<>>
      BY <1>3 DEF IInv, TypeOK, WriteDead
    <3> QED
      BY <1>2, <2>1, <2>2, <3>1 DEF IInv, TypeOK, SoundPlan, Phases
  <2>4. FlushHasBatch'
    BY <2>1 DEF IInv, FlushHasBatch
  <2>5. Contents'
    BY <1>2, <2>1, <2>2 DEF IInv, Contents, SoundPlan, Unique, Justified
  <2>6. AckedIsStored'
    <3>1. owed' \subseteq Ids(pending) \cup Ids(dead')
      BY <1>1, <1>2, <2>2 DEF IInv, AckedIsStored, SoundPlan
    <3> QED
      BY <2>1, <3>1 DEF AckedIsStored, Ids
  <2>7. PlanInv'
    <3>1. phase' # "failed" => SoundPlan(newPending, newDead, released, acked)'
      BY <1>2, <2>1, <2>2 DEF SoundPlan, Unique, Justified, Ids
    <3>2. phase' = "done" => (acked \subseteq Ids(pending))'
      BY <1>2, <2>1, <2>2 DEF SoundPlan, Ids
    <3> QED
      BY <2>1, <2>2, <3>1, <3>2 DEF PlanInv
  <2> QED
    BY <2>3, <2>4, <2>5, <2>6, <2>7 DEF IInv
<1>4. CASE WritePending
  <2>1. /\ UNCHANGED <<now, dead, mangled, quarantined, batches, current, lock>>
        /\ UNCHANGED <<newPending, newDead, released, acked, caller, clearedAt>>
    BY <1>4 DEF WritePending
  <2>2. /\ \/ pending' = newPending /\ owed' = owed \ (released \ Ids(newPending \cup dead))
           \/ pending' = pending /\ owed' = owed
        /\ phase' \in {"done", "failed"}
        /\ phase' = "done" => pending' = newPending
        /\ newDead = dead
    <3>1. PICK outcome \in Outcomes :
            /\ pending' = IF outcome[1] THEN newPending ELSE pending
            /\ owed' = IF outcome[1] THEN owed \ (released \ Ids(newPending \cup dead)) ELSE owed
            /\ phase' = IF outcome[2] THEN "done" ELSE "failed"
      BY <1>4 DEF WritePending
    <3>2. newDead = dead
      BY <1>4 DEF WritePending, IInv, PlanInv
    <3>3. CASE outcome = <<TRUE, TRUE>>
      BY <3>1, <3>2, <3>3
    <3>4. CASE outcome = <<TRUE, FALSE>>
      BY <3>1, <3>2, <3>4
    <3>5. CASE outcome = <<FALSE, FALSE>>
      BY <3>1, <3>2, <3>5
    <3> QED
      BY <3>3, <3>4, <3>5
  <2>3. TypeOK'
    <3>1. lock # <<>>
      BY <1>4 DEF IInv, TypeOK, WritePending
    <3>2. owed' \subseteq Item
      BY <2>2 DEF IInv, TypeOK
    <3>3. pending' \subseteq PendingItem
      BY <2>2 DEF IInv, TypeOK
    <3> QED
      BY <2>1, <2>2, <3>1, <3>2, <3>3 DEF IInv, TypeOK, Phases
  <2>4. FlushHasBatch'
    BY <2>1 DEF IInv, FlushHasBatch
  <2>5. Contents'
    BY <1>2, <2>1, <2>2 DEF IInv, Contents, SoundPlan, Unique, Justified
  <2>6. AckedIsStored'
    <3>1. owed' \subseteq Ids(pending') \cup Ids(dead)
      BY <1>1, <1>2, <2>2 DEF IInv, AckedIsStored, SoundPlan
    <3> QED
      BY <2>1, <3>1 DEF AckedIsStored, Ids
  <2>7. PlanInv'
    <3>1. phase' = "done" => (acked \subseteq Ids(pending))'
      BY <1>2, <2>1, <2>2 DEF SoundPlan, Ids
    <3> QED
      BY <2>2, <3>1 DEF PlanInv
  <2> QED
    BY <2>3, <2>4, <2>5, <2>6, <2>7 DEF IInv
<1> QED
  BY <1>3, <1>4

\* A step that leaves the arrays and the debts alone, with no write ahead of it.
LEMMA NothingAhead ==
  ASSUME IInv, UNCHANGED <<pending, dead, owed>>,
         phase' \in Phases \ {"writeDead", "writePending", "done"},
         acked' = {} \/ phase' = "failed"
  PROVE  Contents' /\ PlanInv' /\ AckedIsStored'
<1>1. Contents'
  BY DEF IInv, Contents, Unique, Justified
<1>2. AckedIsStored'
  BY DEF IInv, AckedIsStored, Ids
<1>3. PlanInv'
  BY DEF PlanInv
<1> QED
  BY <1>1, <1>2, <1>3

\* The lock is taken, a read fails or finds a mangled value, and the two writes
\* that quarantine it.
LEMMA PreparationsKeep ==
  ASSUME IInv,
         Acquire \/ ReadFails \/ ReadMangled \/ CountStored \/ WriteQuarantine \/ WriteReset
  PROVE  IInv'
<1> USE DEF stored, plan
<1>1. CASE Acquire
  <2>1. /\ UNCHANGED <<now, pending, dead, mangled, quarantined, owed, clearedAt>>
        /\ lock # <<>> /\ phase = "idle" /\ acked = {}
        /\ current' = NoBatch \/ current' = current
    BY <1>1 DEF Acquire, IInv, PlanInv
  <2>2. CASE Settled
    <3>1. /\ lock' \in Seq(Operation) /\ FlushHasBatch'
          /\ phase' = "idle" /\ newPending' = {} /\ newDead' = {} /\ released' = {} /\ acked' = {}
          /\ batches' \in [Batch -> BatchState]
          /\ caller' \in [Delivery -> {"idle", "waiting", "over"}]
      BY <2>1, <2>2, SettledType
    <3>2. TypeOK'
      BY <2>1, <3>1 DEF IInv, TypeOK, Phases
    <3>3. Contents' /\ PlanInv' /\ AckedIsStored'
      BY <2>1, <3>1, NothingAhead DEF Phases
    <3> QED
      BY <3>1, <3>2, <3>3 DEF IInv
  <2>3. CASE phase' = "read" /\ UNCHANGED <<batches, lock, caller, plan>>
    <3>1. TypeOK' /\ FlushHasBatch'
      BY <2>1, <2>3 DEF IInv, TypeOK, FlushHasBatch, Phases
    <3>2. Contents' /\ PlanInv' /\ AckedIsStored'
      BY <2>1, <2>3, NothingAhead DEF Phases
    <3> QED
      BY <3>1, <3>2 DEF IInv
  <2> QED
    BY <1>1, <2>2, <2>3 DEF Acquire
<1>2. CASE ReadFails \/ ReadMangled \/ CountStored
  <2>1. /\ UNCHANGED <<now, pending, dead, mangled, quarantined, batches, current, lock>>
        /\ UNCHANGED <<newPending, newDead, released, acked, caller, owed, clearedAt>>
        /\ phase = "read" /\ phase' \in {"failed", "quarantine", "deletePending"}
    BY <1>2 DEF ReadFails, ReadMangled, CountStored
  <2>2. lock # <<>> /\ acked = {}
    BY <2>1 DEF IInv, TypeOK, PlanInv
  <2>3. TypeOK' /\ FlushHasBatch'
    BY <2>1, <2>2 DEF IInv, TypeOK, FlushHasBatch, Phases
  <2>4. Contents' /\ PlanInv' /\ AckedIsStored'
    BY <2>1, <2>2, NothingAhead DEF Phases
  <2> QED
    BY <2>3, <2>4 DEF IInv
<1>3. CASE WriteQuarantine \/ WriteReset
  <2>1. /\ UNCHANGED <<now, pending, dead, batches, current, lock>>
        /\ UNCHANGED <<newPending, newDead, released, acked, caller, owed, clearedAt>>
        /\ phase \in {"quarantine", "reset"} /\ phase' \in {"failed", "reset", "read"}
        /\ quarantined' = quarantined \/ quarantined' \in BOOLEAN
        /\ mangled' = mangled \/ mangled' \in BOOLEAN
    BY <1>3 DEF WriteQuarantine, WriteReset, Outcomes, Proceed
  <2>2. lock # <<>> /\ acked = {}
    BY <2>1 DEF IInv, TypeOK, PlanInv
  <2>3. TypeOK' /\ FlushHasBatch'
    BY <2>1, <2>2 DEF IInv, TypeOK, FlushHasBatch, Phases
  <2>4. Contents' /\ PlanInv' /\ AckedIsStored'
    BY <2>1, <2>2, NothingAhead DEF Phases
  <2> QED
    BY <2>3, <2>4 DEF IInv
<1> QED
  BY <1>1, <1>2, <1>3

\* The two deletes of clear(): what is not stored any more is owed no more.
LEMMA DeletesKeep ==
  ASSUME IInv, DeletePending \/ DeleteDead
  PROVE  IInv'
<1> USE DEF stored, plan
<1>1. /\ UNCHANGED <<now, quarantined, batches, current, lock>>
      /\ UNCHANGED <<newPending, newDead, released, acked, caller, clearedAt>>
      /\ phase \in {"deletePending", "deleteDead"}
      /\ phase' \in {"deleteDead", "done", "failed"}
      /\ mangled' = mangled \/ mangled' \in BOOLEAN
  BY DEF DeletePending, DeleteDead, Outcomes, Proceed
<1>2. \/ pending' = pending /\ dead' = dead /\ owed' = owed
      \/ pending' = {} /\ dead' = dead /\ owed' = owed \cap Ids(dead)
      \/ pending' = pending /\ dead' = {} /\ owed' = owed \cap Ids(pending)
  <2>1. CASE DeletePending
    <3>1. PICK outcome \in Outcomes :
            /\ pending' = IF outcome[1] THEN {} ELSE pending
            /\ owed' = IF outcome[1] THEN owed \cap Ids(dead) ELSE owed
            /\ dead' = dead
      BY <2>1 DEF DeletePending
    <3> QED
      BY <3>1
  <2>2. CASE DeleteDead
    <3>1. PICK outcome \in Outcomes :
            /\ dead' = IF outcome[1] THEN {} ELSE dead
            /\ owed' = IF outcome[1] THEN owed \cap Ids(pending) ELSE owed
            /\ pending' = pending
      BY <2>2 DEF DeleteDead
    <3> QED
      BY <3>1
  <2> QED
    BY <2>1, <2>2
<1>3. lock # <<>> /\ acked = {}
  BY <1>1 DEF IInv, TypeOK, PlanInv
<1>4. TypeOK'
  <2>1. pending' \subseteq PendingItem /\ dead' \subseteq DeadItem /\ owed' \subseteq Item
    BY <1>2 DEF IInv, TypeOK
  <2> QED
    BY <1>1, <1>3, <2>1 DEF IInv, TypeOK, Phases
<1>5. FlushHasBatch'
  BY <1>1 DEF IInv, FlushHasBatch
<1>6. Contents'
  BY <1>2 DEF IInv, Contents, Unique, Justified
<1>7. AckedIsStored'
  <2>1. owed' \subseteq Ids(pending') \cup Ids(dead')
    BY <1>2 DEF IInv, AckedIsStored
  <2> QED
    BY <2>1 DEF AckedIsStored, Ids
<1>8. PlanInv'
  BY <1>1, <1>3 DEF PlanInv
<1> QED
  BY <1>4, <1>5, <1>6, <1>7, <1>8 DEF IInv

\* The answers: what a flush acknowledges is stored.
LEMMA AnswersKeep ==
  ASSUME IInv, Respond \/ Reject
  PROVE  IInv'
<1>1. /\ UNCHANGED <<now, pending, dead, mangled, quarantined, current>>
      /\ Settled /\ lock # <<>> /\ phase \in {"done", "failed"}
  BY DEF Respond, Reject, stored, IInv, TypeOK
<1>2. /\ lock' \in Seq(Operation) /\ FlushHasBatch'
      /\ phase' = "idle" /\ newPending' = {} /\ newDead' = {} /\ released' = {} /\ acked' = {}
      /\ batches' \in [Batch -> BatchState]
      /\ caller' \in [Delivery -> {"idle", "waiting", "over"}]
  BY <1>1, SettledType
<1>3. clearedAt' \in Nat
  <2>1. Holder \in Operation
    BY <1>1, HolderType
  <2> QED
    BY <2>1 DEF Respond, Reject, Operation, IInv, TypeOK
<1>4. owed' \subseteq Ids(pending) \cup Ids(dead) /\ owed' \subseteq Item
  BY DEF Respond, Reject, IInv, TypeOK, PlanInv, AckedIsStored
<1>5. TypeOK'
  BY <1>1, <1>2, <1>3, <1>4 DEF IInv, TypeOK, Phases
<1>6. Contents' /\ AckedIsStored'
  BY <1>1, <1>4 DEF IInv, Contents, Unique, Justified, AckedIsStored, Ids
<1>7. PlanInv'
  BY <1>2 DEF PlanInv
<1> QED
  BY <1>2, <1>5, <1>6, <1>7 DEF IInv

\* A crash, and a stored value that turns out not to be an array.
LEMMA EnvironmentKeeps ==
  ASSUME IInv, Crash \/ Mangle
  PROVE  IInv'
<1> USE DEF stored, plan, InMemory
<1>1. CASE Crash
  <2>1. /\ UNCHANGED <<now, pending, dead, mangled, quarantined, owed, clearedAt>>
        /\ current' = NoBatch /\ lock' = <<>> /\ phase' = "idle"
        /\ newPending' = {} /\ newDead' = {} /\ released' = {} /\ acked' = {}
    BY <1>1 DEF Crash, NoPlan
  <2>2. batches' \in [Batch -> BatchState] /\ caller' \in [Delivery -> {"idle", "waiting", "over"}]
    <3>1. Free \in BatchState
      BY DEF Free, BatchState
    <3> QED
      BY <1>1, <3>1 DEF Crash, IInv, TypeOK
  <2>3. lock' \in Seq(Operation) /\ FlushHasBatch'
    BY <2>1 DEF FlushHasBatch
  <2>4. TypeOK'
    BY <2>1, <2>2, <2>3 DEF IInv, TypeOK, Phases
  <2>5. Contents' /\ PlanInv' /\ AckedIsStored'
    BY <2>1, NothingAhead DEF Phases
  <2> QED
    BY <2>3, <2>4, <2>5 DEF IInv
<1>2. CASE Mangle
  <2>1. /\ UNCHANGED <<now, dead, quarantined, batches, current, lock, phase>>
        /\ UNCHANGED <<newPending, newDead, released, acked, caller, clearedAt>>
        /\ mangled' = TRUE /\ pending' = {} /\ owed' = owed \cap Ids(dead) /\ phase = "idle"
    BY <1>2 DEF Mangle
  <2>2. TypeOK' /\ FlushHasBatch'
    BY <2>1 DEF IInv, TypeOK, FlushHasBatch
  <2>3. Contents' /\ AckedIsStored'
    BY <2>1 DEF IInv, Contents, Unique, Justified, AckedIsStored, Ids
  <2>4. PlanInv'
    BY <2>1 DEF IInv, PlanInv
  <2> QED
    BY <2>2, <2>3, <2>4 DEF IInv
<1> QED
  BY <1>1, <1>2

LEMMA StepKeepsIInv ==
  ASSUME IInv, [Next]_vars
  PROVE  IInv'
<1>1. CASE \/ Tick
           \/ \E d \in Delivery : Enqueue(d)
           \/ \E b \in Batch : WindowCloses(b)
           \/ \E op \in {"settle", "acknowledge", "sweep"} : Request(op)
           \/ Clear
  BY <1>1, CallersKeep
<1>2. CASE HolderStep
  BY <1>2, ReadsKeep, WritesKeep, PreparationsKeep, DeletesKeep, AnswersKeep DEF HolderStep
<1>3. CASE Crash \/ Mangle
  BY <1>3, EnvironmentKeeps
<1>4. CASE UNCHANGED vars
  <2>1. TypeOK' /\ FlushHasBatch'
    BY <1>4 DEF vars, stored, plan, IInv, TypeOK, FlushHasBatch
  <2>2. Contents' /\ PlanInv' /\ AckedIsStored'
    BY <1>4, ContentsKept DEF vars, stored
  <2> QED
    BY <2>1, <2>2 DEF IInv
<1> QED
  BY <1>1, <1>2, <1>3, <1>4 DEF Next

THEOREM Invariance == Spec => []IInv
<1>1. Init => IInv
  BY InitIInv
<1>2. IInv /\ [Next]_vars => IInv'
  BY StepKeepsIInv
<1> QED
  BY <1>1, <1>2, PTL DEF Spec

-----------------------------------------------------------------------------
(* The theorems *)

\* Every stored record, waiting operation and open batch is well formed, whatever the
\* caps and schedules are: what enqueue, settle, appendDead and flush build.
THEOREM TypeCorrect == Spec => []TypeOK
<1>1. IInv => TypeOK
  BY DEF IInv
<1> QED
  BY <1>1, Invariance, PTL

\* No delivery answered 202 is lost by persist's two writes, whatever fails, is
\* dropped or crashes between them.
THEOREM AcknowledgedIsStored == Spec => []AckedIsStored
<1>1. IInv => AckedIsStored
  BY DEF IInv
<1> QED
  BY <1>1, Invariance, PTL

\* Neither the pending array nor the dead-letter ever holds an identity twice: the
\* dedupe of flush and appendDead's check.
THEOREM EachIsStoredOnce == Spec => []NoDuplicates
<1>1. IInv => NoDuplicates
  BY DEF IInv, Contents, Unique, NoDuplicates
<1> QED
  BY <1>1, Invariance, PTL

\* An item is in the dead-letter for a reason that is true of it: settle's and
\* sweepExpired's rules, with the budget and the TTL as parameters.
THEOREM DeadReasonsAreTrue == Spec => []DeadIsJustified
<1>1. IInv => DeadIsJustified
  BY DEF IInv, Contents, Justified, DeadIsJustified
<1> QED
  BY <1>1, Invariance, PTL

\* When the holder is about to reset the pending container, the copy has landed.
CopyBeforeReset == phase = "reset" => quarantined

LEMMA StepKeepsCopy ==
  ASSUME TypeOK, CopyBeforeReset, [Next]_vars
  PROVE  CopyBeforeReset' /\ (mangled /\ ~ mangled' => quarantined \/ phase = "deletePending")
<1> USE DEF CopyBeforeReset, stored, plan, InMemory
<1>1. CASE WriteQuarantine
  <2>1. PICK outcome \in Outcomes :
          /\ quarantined' = (quarantined \/ outcome[1])
          /\ phase' = IF outcome[2] THEN "reset" ELSE "failed"
    BY <1>1 DEF WriteQuarantine, Proceed
  <2>2. \/ outcome = <<TRUE, TRUE>> \/ outcome = <<TRUE, FALSE>> \/ outcome = <<FALSE, FALSE>>
    BY DEF Outcomes
  <2>3. mangled' = mangled
    BY <1>1 DEF WriteQuarantine
  <2>4. (quarantined' /\ phase' = "reset") \/ phase' = "failed"
    <3>1. CASE outcome = <<TRUE, TRUE>>
      BY <2>1, <3>1
    <3>2. CASE outcome = <<TRUE, FALSE>>
      BY <2>1, <3>2
    <3>3. CASE outcome = <<FALSE, FALSE>>
      BY <2>1, <3>3
    <3> QED
      BY <2>2, <3>1, <3>2, <3>3
  <2> QED
    BY <2>3, <2>4
<1>2. CASE WriteReset
  <2>1. phase' \in {"read", "failed"} /\ quarantined' = quarantined /\ phase = "reset"
    BY <1>2 DEF WriteReset, Proceed
  <2> QED
    BY <2>1
<1>3. CASE DeletePending
  <2>1. phase' \in {"deleteDead", "failed"} /\ quarantined' = quarantined /\ phase = "deletePending"
    BY <1>3 DEF DeletePending, Proceed
  <2> QED
    BY <2>1
<1>4. CASE WriteDead \/ WritePending \/ DeleteDead
  <2>1. phase' # "reset" /\ mangled' = mangled
    BY <1>4 DEF WriteDead, WritePending, DeleteDead, Proceed
  <2> QED
    BY <2>1
<1>5. CASE ReadFlush \/ ReadSettle \/ ReadAcknowledge \/ ReadSweep
  <2>1. phase' # "reset" /\ mangled' = mangled
    BY <1>5, PlansTouchNothing
  <2> QED
    BY <2>1
<1>6. CASE Acquire \/ ReadFails \/ ReadMangled \/ CountStored \/ Respond \/ Reject
  <2>1. phase' # "reset" /\ mangled' = mangled
    BY <1>6 DEF Acquire, ReadFails, ReadMangled, CountStored, Respond, Reject, Settled
  <2> QED
    BY <2>1
<1>7. CASE \/ Tick
           \/ \E d \in Delivery : Enqueue(d)
           \/ \E b \in Batch : WindowCloses(b)
           \/ \E op \in {"settle", "acknowledge", "sweep"} : Request(op)
           \/ Clear
  <2>1. UNCHANGED <<phase, mangled, quarantined>>
    BY <1>7 DEF Tick, Enqueue, WindowCloses, Request, Clear
  <2> QED
    BY <2>1
<1>8. CASE Crash \/ Mangle \/ UNCHANGED vars
  <2>1. (phase' = "idle" \/ UNCHANGED <<phase, quarantined>>) /\ (mangled' = mangled \/ mangled' = TRUE)
    BY <1>8 DEF Crash, Mangle, vars
  <2> QED
    BY <2>1
<1> QED
  BY <1>1, <1>2, <1>3, <1>4, <1>5, <1>6, <1>7, <1>8 DEF Next, HolderStep

\* readState resets a corrupt pending value only after the quarantine write was
\* acknowledged: a failed or lost write never costs the copy.
THEOREM CopyIsKept == Spec => QuarantineFirst
<1>1. Init => CopyBeforeReset
  BY DEF Init, CopyBeforeReset
<1>2. TypeOK /\ CopyBeforeReset /\ [Next]_vars
        => CopyBeforeReset' /\ [mangled /\ ~ mangled' => quarantined \/ phase = "deletePending"]_vars
  BY StepKeepsCopy
<1> QED
  BY <1>1, <1>2, TypeCorrect, PTL DEF Spec, QuarantineFirst
=============================================================================
