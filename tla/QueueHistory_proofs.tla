------------------------- MODULE QueueHistory_proofs -------------------------
(***************************************************************************)
(* Proofs about ConnectorQueue that relate what is stored to what happened *)
(* before: what a completed clear leaves behind, how many batches a burst  *)
(* can keep alive, and what a repeated delivery does to a queued item.     *)
(*                                                                         *)
(* All three rest on the bookkeeping of the open batch: a batch that no    *)
(* clear() has superseded is the one in the map, or the one being flushed. *)
(***************************************************************************)
EXTENDS ConnectorQueue_proofs, FiniteSetTheorems

Recent(S) == \A x \in S : x.receivedAt >= clearedAt

Old(x) == x.receivedAt + TTL <= now

Budget(x, y) == y.first = x.first /\ y.attempts >= x.attempts /\ y.requeues >= x.requeues

Untouched(x, y) == y = [x EXCEPT !.receivedAt = y.receivedAt]

Flushing(b) == phase # "idle" /\ lock # <<>> /\ Holder.op = "flush" /\ Holder.batch = b

LiveBatches ==
  \A b \in Batch :
    batches[b].stage # "free" /\ ~ batches[b].superseded => b = current \/ Flushing(b)

CallsPast == clearedAt <= now /\ \A n \in DOMAIN lock : lock[n].called <= now

\* The entries of the open batch are later than every clear called so far, those of the
\* batch being flushed later than every clear completed.
BatchesRecent ==
  \A b \in Batch : \A n \in DOMAIN batches[b].entries :
    /\ b = current => /\ clearedAt <= batches[b].entries[n].receivedAt
                      /\ \A m \in DOMAIN lock : lock[m].called <= batches[b].entries[n].receivedAt
    /\ Flushing(b) => clearedAt <= batches[b].entries[n].receivedAt

\* A flush on the lock has its batch to itself; the open batch is not being flushed; a
\* batch that is not in use carries nothing.
FlushesWait ==
  \A n \in DOMAIN lock :
    lock[n].op = "flush" =>
      /\ batches[lock[n].batch].stage = "waiting"
      /\ \A m \in DOMAIN lock : lock[m].op = "flush" /\ lock[m].batch = lock[n].batch => m = n

BatchesInUse ==
  /\ current # NoBatch => batches[current].stage # "free"
  /\ \A b \in Batch : batches[b].stage = "free" => batches[b].entries = <<>>
  /\ \A b \in Batch : Flushing(b) => b # current

StoredRecent == Recent(pending) /\ Recent(dead) /\ Recent(newPending) /\ Recent(newDead)

\* A clear that is done has emptied both values.
ClearEmpties ==
  /\ phase \in {"writeDead", "writePending"} => Holder.op # "clear"
  /\ phase = "deleteDead" => pending = {}
  /\ phase = "done" /\ Holder.op = "clear" => pending = {} /\ dead = {}

\* What the holder is about to write keeps the budget of every item it keeps.
BudgetsKept(items) ==
  \A x \in pending, y \in items :
    x.item = y.item =>
      \/ Budget(x, y) /\ (Holder.op = "flush" => Untouched(x, y))
      \/ Old(x)

PlanKeepsBudgets == phase \in {"writeDead", "writePending"} => BudgetsKept(newPending)

Order == LiveBatches /\ CallsPast /\ BatchesRecent /\ FlushesWait /\ BatchesInUse

HistInv == Order /\ StoredRecent /\ ClearEmpties /\ PlanKeepsBudgets

RedeliveryStep ==
  \A x \in pending, y \in pending' :
    x.item = y.item =>
      \/ /\ y.first = x.first
         /\ y.attempts >= x.attempts /\ y.requeues >= x.requeues
         /\ lock # <<>> /\ Holder.op = "flush" => y = [x EXCEPT !.receivedAt = y.receivedAt]
      \/ x.receivedAt + TTL <= now

-----------------------------------------------------------------------------
(* Steps that leave a part alone                                           *)

\* The holder works on, the batches and the lock stay.
LEMMA OrderKept ==
  ASSUME TypeOK, Order, UNCHANGED <<now, batches, current, lock, clearedAt>>,
         phase # "idle", phase' # "idle"
  PROVE  Order'
<1>1. \A b : Flushing(b)' <=> Flushing(b)
  BY DEF Flushing, Holder
<1>2. LiveBatches'
  BY <1>1 DEF Order, LiveBatches
<1>3. CallsPast' /\ BatchesRecent'
  BY <1>1 DEF Order, CallsPast, BatchesRecent
<1>4. FlushesWait' /\ BatchesInUse'
  BY <1>1 DEF Order, FlushesWait, BatchesInUse
<1> QED BY <1>2, <1>3, <1>4 DEF Order

\* An item that stays as it is keeps its budget.
LEMMA StaysAsIs ==
  ASSUME NEW x \in PendingItem
  PROVE  Budget(x, x) /\ Untouched(x, x)
<1>1. x.attempts \in Int /\ x.requeues \in Int
  <2>1. x.attempts \in 0..(MaxAttempts - 1) /\ x.requeues \in 0..BackoffSteps
    BY DEF PendingItem
  <2> QED BY <2>1, LimitAssumption, BackoffAssumption
<1>2. x = [x EXCEPT !.receivedAt = x.receivedAt]
  BY DEF PendingItem
<1> QED BY <1>1, <1>2 DEF Budget, Untouched

LEMMA NothingRewritten ==
  ASSUME IInv, pending' = pending \/ pending' = {}
  PROVE  RedeliveryStep
<1> SUFFICES ASSUME NEW x \in pending, NEW y \in pending', x.item = y.item
             PROVE  Budget(x, y) /\ Untouched(x, y)
  BY DEF RedeliveryStep, Budget, Untouched
<1>1. x \in PendingItem /\ y \in pending
  BY DEF IInv, TypeOK
<1>2. x = y
  BY <1>1 DEF IInv, Contents, Unique
<1> QED BY <1>1, <1>2, StaysAsIs

-----------------------------------------------------------------------------
(* Plans                                                                   *)

\* The dead-letter value of a plan holds what was there and what is promoted.
LEMMA DeadRecent ==
  ASSUME StoredRecent, NEW promoted, Recent(promoted), NEW D \in DeadAfter(promoted)
  PROVE  Recent(D)
<1>1. D \subseteq dead \cup promoted
  BY DEF DeadAfter
<1> QED BY <1>1 DEF Recent, StoredRecent

LEMMA TimeoutsRecent ==
  ASSUME StoredRecent
  PROVE  Recent(Timeouts) /\ Recent(Swept)
BY DEF StoredRecent, Recent, Timeouts, Timeout, Expired, Swept

\* What is swept out of the queue had expired; what is left keeps its budget.
LEMMA SweptKeeps ==
  ASSUME IInv, NEW x \in pending, NEW y \in Swept, x.item = y.item
  PROVE  x = y /\ x \in PendingItem /\ Budget(x, y) /\ Untouched(x, y)
<1>1. x \in PendingItem /\ y \in pending
  BY DEF IInv, TypeOK, Swept
<1>2. x = y
  BY <1>1 DEF IInv, Contents, Unique
<1> QED BY <1>1, <1>2, StaysAsIs

LEMMA FlushHistory ==
  ASSUME IInv, HistInv, phase = "read", Holder.op = "flush",
         NEW kept \in Capped(Merged(Holding)), NEW D \in DeadAfter(Timeouts)
  PROVE  Recent(kept) /\ Recent(D) /\ BudgetsKept(kept)
<1> DEFINE es == Holding
<1>0. lock # <<>> /\ Holder.batch \in Batch /\ es \in Seq(Entry)
  BY HolderType DEF IInv, TypeOK
<1>1. \A n \in DOMAIN es : es[n].receivedAt >= clearedAt
  <2>1. Flushing(Holder.batch)
    BY <1>0 DEF Flushing
  <2> QED BY <1>0, <2>1 DEF HistInv, Order, BatchesRecent, Holding, IInv, TypeOK
<1>2. ASSUME NEW i \in Carried(es) PROVE LastOf(es, i).receivedAt >= clearedAt
  <2> DEFINE P == Places(es, i)
  <2>1. P \in SUBSET (1..Len(es)) /\ Len(es) \in Nat /\ P # {}
    BY <1>0, <1>2 DEF Places, Carried
  <2>2. P \subseteq DOMAIN es
    BY DEF Places
  <2> HIDE DEF P
  <2>3. (CHOOSE k \in P : \A j \in P : j <= k) \in P
    BY <2>1, GreatestNatural
  <2>4. LastOf(es, i) = es[CHOOSE k \in P : \A j \in P : j <= k]
    BY DEF LastOf, P
  <2> QED BY <1>1, <2>2, <2>3, <2>4
<1>3. Recent(Swept) /\ Recent(Timeouts)
  BY TimeoutsRecent DEF HistInv
<1>4. kept \subseteq Merged(es)
  BY DEF Capped
<1> HIDE DEF es
<1>5. ASSUME NEW y \in Merged(es)
      PROVE  /\ y.receivedAt >= clearedAt
             /\ \A x \in pending : x.item = y.item => (Budget(x, y) /\ Untouched(x, y)) \/ Old(x)
  <2>1. CASE \E u \in Swept : y = Refreshed(es, u)
    <3>1. PICK u \in Swept : y = Refreshed(es, u)
      BY <2>1
    <3>2. u \in PendingItem
      BY DEF Swept, IInv, TypeOK
    <3>3. CASE u.item \in Carried(es)
      <4> DEFINE t == LastOf(es, u.item).receivedAt
      <4>1. y = [u EXCEPT !.receivedAt = t] /\ t >= clearedAt
        BY <1>2, <3>1, <3>3 DEF Refreshed
      <4>2. y.receivedAt = t /\ y.item = u.item /\ y.first = u.first
            /\ y.attempts = u.attempts /\ y.requeues = u.requeues
        BY <3>2, <4>1 DEF PendingItem
      <4>3. Untouched(u, y)
        BY <4>1, <4>2 DEF Untouched
      <4>4. Budget(u, u)
        BY <3>2, StaysAsIs
      <4>5. Budget(u, y)
        BY <4>2, <4>4 DEF Budget
      <4>6. \A x \in pending : x.item = y.item => x = u
        BY <4>2, SweptKeeps
      <4> QED BY <4>1, <4>2, <4>3, <4>5, <4>6
    <3>4. CASE u.item \notin Carried(es)
      <4>1. y = u
        BY <3>1, <3>4 DEF Refreshed
      <4> QED BY <1>3, <4>1, SweptKeeps DEF Recent
    <3> QED BY <3>3, <3>4
  <2>2. CASE \E i \in Carried(es) \ Ids(Swept) : y = Fresh(es, i)
    <3>1. PICK i \in Carried(es) \ Ids(Swept) : y = Fresh(es, i)
      BY <2>2
    <3>2. y.item = i /\ y.receivedAt = LastOf(es, i).receivedAt
      BY <3>1 DEF Fresh
    <3>3. \A x \in pending : x.item = i => Old(x)
      BY DEF Ids, Swept, Expired, Old
    <3> QED BY <1>2, <3>1, <3>2, <3>3
  <2> QED BY <2>1, <2>2 DEF Merged
<1>6. Recent(D)
  BY <1>3, DeadRecent DEF HistInv
<1> QED BY <1>4, <1>5, <1>6 DEF Recent, BudgetsKept

LEMMA SweepHistory ==
  ASSUME IInv, HistInv, Holder.op # "flush",
         NEW items, items \subseteq Swept, NEW D \in DeadAfter(Timeouts)
  PROVE  Recent(items) /\ Recent(D) /\ BudgetsKept(items)
<1>1. Recent(Swept) /\ Recent(Timeouts)
  BY TimeoutsRecent DEF HistInv
<1>2. Recent(D)
  BY <1>1, DeadRecent DEF HistInv
<1>3. BudgetsKept(items)
  BY SweptKeeps DEF BudgetsKept
<1> QED BY <1>1, <1>2, <1>3 DEF Recent

Settling == IInv /\ HistInv /\ Holder.op = "settle"

SafePlan(items, D) == Recent(items) /\ Recent(D) /\ BudgetsKept(items)

LEMMA SettleHistory ==
  ASSUME Settling,
         NEW S \in SUBSET Item, NEW out \in [S -> Errors \cup {"done"}],
         NEW hit, NEW finished, NEW buried, NEW promoted, NEW items,
         Settlement(S, out, hit, finished, buried, promoted, items),
         NEW D \in DeadAfter(promoted)
  PROVE  SafePlan(items, D)
<1> USE DEF Settlement
<1>0. IInv /\ HistInv /\ Holder.op # "flush"
  BY DEF Settling
<1>1. Recent(Swept) /\ Recent(Timeouts)
  BY <1>0, TimeoutsRecent DEF HistInv
<1>2. \A x, o : Buried(x, o).receivedAt = x.receivedAt
  BY DEF Buried
<1>3. Recent({Buried(x, out[x.item]) : x \in buried})
  BY <1>1, <1>2 DEF Recent
<1>4. Recent(promoted)
  BY <1>1, <1>3 DEF Recent
<1>5. Recent(D)
  BY <1>0, <1>4, DeadRecent DEF HistInv
<1>6. ASSUME NEW u \in hit \ (finished \cup buried)
      PROVE  LET y == Requeued(u, out[u.item])
             IN y.item = u.item /\ y.receivedAt = u.receivedAt /\ Budget(u, y)
  <2> DEFINE o == out[u.item]
             y == Requeued(u, o)
             m == u.requeues + 1
  <2>1. u \in PendingItem
    BY <1>0 DEF Swept, IInv, TypeOK
  <2>2. /\ u.attempts \in 0..(MaxAttempts - 1) /\ u.requeues \in 0..BackoffSteps
        /\ MaxAttempts \in Nat /\ BackoffSteps \in Nat
    BY <2>1, LimitAssumption, BackoffAssumption DEF PendingItem
  <2>3. /\ y.item = u.item /\ y.receivedAt = u.receivedAt /\ y.first = u.first
        /\ y.attempts = AttemptsAfter(u, o)
        /\ y.requeues = IF Burns(o) THEN u.requeues ELSE Smaller(m, BackoffSteps)
    BY DEF Requeued
  <2>4. AttemptsAfter(u, o) >= u.attempts
    BY <2>2 DEF AttemptsAfter
  <2>5. m \in Nat /\ m >= u.requeues /\ u.requeues <= BackoffSteps /\ u.requeues \in Nat
    BY <2>2
  <2> HIDE DEF m
  <2>6. Smaller(m, BackoffSteps) >= u.requeues
    BY <2>2, <2>5 DEF Smaller
  <2>7. y.requeues >= u.requeues
    BY <2>3, <2>5, <2>6
  <2> QED BY <2>3, <2>4, <2>7 DEF Budget
<1>7. Recent(items)
  BY <1>1, <1>6 DEF Recent
<1>8. BudgetsKept(items)
  <2> SUFFICES ASSUME NEW x \in pending, NEW y \in items, x.item = y.item
               PROVE  Budget(x, y)
    BY <1>0 DEF BudgetsKept
  <2>1. CASE y \in Swept \ hit
    BY <1>0, <2>1, SweptKeeps
  <2>2. CASE \E u \in hit \ (finished \cup buried) : y = Requeued(u, out[u.item])
    <3>1. PICK u \in hit \ (finished \cup buried) : y = Requeued(u, out[u.item])
      BY <2>2
    <3>2. y.item = u.item /\ Budget(u, y) /\ u \in Swept
      BY <1>6, <3>1
    <3>3. x = u
      BY <1>0, <3>2, SweptKeeps
    <3> QED BY <3>2, <3>3
  <2> QED BY <2>1, <2>2
<1> QED BY <1>5, <1>7, <1>8 DEF SafePlan

-----------------------------------------------------------------------------
(* Steps                                                                   *)

Kept == HistInv' /\ RedeliveryStep

\* The holder's steps before and beside its writes.
LEMMA HolderWorks ==
  ASSUME IInv, HistInv,
         UNCHANGED <<now, batches, current, lock, clearedAt, newPending, newDead>>,
         phase # "idle",
         pending' = pending \/ pending' = {},
         dead' = dead \/ dead' = {},
         phase' \in {"read", "quarantine", "reset", "failed", "deletePending", "deleteDead", "done"},
         phase' = "deleteDead" => pending' = {},
         phase' = "done" => (Holder.op = "clear" => pending' = {} /\ dead' = {})
  PROVE  Kept
<1>1. Order'
  BY OrderKept DEF IInv, HistInv
<1>2. StoredRecent'
  BY DEF HistInv, StoredRecent, Recent
<1>3. ClearEmpties' /\ PlanKeepsBudgets'
  BY DEF ClearEmpties, PlanKeepsBudgets, Holder
<1>4. RedeliveryStep
  BY NothingRewritten
<1> QED BY <1>1, <1>2, <1>3, <1>4 DEF HistInv, Kept

LEMMA ReadsHistory ==
  ASSUME IInv, HistInv, phase = "read", Holder.op # "clear",
         NEW items, NEW D, NEW gone, NEW told, NEW force \in BOOLEAN,
         Persist(items, D, gone, told, force),
         Recent(items), Recent(D), BudgetsKept(items)
  PROVE  Kept
<1>1. /\ UNCHANGED <<now, pending, dead, batches, current, lock, clearedAt>>
      /\ newPending' = items /\ newDead' = D
      /\ phase' \in {"writeDead", "writePending", "done"}
  BY DEF Persist, stored
<1>2. Order'
  BY <1>1, OrderKept DEF IInv, HistInv
<1>3. StoredRecent'
  BY <1>1 DEF HistInv, StoredRecent, Recent
<1>4. ClearEmpties'
  BY <1>1 DEF ClearEmpties, Holder
<1>5. PlanKeepsBudgets'
  BY <1>1 DEF PlanKeepsBudgets, BudgetsKept, Budget, Untouched, Old, Holder
<1>6. RedeliveryStep
  BY <1>1, NothingRewritten
<1> QED BY <1>2, <1>3, <1>4, <1>5, <1>6 DEF HistInv, Kept

LEMMA ReadsKeepHistory ==
  ASSUME IInv, HistInv, ReadFlush \/ ReadSettle \/ ReadAcknowledge \/ ReadSweep
  PROVE  Kept
<1>1. CASE ReadFlush
  <2>1. phase = "read" /\ Holder.op = "flush"
    BY <1>1 DEF ReadFlush
  <2>2. PICK kept \in Capped(Merged(Holding)), D \in DeadAfter(Timeouts) :
          Persist(kept, D, (Ids(Merged(Holding)) \ Ids(kept)) \cup Evicted(D, Timeouts),
                  Carried(Holding) \cap Ids(kept), TRUE)
    BY <1>1 DEF ReadFlush
  <2>3. Recent(kept) /\ Recent(D) /\ BudgetsKept(kept)
    BY <2>1, FlushHistory
  <2> QED BY <2>1, <2>2, <2>3, ReadsHistory
<1>2. CASE ReadSettle
  <2>1. phase = "read" /\ Holder.op = "settle"
    BY <1>2 DEF ReadSettle
  <2>2. PICK S \in (SUBSET Item) \ {{}} : \E out \in [S -> Errors \cup {"done"}] :
          LET hit      == {x \in Swept : x.item \in S}
              finished == {x \in hit : out[x.item] = "done"}
              buried   == {x \in hit \ finished : Exhausted(x, out[x.item])}
              promoted == Timeouts \cup {Buried(x, out[x.item]) : x \in buried}
              items    == (Swept \ hit) \cup
                          {Requeued(x, out[x.item]) : x \in hit \ (finished \cup buried)}
          IN \E D \in DeadAfter(promoted) :
               Persist(items, D, Ids(finished) \cup Evicted(D, promoted), {}, FALSE)
    BY <1>2 DEF ReadSettle
  <2>3. PICK out \in [S -> Errors \cup {"done"}] :
          LET hit      == {x \in Swept : x.item \in S}
              finished == {x \in hit : out[x.item] = "done"}
              buried   == {x \in hit \ finished : Exhausted(x, out[x.item])}
              promoted == Timeouts \cup {Buried(x, out[x.item]) : x \in buried}
              items    == (Swept \ hit) \cup
                          {Requeued(x, out[x.item]) : x \in hit \ (finished \cup buried)}
          IN \E D \in DeadAfter(promoted) :
               Persist(items, D, Ids(finished) \cup Evicted(D, promoted), {}, FALSE)
    BY <2>2
  <2> DEFINE hit      == {x \in Swept : x.item \in S}
             finished == {x \in hit : out[x.item] = "done"}
             buried   == {x \in hit \ finished : Exhausted(x, out[x.item])}
             promoted == Timeouts \cup {Buried(x, out[x.item]) : x \in buried}
             items    == (Swept \ hit) \cup
                         {Requeued(x, out[x.item]) : x \in hit \ (finished \cup buried)}
  <2>4. PICK D \in DeadAfter(promoted) :
          Persist(items, D, Ids(finished) \cup Evicted(D, promoted), {}, FALSE)
    BY <2>3
  <2>5. Settlement(S, out, hit, finished, buried, promoted, items)
    BY DEF Settlement
  <2> HIDE DEF hit, finished, buried, promoted, items
  <2>6. S \in SUBSET Item
    OBVIOUS
  <2>7. Settling
    BY <2>1 DEF Settling
  <2>8. SafePlan(items, D)
    BY <2>5, <2>6, <2>7, SettleHistory
  <2> DEFINE gone == Ids(finished) \cup Evicted(D, promoted)
  <2>9. Persist(items, D, gone, {}, FALSE)
    BY <2>4
  <2>10. Recent(items) /\ Recent(D) /\ BudgetsKept(items)
    BY <2>8 DEF SafePlan
  <2> HIDE DEF gone
  <2> QED BY <2>1, <2>9, <2>10, ReadsHistory
<1>3. CASE ReadAcknowledge
  <2>1. phase = "read" /\ Holder.op = "acknowledge"
    BY <1>3 DEF ReadAcknowledge
  <2>2. PICK S \in (SUBSET Item) \ {{}}, D \in DeadAfter(Timeouts) :
          Persist({x \in Swept : x.item \notin S}, D,
                  (S \cap Ids(Swept)) \cup Evicted(D, Timeouts), {}, FALSE)
    BY <1>3 DEF ReadAcknowledge
  <2> DEFINE items == {x \in Swept : x.item \notin S}
  <2>3. items \subseteq Swept
    OBVIOUS
  <2> HIDE DEF items
  <2>4. Recent(items) /\ Recent(D) /\ BudgetsKept(items)
    BY <2>1, <2>3, SweepHistory
  <2>5. Persist(items, D, (S \cap Ids(Swept)) \cup Evicted(D, Timeouts), {}, FALSE)
    BY <2>2 DEF items
  <2> QED BY <2>1, <2>4, <2>5, ReadsHistory
<1>4. CASE ReadSweep
  <2>1. phase = "read" /\ Holder.op = "sweep"
    BY <1>4 DEF ReadSweep
  <2>2. PICK D \in DeadAfter(Timeouts) : Persist(Swept, D, Evicted(D, Timeouts), {}, FALSE)
    BY <1>4 DEF ReadSweep
  <2>3. Recent(Swept) /\ Recent(D) /\ BudgetsKept(Swept)
    BY <2>1, SweepHistory
  <2> QED BY <2>1, <2>2, <2>3, ReadsHistory
<1> QED BY <1>1, <1>2, <1>3, <1>4

LEMMA OutcomeCases ==
  \A outcome \in Outcomes :
    outcome = <<TRUE, TRUE>> \/ outcome = <<TRUE, FALSE>> \/ outcome = <<FALSE, FALSE>>
BY DEF Outcomes

LEMMA WritesKeepHistory ==
  ASSUME IInv, HistInv, WriteDead \/ WritePending
  PROVE  Kept
<1>0. /\ phase \in {"writeDead", "writePending"} /\ lock # <<>> /\ Holder.op # "clear"
      /\ BudgetsKept(newPending) /\ SoundPlan(newPending, newDead, released, acked)
      /\ UNCHANGED <<now, batches, current, lock, clearedAt, newPending, newDead>>
  BY DEF IInv, TypeOK, HistInv, ClearEmpties, PlanKeepsBudgets, PlanInv, WriteDead, WritePending, plan
<1>1. CASE WriteDead
  <2>1. /\ pending' = pending
        /\ dead' = newDead \/ dead' = dead
        /\ phase' \in {"writePending", "done", "failed"}
    <3>1. PICK outcome \in Outcomes :
            /\ dead' = IF outcome[1] THEN newDead ELSE dead
            /\ Proceed(outcome, IF newPending # pending \/ Holder.op = "flush" THEN "writePending"
                                                                              ELSE "done")
      BY <1>1 DEF WriteDead
    <3> QED BY <1>1, <3>1 DEF Proceed, WriteDead
  <2>2. Order'
    BY <1>0, <2>1, OrderKept DEF IInv, HistInv
  <2>3. StoredRecent'
    BY <1>0, <2>1 DEF HistInv, StoredRecent, Recent
  <2>4. ClearEmpties' /\ PlanKeepsBudgets'
    BY <1>0, <2>1 DEF ClearEmpties, PlanKeepsBudgets, BudgetsKept, Budget, Untouched, Old, Holder
  <2>5. RedeliveryStep
    BY <2>1, NothingRewritten
  <2> QED BY <2>2, <2>3, <2>4, <2>5 DEF HistInv, Kept
<1>2. CASE WritePending
  <2>1. /\ dead' = dead
        /\ pending' = newPending \/ pending' = pending
        /\ phase' \in {"done", "failed"}
    <3>1. PICK outcome \in Outcomes :
            /\ pending' = IF outcome[1] THEN newPending ELSE pending
            /\ Proceed(outcome, "done")
      BY <1>2 DEF WritePending
    <3> QED BY <1>2, <3>1 DEF Proceed, WritePending
  <2>2. Order'
    BY <1>0, <2>1, OrderKept DEF IInv, HistInv
  <2>3. StoredRecent'
    BY <1>0, <2>1 DEF HistInv, StoredRecent, Recent
  <2>4. ClearEmpties' /\ PlanKeepsBudgets'
    BY <1>0, <2>1 DEF ClearEmpties, PlanKeepsBudgets, Holder
  <2>5. RedeliveryStep
    <3>1. CASE pending' = newPending
      BY <1>0, <3>1 DEF RedeliveryStep, BudgetsKept, Budget, Untouched, Old
    <3>2. CASE pending' = pending
      BY <3>2, NothingRewritten
    <3> QED BY <2>1, <3>1, <3>2
  <2> QED BY <2>2, <2>3, <2>4, <2>5 DEF HistInv, Kept
<1> QED BY <1>1, <1>2

LEMMA PreparationsKeepHistory ==
  ASSUME IInv, HistInv,
         \/ ReadFails \/ ReadMangled \/ CountStored \/ WriteQuarantine \/ WriteReset
         \/ DeletePending \/ DeleteDead
  PROVE  Kept
<1>1. CASE ReadFails \/ ReadMangled \/ CountStored \/ WriteQuarantine \/ WriteReset
  <2>1. /\ UNCHANGED <<now, batches, current, lock, clearedAt, newPending, newDead, pending, dead>>
        /\ phase # "idle"
        /\ phase' \in {"read", "quarantine", "reset", "failed", "deletePending"}
    BY <1>1 DEF ReadFails, ReadMangled, CountStored, WriteQuarantine, WriteReset, Proceed, stored, plan
  <2> QED BY <2>1, HolderWorks
<1>2. CASE DeletePending
  <2>1. PICK outcome \in Outcomes :
          /\ pending' = IF outcome[1] THEN {} ELSE pending
          /\ phase' = IF outcome[2] THEN "deleteDead" ELSE "failed"
    BY <1>2 DEF DeletePending, Proceed
  <2>2. /\ pending' = {} \/ pending' = pending
        /\ phase' \in {"deleteDead", "failed"}
        /\ phase' = "deleteDead" => pending' = {}
    <3>1. CASE outcome = <<TRUE, TRUE>>
      BY <2>1, <3>1
    <3>2. CASE outcome = <<TRUE, FALSE>>
      BY <2>1, <3>2
    <3>3. CASE outcome = <<FALSE, FALSE>>
      BY <2>1, <3>3
    <3> QED BY <3>1, <3>2, <3>3, OutcomeCases
  <2>3. /\ UNCHANGED <<now, batches, current, lock, clearedAt, newPending, newDead, dead>>
        /\ phase # "idle"
    BY <1>2 DEF DeletePending, plan
  <2> QED BY <2>2, <2>3, HolderWorks
<1>3. CASE DeleteDead
  <2>1. PICK outcome \in Outcomes :
          /\ dead' = IF outcome[1] THEN {} ELSE dead
          /\ phase' = IF outcome[2] THEN "done" ELSE "failed"
    BY <1>3 DEF DeleteDead, Proceed
  <2>2. /\ dead' = {} \/ dead' = dead
        /\ phase' \in {"done", "failed"}
        /\ phase' = "done" => dead' = {}
    <3>1. CASE outcome = <<TRUE, TRUE>>
      BY <2>1, <3>1
    <3>2. CASE outcome = <<TRUE, FALSE>>
      BY <2>1, <3>2
    <3>3. CASE outcome = <<FALSE, FALSE>>
      BY <2>1, <3>3
    <3> QED BY <3>1, <3>2, <3>3, OutcomeCases
  <2>3. /\ UNCHANGED <<now, batches, current, lock, clearedAt, newPending, newDead, pending>>
        /\ phase # "idle" /\ pending = {}
    BY <1>3 DEF DeleteDead, plan, HistInv, ClearEmpties
  <2> QED BY <2>2, <2>3, HolderWorks
<1> QED BY <1>1, <1>2, <1>3

\* The holder leaves the lock: its batch is free again, and the open one is the same, or
\* was the holder's.
LEMMA HolderLeaves ==
  ASSUME IInv, Order, lock # <<>>, Settled, UNCHANGED now,
         current' = current \/ (current' = NoBatch /\ Holder.op = "flush" /\ current = Holder.batch),
         Holder.op = "flush" => current' # Holder.batch,
         clearedAt' = clearedAt \/ clearedAt' = Holder.called
  PROVE  Order'
<1>0. /\ lock \in Seq(Operation) /\ lock' = Tail(lock) /\ phase' = "idle"
      /\ batches' = IF Holder.op = "flush" THEN [batches EXCEPT ![Holder.batch] = Free] ELSE batches
      /\ batches \in [Batch -> BatchState]
  BY DEF IInv, TypeOK, Settled
<1>1. /\ 1 \in DOMAIN lock /\ Holder = lock[1]
      /\ Holder.op = "flush" => Holder.batch \in Batch
  BY <1>0, HolderType DEF Holder
<1>2. \A n \in DOMAIN lock' : n + 1 \in DOMAIN lock /\ lock'[n] = lock[n + 1] /\ n \in Nat /\ n # 0
  BY <1>0
<1>3. \A b \in Batch : \/ batches'[b] = batches[b] /\ (Holder.op = "flush" => b # Holder.batch)
                       \/ batches'[b] = Free /\ Holder.op = "flush" /\ b = Holder.batch
  BY <1>0
<1>4. \A b : ~ Flushing(b)'
  BY <1>0 DEF Flushing
<1>5. NoBatch \notin Batch /\ Free.stage = "free" /\ Free.entries = <<>> /\ DOMAIN Free.entries = {}
  BY DeliveryAssumption DEF Free
<1>7. LiveBatches'
  <2> SUFFICES ASSUME NEW b \in Batch, batches'[b].stage # "free", ~ batches'[b].superseded
               PROVE  b = current'
    BY DEF LiveBatches
  <2>1. batches'[b] = batches[b] /\ (Holder.op = "flush" => b # Holder.batch)
    BY <1>3, <1>5
  <2>2. b = current
    BY <2>1 DEF Order, LiveBatches, Flushing
  <2> QED BY <2>1, <2>2
<1>8. CallsPast'
  BY <1>1, <1>2 DEF Order, CallsPast
<1>9. BatchesRecent'
  <2> SUFFICES ASSUME NEW b \in Batch, NEW n \in DOMAIN batches'[b].entries, b = current'
               PROVE  /\ clearedAt' <= batches'[b].entries[n].receivedAt
                      /\ \A m \in DOMAIN lock' : lock'[m].called <= batches'[b].entries[n].receivedAt
    BY <1>4 DEF BatchesRecent
  <2>1. b = current /\ batches'[b] = batches[b]
    BY <1>3, <1>5
  <2>2. /\ clearedAt <= batches[b].entries[n].receivedAt
        /\ \A m \in DOMAIN lock : lock[m].called <= batches[b].entries[n].receivedAt
    BY <2>1 DEF Order, BatchesRecent
  <2> QED BY <1>1, <1>2, <2>1, <2>2
<1>10. FlushesWait'
  <2> SUFFICES ASSUME NEW n \in DOMAIN lock', lock'[n].op = "flush"
               PROVE  /\ batches'[lock'[n].batch].stage = "waiting"
                      /\ \A m \in DOMAIN lock' :
                           lock'[m].op = "flush" /\ lock'[m].batch = lock'[n].batch => m = n
    BY DEF FlushesWait
  <2>1. /\ n + 1 \in DOMAIN lock /\ lock'[n] = lock[n + 1] /\ n + 1 # 1
        /\ lock'[n].batch \in Batch
    BY <1>2 DEF IInv, FlushHasBatch
  <2>2. Holder.op = "flush" => lock'[n].batch # Holder.batch
    BY <1>1, <2>1 DEF Order, FlushesWait
  <2>3. batches'[lock'[n].batch] = batches[lock'[n].batch]
    BY <1>3, <2>1, <2>2
  <2>4. batches'[lock'[n].batch].stage = "waiting"
    BY <2>1, <2>3 DEF Order, FlushesWait
  <2>5. \A m \in DOMAIN lock' :
          lock'[m].op = "flush" /\ lock'[m].batch = lock'[n].batch => m + 1 = n + 1
    BY <1>2, <2>1 DEF Order, FlushesWait
  <2>6. n \in Nat
    BY <1>2
  <2> QED BY <1>2, <2>4, <2>5, <2>6
<1>11. BatchesInUse'
  <2>1. current' # NoBatch => batches'[current'].stage # "free"
    <3> SUFFICES ASSUME current' # NoBatch PROVE batches'[current'].stage # "free"
      OBVIOUS
    <3>1. current' = current /\ current' \in Batch
      BY DEF IInv, TypeOK
    <3>2. batches'[current'] = batches[current]
      BY <1>3, <3>1
    <3> QED BY <3>1, <3>2 DEF Order, BatchesInUse
  <2>2. \A b \in Batch : batches'[b].stage = "free" => batches'[b].entries = <<>>
    BY <1>3, <1>5 DEF Order, BatchesInUse
  <2> QED BY <1>4, <2>1, <2>2 DEF BatchesInUse
<1> QED BY <1>7, <1>8, <1>9, <1>10, <1>11 DEF Order

\* What is left of the invariant when an operation ends.
LEMMA EndsQuietly ==
  ASSUME Order', UNCHANGED <<pending, dead>>, phase' = "idle", newPending' = {}, newDead' = {},
         \A x \in pending \cup dead : x.receivedAt >= clearedAt'
  PROVE  HistInv'
<1>1. StoredRecent'
  BY DEF StoredRecent, Recent
<1>2. ClearEmpties' /\ PlanKeepsBudgets'
  BY DEF ClearEmpties, PlanKeepsBudgets
<1> QED BY <1>1, <1>2 DEF HistInv

LEMMA AcquireKeepsHistory ==
  ASSUME IInv, HistInv, Acquire
  PROVE  Kept
<1>0. /\ phase = "idle" /\ lock # <<>>
      /\ current' = IF Holder.op = "flush" /\ current = Holder.batch THEN NoBatch ELSE current
      /\ UNCHANGED <<now, pending, dead, clearedAt>>
      /\ NoBatch \notin Batch
      /\ Holder.op = "flush" => Holder.batch \in Batch
  BY HolderType, DeliveryAssumption DEF Acquire, stored
<1>1. RedeliveryStep
  BY <1>0, NothingRewritten
<1>2. CASE Holder.op = "flush" /\ batches[Holder.batch].superseded
  <2>1. Settled
    BY <1>2 DEF Acquire
  <2>2. Order'
    BY <1>0, <2>1, HolderLeaves DEF HistInv
  <2>3. phase' = "idle" /\ newPending' = {} /\ newDead' = {}
    BY <2>1 DEF Settled, NoPlan
  <2>4. HistInv'
    BY <1>0, <2>2, <2>3, EndsQuietly DEF HistInv, StoredRecent, Recent
  <2> QED BY <1>1, <2>4 DEF Kept
<1>3. CASE ~ (Holder.op = "flush" /\ batches[Holder.batch].superseded)
  <2>1. phase' = "read" /\ UNCHANGED <<batches, lock, newPending, newDead>>
    BY <1>3 DEF Acquire, plan
  <2>2. /\ 1 \in DOMAIN lock /\ Holder = lock[1]
        /\ \A b : Flushing(b)' <=> (Holder.op = "flush" /\ Holder.batch = b)
        /\ \A b : ~ Flushing(b)
    BY <1>0, <2>1 DEF Flushing, Holder, IInv, TypeOK
  <2>3. \A b \in Batch : b = current' => b = current
    BY <1>0
  <2>4. LiveBatches'
    BY <1>0, <2>1, <2>2 DEF HistInv, Order, LiveBatches
  <2>5. CallsPast' /\ FlushesWait'
    BY <1>0, <2>1 DEF HistInv, Order, CallsPast, FlushesWait
  <2>6. \A b \in Batch : Flushing(b)' => b = current
    <3> SUFFICES ASSUME NEW b \in Batch, Flushing(b)' PROVE b = current
      OBVIOUS
    <3>1. batches[b].stage = "waiting" /\ ~ batches[b].superseded
      BY <1>3, <2>2 DEF HistInv, Order, FlushesWait, IInv, TypeOK, BatchState
    <3> QED BY <2>2, <3>1 DEF HistInv, Order, LiveBatches
  <2>7. BatchesRecent'
    BY <1>0, <2>1, <2>3, <2>6 DEF HistInv, Order, BatchesRecent
  <2>8. BatchesInUse'
    BY <1>0, <2>1, <2>2 DEF HistInv, Order, BatchesInUse
  <2>9. StoredRecent' /\ ClearEmpties' /\ PlanKeepsBudgets'
    BY <1>0, <2>1 DEF HistInv, StoredRecent, Recent, ClearEmpties, PlanKeepsBudgets
  <2> QED BY <1>1, <2>4, <2>5, <2>7, <2>8, <2>9 DEF Kept, HistInv, Order
<1> QED BY <1>2, <1>3

LEMMA AnswersKeepHistory ==
  ASSUME IInv, HistInv, Respond \/ Reject
  PROVE  Kept
<1>0. /\ phase # "idle" /\ lock # <<>> /\ Settled
      /\ UNCHANGED <<now, pending, dead, current>>
      /\ phase' = "idle" /\ newPending' = {} /\ newDead' = {}
  BY DEF Respond, Reject, Settled, NoPlan, stored, IInv, TypeOK
<1>1. RedeliveryStep
  BY <1>0, NothingRewritten
<1>2. Holder.op = "flush" => current' # Holder.batch
  <2>1. Holder.op = "flush" => Flushing(Holder.batch) /\ Holder.batch \in Batch
    BY <1>0, HolderType DEF Flushing
  <2> QED BY <1>0, <2>1 DEF HistInv, Order, BatchesInUse
<1>3. CASE clearedAt' = clearedAt
  <2>1. Order'
    BY <1>0, <1>2, <1>3, HolderLeaves DEF HistInv
  <2>2. HistInv'
    BY <1>0, <1>3, <2>1, EndsQuietly DEF HistInv, StoredRecent, Recent
  <2> QED BY <1>1, <2>2 DEF Kept
<1>4. CASE Holder.op = "clear" /\ phase = "done" /\ clearedAt' = Holder.called
  <2>1. Order'
    BY <1>0, <1>2, <1>4, HolderLeaves DEF HistInv
  <2>2. pending = {} /\ dead = {}
    BY <1>4 DEF HistInv, ClearEmpties
  <2>3. HistInv'
    BY <1>0, <2>1, <2>2, EndsQuietly
  <2> QED BY <1>1, <2>3 DEF Kept
<1> QED BY <1>3, <1>4 DEF Respond, Reject

\* The stored values, the plan and the holder stay; time may pass.
LEMMA PlanStays ==
  ASSUME IInv, HistInv, UNCHANGED <<pending, dead, phase, newPending, newDead, clearedAt>>,
         now' \in Nat, now <= now', phase # "idle" => Holder' = Holder
  PROVE  StoredRecent' /\ ClearEmpties' /\ PlanKeepsBudgets' /\ RedeliveryStep
<1>1. StoredRecent'
  BY DEF HistInv, StoredRecent, Recent
<1>2. ClearEmpties'
  BY DEF HistInv, ClearEmpties
<1>3. PlanKeepsBudgets'
  <2>1. now \in Nat /\ TTL \in Nat /\ \A x \in pending : x.receivedAt \in Nat
    BY LimitAssumption DEF IInv, TypeOK, PendingItem
  <2>2. \A x \in pending : Old(x) => Old(x)'
    BY <2>1 DEF Old
  <2>3. \A x, y : (Budget(x, y)' <=> Budget(x, y)) /\ (Untouched(x, y)' <=> Untouched(x, y))
    BY DEF Budget, Untouched
  <2>4. CASE phase \in {"writeDead", "writePending"}
    <3>1. BudgetsKept(newPending) /\ Holder' = Holder
      BY <2>4 DEF HistInv, PlanKeepsBudgets
    <3> SUFFICES ASSUME NEW x \in pending, NEW y \in newPending, x.item = y.item
                 PROVE  \/ Budget(x, y) /\ (Holder.op = "flush" => Untouched(x, y))
                        \/ x.receivedAt + TTL <= now'
      BY <3>1 DEF PlanKeepsBudgets, BudgetsKept, Budget, Untouched, Old
    <3> QED BY <3>1, <2>2 DEF BudgetsKept, Old
  <2>5. CASE phase \notin {"writeDead", "writePending"}
    BY <2>5 DEF PlanKeepsBudgets
  <2> QED BY <2>4, <2>5
<1>4. RedeliveryStep
  BY NothingRewritten
<1> QED BY <1>1, <1>2, <1>3, <1>4

\* An operation is chained on the lock: the holder is the same.
LEMMA HolderStays ==
  ASSUME IInv, NEW e \in Operation, lock' = Append(lock, e), phase' = phase
  PROVE  /\ phase # "idle" => Holder' = Holder
         /\ \A b : Flushing(b)' <=> Flushing(b)
         /\ \A n \in DOMAIN lock' : \/ n \in DOMAIN lock /\ lock'[n] = lock[n]
                                    \/ n \notin DOMAIN lock /\ lock'[n] = e
         /\ \A n, m \in DOMAIN lock' : n \notin DOMAIN lock /\ m \notin DOMAIN lock => m = n
<1>1. lock \in Seq(Operation) /\ (phase # "idle" => lock # <<>>)
  BY DEF IInv, TypeOK
<1>2. ASSUME lock # <<>> PROVE lock'[1] = lock[1] /\ lock' # <<>> /\ Holder = lock[1] /\ Holder' = lock'[1]
  BY <1>1, <1>2 DEF Holder
<1>3. \A b : Flushing(b)' <=> Flushing(b)
  BY <1>1, <1>2 DEF Flushing
<1>4. /\ Len(lock) \in Nat /\ DOMAIN lock = 1..Len(lock) /\ DOMAIN lock' = 1..(Len(lock) + 1)
      /\ lock'[Len(lock) + 1] = e
      /\ \A n \in 1..Len(lock) : lock'[n] = lock[n]
  BY <1>1
<1> QED BY <1>1, <1>2, <1>3, <1>4

\* The clock ticks.
LEMMA TickKeepsHistory ==
  ASSUME IInv, HistInv, Tick
  PROVE  Kept
<1>1. /\ now' = now + 1 /\ now \in Nat
      /\ UNCHANGED <<pending, dead, phase, newPending, newDead, clearedAt, batches, current, lock>>
  BY DEF Tick, stored, InMemory, plan, IInv, TypeOK
<1>2. Holder' = Holder /\ \A b : Flushing(b)' <=> Flushing(b)
  BY <1>1 DEF Holder, Flushing
<1>3. StoredRecent' /\ ClearEmpties' /\ PlanKeepsBudgets' /\ RedeliveryStep
  BY <1>1, <1>2, PlanStays
<1>4. CallsPast'
  <2>1. clearedAt \in Nat /\ \A n \in DOMAIN lock : lock[n].called \in Nat
    <3>1. lock \in Seq(Operation) /\ clearedAt \in Nat
      BY DEF IInv, TypeOK
    <3>2. \A n \in DOMAIN lock : lock[n] \in Operation
      BY <3>1
    <3> QED BY <3>1, <3>2 DEF Operation
  <2> QED BY <1>1, <2>1 DEF HistInv, Order, CallsPast
<1>5. LiveBatches' /\ BatchesRecent' /\ FlushesWait' /\ BatchesInUse'
  BY <1>1, <1>2 DEF HistInv, Order, LiveBatches, BatchesRecent, FlushesWait, BatchesInUse
<1> QED BY <1>3, <1>4, <1>5 DEF HistInv, Order, Kept

\* A delivery is later than every clear that was called before it.
LEMMA EnqueueKeepsHistory ==
  ASSUME IInv, HistInv, NEW d \in Delivery, Enqueue(d)
  PROVE  Kept
<1> DEFINE e == [delivery |-> d, receivedAt |-> now]
<1>1. /\ UNCHANGED <<now, pending, dead, phase, newPending, newDead, clearedAt, lock>>
      /\ now \in Nat /\ NoBatch \notin Batch /\ batches \in [Batch -> BatchState]
      /\ \A b \in Batch : batches[b].entries \in Seq(Entry)
  BY DeliveryAssumption DEF Enqueue, stored, plan, IInv, TypeOK, BatchState
<1>2. Holder' = Holder /\ \A b : Flushing(b)' <=> Flushing(b)
  BY <1>1 DEF Holder, Flushing
<1>3. StoredRecent' /\ ClearEmpties' /\ PlanKeepsBudgets' /\ RedeliveryStep
  BY <1>1, <1>2, PlanStays
<1>4. e.receivedAt = now /\ clearedAt <= now /\ \A n \in DOMAIN lock : lock[n].called <= now
  BY DEF HistInv, Order, CallsPast
<1>5. \A b \in Batch : Flushing(b) => b # current /\ batches[b].stage = "waiting"
  BY DEF HistInv, Order, BatchesInUse, FlushesWait, Flushing, Holder, IInv, TypeOK
<1>6. CallsPast'
  BY <1>1 DEF HistInv, Order, CallsPast
<1>7. CASE current # NoBatch
  <2>1. /\ current \in Batch /\ current' = current
        /\ batches' = [batches EXCEPT ![current].entries = Append(@, e)]
    BY <1>7 DEF Enqueue, IInv, TypeOK
  <2> DEFINE es == batches[current].entries
  <2>2. /\ \A b \in Batch : batches'[b].stage = batches[b].stage
                            /\ batches'[b].superseded = batches[b].superseded
        /\ \A b \in Batch : b # current => batches'[b] = batches[b]
        /\ batches'[current].entries = Append(es, e)
    BY <1>1, <2>1 DEF BatchState
  <2>3. es \in Seq(Entry)
    BY <1>1, <2>1
  <2> HIDE DEF e, es
  <2>4. \A n \in DOMAIN batches'[current].entries :
          \/ n \in DOMAIN es /\ batches'[current].entries[n] = es[n]
          \/ batches'[current].entries[n] = e
    BY <2>2, <2>3
  <2>5. LiveBatches'
    BY <1>2, <2>1, <2>2 DEF HistInv, Order, LiveBatches
  <2>6. BatchesRecent'
    <3> SUFFICES ASSUME NEW b \in Batch, NEW n \in DOMAIN batches'[b].entries
                 PROVE  /\ b = current => /\ clearedAt <= batches'[b].entries[n].receivedAt
                                          /\ \A m \in DOMAIN lock :
                                               lock[m].called <= batches'[b].entries[n].receivedAt
                        /\ Flushing(b) => clearedAt <= batches'[b].entries[n].receivedAt
      BY <1>1, <1>2, <2>1 DEF BatchesRecent
    <3>1. CASE b # current
      BY <2>2, <3>1 DEF HistInv, Order, BatchesRecent
    <3>2. CASE b = current
      <4>1. ~ Flushing(b)
        BY <1>5, <3>2
      <4>2. CASE n \in DOMAIN es /\ batches'[current].entries[n] = es[n]
        BY <3>2, <4>1, <4>2 DEF HistInv, Order, BatchesRecent, es
      <4>3. CASE batches'[current].entries[n] = e
        BY <1>4, <3>2, <4>1, <4>3
      <4> QED BY <2>4, <3>2, <4>2, <4>3
    <3> QED BY <3>1, <3>2
  <2>7. FlushesWait'
    BY <1>1, <2>2 DEF HistInv, Order, FlushesWait, IInv, FlushHasBatch
  <2>8. BatchesInUse'
    <3>1. batches[current].stage # "free" /\ batches'[current'].stage # "free"
      BY <1>7, <2>1, <2>2 DEF HistInv, Order, BatchesInUse
    <3>2. ASSUME NEW c \in Batch, batches'[c].stage = "free" PROVE batches'[c].entries = <<>>
      <4>1. c # current /\ batches'[c] = batches[c]
        BY <2>1, <2>2, <3>1, <3>2
      <4> QED BY <3>2, <4>1 DEF HistInv, Order, BatchesInUse
    <3>3. \A c \in Batch : Flushing(c)' => c # current'
      BY <1>2, <2>1 DEF HistInv, Order, BatchesInUse
    <3> QED BY <3>1, <3>2, <3>3 DEF BatchesInUse
  <2> QED BY <1>3, <1>6, <2>5, <2>6, <2>7, <2>8 DEF HistInv, Order, Kept
<1>8. CASE current = NoBatch
  <2>1. PICK b \in Batch :
          /\ batches[b].stage = "free" /\ current' = b
          /\ batches' = [batches EXCEPT ![b] = [stage |-> "window", superseded |-> FALSE,
                                                entries |-> <<e>>]]
    BY <1>8 DEF Enqueue
  <2>2. /\ batches'[b].stage = "window" /\ batches'[b].entries = <<e>>
        /\ \A c \in Batch : c # b => batches'[c] = batches[c]
    BY <1>1, <2>1
  <2>3. ~ Flushing(b)
    BY <1>5, <2>1
  <2> HIDE DEF e
  <2>4. LiveBatches'
    BY <1>1, <1>2, <1>8, <2>1, <2>2 DEF HistInv, Order, LiveBatches
  <2>5. BatchesRecent'
    <3>1. \A n \in DOMAIN batches'[b].entries : batches'[b].entries[n] = e
      BY <2>2
    <3>2. ASSUME NEW c \in Batch, c # b, NEW n \in DOMAIN batches'[c].entries
          PROVE  /\ c # current'
                 /\ Flushing(c) => clearedAt <= batches'[c].entries[n].receivedAt
      BY <2>1, <2>2, <3>2 DEF HistInv, Order, BatchesRecent
    <3> QED BY <1>1, <1>2, <1>4, <2>1, <2>3, <3>1, <3>2 DEF BatchesRecent
  <2>6. FlushesWait'
    <3>1. \A n \in DOMAIN lock : lock[n].op = "flush" => lock[n].batch \in Batch /\ lock[n].batch # b
      BY <2>1 DEF HistInv, Order, FlushesWait, IInv, FlushHasBatch
    <3> QED BY <1>1, <2>2, <3>1 DEF HistInv, Order, FlushesWait
  <2>7. BatchesInUse'
    <3>1. batches'[current'].stage # "free"
      BY <2>1, <2>2
    <3>2. \A c \in Batch : batches'[c].stage = "free" => batches'[c].entries = <<>>
      BY <2>2 DEF HistInv, Order, BatchesInUse
    <3>3. \A c \in Batch : Flushing(c)' => c # current'
      BY <1>2, <2>1, <2>3
    <3> QED BY <3>1, <3>2, <3>3 DEF BatchesInUse
  <2> QED BY <1>3, <1>6, <2>4, <2>5, <2>6, <2>7 DEF HistInv, Order, Kept
<1> QED BY <1>7, <1>8

\* What is chained on the lock is called now, or is no clear.
LEMMA ChainKeepsHistory ==
  ASSUME IInv, HistInv,
         (\E b \in Batch : WindowCloses(b))
           \/ (\E op \in {"settle", "acknowledge", "sweep"} : Request(op)) \/ Clear
  PROVE  Kept
<1>1. /\ UNCHANGED <<now, pending, dead, phase, newPending, newDead, clearedAt>>
      /\ now \in Nat /\ NoBatch \notin Batch /\ batches \in [Batch -> BatchState]
      /\ clearedAt \in Nat
  BY DeliveryAssumption DEF WindowCloses, Request, Clear, stored, plan, IInv, TypeOK
<1>2. \A b \in Batch : \A n \in DOMAIN batches[b].entries : batches[b].entries[n].receivedAt \in Nat
  <2> SUFFICES ASSUME NEW b \in Batch, NEW n \in DOMAIN batches[b].entries
               PROVE  batches[b].entries[n].receivedAt \in Nat
    OBVIOUS
  <2>1. batches[b].entries \in Seq(Entry)
    BY <1>1 DEF BatchState
  <2>2. batches[b].entries[n] \in Entry
    BY <2>1
  <2> QED BY <2>2 DEF Entry
<1>3. ASSUME NEW b \in Batch, WindowCloses(b) PROVE Kept
  <2> DEFINE e == [op |-> "flush", batch |-> b, called |-> 0]
  <2>1. /\ batches[b].stage = "window" /\ current' = current /\ lock' = Append(lock, e)
        /\ batches' = [batches EXCEPT ![b].stage = "waiting"]
    BY <1>3 DEF WindowCloses
  <2>2. e \in Operation /\ e.op = "flush" /\ e.batch = b /\ e.called = 0
    BY DEF Operation
  <2> HIDE DEF e
  <2>3. /\ phase # "idle" => Holder' = Holder
        /\ \A c : Flushing(c)' <=> Flushing(c)
        /\ \A n \in DOMAIN lock' : \/ n \in DOMAIN lock /\ lock'[n] = lock[n]
                                   \/ n \notin DOMAIN lock /\ lock'[n] = e
        /\ \A n, m \in DOMAIN lock' : n \notin DOMAIN lock /\ m \notin DOMAIN lock => m = n
    BY <1>1, <2>1, <2>2, HolderStays
  <2>4. StoredRecent' /\ ClearEmpties' /\ PlanKeepsBudgets' /\ RedeliveryStep
    BY <1>1, <2>3, PlanStays
  <2>5. /\ batches'[b].stage = "waiting"
        /\ \A c \in Batch : /\ batches'[c].entries = batches[c].entries
                            /\ batches'[c].superseded = batches[c].superseded
                            /\ c # b => batches'[c] = batches[c]
    BY <1>1, <2>1 DEF BatchState
  <2>6. LiveBatches'
    BY <2>1, <2>3, <2>5 DEF HistInv, Order, LiveBatches
  <2>7. CallsPast'
    BY <1>1, <2>2, <2>3 DEF HistInv, Order, CallsPast
  <2>8. BatchesRecent'
    BY <1>1, <1>2, <2>1, <2>2, <2>3, <2>5 DEF HistInv, Order, BatchesRecent
  <2>9. FlushesWait'
    <3>1. \A n \in DOMAIN lock : lock[n].op = "flush" => lock[n].batch \in Batch /\ lock[n].batch # b
      BY <2>1 DEF HistInv, Order, FlushesWait, IInv, FlushHasBatch
    <3>2. \A n \in DOMAIN lock' : lock'[n].op = "flush" =>
            batches'[lock'[n].batch].stage = "waiting"
      BY <2>2, <2>3, <2>5, <3>1 DEF HistInv, Order, FlushesWait
    <3>3. \A n, m \in DOMAIN lock' :
            lock'[n].op = "flush" /\ lock'[m].op = "flush" /\ lock'[m].batch = lock'[n].batch => m = n
      BY <2>2, <2>3, <3>1 DEF HistInv, Order, FlushesWait
    <3> QED BY <3>2, <3>3 DEF FlushesWait
  <2>10. BatchesInUse'
    BY <2>1, <2>3, <2>5 DEF HistInv, Order, BatchesInUse
  <2> QED BY <2>4, <2>6, <2>7, <2>8, <2>9, <2>10 DEF HistInv, Order, Kept
<1>4. ASSUME NEW op \in {"settle", "acknowledge", "sweep"}, Request(op) PROVE Kept
  <2> DEFINE e == [op |-> op, batch |-> NoBatch, called |-> 0]
  <2>1. lock' = Append(lock, e) /\ current' = current /\ batches' = batches
    BY <1>4 DEF Request
  <2>2. e \in Operation /\ e.op # "flush" /\ e.called = 0
    BY DEF Operation
  <2> HIDE DEF e
  <2>3. /\ phase # "idle" => Holder' = Holder
        /\ \A c : Flushing(c)' <=> Flushing(c)
        /\ \A n \in DOMAIN lock' : \/ n \in DOMAIN lock /\ lock'[n] = lock[n]
                                   \/ n \notin DOMAIN lock /\ lock'[n] = e
    BY <1>1, <2>1, <2>2, HolderStays
  <2>4. StoredRecent' /\ ClearEmpties' /\ PlanKeepsBudgets' /\ RedeliveryStep
    BY <1>1, <2>3, PlanStays
  <2>5. LiveBatches' /\ BatchesInUse'
    BY <2>1, <2>3 DEF HistInv, Order, LiveBatches, BatchesInUse
  <2>6. CallsPast'
    BY <1>1, <2>2, <2>3 DEF HistInv, Order, CallsPast
  <2>7. BatchesRecent'
    BY <1>1, <1>2, <2>1, <2>2, <2>3 DEF HistInv, Order, BatchesRecent
  <2>8. FlushesWait'
    BY <2>1, <2>2, <2>3 DEF HistInv, Order, FlushesWait
  <2> QED BY <2>4, <2>5, <2>6, <2>7, <2>8 DEF HistInv, Order, Kept
<1>5. CASE Clear
  <2> DEFINE e == [op |-> "clear", batch |-> NoBatch, called |-> now]
  <2>1. /\ lock' = Append(lock, e) /\ current' = NoBatch
        /\ IF current = NoBatch THEN batches' = batches
                                ELSE batches' = [batches EXCEPT ![current].superseded = TRUE]
    BY <1>5 DEF Clear
  <2>2. e \in Operation /\ e.op # "flush" /\ e.called = now
    BY <1>1 DEF Operation
  <2> HIDE DEF e
  <2>3. /\ phase # "idle" => Holder' = Holder
        /\ \A c : Flushing(c)' <=> Flushing(c)
        /\ \A n \in DOMAIN lock' : \/ n \in DOMAIN lock /\ lock'[n] = lock[n]
                                   \/ n \notin DOMAIN lock /\ lock'[n] = e
    BY <1>1, <2>1, <2>2, HolderStays
  <2>4. StoredRecent' /\ ClearEmpties' /\ PlanKeepsBudgets' /\ RedeliveryStep
    BY <1>1, <2>3, PlanStays
  <2>5. \A c \in Batch : /\ batches'[c].entries = batches[c].entries
                         /\ batches'[c].stage = batches[c].stage
                         /\ c = current => batches'[c].superseded
                         /\ c # current => batches'[c] = batches[c]
    <3>1. CASE current = NoBatch
      BY <1>1, <2>1, <3>1
    <3>2. CASE current # NoBatch
      <4>1. batches' = [batches EXCEPT ![current].superseded = TRUE]
        BY <2>1, <3>2
      <4>2. ASSUME NEW c \in Batch
            PROVE  batches'[c] = IF c = current THEN [batches[c] EXCEPT !.superseded = TRUE]
                                                ELSE batches[c]
        BY <1>1, <4>1
      <4>3. \A c \in Batch : batches[c] \in BatchState
        BY <1>1
      <4> QED BY <4>2, <4>3 DEF BatchState
    <3> QED BY <3>1, <3>2
  <2>6. LiveBatches'
    BY <2>3, <2>5 DEF HistInv, Order, LiveBatches
  <2>7. CallsPast'
    BY <1>1, <2>2, <2>3 DEF HistInv, Order, CallsPast
  <2>8. BatchesRecent'
    BY <1>1, <2>1, <2>3, <2>5 DEF HistInv, Order, BatchesRecent
  <2>9. FlushesWait'
    BY <2>2, <2>3, <2>5 DEF HistInv, Order, FlushesWait, IInv, FlushHasBatch
  <2>10. BatchesInUse'
    BY <1>1, <2>1, <2>3, <2>5 DEF HistInv, Order, BatchesInUse
  <2> QED BY <2>4, <2>6, <2>7, <2>8, <2>9, <2>10 DEF HistInv, Order, Kept
<1> QED BY <1>3, <1>4, <1>5

\* Memory is empty.
LEMMA Forgotten ==
  ASSUME batches' = [b \in Batch |-> Free], current' = NoBatch, lock' = <<>>, phase' = "idle",
         clearedAt' <= now'
  PROVE  Order'
<1>1. Free.stage = "free" /\ Free.entries = <<>> /\ DOMAIN Free.entries = {}
  BY DEF Free
<1> QED BY <1>1 DEF Order, LiveBatches, CallsPast, BatchesRecent, FlushesWait, BatchesInUse, Flushing

LEMMA EnvironmentKeepsHistory ==
  ASSUME IInv, HistInv, Crash \/ Mangle
  PROVE  Kept
<1>1. CASE Crash
  <2>1. /\ UNCHANGED <<now, pending, dead, clearedAt>>
        /\ batches' = [b \in Batch |-> Free] /\ current' = NoBatch /\ lock' = <<>> /\ phase' = "idle"
        /\ newPending' = {} /\ newDead' = {}
    BY <1>1 DEF Crash, NoPlan, stored
  <2>2. Order'
    BY <2>1, Forgotten DEF HistInv, Order, CallsPast
  <2>3. HistInv'
    BY <2>1, <2>2, EndsQuietly DEF HistInv, StoredRecent, Recent
  <2> QED BY <2>1, <2>3, NothingRewritten DEF Kept
<1>2. CASE Mangle
  <2>1. /\ UNCHANGED <<now, dead, batches, current, lock, phase, clearedAt, newPending, newDead>>
        /\ pending' = {} /\ phase = "idle"
    BY <1>2 DEF Mangle, InMemory, plan
  <2>2. \A b : ~ Flushing(b) /\ ~ Flushing(b)'
    BY <2>1 DEF Flushing
  <2>3. Order'
    BY <2>1, <2>2 DEF HistInv, Order, LiveBatches, CallsPast, BatchesRecent, FlushesWait, BatchesInUse
  <2>4. StoredRecent' /\ ClearEmpties' /\ PlanKeepsBudgets'
    BY <2>1 DEF HistInv, StoredRecent, Recent, ClearEmpties, PlanKeepsBudgets
  <2> QED BY <2>1, <2>3, <2>4, NothingRewritten DEF HistInv, Kept
<1> QED BY <1>1, <1>2

LEMMA HistoryStep == IInv /\ HistInv /\ [Next]_vars => HistInv' /\ [RedeliveryStep]_vars
<1> SUFFICES ASSUME IInv, HistInv, [Next]_vars PROVE HistInv' /\ [RedeliveryStep]_vars
  OBVIOUS
<1>1. CASE Next
  <2>1. ASSUME HolderStep PROVE Kept
    BY <2>1, AcquireKeepsHistory, PreparationsKeepHistory, ReadsKeepHistory, WritesKeepHistory,
       AnswersKeepHistory DEF HolderStep
  <2>2. Kept
    BY <1>1, <2>1, TickKeepsHistory, EnqueueKeepsHistory, ChainKeepsHistory,
       EnvironmentKeepsHistory DEF Next
  <2> QED BY <2>2 DEF Kept
<1>2. CASE UNCHANGED vars
  <2>1. /\ UNCHANGED <<now, pending, dead, phase, newPending, newDead, clearedAt, batches, current, lock>>
        /\ now \in Nat
    BY <1>2 DEF vars, stored, plan, IInv, TypeOK
  <2>2. Holder' = Holder /\ \A b : Flushing(b)' <=> Flushing(b)
    BY <2>1 DEF Holder, Flushing
  <2>3. StoredRecent' /\ ClearEmpties' /\ PlanKeepsBudgets'
    BY <2>1, <2>2, PlanStays
  <2>4. Order'
    BY <2>1, <2>2 DEF HistInv, Order, LiveBatches, CallsPast, BatchesRecent, FlushesWait, BatchesInUse
  <2> QED BY <1>2, <2>3, <2>4 DEF HistInv
<1> QED BY <1>1, <1>2

LEMMA History == Spec => []HistInv /\ [][RedeliveryStep]_vars
<1>1. Init => HistInv
  <2> SUFFICES ASSUME Init PROVE HistInv
    OBVIOUS
  <2>1. Free.stage = "free" /\ Free.entries = <<>> /\ DOMAIN Free.entries = {}
    BY DEF Free
  <2>2. Order
    BY <2>1 DEF Init, Order, LiveBatches, CallsPast, BatchesRecent, FlushesWait, BatchesInUse, Flushing
  <2> QED BY <2>2 DEF Init, HistInv, StoredRecent, Recent, ClearEmpties, PlanKeepsBudgets
<1> QED BY <1>1, HistoryStep, Invariance, PTL DEF Spec

-----------------------------------------------------------------------------
(* The caps                                                                *)

\* Neither array is stored larger than its cap.  (applyCap, appendDead)
WithinCaps == Cardinality(pending) <= MaxItems /\ Cardinality(dead) <= MaxDead

\* A flush or a sweep loses an identity, queued or dead-lettered, only to a cap that is
\* reached by what it stores; a promotion whose second write never lands loses nothing.
DropsOnlyAtCap ==
  [][phase # "idle" /\ Holder.op \in {"flush", "sweep"} =>
       \/ Ids(pending) \cup Ids(dead) \subseteq Ids(pending') \cup Ids(dead')
       \/ Cardinality(pending') = MaxItems
       \/ Cardinality(dead') = MaxDead]_vars

Bounded(S, n) == IsFiniteSet(S) /\ Cardinality(S) <= n

\* A value has no more identities than records, and no identity twice makes it as many.
LEMMA IdsFinite ==
  ASSUME NEW S, IsFiniteSet(S)
  PROVE  IsFiniteSet(Ids(S)) /\ Cardinality(Ids(S)) <= Cardinality(S)
<1> DEFINE f == [x \in S |-> x.item]
<1>1. f \in Surjection(S, Ids(S))
  BY DEF Surjection, Ids
<1> HIDE DEF f
<1> QED BY <1>1, FS_Surjection

LEMMA UniqueFinite ==
  ASSUME NEW S, Unique(S), IsFiniteSet(Ids(S))
  PROVE  IsFiniteSet(S) /\ Cardinality(S) <= Cardinality(Ids(S))
<1> DEFINE f == [x \in S |-> x.item]
<1>1. f \in [S -> Ids(S)]
  BY DEF Ids
<1>2. IsInjective(f)
  BY DEF IsInjective, Unique
<1> HIDE DEF f
<1>3. f \in Injection(S, Ids(S))
  BY <1>1, <1>2 DEF Injection
<1> QED BY <1>3, FS_Injection

\* A batch carries finitely many identities.
LEMMA CarriedFinite ==
  ASSUME NEW es \in Seq(Entry)
  PROVE  IsFiniteSet(Carried(es))
<1> DEFINE f == [k \in 1..Len(es) |-> ItemOf[es[k].delivery]]
<1>1. Len(es) \in Nat /\ DOMAIN es = 1..Len(es)
  OBVIOUS
<1>2. f \in Surjection(1..Len(es), Carried(es))
  BY <1>1 DEF Surjection, Carried
<1>3. IsFiniteSet(1..Len(es))
  BY <1>1, FS_Interval
<1> HIDE DEF f
<1> QED BY <1>2, <1>3, FS_Surjection

\* appendDead stays within its cap, and drops an identity only when it is reached.
LEMMA DeadAfterCapped ==
  ASSUME NEW promoted, IsFiniteSet(Ids(dead)), IsFiniteSet(Ids(promoted)),
         NEW D \in DeadAfter(promoted)
  PROVE  /\ Bounded(D, MaxDead)
         /\ Ids(dead) \cup Ids(promoted) \subseteq Ids(D) \/ Cardinality(D) = MaxDead
<1> DEFINE all == dead \cup promoted
           n == Cardinality(Ids(all))
<1>1. D \subseteq all /\ Unique(D) /\ Cardinality(D) = Smaller(n, MaxDead)
  BY DEF DeadAfter, Unique
<1>2. Ids(all) = Ids(dead) \cup Ids(promoted) /\ Ids(D) \subseteq Ids(all)
  BY <1>1 DEF Ids
<1> HIDE DEF all, n
<1>3. IsFiniteSet(Ids(all)) /\ n \in Nat
  BY <1>2, FS_Union, FS_CardinalityType DEF n
<1>4. IsFiniteSet(Ids(D)) /\ Cardinality(Ids(D)) <= n /\ (Cardinality(Ids(D)) = n => Ids(D) = Ids(all))
  BY <1>2, <1>3, FS_Subset DEF n
<1>5. IsFiniteSet(D) /\ Cardinality(D) <= Cardinality(Ids(D))
  BY <1>1, <1>4, UniqueFinite
<1>6. Cardinality(D) \in Nat /\ Cardinality(Ids(D)) \in Nat /\ MaxDead \in Nat
  BY <1>4, <1>5, FS_CardinalityType, LimitAssumption
<1>7. Cardinality(D) <= MaxDead
  BY <1>1, <1>3, <1>6, SmallerType
<1>8. Cardinality(D) = n \/ Cardinality(D) = MaxDead
  BY <1>1 DEF Smaller
<1>9. Cardinality(D) = n => Ids(D) = Ids(all)
  BY <1>3, <1>4, <1>5, <1>6
<1> QED BY <1>2, <1>5, <1>7, <1>8, <1>9 DEF Bounded

\* applyCap stays within its cap, and drops an item only when it is reached.
LEMMA CappedKeeps ==
  ASSUME NEW items, IsFiniteSet(items), NEW K \in Capped(items)
  PROVE  Bounded(K, MaxItems) /\ (K = items \/ Cardinality(K) = MaxItems)
<1>1. K \in SUBSET items /\ Cardinality(K) = Smaller(Cardinality(items), MaxItems)
  BY DEF Capped
<1>2. /\ IsFiniteSet(K)
      /\ Cardinality(items) = Cardinality(K) => items = K
  BY <1>1, FS_Subset
<1>3. Cardinality(items) \in Nat /\ MaxItems \in Nat
  BY FS_CardinalityType, LimitAssumption
<1>4. Cardinality(K) <= MaxItems
  BY <1>1, <1>3, SmallerType
<1>5. Cardinality(K) = Cardinality(items) \/ Cardinality(K) = MaxItems
  BY <1>1 DEF Smaller
<1> QED BY <1>2, <1>4, <1>5 DEF Bounded

\* Both values of a plan fit.
Fits(items, D) == Bounded(items, MaxItems) /\ Bounded(D, MaxDead)

\* The plan drops an identity from the dead letters, or from the queue, only at a cap.
KeepsUncapped(items, D) ==
  /\ Ids(dead) \subseteq Ids(D) \/ Cardinality(D) = MaxDead
  /\ \/ Ids(pending) \subseteq Ids(items) \cup Ids(D)
     \/ Cardinality(items) = MaxItems \/ Cardinality(D) = MaxDead

Writing == phase \in {"writeDead", "writePending"}
Deleting == phase \in {"deletePending", "deleteDead"}

CapInv ==
  /\ Fits(pending, dead)
  /\ Writing => Fits(newPending, newDead)
  /\ Writing /\ Holder.op \in {"flush", "sweep"} => KeepsUncapped(newPending, newDead)
  /\ Deleting => Holder.op = "clear"

\* The body of DropsOnlyAtCap.
DropStep ==
  phase # "idle" /\ Holder.op \in {"flush", "sweep"} =>
    \/ Ids(pending) \cup Ids(dead) \subseteq Ids(pending') \cup Ids(dead')
    \/ Cardinality(pending') = MaxItems
    \/ Cardinality(dead') = MaxDead

WithinBounds == CapInv' /\ DropStep

\* What is stored has finitely many identities, and so has what expires of it.
LEMMA StoredFinite ==
  ASSUME CapInv, IInv
  PROVE  /\ IsFiniteSet(pending) /\ IsFiniteSet(Ids(pending)) /\ IsFiniteSet(Ids(dead))
         /\ Cardinality(Ids(pending)) <= Cardinality(pending)
         /\ Cardinality(pending) \in Nat /\ Cardinality(pending) <= MaxItems
         /\ Ids(Timeouts) = Ids(Expired) /\ Ids(pending) = Ids(Swept) \cup Ids(Expired)
         /\ IsFiniteSet(Ids(Timeouts)) /\ IsFiniteSet(Ids(Swept))
<1>1. /\ IsFiniteSet(pending) /\ IsFiniteSet(dead)
      /\ Cardinality(pending) <= MaxItems
  BY DEF CapInv, Fits, Bounded
<1>2. /\ IsFiniteSet(Ids(pending)) /\ Cardinality(Ids(pending)) <= Cardinality(pending)
      /\ IsFiniteSet(Ids(dead)) /\ Cardinality(pending) \in Nat
  BY <1>1, IdsFinite, FS_CardinalityType
<1>3. Ids(Timeouts) = Ids(Expired) /\ Ids(pending) = Ids(Swept) \cup Ids(Expired)
  BY StoredHolds, TimeoutsSound
<1>4. Ids(Timeouts) \in SUBSET Ids(pending) /\ Ids(Swept) \in SUBSET Ids(pending)
  BY <1>3
<1>5. IsFiniteSet(Ids(Timeouts)) /\ IsFiniteSet(Ids(Swept))
  BY <1>2, <1>4, FS_Subset
<1> QED BY <1>1, <1>2, <1>3, <1>5

\* No operation but a flush adds an identity, and so none grows the queue.
LEMMA NoGrowth ==
  ASSUME CapInv, IInv, NEW items, Unique(items), Ids(items) \subseteq Ids(pending)
  PROVE  Bounded(items, MaxItems)
<1>1. /\ IsFiniteSet(Ids(pending)) /\ Cardinality(Ids(pending)) <= Cardinality(pending)
      /\ Cardinality(pending) \in Nat /\ Cardinality(pending) <= MaxItems
  BY StoredFinite
<1>2. IsFiniteSet(Ids(items)) /\ Cardinality(Ids(items)) <= Cardinality(Ids(pending))
  BY <1>1, FS_Subset
<1>3. IsFiniteSet(items) /\ Cardinality(items) <= Cardinality(Ids(items))
  BY <1>2, UniqueFinite
<1>4. /\ Cardinality(items) \in Nat /\ Cardinality(Ids(items)) \in Nat
      /\ Cardinality(Ids(pending)) \in Nat /\ MaxItems \in Nat
  BY <1>1, <1>2, <1>3, FS_CardinalityType, LimitAssumption
<1> QED BY <1>1, <1>2, <1>3, <1>4 DEF Bounded

LEMMA FlushCaps ==
  ASSUME CapInv, IInv, NEW es \in Seq(Entry),
         NEW kept \in Capped(Merged(es)), NEW D \in DeadAfter(Timeouts)
  PROVE  Fits(kept, D) /\ KeepsUncapped(kept, D)
<1>1. /\ IsFiniteSet(Ids(dead)) /\ IsFiniteSet(Ids(Timeouts)) /\ IsFiniteSet(Ids(Swept))
      /\ Ids(Timeouts) = Ids(Expired) /\ Ids(pending) = Ids(Swept) \cup Ids(Expired)
  BY StoredFinite
<1>2. Unique(Merged(es)) /\ Ids(Merged(es)) = Ids(Swept) \cup Carried(es)
  BY StoredHolds, MergedSound
<1>3. IsFiniteSet(Ids(Merged(es)))
  BY <1>1, <1>2, CarriedFinite, FS_Union
<1>4. IsFiniteSet(Merged(es))
  BY <1>2, <1>3, UniqueFinite
<1>5. Bounded(kept, MaxItems) /\ (kept = Merged(es) \/ Cardinality(kept) = MaxItems)
  BY <1>4, CappedKeeps
<1>6. /\ Bounded(D, MaxDead)
      /\ Ids(dead) \cup Ids(Timeouts) \subseteq Ids(D) \/ Cardinality(D) = MaxDead
  BY <1>1, DeadAfterCapped
<1> QED BY <1>1, <1>2, <1>5, <1>6 DEF Fits, KeepsUncapped

\* The plan of a sweep, and of an acknowledgement.
LEMMA SweepCaps ==
  ASSUME CapInv, IInv, NEW items, items \subseteq Swept, NEW D \in DeadAfter(Timeouts)
  PROVE  Fits(items, D) /\ (items = Swept => KeepsUncapped(items, D))
<1>1. /\ IsFiniteSet(Ids(dead)) /\ IsFiniteSet(Ids(Timeouts))
      /\ Ids(Timeouts) = Ids(Expired) /\ Ids(pending) = Ids(Swept) \cup Ids(Expired)
  BY StoredFinite
<1>2. items \subseteq pending
  BY DEF Swept
<1>3. Unique(items) /\ Ids(items) \subseteq Ids(pending)
  BY <1>2 DEF IInv, Contents, Unique, Ids
<1>4. Bounded(items, MaxItems)
  BY <1>3, NoGrowth
<1>5. /\ Bounded(D, MaxDead)
      /\ Ids(dead) \cup Ids(Timeouts) \subseteq Ids(D) \/ Cardinality(D) = MaxDead
  BY <1>1, DeadAfterCapped
<1> QED BY <1>1, <1>4, <1>5 DEF Fits, KeepsUncapped

LEMMA SettleCaps ==
  ASSUME CapInv, IInv, NEW S \in SUBSET Item, NEW out \in [S -> Errors \cup {"done"}],
         NEW hit, NEW finished, NEW buried, NEW promoted, NEW items,
         Settlement(S, out, hit, finished, buried, promoted, items),
         NEW D \in DeadAfter(promoted)
  PROVE  Fits(items, D)
<1>1. /\ IsFiniteSet(Ids(dead)) /\ IsFiniteSet(Ids(pending))
      /\ Ids(Timeouts) = Ids(Expired) /\ Ids(pending) = Ids(Swept) \cup Ids(Expired)
  BY StoredFinite
<1>2. Unique(items)
  BY StoredHolds, SettlePlan DEF SoundPlan
<1>3. Ids(items) \subseteq Ids(Swept)
  <2>1. \A x, o : Requeued(x, o).item = x.item
    BY DEF Requeued
  <2> QED BY <2>1 DEF Settlement, Ids
<1>4. Bounded(items, MaxItems)
  BY <1>1, <1>2, <1>3, NoGrowth
<1>5. Ids(promoted) \subseteq Ids(pending)
  <2>1. \A x, o : Buried(x, o).item = x.item
    BY DEF Buried
  <2>2. Ids(promoted) \subseteq Ids(Timeouts) \cup Ids(Swept)
    BY <2>1 DEF Settlement, Ids
  <2> QED BY <1>1, <2>2
<1>6. IsFiniteSet(Ids(promoted))
  BY <1>1, <1>5, FS_Subset
<1>7. Bounded(D, MaxDead)
  BY <1>1, <1>6, DeadAfterCapped
<1> QED BY <1>4, <1>7 DEF Fits

\* What a read computes is within the caps, and it writes nothing.
LEMMA ReadsCaps ==
  ASSUME CapInv, NEW items, NEW D, NEW gone, NEW told, NEW force,
         Persist(items, D, gone, told, force),
         Fits(items, D), Holder.op \in {"flush", "sweep"} => KeepsUncapped(items, D)
  PROVE  WithinBounds
<1>1. /\ UNCHANGED <<pending, dead, lock>> /\ newPending' = items /\ newDead' = D
      /\ phase' \in {"writeDead", "writePending", "done"}
  BY DEF Persist, stored
<1>2. CapInv'
  BY <1>1 DEF CapInv, Fits, Bounded, KeepsUncapped, Deleting, Holder, Ids
<1>3. DropStep
  BY <1>1 DEF DropStep, Ids
<1> QED BY <1>2, <1>3 DEF WithinBounds

LEMMA ReadsKeepCaps ==
  ASSUME IInv, CapInv, ReadFlush \/ ReadSettle \/ ReadAcknowledge \/ ReadSweep
  PROVE  WithinBounds
<1>1. CASE ReadFlush
  <2>1. phase = "read" /\ Holder.op = "flush"
    BY <1>1 DEF ReadFlush
  <2>2. PICK kept \in Capped(Merged(Holding)), D \in DeadAfter(Timeouts) :
          Persist(kept, D, (Ids(Merged(Holding)) \ Ids(kept)) \cup Evicted(D, Timeouts),
                  Carried(Holding) \cap Ids(kept), TRUE)
    BY <1>1 DEF ReadFlush
  <2>3. Holding \in Seq(Entry)
    BY <2>1, HolderType DEF IInv, TypeOK
  <2>4. Fits(kept, D) /\ KeepsUncapped(kept, D)
    BY <2>3, FlushCaps
  <2> QED BY <2>2, <2>4, ReadsCaps
<1>2. CASE ReadSettle
  <2>1. phase = "read" /\ Holder.op = "settle"
    BY <1>2 DEF ReadSettle
  <2>2. PICK S \in (SUBSET Item) \ {{}} : \E out \in [S -> Errors \cup {"done"}] :
          LET hit      == {x \in Swept : x.item \in S}
              finished == {x \in hit : out[x.item] = "done"}
              buried   == {x \in hit \ finished : Exhausted(x, out[x.item])}
              promoted == Timeouts \cup {Buried(x, out[x.item]) : x \in buried}
              items    == (Swept \ hit) \cup
                          {Requeued(x, out[x.item]) : x \in hit \ (finished \cup buried)}
          IN \E D \in DeadAfter(promoted) :
               Persist(items, D, Ids(finished) \cup Evicted(D, promoted), {}, FALSE)
    BY <1>2 DEF ReadSettle
  <2>3. PICK out \in [S -> Errors \cup {"done"}] :
          LET hit      == {x \in Swept : x.item \in S}
              finished == {x \in hit : out[x.item] = "done"}
              buried   == {x \in hit \ finished : Exhausted(x, out[x.item])}
              promoted == Timeouts \cup {Buried(x, out[x.item]) : x \in buried}
              items    == (Swept \ hit) \cup
                          {Requeued(x, out[x.item]) : x \in hit \ (finished \cup buried)}
          IN \E D \in DeadAfter(promoted) :
               Persist(items, D, Ids(finished) \cup Evicted(D, promoted), {}, FALSE)
    BY <2>2
  <2> DEFINE hit      == {x \in Swept : x.item \in S}
             finished == {x \in hit : out[x.item] = "done"}
             buried   == {x \in hit \ finished : Exhausted(x, out[x.item])}
             promoted == Timeouts \cup {Buried(x, out[x.item]) : x \in buried}
             items    == (Swept \ hit) \cup
                         {Requeued(x, out[x.item]) : x \in hit \ (finished \cup buried)}
  <2>4. PICK D \in DeadAfter(promoted) :
          Persist(items, D, Ids(finished) \cup Evicted(D, promoted), {}, FALSE)
    BY <2>3
  <2>5. Settlement(S, out, hit, finished, buried, promoted, items)
    BY DEF Settlement
  <2> HIDE DEF hit, finished, buried, promoted, items
  <2>6. S \in SUBSET Item
    OBVIOUS
  <2>7. Fits(items, D)
    BY <2>5, <2>6, SettleCaps
  <2> DEFINE gone == Ids(finished) \cup Evicted(D, promoted)
  <2>8. Persist(items, D, gone, {}, FALSE)
    BY <2>4
  <2> HIDE DEF gone
  <2> QED BY <2>1, <2>7, <2>8, ReadsCaps
<1>3. CASE ReadAcknowledge
  <2>1. phase = "read" /\ Holder.op = "acknowledge"
    BY <1>3 DEF ReadAcknowledge
  <2>2. PICK S \in (SUBSET Item) \ {{}}, D \in DeadAfter(Timeouts) :
          Persist({x \in Swept : x.item \notin S}, D,
                  (S \cap Ids(Swept)) \cup Evicted(D, Timeouts), {}, FALSE)
    BY <1>3 DEF ReadAcknowledge
  <2> DEFINE items == {x \in Swept : x.item \notin S}
  <2>3. items \subseteq Swept
    OBVIOUS
  <2> HIDE DEF items
  <2>4. Fits(items, D)
    BY <2>3, SweepCaps
  <2>5. Persist(items, D, (S \cap Ids(Swept)) \cup Evicted(D, Timeouts), {}, FALSE)
    BY <2>2 DEF items
  <2> QED BY <2>1, <2>4, <2>5, ReadsCaps
<1>4. CASE ReadSweep
  <2>1. PICK D \in DeadAfter(Timeouts) : Persist(Swept, D, Evicted(D, Timeouts), {}, FALSE)
    BY <1>4 DEF ReadSweep
  <2>2. Fits(Swept, D) /\ KeepsUncapped(Swept, D)
    BY SweepCaps
  <2> QED BY <2>1, <2>2, ReadsCaps
<1> QED BY <1>1, <1>2, <1>3, <1>4

\* A write that lands stores what fits, and loses at a cap only.
LEMMA WritesKeepCaps ==
  ASSUME IInv, CapInv, WriteDead \/ WritePending
  PROVE  WithinBounds
<1>1. CASE WriteDead
  <2>1. /\ Writing /\ phase = "writeDead"
        /\ UNCHANGED <<pending, lock, newPending, newDead>>
        /\ ~ Deleting'
    BY <1>1 DEF WriteDead, plan, Writing, Deleting, Proceed
  <2>2. dead' = newDead \/ dead' = dead
    BY <1>1 DEF WriteDead
  <2>3. CapInv'
    BY <2>1, <2>2 DEF CapInv, Fits, Bounded, KeepsUncapped, Holder, Ids
  <2>4. DropStep
    BY <2>1, <2>2 DEF CapInv, KeepsUncapped, DropStep, Ids
  <2> QED BY <2>3, <2>4 DEF WithinBounds
<1>2. CASE WritePending
  <2>1. /\ Writing /\ newDead = dead
        /\ UNCHANGED <<dead, lock, newPending, newDead>>
    BY <1>2 DEF WritePending, plan, Writing, IInv, PlanInv
  <2>2. pending' = newPending \/ pending' = pending
    BY <1>2 DEF WritePending
  <2>3. ~ Writing' /\ ~ Deleting'
    <3>1. phase' \in {"done", "failed"}
      BY <1>2 DEF WritePending, Proceed
    <3> QED BY <3>1 DEF Writing, Deleting
  <2>4. CapInv'
    BY <2>1, <2>2, <2>3 DEF CapInv, Fits, Bounded
  <2>5. DropStep
    BY <2>1, <2>2 DEF CapInv, KeepsUncapped, DropStep, Ids
  <2> QED BY <2>4, <2>5 DEF WithinBounds
<1> QED BY <1>1, <1>2

\* What stays as it is, or is emptied by a clear, stays within the caps.
LEMMA EmptiedKeepsCaps ==
  ASSUME CapInv, pending' = pending \/ pending' = {}, dead' = dead \/ dead' = {},
         ~ Writing', Deleting' => Holder'.op = "clear",
         UNCHANGED <<pending, dead>> \/ phase = "idle" \/ Holder.op = "clear"
  PROVE  WithinBounds
<1>1. IsFiniteSet({}) /\ Cardinality({}) = 0
  BY FS_EmptySet
<1>2. Bounded({}, MaxItems) /\ Bounded({}, MaxDead)
  BY <1>1, LimitAssumption DEF Bounded
<1>3. CapInv'
  BY <1>2 DEF CapInv, Fits, Bounded
<1>4. DropStep
  BY DEF DropStep
<1> QED BY <1>3, <1>4 DEF WithinBounds

\* A step beside the holder's leaves its plan and its turn as they are.
LEMMA BesideKeepsCaps ==
  ASSUME IInv, CapInv, UNCHANGED <<pending, dead, phase, newPending, newDead>>,
         phase # "idle" => Holder' = Holder
  PROVE  WithinBounds
<1>1. CapInv'
  BY DEF CapInv, Fits, Bounded, KeepsUncapped, Writing, Deleting, Ids
<1>2. DropStep
  BY DEF DropStep
<1> QED BY <1>1, <1>2 DEF WithinBounds

\* Who waits for the lock waits behind its holder.
LEMMA HolderFirst ==
  ASSUME IInv, lock # <<>>, NEW e, lock' = Append(lock, e)
  PROVE  Holder' = Holder
<1>1. lock \in Seq(Operation) /\ Len(lock) # 0
  BY DEF IInv, TypeOK
<1> QED BY <1>1 DEF Holder

LEMMA StepKeepsCaps ==
  ASSUME IInv, CapInv, Next
  PROVE  WithinBounds
<1>0. phase # "idle" => lock # <<>>
  BY DEF IInv, TypeOK
<1>1. CASE Tick \/ \E d \in Delivery : Enqueue(d)
  <2>1. UNCHANGED <<pending, dead, phase, newPending, newDead, lock>>
    BY <1>1 DEF Tick, Enqueue, stored, plan, InMemory
  <2> QED BY <2>1, BesideKeepsCaps DEF Holder
<1>2. CASE \/ \E b \in Batch : WindowCloses(b)
           \/ \E op \in {"settle", "acknowledge", "sweep"} : Request(op)
           \/ Clear
  <2>1. /\ UNCHANGED <<pending, dead, phase, newPending, newDead>>
        /\ \E e : lock' = Append(lock, e)
    BY <1>2 DEF WindowCloses, Request, Clear, stored, plan
  <2> QED BY <1>0, <2>1, HolderFirst, BesideKeepsCaps
<1>3. CASE Acquire \/ Respond \/ Reject \/ Crash
  <2>1. UNCHANGED <<pending, dead>> /\ phase' \in {"idle", "read"}
    BY <1>3 DEF Acquire, Respond, Reject, Crash, Settled, stored
  <2> QED BY <2>1, EmptiedKeepsCaps DEF Writing, Deleting
<1>4. CASE ReadFails \/ ReadMangled \/ CountStored \/ WriteQuarantine \/ WriteReset
  <2>1. /\ UNCHANGED <<pending, dead, lock>>
        /\ phase' \in {"read", "quarantine", "reset", "failed", "deletePending"}
        /\ phase' = "deletePending" => Holder.op = "clear"
    BY <1>4 DEF ReadFails, ReadMangled, CountStored, WriteQuarantine, WriteReset, Proceed, stored
  <2> QED BY <2>1, EmptiedKeepsCaps DEF Writing, Deleting, Holder
<1>5. CASE ReadFlush \/ ReadSettle \/ ReadAcknowledge \/ ReadSweep
  BY <1>5, ReadsKeepCaps
<1>6. CASE WriteDead \/ WritePending
  BY <1>6, WritesKeepCaps
<1>7. CASE DeletePending \/ DeleteDead
  <2>1. /\ pending' = pending \/ pending' = {}
        /\ dead' = dead \/ dead' = {}
        /\ phase' \in {"deleteDead", "done", "failed"}
        /\ Deleting /\ lock' = lock
    BY <1>7 DEF DeletePending, DeleteDead, Proceed, Deleting
  <2>2. Holder.op = "clear" /\ Holder'.op = "clear"
    BY <2>1 DEF CapInv, Holder
  <2> QED BY <2>1, <2>2, EmptiedKeepsCaps DEF Writing
<1>8. CASE Mangle
  <2>1. phase = "idle" /\ pending' = {} /\ dead' = dead /\ phase' = phase
    BY <1>8 DEF Mangle, InMemory
  <2> QED BY <2>1, EmptiedKeepsCaps DEF Writing, Deleting
<1> QED
  BY <1>1, <1>2, <1>3, <1>4, <1>5, <1>6, <1>7, <1>8 DEF Next, HolderStep

LEMMA CapsHold == Spec => []CapInv /\ [][DropStep]_vars
<1>1. Init => CapInv
  <2>1. IsFiniteSet({}) /\ Cardinality({}) = 0
    BY FS_EmptySet
  <2> QED BY <2>1, LimitAssumption DEF Init, CapInv, Fits, Bounded, Writing, Deleting
<1>2. IInv /\ CapInv /\ [Next]_vars => CapInv' /\ [DropStep]_vars
  <2> SUFFICES ASSUME IInv, CapInv, [Next]_vars PROVE CapInv' /\ [DropStep]_vars
    OBVIOUS
  <2>1. CASE Next
    BY <2>1, StepKeepsCaps DEF WithinBounds
  <2>2. CASE UNCHANGED vars
    <3>1. UNCHANGED <<pending, dead, phase, newPending, newDead, lock>>
      BY <2>2 DEF vars, stored, plan
    <3> QED BY <2>2, <3>1, BesideKeepsCaps DEF WithinBounds, Holder
  <2> QED BY <2>1, <2>2
<1> QED BY <1>1, <1>2, Invariance, PTL DEF Spec

-----------------------------------------------------------------------------
(* Theorems                                                                *)

\* A completed clear leaves nothing of what was accepted before it was called, whatever
\* batches were open or waiting, and through failed writes and crashes (F005).
THEOREM ClearIsFinal == Spec => []ClearSupersedes
<1>1. IInv /\ HistInv => ClearSupersedes
  BY DEF HistInv, StoredRecent, Recent, ClearSupersedes
<1> QED BY <1>1, Invariance, History, PTL

\* A burst of any size has at most two batches alive: it costs a delivery at most two
\* flushes.
THEOREM BurstsAreBounded == Spec => []AtMostTwoLiveBatches
<1>1. IInv /\ HistInv => AtMostTwoLiveBatches
  <2> SUFFICES ASSUME IInv, HistInv PROVE AtMostTwoLiveBatches
    OBVIOUS
  <2> DEFINE Live == {b \in Batch : batches[b].stage # "free" /\ ~ batches[b].superseded}
  <2>1. \A b \in Live : b = current \/ b = Holder.batch
    BY DEF HistInv, Order, LiveBatches, Flushing
  <2>2. IsFiniteSet({current, Holder.batch}) /\ Cardinality({current, Holder.batch}) <= 2
    <3>1. IsFiniteSet({current}) /\ Cardinality({current}) = 1
      BY FS_Singleton
    <3>2. /\ IsFiniteSet({current} \cup {Holder.batch})
          /\ Cardinality({current} \cup {Holder.batch}) <= 2
      BY <3>1, FS_AddElement
    <3>3. {current, Holder.batch} = {current} \cup {Holder.batch}
      OBVIOUS
    <3> QED BY <3>2, <3>3
  <2>3. Live \subseteq {current, Holder.batch}
    BY <2>1
  <2>4. Cardinality(Live) <= 2
    <3> HIDE DEF Live
    <3>1. /\ Cardinality(Live) <= Cardinality({current, Holder.batch})
          /\ IsFiniteSet(Live)
      BY <2>2, <2>3, FS_Subset
    <3>2. Cardinality(Live) \in Nat /\ Cardinality({current, Holder.batch}) \in Nat
      BY <2>2, <3>1, FS_CardinalityType
    <3> QED BY <2>2, <3>1, <3>2
  <2> QED BY <2>4 DEF AtMostTwoLiveBatches
<1> QED BY <1>1, Invariance, History, PTL

\* A repeated delivery leaves the budget, the backoff and the provider's timestamp of a
\* queued item alone; for any caps, TTL and schedule.
THEOREM RedeliveryIsHarmless == Spec => RedeliveryKeepsState
<1>1. RedeliveryStep =>
        \A x \in pending, y \in pending' :
          x.item = y.item =>
            \/ /\ y.first = x.first
               /\ y.attempts >= x.attempts /\ y.requeues >= x.requeues
               /\ lock # <<>> /\ Holder.op = "flush" => y = [x EXCEPT !.receivedAt = y.receivedAt]
            \/ x.receivedAt + TTL <= now
  BY DEF RedeliveryStep
<1> QED BY <1>1, History, PTL DEF RedeliveryKeepsState

\* Neither array outgrows its cap, in storage or in what the holder writes between the
\* two writes of a promotion, whatever fails or crashes there.
THEOREM QueueIsCapped == Spec => []WithinCaps
<1>1. CapInv => WithinCaps
  BY DEF CapInv, Fits, Bounded, WithinCaps
<1> QED BY <1>1, CapsHold, PTL

\* A flush or a sweep loses an identity only to a cap that is reached: what expires goes
\* to the dead letters, and a first write without the second loses nothing.
THEOREM CapsAloneDrop == Spec => DropsOnlyAtCap
<1>1. DropStep =>
        (phase # "idle" /\ Holder.op \in {"flush", "sweep"} =>
           \/ Ids(pending) \cup Ids(dead) \subseteq Ids(pending') \cup Ids(dead')
           \/ Cardinality(pending') = MaxItems
           \/ Cardinality(dead') = MaxDead)
  BY DEF DropStep
<1> QED BY <1>1, CapsHold, PTL DEF DropsOnlyAtCap
=============================================================================
