--------------------------- MODULE ConnectorQueue ---------------------------
(***************************************************************************)
(* The durable pending queue of ONE (source, address) pair:                *)
(* src/backend/src/services/connector-queue.ts.                            *)
(*                                                                         *)
(* Webhook deliveries join an in-memory batch; the batch is flushed by a   *)
(* read-modify-write of two KV values (the pending array and the           *)
(* dead-letter array) under a per-address promise-chain lock, and the      *)
(* delivery's 202 is sent when that write has landed.  Drains settle       *)
(* items, browsers acknowledge them, readers and the maintenance timer     *)
(* sweep expired ones, and enabling a connector clears both values.  Every *)
(* storage call is a step of its own, and it may fail, or land and lose    *)
(* its response; the process may crash between any two steps.              *)
(*                                                                         *)
(* The two stored arrays are sets of records: their order matters to the   *)
(* code only to break ties between equal timestamps when a cap drops the   *)
(* oldest, and the model lets such a tie go either way.                    *)
(***************************************************************************)
EXTENDS Naturals, Sequences, FiniteSets

CONSTANTS
  Item,          \* the identities kind:meetingId  (itemKey)
  Delivery,      \* the webhook deliveries the provider makes
  ItemOf,        \* the identity each delivery carries
  Batch,         \* names for the coalescing batches alive at one time
  NoBatch,       \* the batches map holds no batch for this address
  MaxItems,      \* PENDING_CAP
  MaxDead,       \* DEAD_CAP
  MaxAttempts,   \* MAX_ATTEMPTS
  TTL,           \* QUEUE_TTL_MS, in ticks
  BackoffSteps,  \* the count from which the backoff schedule is flat
  Backoff,       \* Backoff[n]: ticks to wait after n failures
  MayMangle,     \* whether the stored pending value may be corrupted
  MaxTime,       \* bound: the last tick of the model's clock
  MaxLock        \* bound: operations waiting for the lock

ASSUME DeliveryAssumption ==
  /\ ItemOf \in [Delivery -> Item]
  /\ NoBatch \notin Batch

ASSUME LimitAssumption ==
  /\ MaxItems \in Nat \ {0}
  /\ MaxDead \in Nat \ {0}
  /\ MaxAttempts \in Nat \ {0}
  /\ TTL \in Nat \ {0}
  /\ MayMangle \in BOOLEAN
  /\ MaxTime \in Nat
  /\ MaxLock \in Nat

ASSUME BackoffAssumption ==
  /\ BackoffSteps \in Nat
  /\ Backoff \in [0..BackoffSteps -> Nat \ {0}]

VARIABLES
  now,           \* the process clock, this.now()
  pending,       \* the items stored under webhooks/pending/...
  dead,          \* the items stored under webhooks/dead/...
  mangled,       \* the stored pending value is not a JSON array
  quarantined,   \* webhooks/corrupt/... holds a copy of such a value
  batches,       \* the batches created and not yet resolved
  current,       \* the batch the next delivery joins: batches.get(key)
  lock,          \* the operations chained on the lock; the head holds it
  phase,         \* how far the holder's read-modify-write has come
  newPending,    \* the holder's computed pending value
  newDead,       \* the holder's computed dead-letter value
  released,      \* the identities the holder removes on purpose, and logs
  acked,         \* the identities a flush will answer queued or deduped
  caller,        \* whether each delivery's caller waits for its answer
  owed,          \* ghost: identities acknowledged with a 202 and not released
  clearedAt      \* ghost: when the last completed clear() was called

stored == <<pending, dead, mangled, quarantined>>
plan   == <<newPending, newDead, released, acked>>
vars   == <<now, stored, batches, current, lock, phase, plan,
            caller, owed, clearedAt>>

-----------------------------------------------------------------------------
(* Types *)

Errors == {"item_error", "terminal_error", "awaiting_transcript"}

\* A queued item: `first` is the delivery whose sourceTimestamp it carries.
PendingItem ==
  [item: Item, first: Delivery, receivedAt: Nat, attempts: 0..(MaxAttempts - 1),
   requeues: 0..BackoffSteps, nextAttemptAt: Nat, lastError: Errors \cup {"none"}]

DeadItem ==
  [item: Item, receivedAt: Nat, attempts: 0..MaxAttempts, deadAt: Nat,
   reason: Errors \cup {"ttl_expired", "awaiting_transcript_timeout"}]

Entry == [delivery: Delivery, receivedAt: Nat]

BatchState ==
  [stage: {"free", "window", "waiting"}, entries: Seq(Entry), superseded: BOOLEAN]

\* An operation chained on the lock.  `batch` matters to a flush only, and
\* `called`, the time of the call, to a clear only.
Operation ==
  [op: {"flush", "settle", "acknowledge", "sweep", "clear"},
   batch: Batch \cup {NoBatch}, called: Nat]

Phases == {"idle", "read", "quarantine", "reset", "writeDead", "writePending",
           "deletePending", "deleteDead", "done", "failed"}

TypeOK ==
  /\ now \in Nat
  /\ pending \subseteq PendingItem
  /\ dead \subseteq DeadItem
  /\ mangled \in BOOLEAN
  /\ quarantined \in BOOLEAN
  /\ batches \in [Batch -> BatchState]
  /\ current \in Batch \cup {NoBatch}
  /\ lock \in Seq(Operation)
  /\ phase \in Phases
  /\ phase # "idle" => lock # <<>>
  /\ newPending \subseteq PendingItem
  /\ newDead \subseteq DeadItem
  /\ released \subseteq Item
  /\ acked \subseteq Item
  /\ caller \in [Delivery -> {"idle", "waiting", "over"}]
  /\ owed \subseteq Item
  /\ clearedAt \in Nat

Free == [stage |-> "free", entries |-> <<>>, superseded |-> FALSE]

Init ==
  /\ now = 0
  /\ pending = {} /\ dead = {} /\ mangled = FALSE /\ quarantined = FALSE
  /\ batches = [b \in Batch |-> Free]
  /\ current = NoBatch
  /\ lock = <<>>
  /\ phase = "idle"
  /\ newPending = {} /\ newDead = {} /\ released = {} /\ acked = {}
  /\ caller = [d \in Delivery |-> "idle"]
  /\ owed = {}
  /\ clearedAt = 0

-----------------------------------------------------------------------------
(* Helpers *)

Ids(S) == {x.item : x \in S}

Smaller(m, n) == IF m <= n THEN m ELSE n

\* backoffDelayMs, flat from BackoffSteps on; the additive jitter (at most a
\* tenth of the delay) is below the model's tick.
Delay(count) == Backoff[Smaller(count, BackoffSteps)]

\* The items the TTL promotes, and the dead-letter record of each.
Expired == {x \in pending : x.receivedAt + TTL <= now}

Timeout(x) ==
  [item |-> x.item, receivedAt |-> x.receivedAt, attempts |-> x.attempts, deadAt |-> now,
   reason |-> IF x.lastError = "awaiting_transcript" THEN "awaiting_transcript_timeout"
                                                    ELSE "ttl_expired"]

Swept    == pending \ Expired
Timeouts == {Timeout(x) : x \in Expired}

\* appendDead, for all the promotions of one operation: one record per identity,
\* a record already stored is kept, and past the cap the oldest are dropped.
DroppedBefore(x, y, promoted) ==
  /\ x.deadAt <= y.deadAt
  /\ y \in dead => x \in dead \/ y.item \in Ids(promoted)

DeadAfter(promoted) ==
  LET all == dead \cup promoted
  IN {D \in SUBSET all :
        /\ \A x, y \in D : x.item = y.item => x = y
        /\ Cardinality(D) = Smaller(Cardinality(Ids(all)), MaxDead)
        /\ \A x \in all \ D : x.item \in Ids(D) \/ \A y \in D : DroppedBefore(x, y, promoted)
        /\ Cardinality(Ids(all)) <= MaxDead => dead \subseteq D}

\* The identities a new dead-letter value loses to the cap (logDeadDrops).
Evicted(D, promoted) == Ids(dead \cup promoted) \ Ids(D)

\* applyCap: past the cap the oldest-received are dropped (and logged).
Capped(items) ==
  {K \in SUBSET items :
     /\ Cardinality(K) = Smaller(Cardinality(items), MaxItems)
     /\ \A x \in items \ K, y \in K : x.receivedAt <= y.receivedAt}

\* The places of identity i in a batch, and the first and last entry of it.
Places(es, i) == {k \in DOMAIN es : ItemOf[es[k].delivery] = i}
FirstOf(es, i) == es[CHOOSE k \in Places(es, i) : \A j \in Places(es, i) : k <= j]
LastOf(es, i)  == es[CHOOSE k \in Places(es, i) : \A j \in Places(es, i) : j <= k]
Joined(es)     == {es[k].delivery : k \in DOMAIN es}
Carried(es)    == {ItemOf[es[k].delivery] : k \in DOMAIN es}

\* flush: a delivery of a queued identity only refreshes receivedAt; any other is
\* appended, and later ones of the same batch refresh it.
Fresh(es, i) ==
  [item |-> i, first |-> FirstOf(es, i).delivery, receivedAt |-> LastOf(es, i).receivedAt,
   attempts |-> 0, requeues |-> 0, nextAttemptAt |-> FirstOf(es, i).receivedAt,
   lastError |-> "none"]

\* Mutant: a delivery of a queued identity replaces its item.
RefreshedAnew(es, x) == IF x.item \in Carried(es) THEN Fresh(es, x.item) ELSE x

Refreshed(es, x) ==
  IF x.item \in Carried(es) THEN [x EXCEPT !.receivedAt = LastOf(es, x.item).receivedAt]
                            ELSE x

\* Mutant: a delivery is appended whether its identity is queued or not.
MergedBlindly(es) == Swept \cup {Fresh(es, i) : i \in Carried(es)}

Merged(es) ==
  {Refreshed(es, x) : x \in Swept} \cup {Fresh(es, i) : i \in Carried(es) \ Ids(Swept)}

\* settle, for one item with outcome o: does it leave the queue, and how?
Burns(o) == o # "awaiting_transcript"
AttemptsAfter(x, o) == IF Burns(o) THEN x.attempts + 1 ELSE x.attempts

\* Mutants: one attempt too many, and holds that count as attempts.
ExhaustedLate(x, o) ==
  o = "terminal_error" \/ (o = "item_error" /\ AttemptsAfter(x, o) > MaxAttempts)
ExhaustedByHolds(x, o) ==
  o = "terminal_error" \/ AttemptsAfter(x, o) + x.requeues >= MaxAttempts

Exhausted(x, o) ==
  o = "terminal_error" \/ (o = "item_error" /\ AttemptsAfter(x, o) >= MaxAttempts)

Buried(x, o) ==
  [item |-> x.item, receivedAt |-> x.receivedAt, attempts |-> AttemptsAfter(x, o),
   deadAt |-> now, reason |-> o]

Requeued(x, o) ==
  LET attempts == AttemptsAfter(x, o)
      requeues == IF Burns(o) THEN x.requeues ELSE Smaller(x.requeues + 1, BackoffSteps)
  IN [item |-> x.item, first |-> x.first, receivedAt |-> x.receivedAt, attempts |-> attempts,
      requeues |-> requeues, lastError |-> o,
      nextAttemptAt |-> now + Delay(IF Burns(o) THEN attempts ELSE requeues)]

-----------------------------------------------------------------------------
(* Callers *)

InMemory == <<batches, current, lock, phase, plan>>

Tick ==
  /\ now < MaxTime
  /\ now' = now + 1
  /\ UNCHANGED <<stored, InMemory, caller, owed, clearedAt>>

\* enqueue: join the batch in the map, or open one and start its timer.
Enqueue(d) ==
  /\ caller[d] = "idle"
  /\ \/ /\ current # NoBatch
        /\ batches' = [batches EXCEPT ![current].entries = Append(@, [delivery |-> d, receivedAt |-> now])]
        /\ UNCHANGED current
     \/ /\ current = NoBatch
        /\ \E b \in Batch :
             /\ batches[b].stage = "free"
             /\ batches' = [batches EXCEPT ![b] =
                  [stage |-> "window", superseded |-> FALSE,
                   entries |-> <<[delivery |-> d, receivedAt |-> now]>>]]
             /\ current' = b
  /\ caller' = [caller EXCEPT ![d] = "waiting"]
  /\ UNCHANGED <<now, stored, lock, phase, plan, owed, clearedAt>>

\* Mutants: the batch is retired when its timer fires; a batch that is no longer in
\* the map is not flushed.
WindowRetires(b) ==
  /\ batches[b].stage = "window"
  /\ batches' = [batches EXCEPT ![b].stage = "waiting"]
  /\ lock' = Append(lock, [op |-> "flush", batch |-> b, called |-> 0])
  /\ current' = IF current = b THEN NoBatch ELSE current
  /\ UNCHANGED <<now, stored, phase, plan, caller, owed, clearedAt>>

WindowForgets(b) ==
  /\ batches[b].stage = "window" /\ current = b
  /\ batches' = [batches EXCEPT ![b].stage = "waiting"]
  /\ lock' = Append(lock, [op |-> "flush", batch |-> b, called |-> 0])
  /\ UNCHANGED <<now, stored, current, phase, plan, caller, owed, clearedAt>>

\* The coalescing window closes: the batch's flush is chained on the lock.  The
\* batch stays in the map, so deliveries still join it.
WindowCloses(b) ==
  /\ batches[b].stage = "window"
  /\ batches' = [batches EXCEPT ![b].stage = "waiting"]
  /\ lock' = Append(lock, [op |-> "flush", batch |-> b, called |-> 0])
  /\ UNCHANGED <<now, stored, current, phase, plan, caller, owed, clearedAt>>

\* A drain settles, a browser acknowledges, a reader or the timer sweeps
\* (list, due, dead and sweep are the same read-modify-write).
Request(op) ==
  /\ Len(lock) < MaxLock
  /\ lock' = Append(lock, [op |-> op, batch |-> NoBatch, called |-> 0])
  /\ UNCHANGED <<now, stored, batches, current, phase, plan, caller, owed, clearedAt>>

\* Mutant: the open batch is left to flush after the deletes.
ClearStoredOnly ==
  /\ Len(lock) < MaxLock
  /\ lock' = Append(lock, [op |-> "clear", batch |-> NoBatch, called |-> now])
  /\ UNCHANGED <<now, stored, batches, current, phase, plan, caller, owed, clearedAt>>

\* clear, up to its first await: the batch in the map is superseded and removed
\* from it, and the deletes are chained on the lock.
Clear ==
  /\ Len(lock) < MaxLock
  /\ IF current = NoBatch THEN UNCHANGED batches
                          ELSE batches' = [batches EXCEPT ![current].superseded = TRUE]
  /\ current' = NoBatch
  /\ lock' = Append(lock, [op |-> "clear", batch |-> NoBatch, called |-> now])
  /\ UNCHANGED <<now, stored, phase, plan, caller, owed, clearedAt>>

-----------------------------------------------------------------------------
(* The lock holder *)

Holder  == Head(lock)
Holding == batches[Holder.batch].entries

NoPlan ==
  /\ newPending' = {} /\ newDead' = {} /\ released' = {} /\ acked' = {}

\* The holder's promise settles, its deliveries get their answer, and the lock is free.
Settled ==
  /\ caller' = [d \in Delivery |->
       IF Holder.op = "flush" /\ d \in Joined(Holding) THEN "over" ELSE caller[d]]
  /\ batches' = IF Holder.op = "flush" THEN [batches EXCEPT ![Holder.batch] = Free]
                                       ELSE batches
  /\ lock' = Tail(lock)
  /\ phase' = "idle"
  /\ NoPlan

\* Mutant: a superseded batch is flushed all the same.
AcquireSuperseded ==
  /\ phase = "idle" /\ lock # <<>>
  /\ current' = IF Holder.op = "flush" /\ current = Holder.batch THEN NoBatch ELSE current
  /\ phase' = "read"
  /\ UNCHANGED <<now, stored, batches, lock, caller, plan, owed, clearedAt>>

\* withLock runs the next operation.  A flush retires its batch from the map at
\* this point and not before, and if clear() superseded it, it drops everything.
Acquire ==
  /\ phase = "idle" /\ lock # <<>>
  /\ current' = IF Holder.op = "flush" /\ current = Holder.batch THEN NoBatch ELSE current
  /\ IF Holder.op = "flush" /\ batches[Holder.batch].superseded
       THEN Settled
       ELSE phase' = "read" /\ UNCHANGED <<batches, lock, caller, plan>>
  /\ UNCHANGED <<now, stored, owed, clearedAt>>

\* A read of either value fails: the operation rejects, nothing was written.
ReadFails ==
  /\ phase = "read"
  /\ phase' = "failed"
  /\ UNCHANGED <<now, stored, batches, current, lock, plan, caller, owed,
                 clearedAt>>

\* readState finds a pending value that is not an array (clear only counts it).
ReadMangled ==
  /\ phase = "read" /\ mangled /\ Holder.op # "clear"
  /\ phase' = "quarantine"
  /\ UNCHANGED <<now, stored, batches, current, lock, plan, caller, owed,
                 clearedAt>>

\* persist is about to write: dead-letter first if it changed, then pending.
Persist(items, D, gone, told, force) ==
  /\ newPending' = items /\ newDead' = D /\ released' = gone /\ acked' = told
  /\ phase' = IF D # dead THEN "writeDead"
              ELSE IF force \/ items # pending THEN "writePending"
              ELSE "done"
  /\ UNCHANGED <<now, stored, batches, current, lock, caller, owed, clearedAt>>

ReadFlush ==
  /\ phase = "read" /\ ~ mangled /\ Holder.op = "flush"
  /\ \E kept \in Capped(Merged(Holding)), D \in DeadAfter(Timeouts) :
       Persist(kept, D,
               (Ids(Merged(Holding)) \ Ids(kept)) \cup Evicted(D, Timeouts),
               Carried(Holding) \cap Ids(kept), TRUE)

ReadSettle ==
  /\ phase = "read" /\ ~ mangled /\ Holder.op = "settle"
  /\ \E S \in (SUBSET Item) \ {{}} : \E out \in [S -> Errors \cup {"done"}] :
       LET hit      == {x \in Swept : x.item \in S}
           finished == {x \in hit : out[x.item] = "done"}
           buried   == {x \in hit \ finished : Exhausted(x, out[x.item])}
           promoted == Timeouts \cup {Buried(x, out[x.item]) : x \in buried}
           items    == (Swept \ hit) \cup
                       {Requeued(x, out[x.item]) : x \in hit \ (finished \cup buried)}
       IN \E D \in DeadAfter(promoted) :
            Persist(items, D, Ids(finished) \cup Evicted(D, promoted), {}, FALSE)

ReadAcknowledge ==
  /\ phase = "read" /\ ~ mangled /\ Holder.op = "acknowledge"
  /\ \E S \in (SUBSET Item) \ {{}}, D \in DeadAfter(Timeouts) :
       Persist({x \in Swept : x.item \notin S}, D,
               (S \cap Ids(Swept)) \cup Evicted(D, Timeouts), {}, FALSE)

ReadSweep ==
  /\ phase = "read" /\ ~ mangled /\ Holder.op = "sweep"
  /\ \E D \in DeadAfter(Timeouts) :
       Persist(Swept, D, Evicted(D, Timeouts), {}, FALSE)

CountStored ==
  /\ phase = "read" /\ Holder.op = "clear"
  /\ phase' = "deletePending"
  /\ UNCHANGED <<now, stored, batches, current, lock, plan, caller, owed,
                 clearedAt>>

\* The outcome of a storage call: acknowledged, landed with its response lost, or
\* not landed.  The holder goes on only when it is acknowledged.
Outcomes == {<<TRUE, TRUE>>, <<TRUE, FALSE>>, <<FALSE, FALSE>>}

\* Mutant: the result of the call is not looked at.
ProceedRegardless(outcome, next) == phase' = next

Proceed(outcome, next) == phase' = IF outcome[2] THEN next ELSE "failed"

WriteQuarantine ==
  /\ phase = "quarantine"
  /\ \E outcome \in Outcomes :
       /\ quarantined' = (quarantined \/ outcome[1])
       /\ Proceed(outcome, "reset")
  /\ UNCHANGED <<now, pending, dead, mangled, batches, current, lock, plan, caller,
                 owed, clearedAt>>

\* The container is reset to []; the operation goes on with no items, as a read of
\* the value just written finds.
WriteReset ==
  /\ phase = "reset"
  /\ \E outcome \in Outcomes :
       /\ mangled' = (mangled /\ ~ outcome[1])
       /\ Proceed(outcome, "read")
  /\ UNCHANGED <<now, pending, dead, quarantined, batches, current, lock, plan, caller,
                 owed, clearedAt>>

\* A debt is released when the write that removes the identity lands, unless the
\* identity is still stored elsewhere.
WriteDead ==
  /\ phase = "writeDead"
  /\ \E outcome \in Outcomes :
       /\ dead' = IF outcome[1] THEN newDead ELSE dead
       /\ owed' = IF outcome[1] THEN owed \ (released \ Ids(pending \cup newDead)) ELSE owed
       /\ Proceed(outcome, IF newPending # pending \/ Holder.op = "flush" THEN "writePending"
                                                                          ELSE "done")
  /\ UNCHANGED <<now, pending, mangled, quarantined, batches, current, lock, plan, caller,
                 clearedAt>>

WritePending ==
  /\ phase = "writePending"
  /\ \E outcome \in Outcomes :
       /\ pending' = IF outcome[1] THEN newPending ELSE pending
       /\ owed' = IF outcome[1] THEN owed \ (released \ Ids(newPending \cup dead)) ELSE owed
       /\ Proceed(outcome, "done")
  /\ UNCHANGED <<now, dead, mangled, quarantined, batches, current, lock, plan, caller,
                 clearedAt>>

DeletePending ==
  /\ phase = "deletePending"
  /\ \E outcome \in Outcomes :
       /\ pending' = IF outcome[1] THEN {} ELSE pending
       /\ mangled' = (mangled /\ ~ outcome[1])
       /\ owed' = IF outcome[1] THEN owed \cap Ids(dead) ELSE owed
       /\ Proceed(outcome, "deleteDead")
  /\ UNCHANGED <<now, dead, quarantined, batches, current, lock, plan, caller, clearedAt>>

DeleteDead ==
  /\ phase = "deleteDead"
  /\ \E outcome \in Outcomes :
       /\ dead' = IF outcome[1] THEN {} ELSE dead
       /\ owed' = IF outcome[1] THEN owed \cap Ids(pending) ELSE owed
       /\ Proceed(outcome, "done")
  /\ UNCHANGED <<now, pending, mangled, quarantined, batches, current, lock, plan, caller,
                 clearedAt>>

\* The operation succeeds; a flush answers 202.
Respond ==
  /\ phase = "done"
  /\ Settled
  /\ owed' = owed \cup acked
  /\ clearedAt' = IF Holder.op = "clear" THEN Holder.called ELSE clearedAt
  /\ UNCHANGED <<now, stored, current>>

Reject ==
  /\ phase = "failed"
  /\ Settled
  /\ UNCHANGED <<now, stored, current, owed, clearedAt>>

-----------------------------------------------------------------------------
(* Environment *)

\* The process dies: everything in memory is gone, and no waiting caller will be
\* answered.
Crash ==
  /\ batches' = [b \in Batch |-> Free]
  /\ current' = NoBatch /\ lock' = <<>> /\ phase' = "idle"
  /\ NoPlan
  /\ caller' = [d \in Delivery |-> IF caller[d] = "waiting" THEN "over" ELSE caller[d]]
  /\ UNCHANGED <<now, stored, owed, clearedAt>>

\* The stored pending value turns out not to be an array any more (once): what it
\* held cannot be read by anyone.
Mangle ==
  /\ MayMangle /\ phase = "idle" /\ ~ mangled /\ ~ quarantined
  /\ mangled' = TRUE /\ pending' = {}
  /\ owed' = owed \cap Ids(dead)
  /\ UNCHANGED <<now, dead, quarantined, InMemory, caller, clearedAt>>

HolderStep ==
  \/ Acquire \/ ReadFails \/ ReadMangled
  \/ ReadFlush \/ ReadSettle \/ ReadAcknowledge \/ ReadSweep \/ CountStored
  \/ WriteQuarantine \/ WriteReset \/ WriteDead \/ WritePending
  \/ DeletePending \/ DeleteDead \/ Respond \/ Reject

Next ==
  \/ Tick
  \/ \E d \in Delivery : Enqueue(d)
  \/ \E b \in Batch : WindowCloses(b)
  \/ \E op \in {"settle", "acknowledge", "sweep"} : Request(op)
  \/ Clear
  \/ HolderStep
  \/ Crash
  \/ Mangle

\* The batch timer fires and every storage call returns, with one outcome or another.
Fairness == WF_vars(HolderStep) /\ \A b \in Batch : WF_vars(WindowCloses(b))

Spec == Init /\ [][Next]_vars /\ Fairness

-----------------------------------------------------------------------------
(* Properties *)

\* An identity is stored at most once in each array, however deliveries, retries
\* and half-applied promotions interleave (enqueue's dedupe and appendDead's check).
NoDuplicates ==
  /\ \A x, y \in pending : x.item = y.item => x = y
  /\ \A x, y \in dead : x.item = y.item => x = y

\* Every delivery answered 202 as queued is still stored, in one of the two arrays,
\* until an operation that names it (done, acknowledged, dropped by a cap, cleared)
\* lands: no failed write, lost response or crash between the writes loses one.
AckedIsStored == owed \subseteq Ids(pending) \cup Ids(dead)

\* A completed clear leaves nothing of what was accepted before it was called,
\* neither from a batch still open nor from one whose flush was waiting (F005).
ClearSupersedes ==
  \A x \in pending \cup dead : x.receivedAt >= clearedAt

\* The dead-letter's reasons are true: the attempt rule needs the full budget, an
\* item awaiting its transcript gets there by the TTL only, and the TTL ones are old.
DeadIsJustified ==
  \A x \in dead :
    /\ x.reason = "item_error" => x.attempts >= MaxAttempts
    /\ x.reason # "awaiting_transcript"
    /\ x.reason \in {"ttl_expired", "awaiting_transcript_timeout"}
         => x.receivedAt + TTL <= x.deadAt /\ x.attempts < MaxAttempts

\* Of the batches that clear() has not superseded, one is being flushed and one is
\* open or waiting behind it: a burst costs each delivery at most two flushes.
AtMostTwoLiveBatches ==
  Cardinality({b \in Batch : batches[b].stage # "free" /\ ~ batches[b].superseded}) <= 2

\* A delivery of an identity that stays queued moves its receivedAt and nothing else,
\* and no operation takes back attempts or holds: the retry budget, the backoff and the
\* provider's timestamp survive, unless the old item had expired and the operation
\* promoted it first.
RedeliveryKeepsState ==
  [][\A x \in pending, y \in pending' :
       x.item = y.item =>
         \/ /\ y.first = x.first
            /\ y.attempts >= x.attempts /\ y.requeues >= x.requeues
            /\ lock # <<>> /\ Holder.op = "flush" => y = [x EXCEPT !.receivedAt = y.receivedAt]
         \/ x.receivedAt + TTL <= now]_vars

\* A pending value that cannot be parsed is only reset when a copy of it is in
\* quarantine, or by a clear.
QuarantineFirst ==
  [][mangled /\ ~ mangled' => quarantined \/ phase = "deletePending"]_vars

\* What the queue is to its callers is a DeliveryBook: the two writes of a promotion,
\* and whatever fails or crashes between them, appear as one step or none; nothing
\* enters but from a batch that no clear has superseded.
Offered == UNION {Carried(batches[b].entries) : b \in {c \in Batch : ~ batches[c].superseded}}

Book == INSTANCE DeliveryBook WITH
  offered <- Offered,
  waiting <- Ids(pending),
  failed <- Ids(dead) \ Ids(pending),
  promised <- owed

BookSpec == Book!Spec

\* Every delivery accepted is answered, or lost with the process.
EveryDeliveryAnswered ==
  \A d \in Delivery : caller[d] = "waiting" ~> caller[d] = "over"
=============================================================================
