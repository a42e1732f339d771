----------------------------- MODULE FetchWorker -----------------------------
(***************************************************************************)
(* The fetch worker of one process: ConnectorFetchWorker in                *)
(* src/backend/src/services/fetch-worker.ts, nudged after each delivery by *)
(* services/ingest-nudge.ts and swept by its own timer.                    *)
(*                                                                         *)
(* A pass takes the addresses nudged since the last one (a sweep takes the *)
(* whole cohort), and runs a lane for each: the due items one after the    *)
(* other through the tombstone check, a slot of the provider's budget, the *)
(* fetch and the store, and one settle for all of them.  A call made while *)
(* a pass is queued joins it; the queued pass waits for the running one.   *)
(*                                                                         *)
(* The connector queue and the content store have modules of their own and *)
(* are here only what the worker's calls show of them.  A step is the code *)
(* between two awaits.  The cohort does not change.                        *)
(***************************************************************************)
EXTENDS Naturals, Sequences, FiniteSets

CONSTANTS
  Address,        \* the cohort: a lane each
  Item,           \* pending identities (a kind of a meeting)
  AddressOf,      \* whose each is
  Pass,           \* names for passes: one that runs, one that is queued
  Slots,          \* CONNECTOR_FETCH_CONCURRENCY
  MaxPerPass,     \* MAX_ITEMS_PER_PASS
  Purgeable,      \* bound: the items a teardown purges
  MaxDeliveries,  \* bound on deliveries
  MaxFaults,      \* bound on failed calls, throttles, crashes and stops
  None

ASSUME WorkerAssumption ==
  /\ IsFiniteSet(Address)
  /\ AddressOf \in [Item -> Address]
  /\ {Slots, MaxPerPass} \subseteq Nat \ {0}
  /\ {MaxDeliveries, MaxFaults} \subseteq Nat
  /\ Purgeable \subseteq Item
  /\ None \notin Pass \cup Item

VARIABLES
  status,      \* where each identity is in the queue; "backoff": pending, not due yet
  stored,      \* the items whose content the store holds
  barred,      \* the items a completed teardown purged
  owed,        \* acknowledged deliveries whose nudge has not been made
  started,     \* start() was called: the timer and the nudge are registered
  dirty,       \* addresses nudged since a pass last took them
  pass,        \* where each pass is
  sweep,       \* whether it takes the whole cohort
  queued,      \* this.queued
  active,      \* this.active: the pass that runs (a settled promise is as good as none)
  lane,        \* where each address's lane is
  gated,       \* the lanes held by a 429 or by a credential
  available,   \* free slots of the semaphore
  waiters,     \* lanes waiting for a slot, in order
  deliveries,
  faults,
  unread       \* ghost: the last read of the cohort failed

store == <<stored, barred>>
schedule == <<pass, sweep, queued, active>>
slots == <<available, waiters>>
bounds == <<deliveries, faults>>
vars == <<status, store, owed, started, dirty, schedule, lane, gated, slots, bounds, unread>>

Pending == {"due", "backoff"}
\* "failed" burns an attempt; "held" is a failure of the content store, which burns none.
Verdict == {"done", "failed", "held", "terminal"}

\* A lane that works on no item
Between(where, batch, out) == [at |-> where, item |-> None, batch |-> batch, out |-> out]
Idle == Between("idle", {}, {})

Lane ==
  [at : {"idle", "due", "credential", "settle"},
   item : {None}, batch : SUBSET Item, out : SUBSET (Item \X Verdict)]
  \cup
  [at : {"guard", "slot", "parked", "fetch", "store"},
   item : Item, batch : SUBSET Item, out : SUBSET (Item \X Verdict)]

TypeOK ==
  /\ status \in [Item -> Pending \cup {"gone", "dead"}]
  /\ stored \subseteq Item /\ barred \subseteq Item
  /\ owed \subseteq Address /\ dirty \subseteq Address
  /\ started \in BOOLEAN /\ unread \in BOOLEAN
  /\ pass \in [Pass -> {"free", "queued", "cohort", "lanes"}]
  /\ sweep \in [Pass -> BOOLEAN]
  /\ {queued, active} \subseteq Pass \cup {None}
  /\ lane \in [Address -> Lane]
  /\ gated \subseteq Address
  /\ available \in 0..Slots
  /\ waiters \in Seq(Address)
  /\ {deliveries, faults} \subseteq Nat

Init ==
  /\ status = [i \in Item |-> "gone"]
  /\ stored = {} /\ barred = {}
  /\ owed = {} /\ dirty = {}
  /\ started = TRUE /\ unread = FALSE
  /\ pass = [p \in Pass |-> "free"]
  /\ sweep = [p \in Pass |-> FALSE]
  /\ queued = None /\ active = None
  /\ lane = [a \in Address |-> Idle]
  /\ gated = {}
  /\ available = Slots
  /\ waiters = <<>>
  /\ deliveries = 0 /\ faults = 0

Fault == faults < MaxFaults /\ faults' = faults + 1 /\ UNCHANGED deliveries

-----------------------------------------------------------------------------
(* Deliveries and passes                                                   *)

\* A delivery of an identity that is pending already is absorbed.
Deliver(i) ==
  /\ deliveries < MaxDeliveries
  /\ deliveries' = deliveries + 1
  /\ status' = [status EXCEPT ![i] = IF @ \in Pending THEN @ ELSE "due"]
  /\ owed' = owed \cup {AddressOf[i]}
  /\ UNCHANGED <<store, started, dirty, schedule, lane, gated, slots, faults, unread>>

\* schedulePass: join the queued pass, or queue one behind the active one.
SchedulePass(all) ==
  /\ IF queued # None
     THEN /\ sweep' = [sweep EXCEPT ![queued] = @ \/ all]
          /\ UNCHANGED <<pass, queued>>
     ELSE LET p == CHOOSE q \in Pass : pass[q] = "free"
          IN /\ pass' = [pass EXCEPT ![p] = "queued"]
             /\ sweep' = [sweep EXCEPT ![p] = all]
             /\ queued' = p
  /\ UNCHANGED active

\* Mutant: a nudge leaves the work to the pass that is running.
NudgeRunning(a) ==
  /\ a \in owed /\ started
  /\ owed' = owed \ {a}
  /\ dirty' = dirty \cup {a}
  /\ IF active = None THEN SchedulePass(FALSE) ELSE UNCHANGED schedule
  /\ UNCHANGED <<status, store, started, lane, gated, slots, bounds, unread>>

Nudge(a) ==
  /\ a \in owed /\ started
  /\ owed' = owed \ {a}
  /\ dirty' = dirty \cup {a}
  /\ SchedulePass(FALSE)
  /\ UNCHANGED <<status, store, started, lane, gated, slots, bounds, unread>>

\* No worker is registered, or the address's mode cannot be read.
NudgeLost(a) ==
  /\ a \in owed
  /\ owed' = owed \ {a}
  /\ IF started THEN Fault ELSE UNCHANGED bounds
  /\ UNCHANGED <<status, store, started, dirty, schedule, lane, gated, slots, unread>>

\* The interval of start()
Sweep ==
  /\ started
  /\ SchedulePass(TRUE)
  /\ UNCHANGED <<status, store, owed, started, dirty, lane, gated, slots, bounds, unread>>

\* Mutant: the queued pass does not wait for the one before it.
StartQueuedAtOnce(p) ==
  /\ queued = p
  /\ pass' = [pass EXCEPT ![p] = "cohort"]
  /\ queued' = None
  /\ active' = p
  /\ UNCHANGED <<status, store, owed, started, dirty, sweep, lane, gated, slots, bounds, unread>>

\* Mutant: the started pass stays the queued one, and calls go on joining it.
StartQueuedKept(p) ==
  /\ queued = p
  /\ active = None
  /\ pass' = [pass EXCEPT ![p] = "cohort"]
  /\ active' = p
  /\ UNCHANGED <<status, store, owed, started, dirty, sweep, queued, lane, gated, slots, bounds, unread>>

StartQueued(p) ==
  /\ queued = p
  /\ active = None
  /\ pass' = [pass EXCEPT ![p] = "cohort"]
  /\ queued' = None
  /\ active' = p
  /\ UNCHANGED <<status, store, owed, started, dirty, sweep, lane, gated, slots, bounds, unread>>

\* targets: the nudged addresses are taken once the cohort is read, and a lane that
\* is held is left out.
CohortRead(p) ==
  /\ pass[p] = "cohort"
  /\ LET targets == (IF sweep[p] THEN Address ELSE dirty) \ gated
     IN lane' = [a \in Address |-> IF a \in targets THEN Between("due", {}, {}) ELSE lane[a]]
  /\ pass' = [pass EXCEPT ![p] = "lanes"]
  /\ sweep' = [sweep EXCEPT ![p] = FALSE]
  /\ dirty' = {}
  /\ unread' = FALSE
  /\ UNCHANGED <<status, store, owed, started, queued, active, gated, slots, bounds>>

EndPass(p) ==
  /\ pass' = [pass EXCEPT ![p] = "free"]
  /\ sweep' = [sweep EXCEPT ![p] = FALSE]
  /\ active' = IF active = p THEN None ELSE active

\* Fail closed: the pass ends, and the nudges stay for the next one.
CohortFails(p) ==
  /\ pass[p] = "cohort"
  /\ Fault
  /\ EndPass(p)
  /\ unread' = TRUE
  /\ UNCHANGED <<status, store, owed, started, dirty, queued, lane, gated, slots>>

PassEnds(p) ==
  /\ pass[p] = "lanes"
  /\ \A a \in Address : lane[a].at = "idle"
  /\ EndPass(p)
  /\ UNCHANGED <<status, store, owed, started, dirty, queued, lane, gated, slots, bounds, unread>>

-----------------------------------------------------------------------------
(* One lane                                                                *)

LaneOnly == UNCHANGED <<owed, started, dirty, schedule, unread>>

DueItems(a) == {i \in Item : AddressOf[i] = a /\ status[i] = "due"}

\* The loop of runLane: the next item of the batch, or the settle, or the end.
Onward(batch, out) ==
  IF batch # {}
  THEN {[at |-> "guard", item |-> i, batch |-> batch \ {i}, out |-> out] : i \in batch}
  ELSE {IF out = {} THEN Idle ELSE Between("settle", {}, out)}

\* At most MaxPerPass of the items due.
ReadDue(a) ==
  /\ lane[a].at = "due"
  /\ \E B \in SUBSET DueItems(a) :
       /\ Cardinality(B) = IF Cardinality(DueItems(a)) < MaxPerPass
                           THEN Cardinality(DueItems(a)) ELSE MaxPerPass
       /\ lane' = [lane EXCEPT ![a] = IF B = {} THEN Idle
                                      ELSE Between("credential", B, {})]
  /\ UNCHANGED <<status, store, gated, slots, bounds>> /\ LaneOnly

ReadDueFails(a) ==
  /\ lane[a].at = "due"
  /\ Fault
  /\ lane' = [lane EXCEPT ![a] = Idle]
  /\ UNCHANGED <<status, store, gated, slots>> /\ LaneOnly

GetCredential(a) ==
  /\ lane[a].at = "credential"
  /\ \E l \in Onward(lane[a].batch, {}) : lane' = [lane EXCEPT ![a] = l]
  /\ UNCHANGED <<status, store, gated, slots, bounds>> /\ LaneOnly

\* holdLane: the credential is missing or unreadable.
HoldLane(a) ==
  /\ lane[a].at = "credential"
  /\ Fault
  /\ gated' = gated \cup {a}
  /\ lane' = [lane EXCEPT ![a] = Idle]
  /\ UNCHANGED <<status, store, slots>> /\ LaneOnly

\* A tombstoned item is done; an item whose ledger cannot be read is left as it is.
Guard(a) ==
  /\ lane[a].at = "guard"
  /\ IF lane[a].item \in barred
     THEN \E l \in Onward(lane[a].batch, lane[a].out \cup {<<lane[a].item, "done">>}) :
            lane' = [lane EXCEPT ![a] = l]
     ELSE lane' = [lane EXCEPT ![a].at = "slot"]
  /\ UNCHANGED <<status, store, gated, slots, bounds>> /\ LaneOnly

GuardFails(a) ==
  /\ lane[a].at = "guard"
  /\ Fault
  /\ \E l \in Onward(lane[a].batch, lane[a].out) : lane' = [lane EXCEPT ![a] = l]
  /\ UNCHANGED <<status, store, gated, slots>> /\ LaneOnly

\* Mutant: a slot too many is given away.
AcquireOneMore(a) ==
  /\ lane[a].at = "slot"
  /\ available' = available - 1
  /\ lane' = [lane EXCEPT ![a].at = "fetch"]
  /\ UNCHANGED <<status, store, gated, waiters, bounds>> /\ LaneOnly

\* Semaphore.acquire, after the pacing
Acquire(a) ==
  /\ lane[a].at = "slot"
  /\ IF available > 0
     THEN /\ available' = available - 1
          /\ lane' = [lane EXCEPT ![a].at = "fetch"]
          /\ UNCHANGED waiters
     ELSE /\ waiters' = Append(waiters, a)
          /\ lane' = [lane EXCEPT ![a].at = "parked"]
          /\ UNCHANGED available
  /\ UNCHANGED <<status, store, gated, bounds>> /\ LaneOnly

\* Mutant: a slot that is handed to a waiter is also counted as free.
ReleaseTwice(a, l) ==
  /\ available' = IF available < Slots THEN available + 1 ELSE available
  /\ IF waiters # <<>>
     THEN /\ waiters' = Tail(waiters)
          /\ lane' = [lane EXCEPT ![a] = l, ![Head(waiters)].at = "fetch"]
     ELSE /\ lane' = [lane EXCEPT ![a] = l]
          /\ UNCHANGED waiters

\* Semaphore.release: a waiter takes the slot over.
Release(a, l) ==
  IF waiters # <<>>
  THEN /\ waiters' = Tail(waiters)
       /\ lane' = [lane EXCEPT ![a] = l, ![Head(waiters)].at = "fetch"]
       /\ UNCHANGED available
  ELSE /\ available' = IF available < Slots THEN available + 1 ELSE available
       /\ lane' = [lane EXCEPT ![a] = l]
       /\ UNCHANGED waiters

FetchOk(a) ==
  /\ lane[a].at = "fetch"
  /\ Release(a, [lane[a] EXCEPT !.at = "store"])
  /\ UNCHANGED <<status, store, gated, bounds>> /\ LaneOnly

\* A timeout, a throw or an error of the provider; an unknown meeting and an answer
\* with another id are terminal.
FetchFails(a) ==
  /\ lane[a].at = "fetch"
  /\ Fault
  /\ \E v \in {"failed", "terminal"} :
       \E l \in Onward(lane[a].batch, lane[a].out \cup {<<lane[a].item, v>>}) : Release(a, l)
  /\ UNCHANGED <<status, store, gated>> /\ LaneOnly

\* Mutant: the lane goes on to its next item.
ThrottledOnward(a) ==
  /\ lane[a].at = "fetch"
  /\ Fault
  /\ gated' = gated \cup {a}
  /\ \E l \in Onward(lane[a].batch, lane[a].out) : Release(a, l)
  /\ UNCHANGED <<status, store>> /\ LaneOnly

\* A 429, or a refused credential: the lane is held and stops, and no attempt is burnt.
Throttled(a) ==
  /\ lane[a].at = "fetch"
  /\ Fault
  /\ gated' = gated \cup {a}
  /\ \E l \in Onward({}, lane[a].out) : Release(a, l)
  /\ UNCHANGED <<status, store>> /\ LaneOnly

\* Mutant: the store trusts the check the worker made before the fetch.
StoreUnchecked(a) ==
  /\ lane[a].at = "store"
  /\ stored' = stored \cup {lane[a].item}
  /\ \E l \in Onward(lane[a].batch, lane[a].out \cup {<<lane[a].item, "done">>}) :
       lane' = [lane EXCEPT ![a] = l]
  /\ UNCHANGED <<status, barred, gated, slots, bounds>> /\ LaneOnly

\* content.upsert checks the tombstones again; its refusal (content_store_failed) is no
\* state of the item and burns no attempt.
Store(a) ==
  /\ lane[a].at = "store"
  /\ LET i == lane[a].item
         v == IF i \in barred THEN "held" ELSE "done"
     IN /\ stored' = stored \cup ({i} \ barred)
        /\ \E l \in Onward(lane[a].batch, lane[a].out \cup {<<i, v>>}) :
             lane' = [lane EXCEPT ![a] = l]
  /\ UNCHANGED <<status, barred, gated, slots, bounds>> /\ LaneOnly

\* Mutant: any answer of the store counts as stored.
StoreFailsDone(a) ==
  /\ lane[a].at = "store"
  /\ Fault
  /\ \E l \in Onward(lane[a].batch, lane[a].out \cup {<<lane[a].item, "done">>}) :
       lane' = [lane EXCEPT ![a] = l]
  /\ UNCHANGED <<status, store, gated, slots>> /\ LaneOnly

\* The store throws or answers no success: content_store_failed, as for a refusal.
StoreFails(a) ==
  /\ lane[a].at = "store"
  /\ Fault
  /\ \E l \in Onward(lane[a].batch, lane[a].out \cup {<<lane[a].item, "held">>}) :
       lane' = [lane EXCEPT ![a] = l]
  /\ UNCHANGED <<status, store, gated, slots>> /\ LaneOnly

\* The items with this verdict that are still in the queue.
Settled(a, verdict) == {i \in Item : status[i] \in Pending /\ <<i, verdict>> \in lane[a].out}

\* One settle for the lane: an item that burnt an attempt or is held is due again later;
\* one that burnt its last attempt, or is terminal, is given up.
Settle(a) ==
  /\ lane[a].at = "settle"
  /\ \E given \in SUBSET Settled(a, "failed") :
       LET dead  == Settled(a, "terminal") \cup given
           later == (Settled(a, "failed") \cup Settled(a, "held")) \ dead
       IN status' = [i \in Item |-> IF i \in dead THEN "dead"
                                    ELSE IF i \in later THEN "backoff"
                                    ELSE IF i \in Settled(a, "done") THEN "gone" ELSE status[i]]
  /\ lane' = [lane EXCEPT ![a] = Idle]
  /\ UNCHANGED <<store, gated, slots, bounds>> /\ LaneOnly

\* The items stay pending; what was stored is stored again.
SettleFails(a) ==
  /\ lane[a].at = "settle"
  /\ Fault
  /\ lane' = [lane EXCEPT ![a] = Idle]
  /\ UNCHANGED <<status, store, gated, slots>> /\ LaneOnly

-----------------------------------------------------------------------------
(* Time and the rest of the process                                        *)

GateExpires(a) ==
  /\ a \in gated
  /\ gated' = gated \ {a}
  /\ UNCHANGED <<status, store, lane, slots, bounds>> /\ LaneOnly

BackoffExpires(i) ==
  /\ status[i] = "backoff"
  /\ status' = [status EXCEPT ![i] = "due"]
  /\ UNCHANGED <<store, lane, gated, slots, bounds>> /\ LaneOnly

\* A teardown is done with the item: content.purge has ended, the queue is cleared.
Purge(i) ==
  /\ i \in Purgeable \ barred
  /\ barred' = barred \cup {i}
  /\ stored' = stored \ {i}
  /\ status' = [status EXCEPT ![i] = IF @ \in Pending THEN "gone" ELSE @]
  /\ UNCHANGED <<lane, gated, slots, bounds>> /\ LaneOnly

\* The passes in progress and queued go on.
Stop ==
  /\ started
  /\ Fault
  /\ started' = FALSE
  /\ UNCHANGED <<status, store, owed, dirty, schedule, lane, gated, slots, unread>>

Start ==
  /\ ~started
  /\ started' = TRUE
  /\ UNCHANGED <<status, store, owed, dirty, schedule, lane, gated, slots, bounds, unread>>

\* Everything but the queue and the store is in memory.
Crash ==
  /\ Fault
  /\ owed' = {} /\ dirty' = {}
  /\ started' = FALSE /\ unread' = FALSE
  /\ pass' = [p \in Pass |-> "free"]
  /\ sweep' = [p \in Pass |-> FALSE]
  /\ queued' = None /\ active' = None
  /\ lane' = [a \in Address |-> Idle]
  /\ gated' = {}
  /\ available' = Slots /\ waiters' = <<>>
  /\ UNCHANGED <<status, store>>

-----------------------------------------------------------------------------
LaneStep(a) ==
  ReadDue(a) \/ GetCredential(a) \/ Guard(a) \/ Acquire(a) \/ FetchOk(a) \/ Store(a) \/ Settle(a)

LaneFault(a) ==
  \/ ReadDueFails(a) \/ HoldLane(a) \/ GuardFails(a) \/ FetchFails(a)
  \/ Throttled(a) \/ StoreFails(a) \/ SettleFails(a)

Next ==
  \/ \E i \in Item : Deliver(i) \/ BackoffExpires(i) \/ Purge(i)
  \/ \E a \in Address : Nudge(a) \/ NudgeLost(a) \/ GateExpires(a) \/ LaneStep(a) \/ LaneFault(a)
  \/ \E p \in Pass : StartQueued(p) \/ CohortRead(p) \/ CohortFails(p) \/ PassEnds(p)
  \/ Sweep \/ Stop \/ Start \/ Crash

\* A call answers or fails (fetches and storage calls have timeouts), timers fire,
\* and the supervisor starts the worker again.
Fairness ==
  /\ \A p \in Pass : WF_vars(StartQueued(p)) /\ WF_vars(CohortRead(p)) /\ WF_vars(PassEnds(p))
  /\ \A a \in Address : WF_vars(LaneStep(a)) /\ WF_vars(GateExpires(a))
  /\ \A i \in Item : WF_vars(BackoffExpires(i))
  /\ WF_vars(Sweep) /\ WF_vars(Start)

Spec == Init /\ [][Next]_vars /\ Fairness

-----------------------------------------------------------------------------
(* Properties                                                              *)

\* At most one pass runs, however nudges, sweeps and failures follow each other: two
\* would fetch an address's items side by side.  (fetch-worker.ts:589)
OnePassAtATime ==
  \A p, q \in Pass : pass[p] \in {"cohort", "lanes"} /\ pass[q] \in {"cohort", "lanes"} => p = q

\* A nudged address has a pass ahead of it that will take it, also when the nudge
\* came while a pass was running; only an unreadable cohort leaves it to the timer.
NudgeHasPass ==
  dirty # {} => unread \/ queued # None \/ \E p \in Pass : pass[p] = "cohort"

\* The lanes hold exactly the slots of the provider's budget that are not free, and a
\* lane waits only while none is.  (fetch-worker.ts: the global semaphore)
SlotsAreHeld ==
  /\ Cardinality({a \in Address : lane[a].at = "fetch"}) + available = Slots
  /\ (waiters # <<>>) => (available = 0)

\* A meeting that a teardown purged while the worker was fetching it is not stored.
\* (fetch-worker.ts checks before the fetch, content-store.ts again at the store)
BarredStaysOut == barred \cap stored = {}

\* An item leaves the queue only for the dead letters, because its content is in the
\* store, or because it must not be.  (fetch-worker.ts:47-50, "Fail closed")
DoneIsStored ==
  [][\A i \in Item : status[i] \in Pending /\ status'[i] = "gone" => i \in (stored \cup barred)']_vars

\* A lane that a 429 or its credential holds makes no call to the provider until its
\* time is over: not from its batch, not by a nudge, a sweep or a slot handed over.
GatedLaneIsQuiet ==
  [][\A a \in gated \cap gated' : lane'[a].at = "fetch" => lane[a].at = "fetch"]_vars

\* Every delivered item is stored or dead-lettered in the end, whatever nudges,
\* reads, fetches and settles were lost on the way.
EveryDeliveryIsAnswered ==
  \A i \in Item : status[i] \in Pending ~> status[i] \notin Pending
=============================================================================
