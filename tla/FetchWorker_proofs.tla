-------------------------- MODULE FetchWorker_proofs --------------------------
(***************************************************************************)
(* Theorems about FetchWorker and their proofs, for any addresses, items   *)
(* and limits: one pass at a time with every nudge in front of one, the    *)
(* exactness of the provider's slots, and what may leave the queue.        *)
(***************************************************************************)
EXTENDS FetchWorker, FiniteSetTheorems, TLAPS

\* Names enough for a pass that runs and one that is queued.
TwoPasses == \E p, q \in Pass : p # q

\* `queued` and `active` name the passes that are queued and that run.
PassOrder ==
  /\ \A p \in Pass : pass[p] = "queued" <=> p = queued
  /\ \A p \in Pass : pass[p] \in {"cohort", "lanes"} <=> p = active

\* Lanes run only in a pass that is past its cohort read.
LanesInPass ==
  (\E a \in Address : lane[a].at # "idle") => \E p \in Pass : pass[p] = "lanes"

\* The waiters are lanes that are parked, each once.
WaitersParked ==
  /\ \A n \in 1..Len(waiters) : lane[waiters[n]].at = "parked"
  /\ \A n, k \in 1..Len(waiters) : waiters[n] = waiters[k] => n = k

\* What a lane will settle as done is stored or must not be.
DoneIsTrue ==
  \A a \in Address, i \in Item : <<i, "done">> \in lane[a].out => i \in stored \cup barred

\* A held lane is at its settle or past it.
HeldIsPast == \A a \in gated : lane[a].at \in {"idle", "settle"}

Fetching == {a \in Address : lane[a].at = "fetch"}

PassInv == TypeOK /\ PassOrder /\ LanesInPass
SlotInv == SlotsAreHeld /\ WaitersParked
ItemInv == BarredStaysOut /\ DoneIsTrue /\ HeldIsPast

-----------------------------------------------------------------------------
(* Steps of a lane                                                         *)

\* The next place of a lane is a check, a settle or the end, and keeps the verdicts.
LEMMA OnwardLane ==
  ASSUME NEW batch \in SUBSET Item, NEW out \in SUBSET (Item \X Verdict),
         NEW l \in Onward(batch, out)
  PROVE /\ l \in Lane
        /\ l.at \in {"guard", "settle", "idle"}
        /\ l.out = out
        /\ batch = {} => l.at \in {"settle", "idle"}
<1>1. CASE batch = {}
  BY <1>1 DEF Onward, Idle, Between, Lane
<1>2. CASE batch # {}
  <2>1. PICK i \in batch :
          l = [at |-> "guard", item |-> i, batch |-> batch \ {i}, out |-> out]
    BY <1>2 DEF Onward
  <2> QED BY <1>2, <2>1 DEF Lane
<1> QED BY <1>1, <1>2

\* A lane that goes on with its item keeps the rest.
LEMMA WithItem ==
  ASSUME NEW l \in Lane, l.item \in Item,
         NEW w \in {"slot", "parked", "fetch", "store"}
  PROVE /\ [l EXCEPT !.at = w] \in Lane
        /\ [l EXCEPT !.at = w].at = w
        /\ [l EXCEPT !.at = w].out = l.out
<1>1. l \in [at : {"guard", "slot", "parked", "fetch", "store"},
            item : Item, batch : SUBSET Item, out : SUBSET (Item \X Verdict)]
  BY WorkerAssumption DEF Lane
<1>2. [l EXCEPT !.at = w] \in [at : {"guard", "slot", "parked", "fetch", "store"},
            item : Item, batch : SUBSET Item, out : SUBSET (Item \X Verdict)]
  BY <1>1
<1>3. [l EXCEPT !.at = w].at = w /\ [l EXCEPT !.at = w].out = l.out
  BY <1>1
<1> QED BY <1>2, <1>3 DEF Lane

\* The lane steps that neither take nor give back a slot.
Inner(a) ==
  \/ ReadDue(a) \/ ReadDueFails(a) \/ GetCredential(a) \/ HoldLane(a) \/ Guard(a) \/ GuardFails(a)
  \/ Store(a) \/ StoreFails(a) \/ Settle(a) \/ SettleFails(a)

\* They move one lane, which runs, and leave the slots and the passes alone.
LEMMA InnerMove ==
  ASSUME TypeOK, NEW a \in Address, Inner(a)
  PROVE /\ \E l \in Lane : l.at \notin {"fetch", "parked"} /\ lane' = [lane EXCEPT ![a] = l]
        /\ lane[a].at \notin {"fetch", "parked", "idle"}
        /\ UNCHANGED <<slots, owed, started, dirty, schedule, unread>>
<1>t. /\ lane \in [Address -> Lane]
      /\ lane[a] \in Lane
      /\ lane[a].batch \in SUBSET Item
      /\ lane[a].out \in SUBSET (Item \X Verdict)
  BY DEF TypeOK, Lane
<1>i. Idle \in Lane /\ Idle.at = "idle"
  BY DEF Idle, Between, Lane
<1>1. CASE ReadDue(a)
  <2>1. PICK B \in SUBSET Item :
          lane' = [lane EXCEPT ![a] = IF B = {} THEN Idle ELSE Between("credential", B, {})]
    BY <1>1 DEF ReadDue, DueItems
  <2>2. Between("credential", B, {}) \in Lane /\ Between("credential", B, {}).at = "credential"
    BY DEF Between, Lane
  <2> QED BY <1>1, <1>i, <2>1, <2>2 DEF ReadDue, LaneOnly, slots
<1>2. CASE ReadDueFails(a) \/ HoldLane(a) \/ SettleFails(a) \/ Settle(a)
  BY <1>2, <1>i DEF ReadDueFails, HoldLane, SettleFails, Settle, LaneOnly
<1>3. CASE GetCredential(a)
  <2>1. PICK l \in Onward(lane[a].batch, {}) : lane' = [lane EXCEPT ![a] = l]
    BY <1>3 DEF GetCredential
  <2> QED BY <1>3, <1>t, <2>1, OnwardLane DEF GetCredential, LaneOnly
<1>4. CASE Guard(a)
  <2>1. lane[a].item \in Item
    BY <1>4, <1>t DEF Guard, Lane
  <2>2. CASE lane[a].item \in barred
    <3>1. lane[a].out \cup {<<lane[a].item, "done">>} \in SUBSET (Item \X Verdict)
      BY <1>t, <2>1 DEF Verdict
    <3>2. PICK l \in Onward(lane[a].batch, lane[a].out \cup {<<lane[a].item, "done">>}) :
            lane' = [lane EXCEPT ![a] = l]
      BY <1>4, <2>2 DEF Guard
    <3>3. l \in Lane /\ l.at \notin {"fetch", "parked"}
      BY <1>t, <3>1, OnwardLane
    <3> QED BY <1>4, <3>2, <3>3 DEF Guard, LaneOnly
  <2>3. CASE lane[a].item \notin barred
    <3>1. lane' = [lane EXCEPT ![a] = [lane[a] EXCEPT !.at = "slot"]]
      BY <1>4, <2>3 DEF Guard
    <3>2. [lane[a] EXCEPT !.at = "slot"] \in Lane /\ [lane[a] EXCEPT !.at = "slot"].at = "slot"
      BY <1>t, <2>1, WithItem
    <3> QED BY <1>4, <3>1, <3>2 DEF Guard, LaneOnly
  <2> QED BY <2>2, <2>3
<1>5. CASE GuardFails(a)
  <2>1. PICK l \in Onward(lane[a].batch, lane[a].out) : lane' = [lane EXCEPT ![a] = l]
    BY <1>5 DEF GuardFails
  <2> QED BY <1>5, <1>t, <2>1, OnwardLane DEF GuardFails, LaneOnly
<1>6. CASE Store(a) \/ StoreFails(a)
  <2>1. lane[a].item \in Item
    BY <1>6, <1>t DEF Store, StoreFails, Lane
  <2>2. PICK v \in Verdict :
          \E l \in Onward(lane[a].batch, lane[a].out \cup {<<lane[a].item, v>>}) :
            lane' = [lane EXCEPT ![a] = l]
    BY <1>6 DEF Store, StoreFails, Verdict
  <2>3. lane[a].out \cup {<<lane[a].item, v>>} \in SUBSET (Item \X Verdict)
    BY <1>t, <2>1
  <2>4. PICK l \in Onward(lane[a].batch, lane[a].out \cup {<<lane[a].item, v>>}) :
          lane' = [lane EXCEPT ![a] = l]
    BY <2>2
  <2>5. l \in Lane /\ l.at \notin {"fetch", "parked"}
    BY <1>t, <2>3, OnwardLane
  <2> QED BY <1>6, <2>4, <2>5 DEF Store, StoreFails, LaneOnly
<1> QED BY <1>1, <1>2, <1>3, <1>4, <1>5, <1>6 DEF Inner

\* The lane steps that give a slot back.
Outer(a) == FetchOk(a) \/ FetchFails(a) \/ Throttled(a)

LEMMA OuterMove ==
  ASSUME TypeOK, NEW a \in Address, Outer(a)
  PROVE /\ \E l \in Lane : l.at \notin {"fetch", "parked"} /\ Release(a, l)
        /\ lane[a].at = "fetch"
        /\ UNCHANGED <<owed, started, dirty, schedule, unread>>
<1>t. /\ lane[a] \in Lane
      /\ lane[a].batch \in SUBSET Item
      /\ lane[a].out \in SUBSET (Item \X Verdict)
  BY DEF TypeOK, Lane
<1>0. lane[a].at = "fetch" /\ lane[a].item \in Item
  BY <1>t DEF Outer, FetchOk, FetchFails, Throttled, Lane
<1>1. CASE FetchOk(a)
  <2>1. /\ [lane[a] EXCEPT !.at = "store"] \in Lane
        /\ [lane[a] EXCEPT !.at = "store"].at = "store"
    BY <1>t, <1>0, WithItem
  <2> QED BY <1>0, <1>1, <2>1 DEF FetchOk, LaneOnly
<1>2. CASE FetchFails(a)
  <2>1. PICK v \in Verdict :
          \E l \in Onward(lane[a].batch, lane[a].out \cup {<<lane[a].item, v>>}) : Release(a, l)
    BY <1>2 DEF FetchFails, Verdict
  <2>2. PICK l \in Onward(lane[a].batch, lane[a].out \cup {<<lane[a].item, v>>}) : Release(a, l)
    BY <2>1
  <2>3. lane[a].out \cup {<<lane[a].item, v>>} \in SUBSET (Item \X Verdict)
    BY <1>t, <1>0
  <2>4. l \in Lane /\ l.at \notin {"fetch", "parked"}
    BY <1>t, <2>3, OnwardLane
  <2> QED BY <1>0, <1>2, <2>2, <2>4 DEF FetchFails, LaneOnly
<1>3. CASE Throttled(a)
  <2>1. PICK l \in Onward({}, lane[a].out) : Release(a, l)
    BY <1>3 DEF Throttled
  <2>2. l \in Lane /\ l.at \notin {"fetch", "parked"}
    BY <1>t, OnwardLane
  <2> QED BY <1>0, <1>3, <2>1, <2>2 DEF Throttled, LaneOnly
<1> QED BY <1>1, <1>2, <1>3 DEF Outer

\* A released slot goes to the first waiter, or is free again.
LEMMA ReleaseEffect ==
  ASSUME TypeOK, WaitersParked, NEW a \in Address, NEW l \in Lane, lane[a].at = "fetch", Release(a, l)
  PROVE /\ lane' \in [Address -> Lane]
        /\ lane'[a] = l
        /\ \/ /\ waiters = <<>> /\ waiters' = <<>>
              /\ available' = IF available < Slots THEN available + 1 ELSE available
              /\ \A b \in Address \ {a} : lane'[b] = lane[b]
           \/ \E h \in Address \ {a} :
                /\ waiters # <<>> /\ h = Head(waiters)
                /\ waiters' = Tail(waiters) /\ available' = available
                /\ lane[h].at = "parked" /\ lane'[h].at = "fetch" /\ lane'[h].out = lane[h].out
                /\ \A b \in Address \ {a, h} : lane'[b] = lane[b]
<1>t. lane \in [Address -> Lane] /\ waiters \in Seq(Address)
  BY DEF TypeOK
<1>1. CASE waiters = <<>>
  BY <1>1, <1>t DEF Release
<1>2. CASE waiters # <<>>
  <2>1. /\ Len(waiters) \in Nat /\ 1 \in 1..Len(waiters)
        /\ Head(waiters) = waiters[1] /\ Head(waiters) \in Address
    BY <1>2, <1>t
  <2>2. PICK h \in Address : h = Head(waiters)
    BY <2>1
  <2>3. lane[h].at = "parked" /\ h # a
    BY <2>1, <2>2 DEF WaitersParked
  <2>4. lane[h] \in Lane /\ lane[h].item \in Item
    BY <1>t, <2>3 DEF Lane
  <2>5. /\ [lane[h] EXCEPT !.at = "fetch"] \in Lane
        /\ [lane[h] EXCEPT !.at = "fetch"].at = "fetch"
        /\ [lane[h] EXCEPT !.at = "fetch"].out = lane[h].out
    BY <2>4, WithItem
  <2>6. lane' = [lane EXCEPT ![a] = l, ![h] = [lane[h] EXCEPT !.at = "fetch"]]
    <3>1. lane' = [lane EXCEPT ![a] = l, ![h].at = "fetch"]
      BY <1>2, <2>2 DEF Release
    <3> DEFINE mid == [lane EXCEPT ![a] = l]
    <3>2. lane' = [mid EXCEPT ![h] = [mid[h] EXCEPT !.at = "fetch"]]
      BY <3>1
    <3>3. mid[h] = lane[h]
      BY <1>t, <2>3
    <3> QED BY <3>2, <3>3
  <2> QED BY <1>2, <1>t, <2>2, <2>3, <2>5, <2>6 DEF Release
<1> QED BY <1>1, <1>2

\* A lane takes a free slot, or parks.
LEMMA AcquireEffect ==
  ASSUME TypeOK, NEW a \in Address, Acquire(a)
  PROVE \E l \in Lane :
          /\ lane' = [lane EXCEPT ![a] = l]
          /\ l.out = lane[a].out
          /\ \/ available > 0 /\ available' = available - 1 /\ l.at = "fetch" /\ waiters' = waiters
             \/ available = 0 /\ available' = available /\ l.at = "parked" /\ waiters' = Append(waiters, a)
<1>t. lane \in [Address -> Lane] /\ available \in 0..Slots /\ Slots \in Nat
  BY WorkerAssumption DEF TypeOK
<1>1. lane[a] \in Lane /\ lane[a].item \in Item
  BY <1>t DEF Acquire, Lane
<1>2. ASSUME NEW w \in {"parked", "fetch"}
      PROVE /\ [lane[a] EXCEPT !.at = w] \in Lane
            /\ [lane[a] EXCEPT !.at = w].at = w
            /\ [lane[a] EXCEPT !.at = w].out = lane[a].out
  <2>1. w \in {"slot", "parked", "fetch", "store"}
    OBVIOUS
  <2> QED BY <1>1, <2>1, WithItem
<1>3. CASE available > 0
  <2>1. lane' = [lane EXCEPT ![a] = [lane[a] EXCEPT !.at = "fetch"]]
    BY <1>3 DEF Acquire
  <2> QED BY <1>2, <1>3, <2>1 DEF Acquire
<1>4. CASE ~(available > 0)
  <2>1. lane' = [lane EXCEPT ![a] = [lane[a] EXCEPT !.at = "parked"]]
    BY <1>4 DEF Acquire
  <2>2. available = 0
    BY <1>4, <1>t
  <2> QED BY <1>2, <1>4, <2>1, <2>2 DEF Acquire
<1> QED BY <1>3, <1>4

-----------------------------------------------------------------------------
(* Passes                                                                  *)

\* A call finds the queued pass or a free name; the pass that runs is not touched.
LEMMA Scheduled ==
  ASSUME TwoPasses, TypeOK, PassOrder, NEW all \in BOOLEAN, SchedulePass(all)
  PROVE /\ pass' \in [Pass -> {"free", "queued", "cohort", "lanes"}]
        /\ sweep' \in [Pass -> BOOLEAN]
        /\ queued' \in Pass /\ active' = active
        /\ \A p \in Pass : pass[p] \in {"cohort", "lanes"} => pass'[p] = pass[p]
        /\ PassOrder'
<1>t. /\ pass \in [Pass -> {"free", "queued", "cohort", "lanes"}]
      /\ sweep \in [Pass -> BOOLEAN]
      /\ queued \in Pass \cup {None}
      /\ None \notin Pass
  BY WorkerAssumption DEF TypeOK
<1>1. CASE queued # None
  BY <1>1, <1>t DEF SchedulePass, PassOrder
<1>2. CASE queued = None
  <2> DEFINE r == CHOOSE q \in Pass : pass[q] = "free"
  <2>1. \E q \in Pass : pass[q] = "free"
    BY <1>2, <1>t, TwoPasses DEF TwoPasses, PassOrder
  <2>2. r \in Pass /\ pass[r] = "free"
    BY <2>1
  <2>3. /\ pass' = [pass EXCEPT ![r] = "queued"]
        /\ sweep' = [sweep EXCEPT ![r] = all]
        /\ queued' = r /\ active' = active
    BY <1>2 DEF SchedulePass
  <2> HIDE DEF r
  <2> QED BY <1>2, <1>t, <2>2, <2>3 DEF PassOrder
<1> QED BY <1>1, <1>2

\* The steps of the passes themselves.
LEMMA PassMove ==
  ASSUME TypeOK, PassOrder, NEW p \in Pass,
         StartQueued(p) \/ CohortRead(p) \/ CohortFails(p) \/ PassEnds(p)
  PROVE /\ pass' \in [Pass -> {"free", "queued", "cohort", "lanes"}]
        /\ sweep' \in [Pass -> BOOLEAN]
        /\ {queued', active'} \subseteq Pass \cup {None}
        /\ PassOrder'
<1>t. /\ pass \in [Pass -> {"free", "queued", "cohort", "lanes"}]
      /\ sweep \in [Pass -> BOOLEAN]
      /\ queued \in Pass \cup {None} /\ active \in Pass \cup {None}
      /\ None \notin Pass
  BY WorkerAssumption DEF TypeOK
<1>1. CASE StartQueued(p)
  BY <1>1, <1>t DEF StartQueued, PassOrder
<1>2. CASE CohortRead(p)
  BY <1>2, <1>t DEF CohortRead, PassOrder
<1>3. CASE CohortFails(p) \/ PassEnds(p)
  <2>1. p = active
    BY <1>3 DEF CohortFails, PassEnds, PassOrder
  <2>2. /\ pass' = [pass EXCEPT ![p] = "free"] /\ sweep' = [sweep EXCEPT ![p] = FALSE]
        /\ active' = None /\ queued' = queued
    BY <1>3, <2>1 DEF CohortFails, PassEnds, EndPass
  <2> QED BY <1>t, <2>1, <2>2, <1>3 DEF PassOrder, CohortFails, PassEnds
<1> QED BY <1>1, <1>2, <1>3

-----------------------------------------------------------------------------
(* The inductive invariant, part by part                                   *)

IInv == PassInv /\ NudgeHasPass /\ SlotInv /\ ItemInv

\* The steps that touch neither passes, lanes nor slots.
Outside ==
  \/ \E i \in Item : Deliver(i) \/ BackoffExpires(i) \/ Purge(i)
  \/ \E a \in Address : NudgeLost(a) \/ GateExpires(a)
  \/ Stop \/ Start

LEMMA OutsideMove ==
  ASSUME TypeOK, Outside
  PROVE /\ UNCHANGED <<schedule, lane, slots, dirty, unread>>
        /\ gated' \subseteq gated
        /\ stored' \subseteq stored /\ barred \subseteq barred' /\ stored \cup barred \subseteq (stored \cup barred)'
        /\ stored' \cap (barred' \ barred) = {}
        /\ TypeOK'
<1> USE DEF TypeOK
<1>b. \A n \in Nat : n + 1 \in Nat
  OBVIOUS
<1>1. ASSUME NEW i \in Item, Deliver(i) PROVE TypeOK'
  <2>1. AddressOf[i] \in Address
    BY WorkerAssumption
  <2> QED BY <1>1, <1>b, <2>1 DEF Deliver, store, schedule, slots, Pending
<1>2. ASSUME NEW i \in Item, BackoffExpires(i) PROVE TypeOK'
  BY <1>2 DEF BackoffExpires, LaneOnly, store, schedule, slots, bounds, Pending
<1>3. ASSUME NEW i \in Item, Purge(i) PROVE TypeOK'
  BY <1>3 DEF Purge, LaneOnly, schedule, slots, bounds, Pending
<1>4. ASSUME NEW a \in Address, NudgeLost(a) PROVE TypeOK'
  BY <1>4, <1>b DEF NudgeLost, Fault, store, schedule, slots, bounds
<1>5. ASSUME NEW a \in Address, GateExpires(a) PROVE TypeOK'
  BY <1>5 DEF GateExpires, LaneOnly, store, schedule, slots, bounds
<1>6. CASE Stop \/ Start
  BY <1>6, <1>b DEF Stop, Start, Fault, store, schedule, slots, bounds
<1>7. UNCHANGED <<schedule, lane, slots, dirty, unread>> /\ gated' \subseteq gated
  BY DEF Outside, Deliver, BackoffExpires, Purge, NudgeLost, GateExpires, Stop, Start, LaneOnly
<1>8. /\ stored' \subseteq stored /\ barred \subseteq barred'
      /\ stored \cup barred \subseteq (stored \cup barred)'
      /\ stored' \cap (barred' \ barred) = {}
  BY DEF Outside, Deliver, BackoffExpires, Purge, NudgeLost, GateExpires, Stop, Start, store
<1> QED BY <1>1, <1>2, <1>3, <1>4, <1>5, <1>6, <1>7, <1>8 DEF Outside

\* Types and passes.
LEMMA PassStep ==
  ASSUME TwoPasses, PassInv, WaitersParked, [Next]_vars
  PROVE PassInv'
<1>t. TypeOK /\ PassOrder /\ LanesInPass
  BY DEF PassInv
<1>b. \A n \in Nat : n + 1 \in Nat
  OBVIOUS
<1>1. CASE Outside
  BY <1>1, <1>t, OutsideMove DEF PassInv, PassOrder, LanesInPass, schedule
<1>2. CASE Sweep \/ \E a \in Address : Nudge(a)
  <2>1. PICK all \in BOOLEAN : SchedulePass(all)
    BY <1>2 DEF Sweep, Nudge
  <2>2. UNCHANGED <<status, store, started, lane, gated, slots, bounds, unread>>
        /\ owed' \subseteq owed /\ dirty' \subseteq dirty \cup owed
    BY <1>2 DEF Sweep, Nudge
  <2>3. TypeOK'
    BY <1>t, <2>1, <2>2, Scheduled DEF TypeOK, store, slots, bounds
  <2>4. LanesInPass'
    BY <1>t, <2>1, <2>2, Scheduled DEF LanesInPass
  <2> QED BY <1>t, <2>1, <2>3, <2>4, Scheduled DEF PassInv
<1>3. ASSUME NEW p \in Pass, StartQueued(p) \/ CohortFails(p) \/ PassEnds(p) PROVE PassInv'
  <2>1. UNCHANGED <<status, store, owed, started, dirty, lane, gated, slots, deliveries>>
        /\ faults' \in Nat /\ unread' \in BOOLEAN
    BY <1>3, <1>t, <1>b DEF StartQueued, CohortFails, PassEnds, Fault, bounds, TypeOK
  <2>2. TypeOK' /\ PassOrder'
    BY <1>t, <1>3, <2>1, PassMove DEF TypeOK, store, slots
  <2>3. LanesInPass'
    <3>1. CASE StartQueued(p)
      <4>1. pass' = [pass EXCEPT ![p] = "cohort"] /\ pass[p] = "queued"
        BY <3>1, <1>t DEF StartQueued, PassOrder
      <4> QED BY <4>1, <2>1, <1>t DEF LanesInPass, TypeOK
    <3>2. CASE CohortFails(p)
      <4>1. pass[p] = "cohort" /\ pass' = [pass EXCEPT ![p] = "free"]
        BY <3>2 DEF CohortFails, EndPass
      <4> QED BY <4>1, <2>1, <1>t DEF LanesInPass, TypeOK
    <3>3. CASE PassEnds(p)
      BY <3>3, <2>1 DEF PassEnds, LanesInPass
    <3> QED BY <1>3, <3>1, <3>2, <3>3
  <2> QED BY <2>2, <2>3 DEF PassInv
<1>4. ASSUME NEW p \in Pass, CohortRead(p) PROVE PassInv'
  <2>1. lane' \in [Address -> Lane]
    <3>1. Between("due", {}, {}) \in Lane
      BY DEF Between, Lane
    <3> QED BY <1>4, <1>t, <3>1 DEF CohortRead, TypeOK
  <2>2. UNCHANGED <<status, store, owed, started, gated, slots, bounds>> /\ dirty' = {} /\ unread' = FALSE
    BY <1>4 DEF CohortRead
  <2>3. TypeOK' /\ PassOrder'
    BY <1>t, <1>4, <2>1, <2>2, PassMove DEF TypeOK, store, slots, bounds
  <2>4. LanesInPass'
    BY <1>4, <1>t DEF CohortRead, LanesInPass, TypeOK
  <2> QED BY <2>3, <2>4 DEF PassInv
<1>5. ASSUME NEW a \in Address, Inner(a) PROVE PassInv'
  <2>1. /\ \E l \in Lane : lane' = [lane EXCEPT ![a] = l]
        /\ lane[a].at # "idle"
        /\ UNCHANGED <<slots, owed, started, dirty, schedule, unread>>
    BY <1>5, <1>t, InnerMove
  <2>2. status' \in [Item -> Pending \cup {"gone", "dead"}]
    <3>1. CASE Settle(a)
      BY <3>1, <1>t DEF Settle, TypeOK, Pending
    <3>2. CASE ~Settle(a)
      <4>1. status' = status
        BY <3>2, <1>5 DEF Inner, ReadDue, ReadDueFails, GetCredential, HoldLane, Guard, GuardFails, Store, StoreFails, SettleFails
      <4> QED BY <4>1, <1>t DEF TypeOK
    <3> QED BY <3>1, <3>2
  <2>3. gated' \subseteq Address
    BY <1>5, <1>t DEF Inner, ReadDue, ReadDueFails, GetCredential, HoldLane, Guard, GuardFails, Store, StoreFails, Settle, SettleFails, TypeOK
  <2>4. stored' \subseteq Item /\ barred' = barred
    <3>1. CASE Store(a)
      <4>1. lane[a].item \in Item
        BY <3>1, <1>t DEF Store, TypeOK, Lane
      <4> QED BY <3>1, <4>1, <1>t DEF Store, TypeOK
    <3>2. CASE ~Store(a)
      <4>1. UNCHANGED store
        BY <3>2, <1>5 DEF Inner, ReadDue, ReadDueFails, GetCredential, HoldLane, Guard, GuardFails, StoreFails, Settle, SettleFails
      <4> QED BY <4>1, <1>t DEF TypeOK, store
    <3> QED BY <3>1, <3>2
  <2>5. {deliveries', faults'} \subseteq Nat
    BY <1>5, <1>t, <1>b DEF Inner, ReadDue, ReadDueFails, GetCredential, HoldLane, Guard, GuardFails, Store, StoreFails, Settle, SettleFails, TypeOK, Fault, bounds
  <2>6. TypeOK'
    BY <1>t, <2>1, <2>2, <2>3, <2>4, <2>5 DEF TypeOK, slots, schedule
  <2>7. PassOrder' /\ LanesInPass'
    BY <1>t, <2>1 DEF PassOrder, LanesInPass, schedule
  <2> QED BY <2>6, <2>7 DEF PassInv
<1>6. ASSUME NEW a \in Address, Outer(a) PROVE PassInv'
  <2>1. PICK l \in Lane : l.at \notin {"fetch", "parked"} /\ Release(a, l)
    BY <1>6, <1>t, OuterMove
  <2>2. lane[a].at = "fetch" /\ UNCHANGED <<owed, started, dirty, schedule, unread>>
    BY <1>6, <1>t, OuterMove
  <2>3. /\ lane' \in [Address -> Lane]
        /\ available' \in 0..Slots
        /\ waiters' \in Seq(Address)
    <3>1. available \in 0..Slots /\ Slots \in Nat /\ waiters \in Seq(Address)
      BY <1>t, WorkerAssumption DEF TypeOK
    <3>2. waiters # <<>> => Tail(waiters) \in Seq(Address)
      BY <3>1
    <3> QED BY <2>1, <2>2, <1>t, <3>1, <3>2, ReleaseEffect
  <2>4. UNCHANGED <<status, store>> /\ gated' \subseteq Address /\ {deliveries', faults'} \subseteq Nat
    BY <1>6, <1>t, <1>b DEF Outer, FetchOk, FetchFails, Throttled, TypeOK, Fault, bounds
  <2>5. TypeOK'
    BY <1>t, <2>2, <2>3, <2>4 DEF TypeOK, store, schedule
  <2>6. PassOrder' /\ LanesInPass'
    BY <1>t, <2>2 DEF PassOrder, LanesInPass, schedule
  <2> QED BY <2>5, <2>6 DEF PassInv
<1>7. ASSUME NEW a \in Address, Acquire(a) PROVE PassInv'
  <2>1. PICK l \in Lane :
          /\ lane' = [lane EXCEPT ![a] = l]
          /\ \/ available > 0 /\ available' = available - 1 /\ waiters' = waiters
             \/ available' = available /\ waiters' = Append(waiters, a)
    BY <1>7, <1>t, AcquireEffect
  <2>2. UNCHANGED <<status, store, gated, bounds, owed, started, dirty, schedule, unread>> /\ lane[a].at = "slot"
    BY <1>7 DEF Acquire, LaneOnly
  <2>3. available' \in 0..Slots /\ waiters' \in Seq(Address)
    <3>1. available \in 0..Slots /\ Slots \in Nat /\ waiters \in Seq(Address)
      BY <1>t, WorkerAssumption DEF TypeOK
    <3> QED BY <2>1, <3>1
  <2>4. TypeOK'
    BY <1>t, <2>1, <2>2, <2>3 DEF TypeOK, store, schedule, bounds
  <2>5. PassOrder' /\ LanesInPass'
    BY <1>t, <2>2 DEF PassOrder, LanesInPass, schedule
  <2> QED BY <2>4, <2>5 DEF PassInv
<1>8. CASE Crash
  <2>1. Idle \in Lane /\ Idle.at = "idle"
    BY DEF Idle, Between, Lane
  <2>2. /\ available' \in 0..Slots /\ waiters' \in Seq(Address)
        /\ {deliveries', faults'} \subseteq Nat
    BY <1>8, <1>t, <1>b, WorkerAssumption DEF Crash, Fault, TypeOK
  <2>4. TypeOK'
    BY <1>8, <1>t, <2>1, <2>2 DEF Crash, TypeOK, store
  <2>3. PassOrder' /\ LanesInPass'
    BY <1>8, <2>1, WorkerAssumption DEF Crash, PassOrder, LanesInPass
  <2> QED BY <2>3, <2>4 DEF PassInv
<1>9. CASE UNCHANGED vars
  BY <1>9, <1>t DEF vars, store, schedule, slots, bounds, PassInv, TypeOK, PassOrder, LanesInPass
<1> QED
  BY <1>1, <1>2, <1>3, <1>4, <1>5, <1>6, <1>7, <1>8, <1>9
  DEF Next, LaneStep, LaneFault, Outside, Inner, Outer

\* A nudge stays in front of a pass.
LEMMA NudgeStep ==
  ASSUME TwoPasses, PassInv, NudgeHasPass, WaitersParked, [Next]_vars
  PROVE NudgeHasPass'
<1>t. TypeOK /\ PassOrder
  BY DEF PassInv
<1> USE DEF NudgeHasPass
<1>1. CASE Outside
  BY <1>1, <1>t, OutsideMove DEF schedule
<1>2. CASE Sweep \/ \E a \in Address : Nudge(a)
  <2>1. PICK all \in BOOLEAN : SchedulePass(all)
    BY <1>2 DEF Sweep, Nudge
  <2>2. queued' \in Pass
    BY <2>1, <1>t, Scheduled
  <2> QED BY <2>2, WorkerAssumption
<1>3. ASSUME NEW p \in Pass, StartQueued(p) PROVE NudgeHasPass'
  <2>1. pass' = [pass EXCEPT ![p] = "cohort"]
    BY <1>3 DEF StartQueued
  <2> QED BY <2>1, <1>t DEF TypeOK
<1>4. ASSUME NEW p \in Pass, CohortRead(p) \/ CohortFails(p) PROVE NudgeHasPass'
  BY <1>4 DEF CohortRead, CohortFails
<1>5. ASSUME NEW p \in Pass, PassEnds(p) PROVE NudgeHasPass'
  <2>1. /\ pass[p] = "lanes" /\ pass' = [pass EXCEPT ![p] = "free"]
        /\ UNCHANGED <<dirty, unread, queued>>
    BY <1>5 DEF PassEnds, EndPass
  <2> QED BY <2>1, <1>t DEF TypeOK
<1>6. ASSUME NEW a \in Address, Inner(a) PROVE NudgeHasPass'
  BY <1>6, <1>t, InnerMove DEF schedule
<1>7. ASSUME NEW a \in Address, Outer(a) PROVE NudgeHasPass'
  BY <1>7, <1>t, OuterMove DEF schedule
<1>8. ASSUME NEW a \in Address, Acquire(a) PROVE NudgeHasPass'
  BY <1>8 DEF Acquire, LaneOnly, schedule
<1>9. CASE Crash
  BY <1>9 DEF Crash
<1>10. CASE UNCHANGED vars
  BY <1>10 DEF vars, schedule
<1> QED
  BY <1>1, <1>2, <1>3, <1>4, <1>5, <1>6, <1>7, <1>8, <1>9, <1>10
  DEF Next, LaneStep, LaneFault, Outside, Inner, Outer

\* Slots are taken, handed over and given back one by one.
LEMMA SlotStep ==
  ASSUME PassInv, SlotInv, [Next]_vars
  PROVE SlotInv'
<1>t. /\ TypeOK /\ SlotsAreHeld /\ WaitersParked
      /\ lane \in [Address -> Lane] /\ waiters \in Seq(Address)
      /\ available \in 0..Slots /\ Slots \in Nat /\ Len(waiters) \in Nat
  BY WorkerAssumption DEF PassInv, SlotInv, TypeOK
<1>f. /\ IsFiniteSet(Fetching) /\ Cardinality(Fetching) \in Nat
      /\ Cardinality(Fetching) + available = Slots
      /\ (waiters # <<>>) => (available = 0)
  BY <1>t, WorkerAssumption, FS_Subset, FS_CardinalityType DEF Fetching, SlotsAreHeld
<1>s. ASSUME UNCHANGED slots, \A a \in Address : lane'[a].at = lane[a].at
      PROVE SlotInv'
  <2>1. Fetching' = Fetching
    BY <1>s DEF Fetching
  <2>2. SlotsAreHeld'
    BY <1>f, <1>s, <2>1 DEF SlotsAreHeld, Fetching, slots
  <2>3. WaitersParked'
    BY <1>s, <1>t DEF WaitersParked, slots
  <2> QED BY <2>2, <2>3 DEF SlotInv
<1>1. CASE Outside
  BY <1>1, <1>t, <1>s, OutsideMove
<1>2. CASE Sweep \/ \E a \in Address : Nudge(a)
  BY <1>2, <1>s DEF Sweep, Nudge
<1>3. ASSUME NEW p \in Pass, StartQueued(p) \/ CohortFails(p) \/ PassEnds(p) PROVE SlotInv'
  BY <1>3, <1>s DEF StartQueued, CohortFails, PassEnds
<1>4. ASSUME NEW p \in Pass, CohortRead(p) PROVE SlotInv'
  <2>1. \A a \in Address : lane[a].at = "idle"
    <3>1. \A q \in Pass : pass[q] # "lanes"
      BY <1>4 DEF CohortRead, PassInv, PassOrder
    <3> QED BY <3>1 DEF PassInv, LanesInPass
  <2>2. \A a \in Address : lane'[a] = lane[a] \/ lane'[a].at = "due"
    BY <1>4 DEF CohortRead, Between
  <2>3. UNCHANGED slots
    BY <1>4 DEF CohortRead
  <2>4. Fetching = {} /\ Fetching' = {}
    BY <2>1, <2>2 DEF Fetching
  <2>5. SlotsAreHeld'
    BY <1>f, <2>3, <2>4 DEF SlotsAreHeld, Fetching, slots
  <2>6. Len(waiters) = 0
    <3>1. \A n \in 1..Len(waiters) : waiters[n] \in Address
      BY <1>t
    <3> QED BY <1>t, <2>1, <3>1 DEF WaitersParked
  <2> QED BY <2>3, <2>5, <2>6 DEF SlotInv, WaitersParked, slots
<1>5. ASSUME NEW a \in Address, Inner(a) PROVE SlotInv'
  <2>1. PICK l \in Lane : l.at \notin {"fetch", "parked"} /\ lane' = [lane EXCEPT ![a] = l]
    BY <1>5, <1>t, InnerMove
  <2>2. lane[a].at \notin {"fetch", "parked"} /\ UNCHANGED slots
    BY <1>5, <1>t, InnerMove
  <2>3. Fetching' = Fetching
    BY <2>1, <2>2, <1>t DEF Fetching
  <2>4. SlotsAreHeld'
    BY <1>f, <2>2, <2>3 DEF SlotsAreHeld, Fetching, slots
  <2>5. WaitersParked'
    <3>1. \A n \in 1..Len(waiters) : waiters[n] \in Address /\ waiters[n] # a
      BY <1>t, <2>2 DEF WaitersParked
    <3> QED BY <3>1, <2>1, <2>2, <1>t DEF WaitersParked, slots
  <2> QED BY <2>4, <2>5 DEF SlotInv
<1>6. ASSUME NEW a \in Address, Outer(a) PROVE SlotInv'
  <2>1. PICK l \in Lane : l.at \notin {"fetch", "parked"} /\ Release(a, l)
    BY <1>6, <1>t, OuterMove
  <2>2. lane[a].at = "fetch" /\ a \in Fetching
    BY <1>6, <1>t, OuterMove DEF Fetching
  <2>3. lane'[a] = l
    BY <2>1, <2>2, <1>t, ReleaseEffect
  <2>4. IsFiniteSet(Fetching \ {a}) /\ Cardinality(Fetching \ {a}) = Cardinality(Fetching) - 1
    BY <1>f, <2>2, FS_RemoveElement
  <2>5. CASE /\ waiters = <<>> /\ waiters' = <<>>
             /\ available' = IF available < Slots THEN available + 1 ELSE available
             /\ \A b \in Address \ {a} : lane'[b] = lane[b]
    <3>1. Fetching' = Fetching \ {a}
      BY <2>1, <2>3, <2>5 DEF Fetching
    <3>2. Cardinality(Fetching) >= 1
      BY <1>f, <2>2, FS_EmptySet
    <3>3. Cardinality(Fetching)' + available' = Slots
      BY <1>f, <1>t, <2>4, <2>5, <3>1, <3>2
    <3> QED BY <2>5, <3>3 DEF SlotInv, SlotsAreHeld, WaitersParked, Fetching
  <2>6. ASSUME NEW h \in Address \ {a},
               waiters # <<>>, h = Head(waiters),
               waiters' = Tail(waiters), available' = available,
               lane[h].at = "parked", lane'[h].at = "fetch",
               \A b \in Address \ {a, h} : lane'[b] = lane[b]
        PROVE SlotInv'
    <3>1. Fetching' = (Fetching \ {a}) \cup {h} /\ h \notin Fetching \ {a}
      BY <2>1, <2>3, <2>6 DEF Fetching
    <3>2. Cardinality(Fetching') = Cardinality(Fetching)
      <4>1. Cardinality((Fetching \ {a}) \cup {h}) = Cardinality(Fetching \ {a}) + 1
        BY <2>4, <3>1, FS_AddElement
      <4> QED BY <1>f, <2>4, <3>1, <4>1
    <3>3. SlotsAreHeld'
      <4>1. Cardinality(Fetching)' = Cardinality(Fetching)
        BY <3>2
      <4>2. available = 0
        BY <1>f, <2>6
      <4> QED BY <1>f, <2>6, <4>1, <4>2 DEF SlotsAreHeld, Fetching
    <3>4. /\ Len(waiters') = Len(waiters) - 1 /\ Len(waiters) >= 1
          /\ \A n \in 1..Len(waiters') : waiters'[n] = waiters[n + 1] /\ n + 1 \in 1..Len(waiters)
          /\ h = waiters[1] /\ 1 \in 1..Len(waiters)
      BY <1>t, <2>6
    <3>5. \A n \in 1..Len(waiters') : waiters'[n] # h /\ waiters'[n] # a /\ waiters'[n] \in Address
      BY <1>t, <2>2, <3>4 DEF WaitersParked
    <3>6. \A n \in 1..Len(waiters') : lane'[waiters'[n]].at = "parked"
      BY <1>t, <2>6, <3>4, <3>5 DEF WaitersParked
    <3>7. \A n, k \in 1..Len(waiters') : waiters'[n] = waiters'[k] => n = k
      BY <1>t, <3>4 DEF WaitersParked
    <3> QED BY <3>3, <3>6, <3>7 DEF SlotInv, WaitersParked
  <2>7. \/ /\ waiters = <<>> /\ waiters' = <<>>
           /\ available' = IF available < Slots THEN available + 1 ELSE available
           /\ \A b \in Address \ {a} : lane'[b] = lane[b]
        \/ \E h \in Address \ {a} :
             /\ waiters # <<>> /\ h = Head(waiters)
             /\ waiters' = Tail(waiters) /\ available' = available
             /\ lane[h].at = "parked" /\ lane'[h].at = "fetch" /\ lane'[h].out = lane[h].out
             /\ \A b \in Address \ {a, h} : lane'[b] = lane[b]
    BY <2>1, <2>2, <1>t, ReleaseEffect
  <2> QED BY <2>5, <2>6, <2>7
<1>7. ASSUME NEW a \in Address, Acquire(a) PROVE SlotInv'
  <2>1. PICK l \in Lane :
          /\ lane' = [lane EXCEPT ![a] = l]
          /\ \/ available > 0 /\ available' = available - 1 /\ l.at = "fetch" /\ waiters' = waiters
             \/ available = 0 /\ available' = available /\ l.at = "parked" /\ waiters' = Append(waiters, a)
    BY <1>7, <1>t, AcquireEffect
  <2>2. lane[a].at = "slot" /\ a \notin Fetching
    BY <1>7 DEF Acquire, Fetching
  <2>3. \A n \in 1..Len(waiters) : waiters[n] \in Address /\ waiters[n] # a
    BY <1>t, <2>2 DEF WaitersParked
  <2>4. CASE available > 0 /\ available' = available - 1 /\ l.at = "fetch" /\ waiters' = waiters
    <3>1. Fetching' = Fetching \cup {a}
      BY <2>1, <2>4, <1>t DEF Fetching
    <3>2. Cardinality(Fetching') = Cardinality(Fetching) + 1
      BY <1>f, <2>2, <3>1, FS_AddElement
    <3>3. SlotsAreHeld'
      <4>1. Cardinality(Fetching)' + available' = Slots
        <5>1. Cardinality(Fetching)' = Cardinality(Fetching) + 1
          BY <3>2
        <5> QED BY <1>f, <1>t, <2>4, <5>1
      <4>2. waiters' = <<>>
        BY <1>f, <1>t, <2>4
      <4> QED BY <4>1, <4>2 DEF SlotsAreHeld, Fetching
    <3> QED BY <2>1, <2>3, <2>4, <3>3, <1>t DEF SlotInv, WaitersParked
  <2>5. CASE available = 0 /\ available' = available /\ l.at = "parked" /\ waiters' = Append(waiters, a)
    <3>1. Fetching' = Fetching
      BY <2>1, <2>2, <2>5, <1>t DEF Fetching
    <3>2. SlotsAreHeld'
      BY <1>f, <2>5, <3>1 DEF SlotsAreHeld, Fetching
    <3>3. /\ Len(waiters') = Len(waiters) + 1
          /\ \A n \in 1..Len(waiters') : waiters'[n] = IF n \in 1..Len(waiters) THEN waiters[n] ELSE a
      BY <1>t, <2>5
    <3>4. \A n \in 1..Len(waiters') : lane'[waiters'[n]].at = "parked"
      BY <1>t, <2>1, <2>3, <2>5, <3>3 DEF WaitersParked
    <3>5. \A n \in 1..Len(waiters') : n \in 1..Len(waiters) \/ n = Len(waiters) + 1
      BY <1>t, <3>3
    <3>6. \A n, k \in 1..Len(waiters') : waiters'[n] = waiters'[k] => n = k
      BY <1>t, <2>3, <3>3, <3>5 DEF WaitersParked
    <3> QED BY <3>2, <3>4, <3>6 DEF SlotInv, WaitersParked
  <2> QED BY <2>1, <2>4, <2>5
<1>8. CASE Crash
  <2>1. Fetching' = {}
    BY <1>8 DEF Crash, Fetching, Idle, Between
  <2>2. Cardinality(Fetching)' = 0
    BY <2>1, FS_EmptySet
  <2>3. SlotsAreHeld'
    BY <1>8, <1>t, <2>2 DEF Crash, SlotsAreHeld, Fetching
  <2>4. WaitersParked'
    BY <1>8 DEF Crash, WaitersParked
  <2> QED BY <2>3, <2>4 DEF SlotInv
<1>9. CASE UNCHANGED vars
  BY <1>9, <1>s DEF vars
<1> QED
  BY <1>1, <1>2, <1>3, <1>4, <1>5, <1>6, <1>7, <1>8, <1>9
  DEF Next, LaneStep, LaneFault, Outside, Inner, Outer

\* A verdict "done" is true when it is given, and a teardown keeps it true.
LEMMA ItemStep ==
  ASSUME PassInv, WaitersParked, ItemInv, [Next]_vars
  PROVE ItemInv'
<1>t. /\ TypeOK /\ BarredStaysOut /\ DoneIsTrue /\ HeldIsPast
      /\ lane \in [Address -> Lane] /\ gated \subseteq Address
      /\ \A a \in Address : /\ lane[a] \in Lane
                            /\ lane[a].batch \in SUBSET Item
                            /\ lane[a].out \in SUBSET (Item \X Verdict)
  BY DEF PassInv, ItemInv, TypeOK, Lane
<1>0. ASSUME UNCHANGED <<lane, store>>, gated' \subseteq gated PROVE ItemInv'
  BY <1>0, <1>t DEF ItemInv, BarredStaysOut, DoneIsTrue, HeldIsPast, store
<1>m. ASSUME NEW a \in Address, NEW l \in Lane, UNCHANGED barred,
             lane'[a] = l, lane' \in [Address -> Lane],
             \A b \in Address \ {a} : lane'[b].out = lane[b].out /\ (b \in gated => lane'[b].at = lane[b].at),
             stored \subseteq stored', stored' \cap barred = {},
             \A i \in Item : <<i, "done">> \in l.out => <<i, "done">> \in lane[a].out \/ i \in stored' \cup barred,
             gated' \subseteq gated \cup {a}, a \in gated' => l.at \in {"idle", "settle"}
      PROVE ItemInv'
  <2>1. BarredStaysOut'
    BY <1>m DEF BarredStaysOut
  <2>2. DoneIsTrue'
    <3> SUFFICES ASSUME NEW b \in Address, NEW i \in Item, <<i, "done">> \in lane'[b].out
                 PROVE i \in stored' \cup barred'
      BY DEF DoneIsTrue
    <3>1. CASE b = a
      BY <3>1, <1>m, <1>t DEF DoneIsTrue
    <3>2. CASE b # a
      BY <3>2, <1>m, <1>t DEF DoneIsTrue
    <3> QED BY <3>1, <3>2
  <2>3. HeldIsPast'
    <3> SUFFICES ASSUME NEW b \in gated' PROVE lane'[b].at \in {"idle", "settle"}
      BY DEF HeldIsPast
    <3>1. CASE b = a
      BY <3>1, <1>m
    <3>2. CASE b # a
      <4>1. b \in gated /\ b \in Address
        BY <3>2, <1>m, <1>t
      <4> QED BY <3>2, <4>1, <1>m, <1>t DEF HeldIsPast
    <3> QED BY <3>1, <3>2
  <2> QED BY <2>1, <2>2, <2>3 DEF ItemInv
<1>1. CASE Outside
  <2>1. /\ UNCHANGED lane /\ gated' \subseteq gated /\ stored' \subseteq stored
        /\ barred \subseteq barred' /\ stored \cup barred \subseteq (stored \cup barred)'
        /\ stored' \cap (barred' \ barred) = {}
    BY <1>1, <1>t, OutsideMove
  <2> QED BY <2>1, <1>t DEF ItemInv, BarredStaysOut, DoneIsTrue, HeldIsPast
<1>2. CASE Sweep \/ \E a \in Address : Nudge(a)
  BY <1>2, <1>0 DEF Sweep, Nudge
<1>3. ASSUME NEW p \in Pass, StartQueued(p) \/ CohortFails(p) \/ PassEnds(p) PROVE ItemInv'
  BY <1>3, <1>0 DEF StartQueued, CohortFails, PassEnds
<1>4. ASSUME NEW p \in Pass, CohortRead(p) PROVE ItemInv'
  <2>1. \A a \in Address : lane'[a] = lane[a] \/ (a \notin gated /\ lane'[a].out = {})
    BY <1>4 DEF CohortRead, Between
  <2>2. UNCHANGED <<gated, store>>
    BY <1>4 DEF CohortRead
  <2> QED BY <2>1, <2>2, <1>t DEF ItemInv, BarredStaysOut, DoneIsTrue, HeldIsPast, store
<1>5. ASSUME NEW a \in Address, Inner(a), UNCHANGED store,
             NEW l \in Lane, lane' = [lane EXCEPT ![a] = l],
             \A i \in Item : <<i, "done">> \in l.out => <<i, "done">> \in lane[a].out \/ i \in barred,
             gated' = gated \/ (gated' = gated \cup {a} /\ l.at = "idle")
      PROVE ItemInv'
  <2>1. a \notin gated \/ lane[a].at = "settle"
    BY <1>5, <1>t, InnerMove DEF HeldIsPast
  <2>2. lane[a].at = "settle" => Settle(a) \/ SettleFails(a)
    BY <1>5 DEF Inner, ReadDue, ReadDueFails, GetCredential, HoldLane, Guard, GuardFails, Store, StoreFails
  <2>3. lane[a].at = "settle" => l.at = "idle"
    BY <2>2, <1>5, <1>t DEF Settle, SettleFails, Idle, Between
  <2>4. a \in gated' => l.at \in {"idle", "settle"}
    BY <2>1, <2>3, <1>5
  <2>5. gated' \subseteq gated \cup {a} /\ UNCHANGED <<stored, barred>> /\ stored' \cap barred = {}
    BY <1>5, <1>t DEF store, BarredStaysOut
  <2>6. /\ lane' \in [Address -> Lane] /\ lane'[a] = l
        /\ \A b \in Address \ {a} : lane'[b] = lane[b]
    BY <1>5, <1>t
  <2> QED BY <1>m, <1>5, <2>4, <2>5, <2>6
<1>6. ASSUME NEW a \in Address,
             ReadDue(a) \/ ReadDueFails(a) \/ HoldLane(a) \/ Settle(a) \/ SettleFails(a)
      PROVE ItemInv'
  <2>1. Idle \in Lane /\ Idle.out = {} /\ Idle.at = "idle"
    BY DEF Idle, Between, Lane
  <2>2. CASE ReadDue(a)
    <3>1. PICK B \in SUBSET Item :
            lane' = [lane EXCEPT ![a] = IF B = {} THEN Idle ELSE Between("credential", B, {})]
      BY <2>2 DEF ReadDue, DueItems
    <3>2. /\ Between("credential", B, {}) \in Lane
          /\ Between("credential", B, {}).out = {}
      BY DEF Between, Lane
    <3>3. PICK l \in Lane : l.out = {} /\ lane' = [lane EXCEPT ![a] = l]
      BY <2>1, <3>1, <3>2
    <3> QED BY <1>5, <2>2, <3>3 DEF ReadDue, Inner
  <2>3. CASE ReadDueFails(a) \/ HoldLane(a) \/ Settle(a) \/ SettleFails(a)
    BY <1>5, <2>1, <2>3 DEF ReadDueFails, HoldLane, Settle, SettleFails, Inner
  <2> QED BY <1>6, <2>2, <2>3
<1>7. ASSUME NEW a \in Address, GetCredential(a) \/ GuardFails(a) PROVE ItemInv'
  <2>1. PICK out \in {{}, lane[a].out} :
          \E l \in Onward(lane[a].batch, out) : lane' = [lane EXCEPT ![a] = l]
    BY <1>7 DEF GetCredential, GuardFails
  <2>2. PICK l \in Onward(lane[a].batch, out) : lane' = [lane EXCEPT ![a] = l]
    BY <2>1
  <2>3. l \in Lane /\ l.out = out
    BY <1>t, <2>1, OnwardLane
  <2> QED BY <1>5, <1>7, <2>1, <2>2, <2>3 DEF GetCredential, GuardFails, Inner
<1>8. ASSUME NEW a \in Address, Guard(a) PROVE ItemInv'
  <2>1. lane[a].item \in Item
    BY <1>8, <1>t DEF Guard, Lane
  <2>2. CASE lane[a].item \in barred
    <3>1. PICK l \in Onward(lane[a].batch, lane[a].out \cup {<<lane[a].item, "done">>}) :
            lane' = [lane EXCEPT ![a] = l]
      BY <1>8, <2>2 DEF Guard
    <3>2. lane[a].out \cup {<<lane[a].item, "done">>} \in SUBSET (Item \X Verdict)
      BY <1>t, <2>1 DEF Verdict
    <3>3. l \in Lane /\ l.out = lane[a].out \cup {<<lane[a].item, "done">>}
      BY <1>t, <3>2, OnwardLane
    <3>4. UNCHANGED <<store, gated>>
      BY <1>8 DEF Guard
    <3> QED BY <1>5, <1>8, <2>2, <3>1, <3>3, <3>4 DEF Inner
  <2>3. CASE lane[a].item \notin barred
    <3>1. lane' = [lane EXCEPT ![a] = [lane[a] EXCEPT !.at = "slot"]] /\ UNCHANGED <<store, gated>>
      BY <1>8, <2>3 DEF Guard
    <3>2. [lane[a] EXCEPT !.at = "slot"] \in Lane /\ [lane[a] EXCEPT !.at = "slot"].out = lane[a].out
      BY <1>t, <2>1, WithItem
    <3> QED BY <1>5, <1>8, <3>1, <3>2 DEF Inner
  <2> QED BY <2>2, <2>3
<1>9. ASSUME NEW a \in Address, Store(a) \/ StoreFails(a) PROVE ItemInv'
  <2>0. lane[a].item \in Item /\ lane[a].at = "store" /\ a \notin gated
    BY <1>9, <1>t DEF Store, StoreFails, Lane, HeldIsPast
  <2>1. PICK v \in Verdict :
          /\ v = "done" => Store(a) /\ lane[a].item \notin barred
          /\ \E l \in Onward(lane[a].batch, lane[a].out \cup {<<lane[a].item, v>>}) :
               lane' = [lane EXCEPT ![a] = l]
    BY <1>9 DEF Store, StoreFails, Verdict
  <2>2. PICK l \in Onward(lane[a].batch, lane[a].out \cup {<<lane[a].item, v>>}) :
          lane' = [lane EXCEPT ![a] = l]
    BY <2>1
  <2>3. lane[a].out \cup {<<lane[a].item, v>>} \in SUBSET (Item \X Verdict)
    BY <1>t, <2>0
  <2>4. l \in Lane /\ l.out = lane[a].out \cup {<<lane[a].item, v>>}
    BY <1>t, <2>3, OnwardLane
  <2>5. /\ stored \subseteq stored' /\ barred' = barred /\ gated' = gated
        /\ stored' \cap barred = {}
        /\ Store(a) /\ lane[a].item \notin barred => lane[a].item \in stored'
    BY <1>9, <1>t DEF Store, StoreFails, store, BarredStaysOut
  <2>6. \A i \in Item : <<i, "done">> \in l.out => <<i, "done">> \in lane[a].out \/ i \in stored' \cup barred
    BY <2>1, <2>4, <2>5
  <2>7. /\ lane' \in [Address -> Lane] /\ lane'[a] = l
        /\ \A b \in Address \ {a} : lane'[b] = lane[b]
    BY <2>2, <2>4, <1>t
  <2> QED BY <1>m, <2>0, <2>4, <2>5, <2>6, <2>7
<1>10. ASSUME NEW a \in Address, Outer(a) PROVE ItemInv'
  <2>0. lane[a].at = "fetch" /\ lane[a].item \in Item /\ a \notin gated
    BY <1>10, <1>t, OuterMove DEF Outer, FetchOk, FetchFails, Throttled, Lane, HeldIsPast
  <2>1. PICK l \in Lane :
          /\ Release(a, l)
          /\ \A i \in Item : <<i, "done">> \in l.out => <<i, "done">> \in lane[a].out
          /\ gated' = gated \/ (gated' = gated \cup {a} /\ l.at \in {"idle", "settle"})
    <3>1. CASE FetchOk(a)
      <4>1. [lane[a] EXCEPT !.at = "store"] \in Lane /\ [lane[a] EXCEPT !.at = "store"].out = lane[a].out
        BY <1>t, <2>0, WithItem
      <4> QED BY <3>1, <4>1 DEF FetchOk
    <3>2. CASE FetchFails(a)
      <4>1. PICK v \in {"failed", "terminal"} :
              \E l \in Onward(lane[a].batch, lane[a].out \cup {<<lane[a].item, v>>}) : Release(a, l)
        BY <3>2 DEF FetchFails
      <4>2. PICK l \in Onward(lane[a].batch, lane[a].out \cup {<<lane[a].item, v>>}) : Release(a, l)
        BY <4>1
      <4>3. lane[a].out \cup {<<lane[a].item, v>>} \in SUBSET (Item \X Verdict)
        BY <1>t, <2>0 DEF Verdict
      <4>4. l \in Lane /\ l.out = lane[a].out \cup {<<lane[a].item, v>>}
        BY <1>t, <4>3, OnwardLane
      <4> QED BY <3>2, <4>1, <4>2, <4>4 DEF FetchFails
    <3>3. CASE Throttled(a)
      <4>1. PICK l \in Onward({}, lane[a].out) : Release(a, l)
        BY <3>3 DEF Throttled
      <4>2. l \in Lane /\ l.out = lane[a].out /\ l.at \in {"idle", "settle"}
        BY <1>t, OnwardLane
      <4> QED BY <3>3, <4>1, <4>2 DEF Throttled
    <3> QED BY <1>10, <3>1, <3>2, <3>3 DEF Outer
  <2>2. /\ lane' \in [Address -> Lane] /\ lane'[a] = l
        /\ \A b \in Address \ {a} : lane'[b] = lane[b]
                                    \/ (lane[b].at = "parked" /\ lane'[b].out = lane[b].out)
    BY <2>0, <2>1, <1>t, ReleaseEffect
  <2>3. \A b \in Address \ {a} : lane'[b].out = lane[b].out /\ (b \in gated => lane'[b].at = lane[b].at)
    BY <2>2, <1>t DEF HeldIsPast
  <2>4. UNCHANGED <<stored, barred>> /\ stored' \cap barred = {}
    BY <1>10, <1>t DEF Outer, FetchOk, FetchFails, Throttled, store, BarredStaysOut
  <2> QED BY <1>m, <2>0, <2>1, <2>2, <2>3, <2>4
<1>11. ASSUME NEW a \in Address, Acquire(a) PROVE ItemInv'
  <2>1. PICK l \in Lane : lane' = [lane EXCEPT ![a] = l] /\ l.out = lane[a].out
    BY <1>11, <1>t, AcquireEffect
  <2>2. a \notin gated /\ UNCHANGED <<store, gated>>
    BY <1>11, <1>t DEF Acquire, HeldIsPast
  <2>3. /\ lane' \in [Address -> Lane] /\ lane'[a] = l
        /\ \A b \in Address \ {a} : lane'[b] = lane[b]
    BY <2>1, <1>t
  <2>4. UNCHANGED <<stored, barred>> /\ stored' \cap barred = {}
    BY <2>2, <1>t DEF store, BarredStaysOut
  <2> QED BY <1>m, <2>1, <2>2, <2>3, <2>4
<1>12. CASE Crash
  BY <1>12, <1>t DEF Crash, ItemInv, BarredStaysOut, DoneIsTrue, HeldIsPast, store, Idle, Between
<1>13. CASE UNCHANGED vars
  BY <1>13, <1>0 DEF vars
<1> QED
  BY <1>1, <1>2, <1>3, <1>4, <1>6, <1>7, <1>8, <1>9, <1>10, <1>11, <1>12, <1>13
  DEF Next, LaneStep, LaneFault, Outside, Outer

-----------------------------------------------------------------------------
(* Theorems                                                                *)

\* The inductive invariant of the worker.
LEMMA Invariance == ASSUME TwoPasses PROVE Spec => []IInv
<1>1. Init => IInv
  <2> SUFFICES ASSUME Init PROVE IInv
    OBVIOUS
  <2>1. Idle \in Lane /\ Idle.at = "idle" /\ Idle.out = {}
    BY DEF Idle, Between, Lane
  <2>2. available \in 0..Slots /\ waiters \in Seq(Address) /\ {deliveries, faults} \subseteq Nat
    BY WorkerAssumption DEF Init
  <2>3. PassInv
    BY <2>1, <2>2, WorkerAssumption DEF Init, PassInv, TypeOK, PassOrder, LanesInPass
  <2>4. Fetching = {}
    BY <2>1 DEF Init, Fetching
  <2>5. SlotInv
    <3>1. Cardinality(Fetching) = 0
      BY <2>4, FS_EmptySet
    <3>2. Cardinality(Fetching) + available = Slots
      BY <3>1, WorkerAssumption DEF Init
    <3>3. SlotsAreHeld
      BY <3>2 DEF Init, SlotsAreHeld, Fetching
    <3>4. WaitersParked
      BY DEF Init, WaitersParked
    <3> QED BY <3>3, <3>4 DEF SlotInv
  <2>6. ItemInv /\ NudgeHasPass
    BY <2>1 DEF Init, ItemInv, BarredStaysOut, DoneIsTrue, HeldIsPast, NudgeHasPass
  <2> QED BY <2>3, <2>5, <2>6 DEF IInv
<1>2. IInv /\ [Next]_vars => IInv'
  <2> SUFFICES ASSUME IInv, [Next]_vars PROVE IInv'
    OBVIOUS
  <2>1. PassInv /\ NudgeHasPass /\ SlotInv /\ ItemInv /\ WaitersParked
    BY DEF IInv, SlotInv
  <2> QED BY <2>1, TwoPasses, PassStep, NudgeStep, SlotStep, ItemStep DEF IInv
<1> QED BY <1>1, <1>2, PTL DEF Spec

\* The variables keep their types, for any cohort, items and limits.
THEOREM TypeCorrect == ASSUME TwoPasses PROVE Spec => []TypeOK
<1>1. IInv => TypeOK
  BY DEF IInv, PassInv
<1> QED BY <1>1, TwoPasses, Invariance, PTL

\* At most one pass runs: a queued pass waits for the one before it, and the calls made
\* meanwhile join the queued one.
THEOREM PassesAreSerial == ASSUME TwoPasses PROVE Spec => []OnePassAtATime
<1>1. IInv => OnePassAtATime
  BY DEF IInv, PassInv, PassOrder, OnePassAtATime
<1> QED BY <1>1, TwoPasses, Invariance, PTL

\* A nudge is never left without a pass that will take it, but for an unreadable cohort.
THEOREM NudgesAreCovered == ASSUME TwoPasses PROVE Spec => []NudgeHasPass
<1>1. IInv => NudgeHasPass
  BY DEF IInv
<1> QED BY <1>1, TwoPasses, Invariance, PTL

\* No slot of the provider's budget is lost or given twice, whatever fetches fail.
THEOREM SlotsAreExact == ASSUME TwoPasses PROVE Spec => []SlotsAreHeld
<1>1. IInv => SlotsAreHeld
  BY DEF IInv, SlotInv
<1> QED BY <1>1, TwoPasses, Invariance, PTL

\* What a teardown purged during a fetch is not stored after it.
THEOREM PurgedIsNotStored == ASSUME TwoPasses PROVE Spec => []BarredStaysOut
<1>1. IInv => BarredStaysOut
  BY DEF IInv, ItemInv
<1> QED BY <1>1, TwoPasses, Invariance, PTL

\* The content store and the queue are two places: an item leaves the queue only when
\* it is in the store, may not be, or is a dead letter.
THEOREM QueueLosesNothing == ASSUME TwoPasses PROVE Spec => DoneIsStored
<1> DEFINE Kept == \A i \in Item : status[i] \in Pending /\ status'[i] = "gone" => i \in (stored \cup barred)'
<1>1. IInv /\ [Next]_vars => [Kept]_vars
  <2> SUFFICES ASSUME IInv, [Next]_vars, NEW i \in Item, status[i] \in Pending, status'[i] = "gone"
               PROVE i \in (stored \cup barred)'
    OBVIOUS
  <2>t. status \in [Item -> Pending \cup {"gone", "dead"}] /\ DoneIsTrue
    BY DEF IInv, PassInv, ItemInv, TypeOK
  <2>1. ASSUME NEW a \in Address, Settle(a) PROVE i \in (stored \cup barred)'
    <3>1. <<i, "done">> \in lane[a].out
      BY <2>1, <2>t DEF Settle, Settled, Pending
    <3> QED BY <2>1, <2>t, <3>1 DEF Settle, DoneIsTrue, store
  <2>2. ASSUME NEW k \in Item, Deliver(k) \/ BackoffExpires(k) PROVE FALSE
    BY <2>2, <2>t DEF Deliver, BackoffExpires, Pending
  <2>3. ASSUME NEW k \in Item, Purge(k) PROVE i \in (stored \cup barred)'
    BY <2>3, <2>t DEF Purge, Pending
  <2>4. ASSUME UNCHANGED status PROVE FALSE
    BY <2>4 DEF Pending
  <2>5. CASE Sweep \/ Stop \/ Start \/ Crash \/ UNCHANGED vars
    BY <2>4, <2>5 DEF Sweep, Stop, Start, Crash, vars
  <2>6. ASSUME NEW a \in Address,
               \/ Nudge(a) \/ NudgeLost(a) \/ GateExpires(a) \/ LaneFault(a)
               \/ ReadDue(a) \/ GetCredential(a) \/ Guard(a) \/ Acquire(a) \/ FetchOk(a) \/ Store(a)
        PROVE FALSE
    BY <2>4, <2>6 DEF Nudge, NudgeLost, GateExpires, LaneFault, ReadDue, ReadDueFails, GetCredential,
      HoldLane, Guard, GuardFails, Acquire, FetchOk, FetchFails, Throttled, Store, StoreFails, SettleFails
  <2>7. ASSUME NEW p \in Pass, StartQueued(p) \/ CohortRead(p) \/ CohortFails(p) \/ PassEnds(p) PROVE FALSE
    BY <2>4, <2>7 DEF StartQueued, CohortRead, CohortFails, PassEnds
  <2> QED BY <2>1, <2>2, <2>3, <2>5, <2>6, <2>7 DEF Next, LaneStep
<1> QED BY <1>1, TwoPasses, Invariance, PTL DEF Spec, DoneIsStored

\* A held lane makes no call: it is past its items, and no step brings it back to them.
THEOREM HeldLanesAreQuiet == ASSUME TwoPasses PROVE Spec => GatedLaneIsQuiet
<1> DEFINE Quiet == \A a \in gated \cap gated' : lane'[a].at = "fetch" => lane[a].at = "fetch"
<1>1. IInv /\ IInv' => Quiet
  BY DEF IInv, ItemInv, HeldIsPast
<1>2. Spec => []IInv
  BY TwoPasses, Invariance
<1> QED BY <1>1, <1>2, PTL DEF Spec, GatedLaneIsQuiet

\* What the worker's calls show of the store, as the archive of ContentStore: an item is
\* a meeting of one part.
Shown == [i \in Item |-> IF i \in stored THEN {"content"} ELSE {}]

Archive == INSTANCE MeetingArchive
  WITH Meeting <- Item, Half <- {"content"}, shown <- Shown, barred <- barred

ArchiveSpec == Archive!Spec

\* The store that the worker talks to keeps the promises ContentStore is shown to keep:
\* lanes that store what they fetched before a purge, purges, replays and crashes are
\* steps of the same archive.
THEOREM WorkerSeesAnArchive == ASSUME TwoPasses PROVE Spec => ArchiveSpec
<1>1. Init => Archive!Init
  BY DEF Init, Archive!Init, Shown
<1>2. IInv /\ IInv' /\ [Next]_vars => [Archive!Next]_(Archive!vars)
  <2> SUFFICES ASSUME IInv, IInv', [Next]_vars PROVE Archive!Next \/ Archive!vars' = Archive!vars
    OBVIOUS
  <2>t. /\ TypeOK /\ barred \cap stored = {} /\ (barred \cap stored = {})'
        /\ barred' \in SUBSET Item
    BY DEF IInv, PassInv, TypeOK, ItemInv, BarredStaysOut
  <2> DEFINE Same == stored' = stored /\ barred' = barred
  <2>1. ASSUME Same PROVE Archive!vars' = Archive!vars
    BY <2>1 DEF Shown, Archive!vars
  <2>2. ASSUME NEW a \in Address, Store(a) PROVE Archive!Next \/ Archive!vars' = Archive!vars
    <3> DEFINE i == lane[a].item
    <3>1. lane[a].at = "store" /\ stored' = stored \cup ({i} \ barred) /\ barred' = barred
      BY <2>2 DEF Store
    <3>2. i \in Item
      BY <2>t, <3>1 DEF TypeOK, Lane
    <3>3. CASE i \in barred
      BY <2>1, <3>1, <3>3
    <3>4. CASE i \notin barred
      <4>1. Archive!Grow(i, {"content"}, {})
        <5>1. Archive!Without({}) = Shown
          BY DEF Archive!Without, Shown
        <5>2. Shown' = [Shown EXCEPT ![i] = Shown[i] \cup {"content"}]
          BY <3>1, <3>2, <3>4 DEF Shown
        <5> QED BY <3>1, <3>4, <5>1, <5>2 DEF Archive!Grow
      <4> QED BY <3>2, <4>1 DEF Archive!Next
    <3> QED BY <3>3, <3>4
  <2>3. ASSUME NEW i \in Item, Purge(i) PROVE Archive!Next
    <3>1. Shown' = Archive!Without({i})
      BY <2>3 DEF Purge, Shown, Archive!Without
    <3>2. Archive!Drop({i}, barred')
      BY <2>t, <3>1 DEF Archive!Drop, Shown
    <3> QED BY <2>t, <3>2 DEF Archive!Next
  <2>4. ASSUME NEW i \in Item, Deliver(i) \/ BackoffExpires(i) PROVE Same
    BY <2>4 DEF Deliver, BackoffExpires, store
  <2>5. ASSUME NEW a \in Address,
               \/ Nudge(a) \/ NudgeLost(a) \/ GateExpires(a) \/ LaneFault(a) \/ Settle(a)
               \/ ReadDue(a) \/ GetCredential(a) \/ Guard(a) \/ Acquire(a) \/ FetchOk(a)
        PROVE  Same
    BY <2>5 DEF Nudge, NudgeLost, GateExpires, LaneFault, Settle, ReadDue, ReadDueFails, GetCredential,
      HoldLane, Guard, GuardFails, Acquire, FetchOk, FetchFails, Throttled, StoreFails, SettleFails, store
  <2>6. ASSUME NEW p \in Pass, StartQueued(p) \/ CohortRead(p) \/ CohortFails(p) \/ PassEnds(p)
        PROVE  Same
    BY <2>6 DEF StartQueued, CohortRead, CohortFails, PassEnds, store
  <2>7. ASSUME Sweep \/ Stop \/ Start \/ Crash \/ UNCHANGED vars PROVE Same
    BY <2>7 DEF Sweep, Stop, Start, Crash, vars, store
  <2> HIDE DEF Same
  <2>8. \/ Same
        \/ \E a \in Address : Store(a)
        \/ \E i \in Item : Purge(i)
    BY <2>4, <2>5, <2>6, <2>7 DEF Next, LaneStep
  <2> QED BY <2>1, <2>2, <2>3, <2>8
<1>3. Spec => []IInv
  BY TwoPasses, Invariance
<1> QED BY <1>1, <1>2, <1>3, PTL DEF Spec, ArchiveSpec, Archive!Spec
=============================================================================
