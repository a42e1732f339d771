---------------------------- MODULE ConnectorDrain ----------------------------
(***************************************************************************)
(* The drain worker of one process: ConnectorDrainWorker in                *)
(* src/backend/src/services/connector-drain.ts, kicked by POST /drain (the *)
(* only caller, which always forces), against the revocation state that    *)
(* the connector routes write.                                             *)
(*                                                                         *)
(* A kick starts a drain of its address, joins the one that is running, or *)
(* is given the previous result again.  Drains share MaxConcurrent slots.  *)
(* A drain makes passes over the queue, each several storage reads and     *)
(* writes long, until no kick joined it during the last one.               *)
(*                                                                         *)
(* A step is the code between two storage calls, which the event loop runs *)
(* without interruption: the waiter a slot is handed to counts itself in   *)
(* before anything else happens.  A drain is named after its first kick.   *)
(* The contents of a queue are its version: how many deliveries it has     *)
(* taken.                                                                  *)
(***************************************************************************)
EXTENDS Naturals, Sequences, FiniteSets

CONSTANTS
  Address,        \* the users' addresses
  Kick,           \* the calls of kick()
  AddressOf,      \* the address of each
  None,           \* no drain, no result
  MaxConcurrent,  \* MAX_CONCURRENT_DRAINS
  Floor,          \* FORCED_DRAIN_FLOOR_MS, in ticks
  MayStop,        \* whether the process shuts down
  MayRestart,     \* whether it may crash and start again
  MaxTime,        \* bound: ticks after the process start
  MaxVersion,     \* bound: deliveries to each address
  Changing        \* bound: the addresses that get deliveries and change consent

ASSUME DrainAssumption ==
  /\ AddressOf \in [Kick -> Address]
  /\ None \notin Kick
  /\ MaxConcurrent \in Nat \ {0}
  /\ Floor \in Nat
  /\ {MayStop, MayRestart} \subseteq BOOLEAN
  /\ {MaxTime, MaxVersion} \subseteq Nat
  /\ Changing \subseteq Address

VARIABLES
  now,        \* this.now(); every address starts with its last drain long ago
  version,    \* the deliveries each queue has taken
  consent,    \* where the user's enable and disable calls are
  flag,       \* connectorDrainAbort: the in-process abort flag
  marker,     \* the durable disabled marker
  stopped,    \* stop() was called
  running,    \* the drain registered for each address
  dirty,      \* the addresses kicked while a drain was registered
  waiting,    \* the drains waiting for a slot, in order
  active,     \* the slots counted as taken
  finishedAt, \* lastFinishedAt
  memo,       \* lastResult
  stage,      \* where each drain's pass is
  found,      \* the version the drain's pass read from the queue
  result,     \* the merged result of the drain's earlier passes
  call,       \* what each kick's caller sees
  joined,     \* the drain whose promise the kick returned, if one
  answer,     \* what the caller was given, or the remembered result it is to be given
  asked,      \* ghost: the queue's version when the kick was made
  banned      \* ghost: the address was disabled when the kick was made and stayed so

control == <<consent, flag, marker>>
slots   == <<waiting, active>>
passes  == <<stage, found, result>>
calls   == <<call, joined, answer, asked, banned>>
vars    == <<now, version, control, stopped, running, dirty, slots, finishedAt,
             memo, passes, calls>>

-----------------------------------------------------------------------------
\* A result surfaces the ids of a queue at version `seen`; `at` is when it was
\* remembered.
Result == [status: {"ok", "aborted"}, seen: Nat, at: Nat]

Aborted == [status |-> "aborted", seen |-> 0, at |-> 0]

\* What the route makes of a drain's verdict: one that is not "ok" surfaces no ids,
\* whatever ids came with it.  A rejection is answered with an error.
drainOutcome(r) == IF r # None /\ r.status # "ok" THEN Aborted ELSE r

InPass == {"begin", "marker", "due", "items", "settle"}

TypeOK ==
  /\ now \in Nat
  /\ version \in [Address -> Nat]
  /\ consent \in [Address -> {"enabled", "disabling", "disabled", "enabling"}]
  /\ flag \in [Address -> BOOLEAN]
  /\ marker \in [Address -> BOOLEAN]
  /\ stopped \in BOOLEAN
  /\ running \in [Address -> Kick \cup {None}]
  /\ dirty \subseteq Address
  /\ waiting \in Seq(Kick)
  /\ active \in Nat
  /\ finishedAt \in [Address -> Nat]
  /\ memo \in [Address -> Result \cup {None}]
  /\ stage \in [Kick -> {"none", "queued"} \cup InPass]
  /\ found \in [Kick -> Nat]
  /\ result \in [Kick -> Result \cup {None}]
  /\ call \in [Kick -> {"idle", "joined", "replaying", "resolved", "rejected"}]
  /\ joined \in [Kick -> Kick \cup {None}]
  /\ answer \in [Kick -> Result \cup {None}]
  /\ asked \in [Kick -> Nat]
  /\ banned \in [Kick -> BOOLEAN]

Init ==
  /\ now = Floor
  /\ version = [a \in Address |-> 0]
  /\ consent = [a \in Address |-> "enabled"]
  /\ flag = [a \in Address |-> FALSE]
  /\ marker = [a \in Address |-> FALSE]
  /\ stopped = FALSE
  /\ running = [a \in Address |-> None]
  /\ dirty = {}
  /\ waiting = <<>>
  /\ active = 0
  /\ finishedAt = [a \in Address |-> 0]
  /\ memo = [a \in Address |-> None]
  /\ stage = [k \in Kick |-> "none"]
  /\ found = [k \in Kick |-> 0]
  /\ result = [k \in Kick |-> None]
  /\ call = [k \in Kick |-> "idle"]
  /\ joined = [k \in Kick |-> None]
  /\ answer = [k \in Kick |-> None]
  /\ asked = [k \in Kick |-> 0]
  /\ banned = [k \in Kick |-> FALSE]

-----------------------------------------------------------------------------
(* kick *)

Forget(K) ==
  /\ asked' = [k \in Kick |-> IF k \in K THEN 0 ELSE asked[k]]
  /\ banned' = [k \in Kick |-> banned[k] /\ k \notin K]

\* Mutant: a drain is registered only once it has its slot.
RegisteredWithSlot(a) == running[a] # None /\ stage[running[a]] # "queued"

Registered(a) == running[a] # None

\* What every kick does, and what it leaves alone; the ghosts last until its answer.
Made(k) ==
  /\ call[k] = "idle"
  /\ UNCHANGED <<now, version, control, stopped, finishedAt, memo, found, result>>

Waits(k) ==
  /\ asked' = [asked EXCEPT ![k] = version[AddressOf[k]]]
  /\ banned' = [banned EXCEPT ![k] = marker[AddressOf[k]]]

KickStopped(k) ==
  /\ stopped
  /\ Made(k)
  /\ call' = [call EXCEPT ![k] = "resolved"]
  /\ answer' = [answer EXCEPT ![k] = Aborted]
  /\ UNCHANGED <<running, dirty, slots, stage, joined, asked, banned>>

\* A drain is registered: the kick makes it dirty and returns its promise.
KickJoins(k) ==
  /\ ~ stopped /\ Registered(AddressOf[k])
  /\ Made(k) /\ Waits(k)
  /\ dirty' = dirty \cup {AddressOf[k]}
  /\ call' = [call EXCEPT ![k] = "joined"]
  /\ joined' = [joined EXCEPT ![k] = running[AddressOf[k]]]
  /\ UNCHANGED <<running, slots, stage, answer>>

\* The last drain finished less than Floor ago, and a result is remembered.
WithinFloor(a) == now < finishedAt[a] + Floor /\ memo[a] # None

KickReplays(k) ==
  /\ ~ stopped /\ ~ Registered(AddressOf[k]) /\ WithinFloor(AddressOf[k])
  /\ Made(k) /\ Waits(k)
  /\ call' = [call EXCEPT ![k] = "replaying"]
  /\ answer' = [answer EXCEPT ![k] = memo[AddressOf[k]]]
  /\ UNCHANGED <<running, dirty, slots, stage, joined>>

AcquireSlot(k) ==
  IF active < MaxConcurrent
    THEN /\ active' = active + 1
         /\ stage' = [stage EXCEPT ![k] = "begin"]
         /\ UNCHANGED waiting
    ELSE /\ waiting' = Append(waiting, k)
         /\ stage' = [stage EXCEPT ![k] = "queued"]
         /\ UNCHANGED active

\* start: the drain is registered at once; it takes a slot, or waits for one.
KickStarts(k) ==
  /\ ~ stopped /\ ~ Registered(AddressOf[k]) /\ ~ WithinFloor(AddressOf[k])
  /\ Made(k) /\ Waits(k)
  /\ running' = [running EXCEPT ![AddressOf[k]] = k]
  /\ call' = [call EXCEPT ![k] = "joined"]
  /\ joined' = [joined EXCEPT ![k] = k]
  /\ AcquireSlot(k)
  /\ UNCHANGED <<dirty, answer>>

\* Mutant: the floor replays the verdict without reading the marker again.
ReplayUnchecked(k) ==
  /\ call[k] = "replaying"
  /\ call' = [call EXCEPT ![k] = "resolved"]
  /\ answer' = [answer EXCEPT ![k] = drainOutcome(@)]
  /\ Forget({k})
  /\ UNCHANGED <<now, version, control, stopped, running, dirty, slots, finishedAt,
                 memo, passes, joined>>

\* replayForcedResult: only the marker is read again; unreadable counts as revoked.
Replay(k) ==
  /\ call[k] = "replaying"
  /\ call' = [call EXCEPT ![k] = "resolved"]
  /\ \/ ~ marker[AddressOf[k]] /\ answer' = [answer EXCEPT ![k] = drainOutcome(@)]
     \/ answer' = [answer EXCEPT ![k] = Aborted]
  /\ Forget({k})
  /\ UNCHANGED <<now, version, control, stopped, running, dirty, slots, finishedAt,
                 memo, passes, joined>>

-----------------------------------------------------------------------------
(* The end of a pass *)

Outside == <<now, version, control, stopped>>

Joined(k) == {j \in Kick : call[j] = "joined" /\ joined[j] = k}

\* Mutant: the slot handed to a waiter is counted as free.
ReleaseUncounted(k) ==
  /\ active' = active - 1
  /\ waiting' = IF waiting = <<>> THEN waiting ELSE Tail(waiting)
  /\ stage' = [j \in Kick |-> IF j = k THEN "none"
                             ELSE IF waiting # <<>> /\ j = Head(waiting) THEN "begin"
                             ELSE stage[j]]

\* Mutant: the slot is given back and no waiter is woken.
ReleaseUnheard(k) ==
  /\ active' = active - 1
  /\ stage' = [stage EXCEPT ![k] = "none"]
  /\ UNCHANGED waiting

\* releaseSlot, with the step that the waiter it wakes takes next.
ReleaseSlot(k) ==
  IF waiting = <<>>
    THEN /\ active' = active - 1
         /\ stage' = [stage EXCEPT ![k] = "none"]
         /\ UNCHANGED waiting
    ELSE /\ waiting' = Tail(waiting)
         /\ stage' = [stage EXCEPT ![k] = "none", ![Head(waiting)] = "begin"]
         /\ UNCHANGED active

\* The drain of a finishes: its slot goes to the first that waits, it is no longer
\* registered, and its callers are answered with what the route makes of r, or rejected
\* with None.
Finish(k, a, r) ==
  /\ ReleaseSlot(k)
  /\ finishedAt' = [finishedAt EXCEPT ![a] = now]
  /\ running' = [running EXCEPT ![a] = None]
  /\ found' = [found EXCEPT ![k] = 0]
  /\ result' = [result EXCEPT ![k] = None]
  /\ call' = [j \in Kick |-> IF j \notin Joined(k) THEN call[j]
                             ELSE IF r = None THEN "rejected" ELSE "resolved"]
  /\ answer' = [j \in Kick |-> IF j \in Joined(k) THEN drainOutcome(r) ELSE answer[j]]
  /\ joined' = [j \in Kick |-> IF j \in Joined(k) THEN None ELSE joined[j]]
  /\ Forget(Joined(k))
  /\ UNCHANGED Outside

\* runPasses: an earlier pass's ids stay surfaced, the last pass's status counts.
Merged(k, status, seen) ==
  [status |-> status, at |-> 0,
   seen |-> IF result[k] # None /\ result[k].seen > seen THEN result[k].seen ELSE seen]

\* Mutant: the drain does not look at what was kicked meanwhile.
NoneMore(a, status) == FALSE

\* One more pass if the address was kicked during this one.
OneMore(a, status) == a \in dirty /\ status = "ok" /\ ~ stopped

\* A pass is over: one more, or the drain returns.
PassEnds(k, status, seen) ==
  LET a == AddressOf[k]
      r == Merged(k, status, seen)
  IN /\ dirty' = dirty \ {a}
     /\ IF OneMore(a, status)
          THEN /\ stage' = [stage EXCEPT ![k] = "begin"]
               /\ result' = [result EXCEPT ![k] = r]
               /\ found' = [found EXCEPT ![k] = 0]
               /\ UNCHANGED <<Outside, running, slots, finishedAt, memo, calls>>
          ELSE /\ memo' = [memo EXCEPT ![a] = [r EXCEPT !.at = now]]
               /\ Finish(k, a, r)

\* A storage call of the pass rejects: so does the drain.  Nothing is remembered,
\* and the address stays dirty if it was.
PassThrows(k) ==
  /\ stage[k] \in {"marker", "due", "items", "settle"}
  /\ Finish(k, AddressOf[k], None)
  /\ UNCHANGED <<dirty, memo>>

-----------------------------------------------------------------------------
(* runOnce *)

GoOn(k, next) ==
  /\ stage' = [stage EXCEPT ![k] = next]
  /\ UNCHANGED <<Outside, running, dirty, slots, finishedAt, memo, result, calls>>

CheckFlag(k) ==
  /\ stage[k] = "begin"
  /\ IF flag[AddressOf[k]] THEN PassEnds(k, "aborted", 0)
                           ELSE GoOn(k, "marker") /\ UNCHANGED found

\* The config record is read first: a missing one aborts the pass as the marker does.
ReadMarker(k) ==
  /\ stage[k] = "marker"
  /\ IF marker[AddressOf[k]] THEN PassEnds(k, "aborted", 0)
                             ELSE GoOn(k, "due") /\ UNCHANGED found

\* Nothing due is a result at once.
ReadDue(k) ==
  /\ stage[k] = "due"
  /\ \/ PassEnds(k, "ok", version[AddressOf[k]])
     \/ /\ found' = [found EXCEPT ![k] = version[AddressOf[k]]]
        /\ GoOn(k, "items")

\* The ledger, the delegation, and the flag and from time to time the marker between
\* the items: any of them may end the pass with some items surfaced, or none.
Abort(k) ==
  /\ stage[k] = "items"
  /\ \E seen \in {0, found[k]} : PassEnds(k, "aborted", seen)

\* The last item has been checked.
LastItem(k) ==
  /\ stage[k] = "items" /\ ~ flag[AddressOf[k]]
  /\ GoOn(k, "settle") /\ UNCHANGED found

Settle(k) ==
  /\ stage[k] = "settle"
  /\ PassEnds(k, "ok", found[k])

Drain(k) ==
  \/ CheckFlag(k) \/ ReadMarker(k) \/ ReadDue(k) \/ Abort(k) \/ LastItem(k) \/ Settle(k)
  \/ PassThrows(k)

-----------------------------------------------------------------------------
(* Environment *)

Worker == <<running, dirty, slots, finishedAt, memo, passes>>

Tick ==
  /\ now < Floor + MaxTime
  /\ now' = now + 1
  /\ UNCHANGED <<version, control, stopped, Worker, calls>>

Deliver(a) ==
  /\ version[a] < MaxVersion
  /\ version' = [version EXCEPT ![a] = @ + 1]
  /\ UNCHANGED <<now, control, stopped, Worker, calls>>

\* DELETE /config: the flag, then the marker.  POST /config: the flag, then the marker.
Disable(a) ==
  /\ consent[a] = "enabled"
  /\ consent' = [consent EXCEPT ![a] = "disabling"]
  /\ flag' = [flag EXCEPT ![a] = TRUE]
  /\ UNCHANGED <<now, version, marker, stopped, Worker, calls>>

MarkDisabled(a) ==
  /\ consent[a] = "disabling"
  /\ consent' = [consent EXCEPT ![a] = "disabled"]
  /\ marker' = [marker EXCEPT ![a] = TRUE]
  /\ UNCHANGED <<now, version, flag, stopped, Worker, calls>>

Enable(a) ==
  /\ consent[a] = "disabled"
  /\ consent' = [consent EXCEPT ![a] = "enabling"]
  /\ flag' = [flag EXCEPT ![a] = FALSE]
  /\ UNCHANGED <<now, version, marker, stopped, Worker, calls>>

ClearDisabled(a) ==
  /\ consent[a] = "enabling"
  /\ consent' = [consent EXCEPT ![a] = "enabled"]
  /\ marker' = [marker EXCEPT ![a] = FALSE]
  /\ banned' = [k \in Kick |-> banned[k] /\ AddressOf[k] # a]
  /\ UNCHANGED <<now, version, flag, stopped, Worker, call, joined, answer, asked>>

\* Shutdown: new kicks are refused, drains in flight finish.
Stop ==
  /\ MayStop /\ ~ stopped
  /\ stopped' = TRUE
  /\ UNCHANGED <<now, version, control, Worker, calls>>

\* The process dies and comes back; only the queue, the marker and the clock remain.
\* A disable or enable call that was cut short has failed, for its client to repeat.
Restart ==
  /\ MayRestart
  /\ consent' = [a \in Address |-> IF marker[a] THEN "disabled" ELSE "enabled"]
  /\ flag' = [a \in Address |-> FALSE]
  /\ stopped' = FALSE
  /\ running' = [a \in Address |-> None]
  /\ dirty' = {} /\ waiting' = <<>> /\ active' = 0
  /\ finishedAt' = [a \in Address |-> 0] /\ memo' = [a \in Address |-> None]
  /\ stage' = [k \in Kick |-> "none"]
  /\ found' = [k \in Kick |-> 0] /\ result' = [k \in Kick |-> None]
  /\ call' = [k \in Kick |-> IF call[k] \in {"joined", "replaying"} THEN "rejected" ELSE call[k]]
  /\ answer' = [k \in Kick |-> IF call[k] = "resolved" THEN answer[k] ELSE None]
  /\ joined' = [k \in Kick |-> None]
  /\ Forget(Kick)
  /\ UNCHANGED <<now, version, marker>>

Next ==
  \/ \E k \in Kick :
       KickStopped(k) \/ KickJoins(k) \/ KickReplays(k) \/ KickStarts(k) \/ Replay(k) \/ Drain(k)
  \/ \E a \in Changing :
       Deliver(a) \/ Disable(a) \/ MarkDisabled(a) \/ Enable(a) \/ ClearDisabled(a)
  \/ Tick \/ Stop \/ Restart

\* Storage calls return; nothing is assumed of users, deliveries or the process.
Fairness == \A k \in Kick : WF_vars(Replay(k)) /\ WF_vars(Drain(k))

Spec == Init /\ [][Next]_vars /\ Fairness

-----------------------------------------------------------------------------
(* Properties *)

\* "It never starts a second one": whatever kicks arrive while it waits for a slot,
\* reads or finishes, an address has at most one drain.
OneDrainPerAddress ==
  \A j, k \in Kick :
    stage[j] # "none" /\ stage[k] # "none" /\ AddressOf[j] = AddressOf[k] => j = k

\* The global cap: the slots counted are those of the drains in a pass, never more
\* than the maximum, and no drain waits while one is free.
SlotsAreExact ==
  /\ active = Cardinality({k \in Kick : stage[k] \in InPass})
  /\ active <= MaxConcurrent
  /\ waiting # <<>> => active = MaxConcurrent

Answered(k) == call[k] # "resolved" /\ call'[k] = "resolved"

\* stop() keeps a drain from the further pass that the kicks which joined it asked for.
CutShort(k) == stopped /\ joined[k] # None /\ AddressOf[k] \in dirty

\* A kick that starts or joins a drain is answered "ok" only with every delivery that was
\* queued before it: the queue was read after the kick, unless stop() cut the drain short.
\* A kick that is given the previous result again is not covered.
KickIsHeard ==
  [][\A k \in Kick :
       Answered(k) /\ joined[k] # None /\ answer'[k].status = "ok" /\ ~ CutShort(k)
         => answer'[k].seen >= asked[k]]_vars

\* A kick made after the disabled marker is durable, and answered while it still is, is
\* answered with no ids, also when it joins a drain that read the marker before, is given
\* a remembered result, or the process lost its abort flags.  The exception is a drain
\* that stop() cuts short: its last pass may have read the marker before the kick.
RevokedKickGetsNothing ==
  [][\A k \in Kick :
       Answered(k) /\ banned[k] => answer'[k].seen = 0 \/ CutShort(k)]_vars

\* A replayed result is that of the previous drain, less than Floor old.
ReplayIsPrevious ==
  [][\A k \in Kick :
       call[k] = "idle" /\ call'[k] = "replaying"
         => memo[AddressOf[k]].at = finishedAt[AddressOf[k]]]_vars

\* Every one of finitely many kicks is answered: whoever else holds the slots, a drain
\* does not wait for one for ever, because each drain that ends or throws gives its slot to
\* the next.  (Kicks without end may keep a drain, and its slot, looping for ever.)
EveryKickAnswered ==
  \A k \in Kick : call[k] \in {"joined", "replaying"} ~> call[k] \in {"resolved", "rejected"}
=============================================================================
