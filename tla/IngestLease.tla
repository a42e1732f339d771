---------------------------- MODULE IngestLease ----------------------------
(***************************************************************************)
(* The single-instance seat of the backend ingest: the lease in the        *)
(* backend's KV, IngestInstanceGuard and IngestInstanceSupervisor of       *)
(* src/backend/src/services/ingest-instance.ts, on several processes.      *)
(*                                                                         *)
(* The store has no compare-and-set, so claim is read, write, read again;  *)
(* renew is read, write; release is read, delete; and every storage call   *)
(* is a step of its own that may fail or lose its response.  Time is       *)
(* counted in heartbeats.  A prompt process starts one tick a heartbeat    *)
(* and its storage calls return within it; any other may stall for as long *)
(* as it likes in the middle of a tick.                                    *)
(***************************************************************************)
EXTENDS Naturals

CONSTANTS
  Instance,   \* the processes, by instanceId (one that restarts has a pinned id)
  None,       \* no process
  TTL,        \* INSTANCE_LEASE_TTL_MS, in heartbeats
  Prompt,     \* the processes that neither stall nor wait long for storage
  Mortal,     \* the processes that may crash or be shut down
  MayRestart, \* whether a process that exited comes back under its (pinned) id
  MayStop,    \* whether the mortal ones may be shut down (SIGTERM)
  MayFail,    \* whether storage calls may fail
  MayMangle   \* whether the stored lease may become unparseable

ASSUME LeaseAssumption ==
  /\ None \notin Instance
  /\ TTL \in Nat \ {0}
  /\ Prompt \subseteq Instance
  /\ Mortal \subseteq Instance
  /\ {MayRestart, MayStop, MayFail, MayMangle} \subseteq BOOLEAN

VARIABLES
  lease,    \* the stored record: who, and how long ago its heartbeat was stamped
  life,     \* down, up (its timer ticks), stopped (stop() was called), or gone
  holder,   \* guard.isHolder()
  worker,   \* the supervised fetch worker is running
  tick,     \* where the process's tick() is
  stamp,    \* heartbeats since the record its pending write carries was stamped
  ticked,   \* the process started a tick in this heartbeat
  release,  \* where the process's release() is
  heldFor,  \* ghost: whether it has held the seat over a whole heartbeat (0 or 1)
  usurped   \* ghost: whole heartbeats a holder has not been the stored owner (0..2)

vars == <<lease, life, holder, worker, tick, stamp, ticked, release, heldFor, usurped>>

Empty   == [state |-> "empty", owner |-> None, age |-> 0]
Mangled == [state |-> "mangled", owner |-> None, age |-> 0]
Record(i, age) == [state |-> "record", owner |-> i, age |-> age]

TypeOK ==
  /\ lease \in {Empty, Mangled} \cup {Record(i, a) : i \in Instance, a \in 0..TTL}
  /\ life \in [Instance -> {"down", "up", "stopped", "gone"}]
  /\ holder \in [Instance -> BOOLEAN]
  /\ worker \in [Instance -> BOOLEAN]
  /\ tick \in [Instance -> {"idle", "claimRead", "claimWrite", "claimConfirm",
                            "renewRead", "renewWrite"}]
  /\ stamp \in [Instance -> 0..TTL]
  /\ ticked \in [Instance -> BOOLEAN]
  /\ release \in [Instance -> {"idle", "read", "clear"}]
  /\ heldFor \in [Instance -> 0..1]
  /\ usurped \in [Instance -> 0..2]

Init ==
  /\ lease = Empty
  /\ life = [i \in Instance |-> "down"]
  /\ holder = [i \in Instance |-> FALSE]
  /\ worker = [i \in Instance |-> FALSE]
  /\ tick = [i \in Instance |-> "idle"]
  /\ stamp = [i \in Instance |-> 0]
  /\ ticked = [i \in Instance |-> FALSE]
  /\ release = [i \in Instance |-> "idle"]
  /\ heldFor = [i \in Instance |-> 0]
  /\ usurped = [i \in Instance |-> 0]

-----------------------------------------------------------------------------
Older(age) == IF age < TTL THEN age + 1 ELSE TTL

\* A parsed lease: a record, and not a value parseInstanceLease returns null for.
Parsed == lease.state = "record"
Owns(i) == Parsed /\ lease.owner = i

\* i's tick is over, with or without the seat.
Over(i, seated) ==
  /\ holder' = [holder EXCEPT ![i] = seated]
  /\ tick' = [tick EXCEPT ![i] = "idle"]
  /\ stamp' = [stamp EXCEPT ![i] = 0]
  /\ heldFor' = [heldFor EXCEPT ![i] = IF seated THEN @ ELSE 0]
  /\ usurped' = [usurped EXCEPT ![i] = IF seated THEN @ ELSE 0]

\* Mutant: a worker that runs is never stopped.
SettleUnstopped(i, seated) ==
  Over(i, seated) /\ worker' = [worker EXCEPT ![i] = @ \/ seated]

\* A claim that succeeds starts the worker; a renewal that fails, and an exit, stop it.
Settle(i, seated) ==
  Over(i, seated) /\ worker' = [worker EXCEPT ![i] = seated]

\* A claim that is refused starts nothing, and stops nothing either.
Refuse(i) ==
  Over(i, FALSE) /\ UNCHANGED worker

\* i's tick goes on to its next storage call.
GoOn(i, next) ==
  /\ tick' = [tick EXCEPT ![i] = next]
  /\ stamp' = [stamp EXCEPT ![i] = 0]
  /\ UNCHANGED <<holder, worker, heldFor, usurped>>

StartTick(i) ==
  /\ life[i] = "up" /\ tick[i] = "idle" /\ ~ ticked[i]
  /\ ticked' = [ticked EXCEPT ![i] = TRUE]
  /\ tick' = [tick EXCEPT ![i] = IF holder[i] THEN "renewRead" ELSE "claimRead"]
  /\ UNCHANGED <<lease, life, holder, worker, stamp, release, heldFor, usurped>>

\* Mutants: a live holder's lease is taken over, and an expired one is not.
MayClaimLive(i)  == lease.state # "mangled"
MayClaimOwned(i) == lease.state = "empty" \/ Owns(i)

\* claim's first read: another's live lease, or one that cannot be read or parsed,
\* refuses the seat; an empty seat, an expired lease and its own go on to the write.
MayClaim(i) ==
  \/ lease.state = "empty"
  \/ Owns(i)
  \/ Parsed /\ lease.owner # i /\ lease.age >= TTL

ClaimRead(i) ==
  /\ tick[i] = "claimRead"
  /\ \/ MayClaim(i) /\ GoOn(i, "claimWrite")
     \/ (~ MayClaim(i) \/ MayFail) /\ Refuse(i)
  /\ UNCHANGED <<lease, life, ticked, release>>

\* The outcomes of a storage call that changes the lease: landed and acknowledged,
\* landed with its response lost, not landed.
Outcomes ==
  {[landed |-> TRUE, acked |-> TRUE]} \cup
  (IF MayFail THEN {[landed |-> l, acked |-> FALSE] : l \in BOOLEAN} ELSE {})

\* Mutant: the record is built from the one that was read.
ClaimWriteRead(i) ==
  /\ tick[i] = "claimWrite"
  /\ \E o \in Outcomes :
       /\ lease' = IF o.landed THEN Record(lease.owner, stamp[i]) ELSE lease
       /\ IF o.acked THEN GoOn(i, "claimConfirm") ELSE Refuse(i)
  /\ UNCHANGED <<life, ticked, release>>

ClaimWrite(i) ==
  /\ tick[i] = "claimWrite"
  /\ \E o \in Outcomes :
       /\ lease' = IF o.landed THEN Record(i, stamp[i]) ELSE lease
       /\ IF o.acked THEN GoOn(i, "claimConfirm") ELSE Refuse(i)
  /\ UNCHANGED <<life, ticked, release>>

\* The confirming read: the seat is held only if the write survived.
ClaimConfirm(i) ==
  /\ tick[i] = "claimConfirm"
  /\ \/ Owns(i) /\ Settle(i, TRUE)
     \/ (~ Owns(i) \/ MayFail) /\ Refuse(i)
  /\ UNCHANGED <<lease, life, ticked, release>>

\* Mutant: a renewal that finds another's lease is skipped, and the seat kept.
RenewReadTolerant(i) ==
  /\ tick[i] = "renewRead"
  /\ IF Owns(i) THEN GoOn(i, "renewWrite") ELSE Settle(i, TRUE)
  /\ UNCHANGED <<lease, life, ticked, release>>

RenewRead(i) ==
  /\ tick[i] = "renewRead"
  /\ \/ Owns(i) /\ GoOn(i, "renewWrite")
     \/ (~ Owns(i) \/ MayFail) /\ Settle(i, FALSE)
  /\ UNCHANGED <<lease, life, ticked, release>>

\* A renewal that succeeds leaves guard.holder as it is and (re)starts the worker.
RenewWrite(i) ==
  /\ tick[i] = "renewWrite"
  /\ \E o \in Outcomes :
       /\ lease' = IF o.landed THEN Record(i, stamp[i]) ELSE lease
       /\ IF o.acked
            THEN /\ worker' = [worker EXCEPT ![i] = TRUE]
                 /\ tick' = [tick EXCEPT ![i] = "idle"]
                 /\ stamp' = [stamp EXCEPT ![i] = 0]
                 /\ UNCHANGED <<holder, heldFor, usurped>>
            ELSE Settle(i, FALSE)
  /\ UNCHANGED <<life, ticked, release>>

\* stop(): the timer and the worker stop, and a holder goes on to release.  A tick
\* in flight is not waited for.
Stop(i) ==
  /\ MayStop /\ i \in Mortal /\ life[i] = "up"
  /\ life' = [life EXCEPT ![i] = "stopped"]
  /\ worker' = [worker EXCEPT ![i] = FALSE]
  /\ release' = [release EXCEPT ![i] = IF holder[i] THEN "read" ELSE "idle"]
  /\ holder' = [holder EXCEPT ![i] = FALSE]
  /\ heldFor' = [heldFor EXCEPT ![i] = 0]
  /\ usurped' = [usurped EXCEPT ![i] = 0]
  /\ UNCHANGED <<lease, tick, stamp, ticked>>

\* release's read: another's lease is left alone; its own, none, and one that does
\* not parse go on to the delete.
ReleaseRead(i) ==
  /\ release[i] = "read"
  /\ \/ /\ ~ (Parsed /\ lease.owner # i)
        /\ release' = [release EXCEPT ![i] = "clear"]
     \/ /\ (Parsed /\ lease.owner # i) \/ MayFail
        /\ release' = [release EXCEPT ![i] = "idle"]
  /\ UNCHANGED <<lease, life, holder, worker, tick, stamp, ticked, heldFor, usurped>>

ReleaseClear(i) ==
  /\ release[i] = "clear"
  /\ \E o \in Outcomes : lease' = IF o.landed THEN Empty ELSE lease
  /\ release' = [release EXCEPT ![i] = "idle"]
  /\ UNCHANGED <<life, holder, worker, tick, stamp, ticked, heldFor, usurped>>

-----------------------------------------------------------------------------
(* Environment *)

Boot(i) ==
  /\ life[i] = "down"
  /\ life' = [life EXCEPT ![i] = "up"]
  /\ ticked' = [ticked EXCEPT ![i] = FALSE]
  /\ UNCHANGED <<lease, holder, worker, tick, stamp, release, heldFor, usurped>>

\* The process exits or is killed; the lease stays behind.
Exit(i) ==
  /\ life[i] = "stopped" \/ (life[i] = "up" /\ i \in Mortal)
  /\ life' = [life EXCEPT ![i] = IF MayRestart THEN "down" ELSE "gone"]
  /\ release' = [release EXCEPT ![i] = "idle"]
  /\ ticked' = [ticked EXCEPT ![i] = FALSE]
  /\ Settle(i, FALSE)
  /\ UNCHANGED lease

Mangle ==
  /\ MayMangle /\ lease # Mangled
  /\ lease' = Mangled
  /\ UNCHANGED <<life, holder, worker, tick, stamp, ticked, release, heldFor, usurped>>

\* A heartbeat interval passes.  Prompt processes have ticked and are waiting for
\* nothing.
Advance ==
  /\ \A i \in Prompt :
       /\ life[i] = "up" => ticked[i]
       /\ tick[i] = "idle" /\ release[i] = "idle"
  /\ lease' = [lease EXCEPT !.age = IF Parsed THEN Older(@) ELSE 0]
  /\ stamp' = [i \in Instance |->
       IF tick[i] \in {"claimWrite", "renewWrite"} THEN Older(stamp[i]) ELSE stamp[i]]
  /\ ticked' = [i \in Instance |-> FALSE]
  /\ heldFor' = [i \in Instance |-> IF holder[i] THEN 1 ELSE 0]
  /\ usurped' = [i \in Instance |->
       IF holder[i] /\ ~ Owns(i) THEN (IF usurped[i] < 2 THEN usurped[i] + 1 ELSE 2) ELSE 0]
  /\ UNCHANGED <<life, holder, worker, tick, release>>

Step(i) ==
  \/ StartTick(i) \/ ClaimRead(i) \/ ClaimWrite(i) \/ ClaimConfirm(i)
  \/ RenewRead(i) \/ RenewWrite(i) \/ ReleaseRead(i) \/ ReleaseClear(i)

Next ==
  \/ \E i \in Instance : Step(i) \/ Boot(i) \/ Stop(i) \/ Exit(i)
  \/ Mangle
  \/ Advance

\* Timers fire, storage calls return, time passes, and every process is booted once;
\* crashes, shutdowns and restarts are not assumed.
Fairness ==
  /\ WF_vars(Advance)
  /\ \A i \in Instance : WF_vars(Step(i))
  /\ \A i \in Instance : WF_vars(Boot(i))

Spec == Init /\ [][Next]_vars /\ Fairness

-----------------------------------------------------------------------------
(* Properties *)

\* A prompt process that has lost the stored lease to anyone, by a claim race, a
\* takeover or a corrupted record, stops consuming within a heartbeat: two prompt
\* holders never outlast it.
UsurpedHolderStops == \A i \in Prompt : life[i] = "up" => usurped[i] <= 1

\* Where every process is prompt, one that has held the seat over a heartbeat keeps it:
\* no boot, restart or late write of another takes it, whatever storage does.
SeatIsNotStolen ==
  [][\A i \in Instance :
       life[i] = "up" /\ holder[i] /\ heldFor[i] = 1 /\ Owns(i)
         => Owns(i)' \/ lease' = Mangled]_vars

\* Where every process is prompt, nobody joins a holder that has kept the seat over a
\* heartbeat: a claim of another ends without the seat for as long as it holds, also when
\* renewals fail to land or the stored lease no longer parses.
HeldSeatIsNotShared ==
  [][\A i, j \in Instance :
       i # j /\ life[i] = "up" /\ holder[i] /\ heldFor[i] = 1 /\ usurped[i] = 0 /\ ~ holder[j]
         => ~ holder'[j]]_vars

\* While its supervisor ticks, a process without the seat consumes nothing.
TickingWorkerNeedsSeat ==
  \A i \in Instance : life[i] = "up" /\ worker[i] => holder[i]

\* "Hold the seat => the worker runs; lose or fail to take it => the worker does not,
\* and this process consumes nothing": also once stop() has been called.
WorkerNeedsSeat == \A i \in Instance : worker[i] => holder[i]

\* Release removes the process's own lease and no other.
ReleaseClearsOwnOnly ==
  [][\A i \in Instance : ReleaseClear(i) /\ lease' # lease => Owns(i)]_vars

\* The seat does not stay empty: after any crash or clean shutdown of its holder a
\* surviving process takes it over.
SeatIsTaken == []<>(\E i \in Instance : holder[i] /\ worker[i])
=============================================================================
