# A TLA+ verification of TinyChat's connector ingest

TinyChat is a chat application whose backend (`src/backend`) receives meeting webhooks from
transcription providers, queues them durably in its own TinyCloud KV space, and lets the user's
browser, or a server-side fetch worker, fetch what was announced. This project models that ingest
path: the durable queue, the lane all storage calls go through, the lease that makes one process the
consumer, the drain that surfaces queued ids to the user, the fetch worker that fetches in the
user's place, and the content store that keeps what it fetched until the browser copied it, the user
purged it or its retention ended.

The modules are written from the code; where a comment of the code promises something, the promise
is stated as a property and either checked or shown to be violated.

## 1. The system

### Components

| Component | State | Operations | Hard behaviour |
|---|---|---|---|
| Connector queue, `services/connector-queue.ts` | per (source, address): a pending array and a dead-letter array in KV, a quarantine key; in memory a promise-chain lock and the open coalescing batch | `enqueue`, `list`, `due`, `dead`, `sweep`, `settle`, `acknowledge`, `clear` | two writes per promotion, failed and half-acknowledged writes, crashes, bursts, clear against open batches |
| Storage lane, `services/backend-storage-lane.ts` | two FIFO queues, the running job, the count of overtakings | `run`, `drain`, `next`, wait timeouts | starvation, timeouts racing the pick |
| Ingest lease and supervisor, `services/ingest-instance.ts` | a lease record in KV; per process `holder`, the timer, the worker | `claim`, `renew`, `release`, `tick`, `start`, `stop` | no compare-and-set, stalled processes, shutdown during a tick |
| Drain worker, `services/connector-drain.ts` | running drains, dirty set, slots, remembered results | `kick`, `stop`, the passes of a drain | joining, slot hand-over, revocation while a pass runs |
| Webhook routes, `routes/connector-webhooks.ts` | limiters, abort flags, disabled marker, purge ledger | deliver, enable, disable, drain, ack, purge | revocation order, surfacing |
| Fetch worker, `services/fetch-worker.ts`, `ingest-nudge.ts` | the running and the queued pass, dirty addresses, lane gates and item claims, a semaphore per provider | `nudge`, the sweep timer, `start`, `stop`, the pipeline of a lane | nudges during a pass, slot hand-over, purge between check and store, stop during a pass, a 429 in the middle of a batch |
| Content store and retention, `services/content-store.ts`, `ingest-retention.ts` | a sealed blob per meeting and one index of rows and retention tombstones per tenant; a lane | `upsert`, `sweepRetention`, `purge`, `markReconciled` | blob and index writes separated by a failure or a crash, caps, halves in any order |
| Teardown, `services/connector-teardown.ts`, and the ledger routes | the purge ledger | `run`, `POST /purged`, `DELETE /purged` | ledger before deletion, replays racing the purge, retries |
| Browser reconcile, `frontend/.../backendReconcile.ts` | the user's own copy | read, write, acknowledge | a half arrives, or the meeting goes, between read and acknowledgement |
| Ingest mode, tokens, credentials | KV records and caches | enable, rotate, revoke | multi-key sequences, stale caches |
| Write lane, transcript delivery, calendar auto-join, provider clients, billing, exo mailbox, chat agent, attestation, frontend, desktop, mobile, packages, tooling | | | see "Not modelled" |

### How they interact

A provider's webhook reaches `POST /connectors/webhooks/...`, which checks the token, the rate
limits and the disabled marker and calls `queue.enqueue`. The 202 is sent when the batch's flush has
landed. Every storage call of the queue, the tokens and the control store goes through the storage
lane. The user's browser calls `POST /drain`, which kicks the drain worker and gets ids to fetch,
and `POST /ack`, which removes what the browser wrote. In server mode the fetch worker does that
work instead, and only in the process that holds the ingest lease: each delivery nudges it, a timer
sweeps the whole cohort, and a lane per address takes the due items through the tombstone check, a
slot, the fetch, the content store and one settle of the queue. The browser later reads the rows that
are not reconciled, writes them to the user's space and acknowledges them. A teardown writes the
purge ledger first and purges the content store then, so that nothing that is still in flight, or
replayed later, is stored again. Disabling sets the in-process
abort flag, then the durable marker, then revokes the token and clears the queue; enabling clears
the flag, the queue and the marker, in this order.

### What makes each component correct

- queue: an acknowledged delivery is never lost; a cleared one never returns; one record per
  identity; dead-letter reasons are true; a corrupt container is copied before it is reset; every
  delivery is answered; bursts cost a bounded number of writes.
- lane: one job at a time, bounded overtaking, no idling, a timed-out job never runs.
- lease: one consumer, whatever happens to processes and storage; the seat is taken again after a
  crash; no process without the seat consumes.
- drain: one drain per address and at most the cap in total; what a drain answers a kick covers what
  was queued before it; a revoked user is given no ids; every kick is answered.
- fetch worker: one pass at a time; a nudge is never left to nobody; the provider's budget is exact
  and a held lane quiet; an item leaves the queue only stored, purged or dead-lettered, and does leave
  it in the end.
- content store and teardown: a purged or swept meeting is not stored again while it is barred, not
  even as an orphan blob; the index shows a meeting grow by halves and go as a whole; no stamp precedes
  the user's own copy; a teardown can end anywhere and be repeated.

## 2. Plan

Done, in this order: `ConnectorQueue` and `StorageLane`; `IngestLease` and `ConnectorDrain`;
`ContentStore` with the abstract `MeetingArchive` it implements; `FetchWorker`; `DeliveryBook`, which
`ConnectorQueue` implements; the proofs of all of them. What is left, the most important first:

1. Consent over the routes: `POST /ack` between the queue and the content store, the rate limiters,
   the delivery handler's path from token to `enqueue`.
2. Tokens and credentials: rotate and revoke as sequences of writes on several keys, with caches.
3. The composition of `FetchWorker` with `DeliveryBook` and with `IngestLease` (two processes that both
   believe they hold the seat).
4. The billing ledger's flush and rehydration, calendar auto-join's one bot per meeting, the exo
   mailbox.

## 3. The modules

### ConnectorQueue and DeliveryBook

One (source, address) pair. `pending` and `dead` are the stored arrays as sets of records;
`batches`, `current` and `lock` are the in-memory state; `phase`, `newPending`, `newDead`,
`released` and `acked` are the local variables of the operation that holds the lock.

| Code | Model |
|---|---|
| `enqueue` up to its promise | `Enqueue(d)`: joins the batch in the map or opens one |
| the batch's timer | `WindowCloses(b)`: the flush is chained on the lock, the batch stays in the map |
| `settle`, `acknowledge`, `list`, `due`, `dead`, `sweep` calls | `Request(op)` |
| `clear` up to `withLock` | `Clear`: supersedes and removes the batch synchronously |
| `withLock` running the next operation, `flushBatch` | `Acquire` |
| `readState` and the computation that follows it | `ReadFlush`, `ReadSettle`, `ReadAcknowledge`, `ReadSweep`, `CountStored`, `ReadMangled`, `ReadFails` |
| each storage write | `WriteQuarantine`, `WriteReset`, `WriteDead`, `WritePending`, `DeletePending`, `DeleteDead` |
| the operation's promise | `Respond`, `Reject` |
| the environment | `Tick`, `Crash`, `Mangle` |

Every write has three outcomes: acknowledged, landed with the response lost, not landed; the holder
goes on only in the first. (`withSessionRefresh` may repeat a call once; the writes are puts and
deletes of whole values, so a repeated one is the same as one.) The two reads of `readState` are one
step: nobody else writes these keys while the lock is held. After a quarantine the model reads
again, where the code goes on with an empty queue; the value read is the one just written. Only the
pending value can be corrupted (`Mangle`): a dead-letter value that is not an array is taken by
`readState` for an empty one, without a copy, and is not modelled.

Abstractions: meeting ids and kinds are one identity; timestamps are ticks; the jitter (under a
tenth of the delay) is left out; entries of an array that fail validation one by one are left out;
the order of the stored arrays is left out, except that a tie between equally old records may be
broken either way when a cap drops one. `owed` and `clearedAt` are ghosts: what was answered 202 and
not removed by name since, and when the last completed clear was called.

`DeliveryBook` is what the queue is to the routes, the drain and the user, without batches, lock or
storage. `offered` are the identities with a delivery accepted and not superseded, `waiting` and
`failed` those queued and given up, `promised` those answered 202 and not removed since. A delivery
arrives (`Offer`), is answered (`Answer`: only what was offered and waits), or is superseded, refused
or lost with the process (`Withdraw`). Any operation that changes what is stored is one `Take`: what it
adds was offered, what it gives up was waiting, and a promise ends only with its item.
`ConnectorQueue` implements it with `waiting` as the pending identities, `failed` as the dead ones that
are not pending as well, and `offered` as the entries of the batches no clear has superseded. Hence
the two writes of a promotion appear as one step: the first, while the item is still pending, as none,
and a crash between them as a promotion that did not happen.

### StorageLane

`foreground` and `background` are the waiting queues, `running` the job that was picked, `overtaken`
the code's counter. `RunForeground` and `RunBackground` are `run`, `Finish` is the `finally` of a
settled job, `TimeoutForeground` and `TimeoutBackground` are the wait timers. `Drain` is
`drain` and `next`, which the code calls at the end of `run` and of a settled job, so it is part of
both actions. A job may be submitted again after it settled or timed out, which makes traffic
endless. `place` and `passed` are ghosts for the overtaking bound.

### IngestLease

Several processes and one lease record. Time is counted in heartbeats (30 s), the TTL is three.
`tick[i]` says which storage call process i's tick is waiting for. `StartTick`, `ClaimRead`,
`ClaimWrite`, `ClaimConfirm`, `RenewRead`, `RenewWrite` are `tick` with `claim` and `renew`; `Stop`,
`ReleaseRead`, `ReleaseClear` are `stop` with `release`; `Boot` and `Exit` start and end a process.
`Settle` ends a tick and starts or stops the worker; a claim that is refused (`Refuse`) ends it and
leaves the worker as it is. `stamp[i]` is the age of the timestamp that a pending write carries. A
process in `Prompt` starts its tick in every heartbeat and its storage calls return within it; any other
may stall in the middle of a tick for ever. Clocks are assumed to agree to within a heartbeat.

Not modelled: a process that is so stalled that its interval starts a second tick while the first
still waits, and the path where the worker refuses to start (nothing in `index.ts` can make it).

### ConnectorDrain

One process. `running`, `dirty`, `waiting`, `active`, `finishedAt` and `memo` are the worker's maps;
`stage`, `found` and `result` are the local state of a drain, named after the kick that started it;
`flag` and `marker` are the abort flag and the durable marker. `KickStopped`, `KickJoins`,
`KickReplays` and `KickStarts` are the four ways out of `kick`; `Replay` is `replayForcedResult`;
`CheckFlag`, `ReadMarker`, `ReadDue`, `Abort`, `LastItem` and `Settle` are a pass (`runOnce`), and
`PassEnds` and `PassThrows` its end in `runPasses` and `start`. A queue's contents are its version,
the number of deliveries it has taken, which is what an answer can be stale about. What is settled
is the queue's matter. The reads of the configuration and of the disabled marker are one step
(`ReadMarker`), which counts as the second. The ledger and delegation reads and the re-checks between
items are one action, `Abort`: any may end the pass with some ids surfaced or none. `drainOutcome` is
the route's: a verdict that is not "ok" goes to the browser without its ids. `CutShort` says that
`stop()` kept a drain from the further pass that a kick which joined it had asked for.

Not modelled: `schedule` (only unforced kicks reach it, and the only caller forces), the side-effect
ceilings and the cards. A slot handed to a waiter and the waiter counting itself are one step, since
no request handler can run between the two microtasks.

### ContentStore and MeetingArchive

One tenant. `blob` and `index` are the sealed objects and the rows, `tombs` the index's retention
tombstones, `ledger` the purge ledger; `op` is the operation in the tenant's lane, `req` each client's
request about the ledger, `device` each browser's reconcile; `bodies` and `records` are the user's own
space, the transcripts and the records that name them.

| Code | Model |
|---|---|
| `upsert` up to its first write, both checks included | `UpsertBegin(m, half)` |
| its `blobs.put`, then the index with the caps, then the evicted blobs | `WriteBlob`, `WriteRow` (`Evictions`), `RemoveBlob` |
| `sweepRetention` | `SweepBegin` (`Expired`), `RemoveBlob`, `WriteSwept` (`CappedTombs`) |
| `POST /purged`, `DELETE /purged` | `PostRead`, `PostWrite`, `ClearLedger` |
| the teardown: `recordPurge`, then `content.purge` | `RecordRead`, `RecordList`, `RecordWrite` (`Merged`, `RecentIds`), `PurgeBegin`, `RemoveBlob`, `PurgeEnd` |
| the browser: list and get, the two writes, acknowledge with `markReconciled` | `BrowserRead`, `BrowserWriteBody`, `BrowserWriteRecord`, `BrowserAck` |
| a call that fails, a process that ends, a browser that is closed | `OpFails`, `RequestFails`, `Crash`, `DeviceLeaves` |

The lane runs one operation of a tenant at a time, each call of it is a step. The ledger is written
outside the lane, by read, merge and write with nothing that keeps a second writer out; a teardown
lists the content between its read and its write. A member of `Client` is one handler that can be in
progress: `RequestFails` is a storage call of it that fails. A browser that gives up waiting does not
end its handler, so its retry beside it is a second client. The halves
the provider has are constant; the worker, or a replay, brings any of them at any time. Abstractions:
the envelope encryption; a size rejection, which changes nothing; the byte cap, of which the count cap
is the example; an unparseable ledger or envelope; the scan for orphans is taken to see every blob;
where equal ages leave the choice to a sort, any choice is allowed. `wiped` is a ghost: the watermark of
the last teardown whose purge ended, until the user asks for a re-sync.

`MeetingArchive` is what a reader who goes by the index is promised: `shown` maps meetings to the halves
shown, `barred` is what a replay must not bring back. A meeting that is not barred appears or grows
(`Grow`), meetings go as a whole, and only what is not shown is barred (`Drop`). `ContentStore`
implements it with `shown` as the blob of each row and `barred` as the tombstones and what the last
teardown took. `get` does not look at the index: asked for a meeting by its id it also answers a blob
that has no row, between the two writes of an upsert or after one that was cut short. `PurgedStaysGone`
and `TombstonedIsGone` speak of blobs for that reason.

### FetchWorker

One process and one provider. `pass`, `sweep`, `queued`, `active` and `dirty` are the scheduler,
`lane`, `gated`, `available` and `waiters` the pipeline and the semaphore; `status`, `stored` and
`barred` are what the queue and the content store show of an item. `stored` and `barred` are an archive
with the promises of `MeetingArchive` (`WorkerSeesAnArchive` in the proofs): the worker is shown correct
against the interface the content store is shown to implement.

| Code | Model |
|---|---|
| a delivery and the nudge after it, or its loss | `Deliver`, `Nudge`, `NudgeLost` |
| the timer, `schedulePass`, the queued pass behind the running one | `Sweep`, `SchedulePass`, `StartQueued` |
| the cohort read, and the lanes of the pass | `CohortRead`, `CohortFails`, `PassEnds` |
| a lane: due items, credential, tombstone check | `ReadDue`, `GetCredential`, `HoldLane`, `Guard` and their failures |
| the semaphore | `Acquire`, `Release` |
| fetch, 429, store | `FetchOk`, `FetchFails`, `Throttled`, `Store`, `StoreFails` |
| the lane's one settle | `Settle`, `SettleFails` |
| the end of a gate or a backoff | `GateExpires`, `BackoffExpires` |
| the environment | `Purge`, `Stop`, `Start`, `Crash` |

A step is the code between two awaits. `Store` includes the store's own check of the bars, which is what
closes the window after the worker's check; its refusal, like a store that fails (`StoreFails`), is
`content_store_failed`, which burns no attempt (the verdict "held"). Abstractions: gates and backoffs
end at any time instead of at a time; the queue's attempt count is a choice (an item that burnt an
attempt may be dead-lettered or due again, one that is held is due again); the cohort is constant;
`markUsed`, the stripping of links and the counters change nothing the properties see. The item claims
are left out: while passes are serial, which `OnePassAtATime` shows, no second lane can contest one.

## 4. What the runs show

| Run | Instance | Shows |
|---|---|---|
| `queue_batches` | 2 identities, 3 deliveries, 3 batches, caps 1, TTL 1, 2 attempts | `AckedIsStored`, `ClearSupersedes`, `DeadIsJustified`, `AtMostTwoLiveBatches`, the refinement `BookSpec` |
| `queue_retries` | 1 identity, 2 deliveries, caps 2, a corrupted value | `NoDuplicates`, `RedeliveryKeepsState`, `QuarantineFirst`, `EveryDeliveryAnswered` |
| `lane` | 3 foreground and 2 background jobs, `FOREGROUND_BURST` as shipped | `BoundedOvertaking`, `WorkConserving`, `TimedOutNeverRuns`, `EveryJobStarts` |
| `lease` | 3 prompt processes, failing storage, corrupted lease, crashes, restarts | `TickingWorkerNeedsSeat`, `SeatIsNotStolen`, `HeldSeatIsNotShared` |
| `lease_takeover` | 2 prompt processes and a stalling one, shutdowns | `UsurpedHolderStops`, `SeatIsTaken` |
| `drain` | 3 kicks of 2 addresses, 1 slot, consent changes, restart, shutdown | `OneDrainPerAddress`, `SlotsAreExact`, `KickIsHeard`, `RevokedKickGetsNothing`, `EveryKickAnswered` |
| `archive` | 2 meetings, one with both halves and one with a summary, 1 request at a time, 1 browser, caps 1, 1 tick, 1 fault | `PurgedStaysGone`, `TombstonedIsGone`, `StorageBeforeAck`, the refinement `ArchiveSpec` |
| `fetch` | 2 lanes, 3 items, 1 slot, 2 items a pass, 2 deliveries, 1 fault, 1 purge | `OnePassAtATime`, `NudgeHasPass`, `SlotsAreHeld`, `BarredStaysOut`, `DoneIsStored`, `GatedLaneIsQuiet`, `EveryDeliveryIsAnswered` |
| `lease_stop`, `lease_release`, `drain_replay`, `archive_ack` | | the four disagreements below |

Bounds. Queue: caps of one make every second item a cap decision; three batches are one flushing,
one waiting and one opened after a clear; three deliveries let one identity be delivered again while
another competes for the cap; one tick reaches the TTL; `MaxLock` limits requests made at once, not
in sequence. Lane: jobs are submitted again without limit, so three foreground jobs suffice for more
than `Burst` overtakings. Lease: three processes allow a holder, a claimer and a third that
overwrites both. Drain: two kicks of one address and one of another cover joining, replay and waiting
for a slot; one tick crosses the floor. Each kick is made once: what kicks without end do to a drain is
outside this run. Content store: two meetings under caps of one make each new
row an eviction and each second tombstone a loss; one has a provider's timestamp, the other none, as
the ledger and the retention treat them differently; one tick passes the retention. Upserts,
reconciles, teardowns and re-syncs repeat without bound. Fetch worker: two items of one lane and one
of another compete for one slot; the scheduler needs two names, for a pass that runs and one that is
queued (`PassOrder` in the proofs shows that two suffice); a fault is a failed call, a 429, a stop or a
crash. The theorems of section 5 have no such bounds.

Deadlock is checked for the lane and the fetch worker, whose timers never end; the other instances
stop when their bounded clock, deliveries or kicks are used up, or all their processes have exited.

Fairness. Storage calls settle (`HolderStep`, `Finish`, `Step`, `Drain`, `Replay`, `LaneStep`,
`CohortRead`): the SDK's calls, and the fetches, end or time out. What is scheduled behind a promise
runs when it settles (`StartQueued`, `PassEnds`). Timers fire (`WindowCloses`, `Advance`, `StartTick`,
`Sweep`, `GateExpires`, `BackoffExpires`). A process is booted once, and the supervisor of a stopped
fetch worker starts it again (`Start`). Nothing is assumed of users, deliveries, nudges, wait timeouts,
crashes or shutdowns; `ContentStore` has no liveness property and no fairness.

### Disagreements between comments and code

- `WorkerNeedsSeat` (`lease_stop`): `ingest-instance.ts:330` says a process without the seat
  consumes nothing. `stop()` does not wait for a tick in flight; its renewal or claim returns after
  the release and starts the worker again, until the process exits.
- `ReleaseClearsOwnOnly` (`lease_release`): `ingest-instance.ts:265` says release deletes only the
  process's own lease. It reads and then deletes; in the trace a second process, whose claim read the
  empty key before the first one took the seat, writes its own record between the two, and that is
  deleted. Its confirming read, or its next renewal, finds nothing and gives the seat up
  (`UsurpedHolderStops` bounds the damage to a heartbeat).
- `ReplayIsPrevious` (`drain_replay`): `connector-drain.ts:61` says a kick inside the floor gets the
  previous pass's result. A drain that throws restarts the floor without replacing the remembered
  result, so the kick gets an older one, of any age. `RevokedKickGetsNothing` holds all the same.
- `ReconciledIsCopied` (`archive_ack`): `content-store.ts:548-550` drops the stamp of a row that gains
  a half, because it would strand that half "for a browser that already ticked this meeting off".
  `markReconciled` does not know what the browser read: when the half arrives between the read and the
  acknowledgement, the row is stamped with the half uncopied. `StorageBeforeAck` holds all the same.

## 5. What is proved

TLAPS checks the theorems for every value of the constants, from the assumptions the modules name
(`LaneAssumption`; `DeliveryAssumption`, `LimitAssumption`, `BackoffAssumption`; `LeaseAssumption`;
`DrainAssumption`; `StoreAssumption`; `WorkerAssumption`) and those a theorem states itself. Every
safety invariant and action property that a passing run checks is also a theorem.

StorageLane. `TypeCorrect`. `LaneConservesWork`: inductive with the types, since `Drain` leaves the
lane free only with both queues empty. `OvertakingIsBounded`: `passed <= Burst * place` is not
inductive; `OvertakingInv` says of the job at place k that
`passed + Burst * k <= Burst * place + overtaken`: each place it has left behind pays for a burst, and
`overtaken <= Burst` for the current one; a timeout only moves jobs forward. `TimedOutStaysOut`:
`TrackInv` ties each caller's status to the queues, and says that a queue has no job twice.

ConnectorQueue (`ConnectorQueue_proofs`). `Invariance` proves `IInv`: the types; that a flush on the
lock names a batch; `Contents` (both arrays hold one record per identity, and dead-letter reasons are
true); `PlanInv` (what the holder is about to write satisfies the same, keeps or names every identity
that is stored now, and holds everything it is about to acknowledge); and `AckedIsStored`. `PlanInv` is
what makes it inductive: a write is safe because the value was safe when it was computed and nobody
else has written since. It is proved per action, from lemmas on what `DeadAfter`, `Merged` and the
settle computation return. `AcknowledgedIsStored`, `EachIsStoredOnce` and `DeadReasonsAreTrue` follow.
`CopyIsKept` proves the action property `QuarantineFirst` from the invariant that a holder that is
about to reset the container has its copy in quarantine.

What the queue owes to its past (`QueueHistory_proofs`, on top of `IInv`). `ClearIsFinal`,
`BurstsAreBounded` and `RedeliveryIsHarmless` rest on `HistInv`. Its core is `LiveBatches`: a batch no
clear has superseded is the one in the map or the one being flushed. Hence two at most; and, since a
clear supersedes the open batch in the same step in which it joins the lock, the entries of the open
batch are later than every clear called so far, and those of the batch being flushed later than every
clear completed (`BatchesRecent`). `StoredRecent` carries that to the arrays and to what is about to be
written, `ClearEmpties` through the deletes of the clear itself. `PlanKeepsBudgets` says of the value
about to be written what `RedeliveryKeepsState` says of the write.

`QueueIsCapped` and `CapsAloneDrop` are about the two caps and rest on `CapInv`: what the lock holder is
about to write fits both caps, and it leaves out an identity that is stored now only if one of the arrays
is written full. Under it lie the cardinalities that a merge, a sweep and a settle give (`FlushCaps`,
`SweepCaps`, `SettleCaps`) and that a settle never grows an array (`NoGrowth`). The second theorem matters
when the second of the two writes fails: even then no identity leaves both arrays in a flush or a sweep
unless an array is full.

The queue's abstraction (`QueueBook_proofs`, on top of the history). `QueueIsABook` is the refinement:
initial states map to initial states, every step to a step of `DeliveryBook` or a stutter. Besides
`IInv` and the history it needs `SourceInv`, where the plan of the lock holder comes from: a batch that
is being flushed is not superseded (`FlushIsLive`; a clear supersedes the batch in the map, which the
flush has left), what is about to be written as pending was pending or is carried by that batch
(`PlanEnters`), what is about to be dead was dead or pending (`PlanFails`), and what is about to be
acknowledged is carried by the batch (`AckedIsCarried`). The lemmas on the values each operation
computes give the steps of `SourceInv`; `TakenEffect` says once why a write is a `Take`.

IngestLease (`IngestLease_proofs`). `TypeCorrect`. `WorkerFollowsSeat`: `SeatInv`, which also says that
only a holder has a renewal in flight. `LossIsNoticed`, with any other processes stalling and failing:
`LossInv` says that a prompt holder whose lease was replaced is before the read of its next renewal,
and that this read finds the loss. `HeldSeatIsKept` assumes `AllPrompt`: every process is prompt, none
is shut down and the TTL is longer than a heartbeat (it is three); without it the theorem is false, as
`lease_takeover` and `lease_release` show what a stalled process or a release can overwrite. `FreshInv`
says how old a lease can be at each point of a tick, `FirmInv` that nobody is about to write against
a seat that was held when the heartbeat began. `HeldSeatIsSole` follows from the same invariant: a
process becomes holder only by a confirming read that finds its own record, and against such a seat the
stored lease is the holder's, or does not parse. With `LossIsNoticed` this is the mutual exclusion of the
seat: two claims that raced leave two holders for at most a heartbeat, and no third joins the one that
stays.

ConnectorDrain (`ConnectorDrain_proofs`). `IInv`: a drain is alive exactly while it is registered
(`RunInv`, which gives `DrainIsAlone`); the waiting are queued drains, each once (`WaitInv`), and the
counter is the cardinality of the drains in a pass (`SlotInv`, which gives `SlotsStayExact`); whoever
holds a promise holds that of a live drain of its address (`CallInv`). `JoinedKickIsHeard` and
`RevocationHolds` are action properties from `HeardInv` and `BanInv`: a waiting kick made its address
dirty, or the queue, or the marker, is read after it. The first is about kicks that start or join a
drain, not about one that is given the previous result again, which can miss what came since. Both
except a drain that `stop()` cuts short (`CutShort`): its last pass may have read before the kick
joined, and the code then answers what that pass saw, so a process that is shutting down can still
surface ids for a revoked user. That a revoked kick gets no ids, rather than a status, is what
`RevocationHolds` says: an aborted pass may have surfaced ids, and `drainOutcome` drops them.

ContentStore (`ContentStore_proofs`). `IInv` says that an upsert which passed its checks stores what
nothing bars (`UpsertUnswept`, `UpsertUnpurged`), that sweeps and purges are as far as they claim
(`SweepDone`, `PurgeDone`), and that the ledger is not behind what a teardown recorded before it deletes
(`RecordedFirst`, `LedgerHolds`). `SweptIsKeptOut` and `AckAfterStorage` need no assumption on the
clients and hold for any number of clients and browsers. For the second, `CopyHeld` says of a copy in
progress that a record that names a transcript waits until the transcript is there, and the
acknowledgement until the record is. `PurgedIsKeptOut` and the refinement
`StoreIsAnArchive` (every step is a step of the archive or a stutter) hold for the behaviours in which
the requests about the ledger do not get in each other's way, `Orderly`: of the writers of the ledger
one at a time is between its read and its write, so that it knows the latest value (`SeenIsCurrent`), and
`DELETE /purged` comes when no such request and no teardown is under way. Nothing in the code sees to
that: two tabs, two devices, or a retry beside a request that its browser gave up can overlap. The run
`archive` takes one request at a time, which is one way to be orderly. With two the hypothesis is
needed: a `POST /purged` that read the ledger before a teardown wrote it moves the watermark back,
against the comment that calls it monotonic (`connector-webhooks.ts`, the ledger's routes), and a purged
meeting can be stored again; this is listed as a hazard. What these two theorems add to the run is that
overlapping requests about the ledger are the only way in which it can happen, for any number of
clients, meetings and failures.

`StoreIsCapped` and `MeetingsLeaveForAReason` do not assume `Orderly`: rows, tombstones and recently
purged ids stay within their caps, and a stored meeting leaves the index only because the index is full,
because it has been there for longer than the retention, or in a purge. Their `CapInv` adds `SweptAreOld`:
what a sweep picked had outlived the retention when it was picked. The four theorems about caps are
stated in the proof modules only and no run checks them.

FetchWorker (`FetchWorker_proofs`, assuming that there are two names for passes, `TwoPasses`). `IInv`
is `PassInv` (the queued and the active pass are the ones the variables name, lanes run only in a
pass that is past its cohort read), `NudgeHasPass`, `SlotInv` (the slots, and that the waiters are the
parked lanes, each once) and `ItemInv` (what a lane will settle as done is stored or barred; a held
lane is at its settle or past it). From it: `PassesAreSerial`, `NudgesAreCovered`, `SlotsAreExact`,
`PurgedIsNotStored`, and the action properties `QueueLosesNothing` and `HeldLanesAreQuiet`.
`WorkerSeesAnArchive` shows that the store as the worker sees it refines `MeetingArchive`, each item a
meeting of one part: a store that is refused is a stutter, one that is not a `Grow`, a teardown a `Drop`.

Only model-checked: liveness under fairness, which is out of the prover's reach
(`EveryDeliveryAnswered`, `EveryJobStarts`, `SeatIsTaken`, `EveryKickAnswered`,
`EveryDeliveryIsAnswered`), and the counterexamples of the four disagreements.

## 6. Not modelled

Of the ingest path: the tokens and the credential store, the delivery handler's verification and rate
limits, `POST /ack`, the ingest mode records and the retention timer's walk over the tenants; overlapping
ticks of one process and two processes that work on one queue (section 2 has what is planned); a
dead-letter value that is not an array. Kicks of one address that come in every pass of its drain keep
it going, with its slot, for as long as they come: no property covers that, `EveryKickAnswered` is about
finitely many kicks.
A blob that a failed eviction or sweep orphaned is removed only by the scan of a teardown, so the models
promise nothing about its age; a fetch pass waits for its slowest lane, so liveness of the fetch worker
rests on fetches that time out.

Provider clients, verification, attestation, authentication and the chat agent are request mapping or
cryptography with little state of their own. The write lane, transcript delivery, billing, the exo
mailbox and calendar auto-join keep state and are candidates for later modules. The frontend, desktop
and mobile clients, the shared packages, agent skills and tooling are other systems; of the frontend,
the calls it makes to the backend and its reconcile run appear as actions. Each is listed in
`PROJECT.json` with its reason, and the hazards no property covers are listed there with a note.
