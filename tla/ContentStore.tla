---------------------------- MODULE ContentStore ----------------------------
(***************************************************************************)
(* The server's copy of one tenant's meetings, and everything that writes  *)
(* it: src/backend/src/services/content-store.ts (upsert, markReconciled,  *)
(* sweepRetention, purge), the purge ledger of routes/connector-           *)
(* webhooks.ts, the teardown of services/connector-teardown.ts, and the    *)
(* browser that copies meetings to the user's own space,                   *)
(* src/frontend/src/lib/connectors/backendReconcile.ts.                    *)
(*                                                                         *)
(* The store keeps a sealed blob per meeting and one index of rows and     *)
(* retention tombstones.  Its operations run one at a time in the tenant's *)
(* lane, but each is several storage calls, any of which can fail or be    *)
(* the last one before a crash; the ledger and the browser are outside the *)
(* lane.                                                                   *)
(***************************************************************************)
EXTENDS Naturals, FiniteSets

CONSTANTS
  Meeting,        \* meeting ids of the tenant
  Half,           \* "transcript" and "summary"
  Items,          \* the <<meeting, half>> pairs the provider has
  Client,         \* requests about the tenant's ledger that can be in progress at once
  Device,         \* browsers with the user's vault open
  Stamp,          \* the provider's timestamp of each meeting, or None
  OldStamps,      \* the purgedThrough values a client may send with POST /purged
  Retention,      \* retentionMs
  MaxMeetings,    \* maxUserMeetings
  MaxTombstones,  \* maxUserTombstones
  RecentCap,      \* PURGE_RECENT_ID_CAP
  MaxTime,        \* bound on the clock
  MaxFaults,      \* bound on failed calls, crashes and broken requests
  None            \* absent: a row, a tombstone, a timestamp, the ledger

Ledger == [through : Nat, ids : SUBSET Meeting]
Row == [storedAt : Nat, reconciled : BOOLEAN]

ASSUME StoreAssumption ==
  /\ IsFiniteSet(Meeting)
  /\ Stamp \in [Meeting -> Nat \cup {None}]
  /\ Items \subseteq Meeting \X Half
  /\ OldStamps \subseteq Nat
  /\ {Retention, MaxMeetings, MaxTombstones, RecentCap, MaxTime, MaxFaults} \subseteq Nat
  /\ None \notin Nat \cup Ledger \cup Row

VARIABLES
  blob,      \* the halves in each meeting's sealed blob; {}: there is no blob
  index,     \* the row of each meeting the index names
  tombs,     \* the index's retention tombstones: when each id was swept
  ledger,    \* the purge ledger
  op,        \* the operation in the tenant's lane, and how far it is
  req,       \* each client's request: POST /purged or a teardown, and how far it is
  device,    \* each browser's copy in progress
  bodies,    \* the meetings whose transcript is in the user's own space
  records,   \* the halves each record there names; {}: there is no record
  now,
  faults,
  wiped      \* ghost: the watermark of the last teardown whose purge ended, since DELETE /purged

stored == <<blob, index, tombs>>
copy == <<bodies, records>>
vars == <<stored, ledger, op, req, device, copy, now, faults, wiped>>

\* ContentIndex.meetings
Live == {m \in Meeting : index[m] # None}

Idle == [name |-> "idle"]
Op ==
  [name : {"idle"}]
  \cup [name : {"blob", "row"}, m : Meeting, half : Half]
  \cup [name : {"evict"}, todo : SUBSET Meeting]
  \cup [name : {"sweep"}, todo : SUBSET Meeting, picked : SUBSET Meeting, at : Nat]
  \cup [name : {"purge"}, todo : SUBSET Meeting, by : Client]

NoRequest == [step |-> "none"]
Request ==
  [step : {"none"}]
  \cup [step : {"post", "listed"}, through : Nat, seen : Ledger \cup {None}, ids : SUBSET Meeting]
  \cup [step : {"record"}, seen : Ledger \cup {None}]
  \cup [step : {"wipe", "wiping"}, through : Nat]

TypeOK ==
  /\ blob \in [Meeting -> SUBSET Half]
  /\ index \in [Meeting -> Row \cup {None}]
  /\ tombs \in [Meeting -> Nat \cup {None}]
  /\ ledger \in Ledger \cup {None}
  /\ op \in Op
  /\ req \in [Client -> Request]
  /\ device \in [Device -> [step : {"body", "record"}, m : Meeting, seen : SUBSET Half]
                          \cup [step : {"ack"}, m : Meeting] \cup {None}]
  /\ bodies \subseteq Meeting
  /\ records \in [Meeting -> SUBSET Half]
  /\ now \in Nat
  /\ faults \in Nat
  /\ wiped \in Nat \cup {None}

Init ==
  /\ blob = [m \in Meeting |-> {}]
  /\ index = [m \in Meeting |-> None]
  /\ tombs = [m \in Meeting |-> None]
  /\ ledger = None
  /\ op = Idle
  /\ req = [c \in Client |-> NoRequest]
  /\ device = [d \in Device |-> None]
  /\ bodies = {}
  /\ records = [m \in Meeting |-> {}]
  /\ now = 0
  /\ faults = 0
  /\ wiped = None

-----------------------------------------------------------------------------
Least(a, b) == IF a < b THEN a ELSE b
Greatest(a, b) == IF a < b THEN b ELSE a

\* isTombstoned: by id, or because no provider timestamp puts it after the watermark.
PurgeTombstoned(l, m) ==
  /\ l # None
  /\ m \in l.ids \/ Stamp[m] = None \/ Stamp[m] < l.through

\* list order, and the order in which the caps drop rows
SortKey(m) == IF Stamp[m] = None THEN index[m].storedAt ELSE Stamp[m]

\* The provider's timestamp counts only between the storing and now.
RetentionAge(m) ==
  IF Stamp[m] # None /\ Stamp[m] >= index[m].storedAt /\ Stamp[m] <= now
  THEN Stamp[m] ELSE index[m].storedAt

Expired(m) == m \in Live /\ RetentionAge(m) + Retention < now

\* enforceCaps: the oldest rows that must go for one more to fit.
Evictions(others) ==
  {V \in SUBSET others :
     /\ Cardinality(others \ V) = Least(Cardinality(others),
                                        IF MaxMeetings = 0 THEN 0 ELSE MaxMeetings - 1)
     /\ \A v \in V, k \in others \ V : SortKey(v) <= SortKey(k)}

\* capTombstones: the newest MaxTombstones of t.
CappedTombs(t) ==
  LET held == {m \in Meeting : t[m] # None}
      kept == {K \in SUBSET held :
                 /\ Cardinality(K) = Least(Cardinality(held), MaxTombstones)
                 /\ \A k \in K, d \in held \ K : t[d] <= t[k]}
  IN {[m \in Meeting |-> IF m \in K THEN t[m] ELSE None] : K \in kept}

\* recentIds: the new ids are appended and the oldest fall off at the cap.
RecentIds(seen, ids) ==
  LET old == IF seen = None THEN {} ELSE seen.ids
      new == ids \ old
  IN {K \in SUBSET (old \cup new) :
        /\ Cardinality(K) = Least(Cardinality(old \cup new), RecentCap)
        /\ new \subseteq K \/ K \subseteq new}

\* Mutant: without a ledger there is no stamp to start from.
MergedUnset(seen, t, ids) ==
  {[through |-> IF seen = None THEN None ELSE Greatest(seen.through, t), ids |-> K]
     : K \in RecentIds(seen, ids)}

\* The ledgers a writer stores that read seen and purges through the stamp t.
Merged(seen, t, ids) ==
  {[through |-> IF seen = None THEN t ELSE Greatest(seen.through, t), ids |-> K]
     : K \in RecentIds(seen, ids)}

-----------------------------------------------------------------------------
(* upsert.  The worker, or a replay of an old delivery, brings any half at  *)
(* any time.  A refused or too large half changes nothing.                  *)

\* Mutant: a half of a meeting that retention swept is stored again.
UpsertBeginSwept(m, half) ==
  /\ op = Idle
  /\ <<m, half>> \in Items
  /\ ~PurgeTombstoned(ledger, m)
  /\ op' = [name |-> "blob", m |-> m, half |-> half]
  /\ UNCHANGED <<stored, ledger, req, device, copy, now, faults, wiped>>

UpsertBegin(m, half) ==
  /\ op = Idle
  /\ <<m, half>> \in Items
  /\ tombs[m] = None
  /\ ~PurgeTombstoned(ledger, m)
  /\ op' = [name |-> "blob", m |-> m, half |-> half]
  /\ UNCHANGED <<stored, ledger, req, device, copy, now, faults, wiped>>

\* Mutant: the new half replaces what the blob held.
WriteBlobAlone ==
  /\ op.name = "blob"
  /\ blob' = [blob EXCEPT ![op.m] = {op.half}]
  /\ op' = [op EXCEPT !.name = "row"]
  /\ UNCHANGED <<index, tombs, ledger, req, device, copy, now, faults, wiped>>

WriteBlob ==
  /\ op.name = "blob"
  /\ blob' = [blob EXCEPT ![op.m] = @ \cup {op.half}]
  /\ op' = [op EXCEPT !.name = "row"]
  /\ UNCHANGED <<index, tombs, ledger, req, device, copy, now, faults, wiped>>

\* A row that is written again has to be reconciled again.
WriteRow ==
  /\ op.name = "row"
  /\ LET m == op.m
         row == [storedAt |-> IF m \in Live THEN index[m].storedAt ELSE now,
                 reconciled |-> FALSE]
     IN \E V \in Evictions(Live \ {m}) :
          /\ index' = [x \in Meeting |-> IF x = m THEN row ELSE IF x \in V THEN None ELSE index[x]]
          /\ op' = IF V = {} THEN Idle ELSE [name |-> "evict", todo |-> V]
  /\ UNCHANGED <<blob, tombs, ledger, req, device, copy, now, faults, wiped>>

\* One blobs.remove of an eviction, a sweep or a purge.
RemoveBlob ==
  /\ op.name \in {"evict", "sweep", "purge"}
  /\ \E m \in op.todo :
       /\ blob' = [blob EXCEPT ![m] = {}]
       /\ op' = IF op.name = "evict" /\ op.todo = {m} THEN Idle
                ELSE [op EXCEPT !.todo = @ \ {m}]
  /\ UNCHANGED <<index, tombs, ledger, req, device, copy, now, faults, wiped>>

-----------------------------------------------------------------------------
(* sweepRetention                                                          *)

SweepBegin ==
  LET swept == {m \in Meeting : Expired(m)}
  IN /\ op = Idle
     /\ swept # {}
     /\ op' = [name |-> "sweep", todo |-> swept, picked |-> swept, at |-> now]
     /\ UNCHANGED <<stored, ledger, req, device, copy, now, faults, wiped>>

WriteSwept ==
  /\ op.name = "sweep" /\ op.todo = {}
  /\ index' = [m \in Meeting |-> IF m \in op.picked THEN None ELSE index[m]]
  /\ tombs' \in CappedTombs([m \in Meeting |-> IF m \in op.picked THEN op.at ELSE tombs[m]])
  /\ op' = Idle
  /\ UNCHANGED <<blob, ledger, req, device, copy, now, faults, wiped>>

-----------------------------------------------------------------------------
(* The purge ledger.  A writer reads it, merges and writes it back, with   *)
(* nothing that keeps another writer out.                                  *)

\* POST /purged, up to its read: the client names ids, and a stamp or none.
PostRead(c) ==
  /\ req[c] = NoRequest
  /\ \E t \in OldStamps \cup {now}, ids \in SUBSET Meeting :
       req' = [req EXCEPT ![c] = [step |-> "post", through |-> t, seen |-> ledger, ids |-> ids]]
  /\ UNCHANGED <<stored, ledger, op, device, copy, now, faults, wiped>>

PostWrite(c) ==
  /\ req[c].step = "post"
  /\ ledger' \in Merged(req[c].seen, req[c].through, req[c].ids)
  /\ req' = [req EXCEPT ![c] = NoRequest]
  /\ UNCHANGED <<stored, op, device, copy, now, faults, wiped>>

\* DELETE /purged, the user's re-sync
ClearLedger(c) ==
  /\ req[c] = NoRequest
  /\ ledger' = None
  /\ wiped' = None
  /\ UNCHANGED <<stored, op, req, device, copy, now, faults>>

\* The teardown's recordPurge: it reads the ledger, lists the content, and writes.
RecordRead(c) ==
  /\ req[c] = NoRequest
  /\ req' = [req EXCEPT ![c] = [step |-> "record", seen |-> ledger]]
  /\ UNCHANGED <<stored, ledger, op, device, copy, now, faults, wiped>>

\* content.list, in the lane; one that fails gives no ids, and the purge goes on.
RecordList(c) ==
  /\ req[c].step = "record"
  /\ \E ids \in {{}} \cup (IF op = Idle THEN {Live} ELSE {}) :
       req' = [req EXCEPT ![c] = [step |-> "listed", through |-> now, seen |-> @.seen, ids |-> ids]]
  /\ UNCHANGED <<stored, ledger, op, device, copy, now, faults, wiped>>

RecordWrite(c) ==
  /\ req[c].step = "listed"
  /\ ledger' \in Merged(req[c].seen, req[c].through, req[c].ids)
  /\ req' = [req EXCEPT ![c] = [step |-> "wipe", through |-> ledger'.through]]
  /\ UNCHANGED <<stored, op, device, copy, now, faults, wiped>>

\* Mutant: only the blobs that the index names are removed.
PurgeBeginIndexed(c) ==
  /\ req[c].step = "wipe"
  /\ op = Idle
  /\ op' = [name |-> "purge", todo |-> Live, by |-> c]
  /\ req' = [req EXCEPT ![c].step = "wiping"]
  /\ UNCHANGED <<stored, ledger, device, copy, now, faults, wiped>>

\* content.purge in the lane: every blob the index names, and the orphans a scan finds.
PurgeBegin(c) ==
  /\ req[c].step = "wipe"
  /\ op = Idle
  /\ op' = [name |-> "purge", todo |-> Live \cup {m \in Meeting : blob[m] # {}}, by |-> c]
  /\ req' = [req EXCEPT ![c].step = "wiping"]
  /\ UNCHANGED <<stored, ledger, device, copy, now, faults, wiped>>

\* The index key goes last, with its tombstones.
PurgeEnd ==
  /\ op.name = "purge" /\ op.todo = {}
  /\ index' = [m \in Meeting |-> None]
  /\ tombs' = [m \in Meeting |-> None]
  /\ wiped' = IF wiped = None THEN req[op.by].through ELSE Greatest(wiped, req[op.by].through)
  /\ req' = [req EXCEPT ![op.by] = NoRequest]
  /\ op' = Idle
  /\ UNCHANGED <<blob, ledger, device, copy, now, faults>>

-----------------------------------------------------------------------------
(* The browser's reconcile: read a row that is not reconciled, write the   *)
(* user's own space, then acknowledge.                                     *)

BrowserRead(d) ==
  /\ device[d] = None
  /\ op = Idle
  /\ \E m \in Live :
       /\ ~index[m].reconciled
       /\ blob[m] # {}
       /\ device' = [device EXCEPT ![d] =
            [step |-> IF "transcript" \in blob[m] THEN "body" ELSE "record", m |-> m, seen |-> blob[m]]]
  /\ UNCHANGED <<stored, ledger, op, req, copy, now, faults, wiped>>

\* Body first, record second: the transcript is put under a key of its own.
BrowserWriteBody(d) ==
  /\ device[d] # None /\ device[d].step = "body"
  /\ bodies' = bodies \cup {device[d].m}
  /\ device' = [device EXCEPT ![d].step = "record"]
  /\ UNCHANGED <<stored, ledger, op, req, records, now, faults, wiped>>

\* The record of an earlier copy is overwritten.
BrowserWriteRecord(d) ==
  /\ device[d] # None /\ device[d].step = "record"
  /\ records' = [records EXCEPT ![device[d].m] = device[d].seen]
  /\ device' = [device EXCEPT ![d] = [step |-> "ack", m |-> @.m]]
  /\ UNCHANGED <<stored, ledger, op, req, bodies, now, faults, wiped>>

\* Mutant: the acknowledgement does not wait for the write to the user's space.
BrowserAckEarly(d) ==
  /\ device[d] # None
  /\ op = Idle
  /\ index' = IF device[d].m \in Live THEN [index EXCEPT ![device[d].m].reconciled = TRUE] ELSE index
  /\ device' = [device EXCEPT ![d] = None]
  /\ UNCHANGED <<blob, tombs, ledger, op, req, copy, now, faults, wiped>>

\* markReconciled: the blob is rewritten as it was read, and the row is stamped.
BrowserAck(d) ==
  /\ device[d] # None /\ device[d].step = "ack"
  /\ op = Idle
  /\ index' = IF device[d].m \in Live THEN [index EXCEPT ![device[d].m].reconciled = TRUE] ELSE index
  /\ device' = [device EXCEPT ![d] = None]
  /\ UNCHANGED <<blob, tombs, ledger, op, req, copy, now, faults, wiped>>

-----------------------------------------------------------------------------
(* Faults                                                                  *)

\* A storage call fails: the operation ends where it is, and a teardown with it.
OpFails ==
  /\ op # Idle
  /\ faults < MaxFaults
  /\ req' = IF op.name = "purge" THEN [req EXCEPT ![op.by] = NoRequest] ELSE req
  /\ op' = Idle
  /\ faults' = faults + 1
  /\ UNCHANGED <<stored, ledger, device, copy, now, wiped>>

\* A storage call of a request's handler fails, before its ledger write or after, and
\* the handler ends with it.  A client that only stops waiting does not end its handler:
\* its retry is the request of another client.
RequestFails(c) ==
  /\ req[c].step \in {"post", "record", "listed", "wipe"}
  /\ faults < MaxFaults
  /\ req' = [req EXCEPT ![c] = NoRequest]
  /\ faults' = faults + 1
  /\ UNCHANGED <<stored, ledger, op, device, copy, now, wiped>>

\* The backend restarts; a browser's acknowledgement finds nobody.
Crash ==
  /\ faults < MaxFaults
  /\ op' = Idle
  /\ req' = [c \in Client |-> NoRequest]
  /\ faults' = faults + 1
  /\ UNCHANGED <<stored, ledger, device, copy, now, wiped>>

\* A browser is closed, or a call of its run fails.
DeviceLeaves(d) ==
  /\ device[d] # None
  /\ device' = [device EXCEPT ![d] = None]
  /\ UNCHANGED <<stored, ledger, op, req, copy, now, faults, wiped>>

Tick ==
  /\ now < MaxTime
  /\ now' = now + 1
  /\ UNCHANGED <<stored, ledger, op, req, device, copy, faults, wiped>>

-----------------------------------------------------------------------------
Next ==
  \/ \E m \in Meeting, half \in Half : UpsertBegin(m, half)
  \/ WriteBlob \/ WriteRow \/ RemoveBlob
  \/ SweepBegin \/ WriteSwept
  \/ \E c \in Client :
       \/ PostRead(c) \/ PostWrite(c) \/ ClearLedger(c)
       \/ RecordRead(c) \/ RecordList(c) \/ RecordWrite(c) \/ PurgeBegin(c)
       \/ RequestFails(c)
  \/ PurgeEnd
  \/ \E d \in Device :
       \/ BrowserRead(d) \/ BrowserWriteBody(d) \/ BrowserWriteRecord(d) \/ BrowserAck(d)
       \/ DeviceLeaves(d)
  \/ OpFails \/ Crash
  \/ Tick

Spec == Init /\ [][Next]_vars

-----------------------------------------------------------------------------
(* Properties                                                              *)

\* The identities the last completed teardown took away.
Wiped == {m \in Meeting : wiped # None /\ (Stamp[m] = None \/ Stamp[m] < wiped)}

\* Once a teardown has purged the content, nothing it covered is in the store: not
\* by an upsert that had passed the ledger check before, not by a replay after,
\* not as an orphan without a row.  (connector-teardown.ts:23-30, the ledger is
\* written before anything is deleted.)
PurgedStaysGone == \A m \in Wiped : blob[m] = {} /\ index[m] = None

\* While an id carries a retention tombstone there is neither a blob nor a row of
\* it, whatever upsert, sweep or crash came between.  (content-store.ts:689-737)
TombstonedIsGone == \A m \in Meeting : tombs[m] # None => blob[m] = {} /\ index[m] = None

\* A row is stamped reconciled only when the user's own space has a record of the
\* meeting, and no record there names a transcript that is not there, although crashes,
\* sweeps, new halves and failed calls come between the read, the two writes and the
\* stamp.  (backendReconcile.ts:371-413: body first, record second, only then the stamp)
StorageBeforeAck ==
  /\ \A m \in Live : index[m].reconciled => records[m] # {}
  /\ \A m \in Meeting : "transcript" \in records[m] => m \in bodies

\* What the index shows is a MeetingArchive: rows grow or go as a whole, and what a
\* sweep or a teardown took does not come back while it is barred.  (get() does not look
\* at the index: between the two writes of an upsert, and after one that was cut short,
\* it also answers a blob that has no row.)
Archive == INSTANCE MeetingArchive WITH
  shown <- [m \in Meeting |-> IF m \in Live THEN blob[m] ELSE {}],
  barred <- {m \in Meeting : tombs[m] # None} \cup Wiped

ArchiveSpec == Archive!Spec

\* A reconciled row is wholly in the user's own space: content-store.ts:548-551 drops
\* the stamp when a half arrives because "the user-space copy is now stale".
ReconciledIsCopied ==
  op = Idle => \A m \in Live : index[m].reconciled => blob[m] \subseteq records[m]
=============================================================================
