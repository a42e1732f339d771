------------------------- MODULE ContentStore_proofs -------------------------
(***************************************************************************)
(* Theorems about ContentStore and their proofs.  The inductive invariant  *)
(* says what the operation in the lane has already established, what the   *)
(* requests about the ledger know, and that the ledger is not behind the   *)
(* last completed teardown.  What concerns the ledger holds as long as     *)
(* these requests do not overlap (Orderly), which the code leaves to its   *)
(* clients.                                                                *)
(***************************************************************************)
EXTENDS ContentStore, FiniteSetTheorems, TLAPS

\* The request of c has read the ledger and will write it.
Writing(c) == req[c].step \in {"post", "record", "listed"}

\* Requests that do not get in each other's way: of the writers of the ledger one at a
\* time is between its read and its write, and DELETE /purged comes when there is none
\* and no teardown.  Nothing in the code sees to it.
OneWriter == \A c, d \in Client : Writing(c) /\ Writing(d) => c = d

ClearsAlone == ledger # None /\ ledger' = None => \A c \in Client : req[c] = NoRequest

Orderly == []OneWriter /\ [][ClearsAlone]_vars

\* An upsert that passed its checks stores an identity nothing bars: bars are only
\* raised by operations of the same lane.
UpsertUnswept == op.name \in {"blob", "row"} => tombs[op.m] = None
UpsertUnpurged == op.name \in {"blob", "row"} => op.m \notin Wiped

\* What a sweep has ticked off has no blob, and it ticks off only what it picked.
SweepDone == op.name = "sweep" =>
  op.todo \subseteq op.picked /\ \A m \in op.picked \ op.todo : blob[m] = {}

\* What a purge has ticked off has no blob.
PurgeDone == op.name = "purge" => \A m \in Meeting \ op.todo : blob[m] = {}

\* The teardown of a purge waits for it.
TeardownWaits == op.name = "purge" => req[op.by].step = "wiping"

\* A writer of the ledger knows its latest value.
SeenIsCurrent == \A c \in Client : Writing(c) => req[c].seen = ledger

\* The ledger covers what a teardown recorded before it deletes anything.
RecordedFirst == \A c \in Client : req[c].step \in {"wipe", "wiping"} =>
  ledger # None /\ req[c].through <= ledger.through

\* The ledger is not behind the last completed teardown.
LedgerHolds == wiped # None => ledger # None /\ wiped <= ledger.through

TypeInv == TypeOK /\ TeardownWaits

SweptInv == TombstonedIsGone /\ UpsertUnswept /\ SweepDone

PurgedInv == PurgedStaysGone /\ UpsertUnpurged /\ PurgeDone

StoreInv == SweptInv /\ PurgedInv

LedgerInv ==
  /\ SeenIsCurrent
  /\ RecordedFirst
  /\ LedgerHolds

IInv == TypeInv /\ StoreInv /\ LedgerInv

-----------------------------------------------------------------------------
(* Lemmas about the operators                                              *)

\* What the caps of the tombstones keep was there before.
LEMMA CappedKeeps ==
  ASSUME NEW t \in [Meeting -> Nat \cup {None}], NEW k \in CappedTombs(t)
  PROVE /\ k \in [Meeting -> Nat \cup {None}]
        /\ \A m \in Meeting : k[m] # None => t[m] # None
BY DEF CappedTombs

\* What a ledger writer stores is a ledger, not behind the one it read.
LEMMA MergedAdvances ==
  ASSUME NEW seen \in Ledger \cup {None}, NEW t \in Nat, NEW ids \in SUBSET Meeting,
         NEW l \in Merged(seen, t, ids)
  PROVE /\ l \in Ledger
        /\ t <= l.through
        /\ seen # None => seen.through <= l.through
<1> DEFINE old == IF seen = None THEN {} ELSE seen.ids
<1>1. PICK K \in RecentIds(seen, ids) :
        l = [through |-> IF seen = None THEN t ELSE Greatest(seen.through, t), ids |-> K]
  BY DEF Merged
<1>2. old \subseteq Meeting
  BY DEF Ledger
<1>3. K \subseteq Meeting
  BY <1>2 DEF RecentIds
<1>4. CASE seen = None
  BY <1>1, <1>3, <1>4 DEF Ledger
<1>5. CASE seen # None
  <2>1. seen.through \in Nat
    BY <1>5 DEF Ledger
  <2>2. /\ Greatest(seen.through, t) \in Nat
        /\ t <= Greatest(seen.through, t)
        /\ seen.through <= Greatest(seen.through, t)
    BY <2>1 DEF Greatest
  <2> QED BY <1>1, <1>3, <1>5, <2>2 DEF Ledger
<1> QED BY <1>4, <1>5

-----------------------------------------------------------------------------
(* Type correctness                                                        *)

\* A step keeps the types; a purge that ends needs its teardown to be waiting.
LEMMA TypeStep == TypeInv /\ [Next]_vars => TypeOK'
<1> SUFFICES ASSUME TypeOK, TeardownWaits, [Next]_vars PROVE TypeOK'
  BY DEF TypeInv
<1> USE DEF TypeOK, copy
<1>1. ASSUME NEW m \in Meeting, NEW half \in Half, UpsertBegin(m, half) PROVE TypeOK'
  BY <1>1 DEF UpsertBegin, stored, Op
<1>2. CASE WriteBlob
  BY <1>2 DEF WriteBlob, Op
<1>3. CASE WriteRow
  <2>1. op \in [name : {"row"}, m : Meeting, half : Half]
    BY <1>3 DEF WriteRow, Op
  <2>2. op' \in Op
    <3>1. PICK V \in SUBSET Meeting : op' = IF V = {} THEN Idle ELSE [name |-> "evict", todo |-> V]
      BY <1>3 DEF WriteRow, Evictions, Live
    <3> QED BY <3>1 DEF Op, Idle
  <2>3. index' \in [Meeting -> Row \cup {None}]
    <3>1. (IF op.m \in Live THEN index[op.m].storedAt ELSE now) \in Nat
      BY <2>1 DEF Live, Row
    <3> QED BY <1>3, <3>1 DEF WriteRow, Row
  <2> QED BY <1>3, <2>2, <2>3 DEF WriteRow
<1>4. CASE RemoveBlob
  <2>1. op' \in Op
    BY <1>4 DEF RemoveBlob, Op, Idle
  <2> QED BY <1>4, <2>1 DEF RemoveBlob
<1>5. CASE SweepBegin
  BY <1>5 DEF SweepBegin, stored, Op
<1>6. CASE WriteSwept
  <2>1. op \in [name : {"sweep"}, todo : SUBSET Meeting, picked : SUBSET Meeting, at : Nat]
    BY <1>6 DEF WriteSwept, Op
  <2>2. [m \in Meeting |-> IF m \in op.picked THEN op.at ELSE tombs[m]] \in [Meeting -> Nat \cup {None}]
    BY <2>1
  <2>3. tombs' \in [Meeting -> Nat \cup {None}]
    BY <1>6, <2>2, CappedKeeps DEF WriteSwept
  <2> QED BY <1>6, <2>3 DEF WriteSwept, Op, Idle
<1>7. ASSUME NEW c \in Client, PostRead(c) PROVE TypeOK'
  <2>1. PICK t \in Nat, ids \in SUBSET Meeting :
          req' = [req EXCEPT ![c] = [step |-> "post", through |-> t, seen |-> ledger, ids |-> ids]]
    BY <1>7, StoreAssumption DEF PostRead
  <2> QED BY <1>7, <2>1 DEF PostRead, stored, Request
<1>8. ASSUME NEW c \in Client, PostWrite(c) PROVE TypeOK'
  <2>1. req[c] \in [step : {"post", "listed"}, through : Nat, seen : Ledger \cup {None}, ids : SUBSET Meeting]
    BY <1>8 DEF PostWrite, Request
  <2>2. ledger' \in Ledger
    BY <1>8, <2>1, MergedAdvances DEF PostWrite
  <2> QED BY <1>8, <2>2 DEF PostWrite, stored, Request, NoRequest
<1>9. ASSUME NEW c \in Client, ClearLedger(c) PROVE TypeOK'
  BY <1>9 DEF ClearLedger, stored
<1>10. ASSUME NEW c \in Client, RecordRead(c) PROVE TypeOK'
  BY <1>10 DEF RecordRead, stored, Request
<1>11. ASSUME NEW c \in Client, RecordWrite(c) PROVE TypeOK'
  <2>1. req[c] \in [step : {"post", "listed"}, through : Nat, seen : Ledger \cup {None}, ids : SUBSET Meeting]
    BY <1>11 DEF RecordWrite, Request
  <2>2. ledger' \in Ledger
    BY <1>11, <2>1, MergedAdvances DEF RecordWrite
  <2> QED BY <1>11, <2>2 DEF RecordWrite, stored, Request, Ledger
<1>12. ASSUME NEW c \in Client, PurgeBegin(c) PROVE TypeOK'
  <2>1. req[c] \in [step : {"wipe"}, through : Nat]
    BY <1>12 DEF PurgeBegin, Request
  <2>2. op' \in Op
    BY <1>12 DEF PurgeBegin, Op, Live
  <2>3. [req[c] EXCEPT !.step = "wiping"] \in Request
    BY <2>1 DEF Request
  <2> QED BY <1>12, <2>2, <2>3 DEF PurgeBegin, stored
<1>13. ASSUME NEW c \in Client, RequestFails(c) PROVE TypeOK'
  BY <1>13 DEF RequestFails, stored, Request, NoRequest
<1>14. CASE PurgeEnd
  <2>1. op.by \in Client
    BY <1>14 DEF PurgeEnd, Op
  <2>2. req[op.by].through \in Nat
    BY <1>14, <2>1 DEF PurgeEnd, TeardownWaits, Request
  <2>3. wiped' \in Nat
    BY <1>14, <2>2 DEF PurgeEnd, Greatest
  <2> QED BY <1>14, <2>1, <2>3 DEF PurgeEnd, Op, Idle, Request, NoRequest
<1>15. ASSUME NEW d \in Device, BrowserRead(d) PROVE TypeOK'
  BY <1>15 DEF BrowserRead, stored, Live
<1>16. ASSUME NEW d \in Device, BrowserWriteBody(d) \/ BrowserWriteRecord(d) PROVE TypeOK'
  <2>1. device[d] \in [step : {"body", "record"}, m : Meeting, seen : SUBSET Half]
    BY <1>16 DEF BrowserWriteBody, BrowserWriteRecord
  <2>2. CASE BrowserWriteBody(d)
    <3>1. [device[d] EXCEPT !.step = "record"] \in [step : {"body", "record"}, m : Meeting, seen : SUBSET Half]
      BY <2>1
    <3> QED BY <2>1, <2>2, <3>1 DEF BrowserWriteBody, stored
  <2>3. CASE BrowserWriteRecord(d)
    BY <2>1, <2>3 DEF BrowserWriteRecord, stored
  <2> QED BY <1>16, <2>2, <2>3
<1>17. ASSUME NEW d \in Device, BrowserAck(d) PROVE TypeOK'
  BY <1>17 DEF BrowserAck, Live, Row
<1>18. ASSUME NEW d \in Device, DeviceLeaves(d) PROVE TypeOK'
  BY <1>18 DEF DeviceLeaves, stored
<1>19. CASE OpFails
  <2>1. op.name = "purge" => op.by \in Client
    BY DEF Op
  <2> QED BY <1>19, <2>1 DEF OpFails, stored, Op, Idle, Request, NoRequest
<1>20. CASE Crash
  BY <1>20 DEF Crash, stored, Op, Idle, Request, NoRequest
<1>21. CASE Tick
  BY <1>21 DEF Tick, stored
<1>22. CASE UNCHANGED vars
  BY <1>22 DEF vars, stored
<1>23. ASSUME NEW c \in Client, RecordList(c) PROVE TypeOK'
  <2>1. req[c].seen \in Ledger \cup {None}
    BY <1>23 DEF RecordList, Request
  <2>2. PICK ids \in SUBSET Meeting :
          req' = [req EXCEPT ![c] = [step |-> "listed", through |-> now, seen |-> req[c].seen, ids |-> ids]]
    BY <1>23 DEF RecordList, Live
  <2> QED BY <1>23, <2>1, <2>2 DEF RecordList, stored, Request
<1> QED
  BY <1>1, <1>2, <1>3, <1>4, <1>5, <1>6, <1>7, <1>8, <1>9, <1>10, <1>11, <1>12, <1>13,
     <1>14, <1>15, <1>16, <1>17, <1>18, <1>19, <1>20, <1>21, <1>22, <1>23 DEF Next

\* Only a crash, or the end of the purge, takes a teardown that waits for it away.
LEMMA WaitStep == TypeInv /\ [Next]_vars => TeardownWaits'
<1> SUFFICES ASSUME TypeOK, TeardownWaits, [Next]_vars PROVE TeardownWaits'
  BY DEF TypeInv
<1> USE DEF TeardownWaits
<1>1. op.name = "purge" => op.by \in Client
  BY DEF TypeOK, Op
<1>2. CASE \E m \in Meeting, half \in Half : UpsertBegin(m, half)
  BY <1>2 DEF UpsertBegin
<1>3. CASE WriteBlob \/ WriteRow \/ RemoveBlob
  <2>1. op \in Op
    BY DEF TypeOK
  <2> QED BY <1>3, <2>1 DEF WriteBlob, WriteRow, RemoveBlob, Idle, Op
<1>4. CASE SweepBegin \/ WriteSwept \/ PurgeEnd \/ OpFails \/ Crash
  BY <1>4 DEF SweepBegin, WriteSwept, PurgeEnd, OpFails, Crash, Idle
<1>5. ASSUME NEW c \in Client,
             PostRead(c) \/ PostWrite(c) \/ ClearLedger(c) \/ RecordRead(c) \/ RecordList(c) \/ RecordWrite(c) \/ RequestFails(c)
      PROVE TeardownWaits'
  <2>1. req[c].step # "wiping" /\ op' = op
    BY <1>5 DEF PostRead, PostWrite, ClearLedger, RecordRead, RecordList, RecordWrite, RequestFails, NoRequest
  <2>2. \A d \in Client : d # c => req'[d] = req[d]
    BY <1>5 DEF PostRead, PostWrite, ClearLedger, RecordRead, RecordList, RecordWrite, RequestFails, TypeOK
  <2> QED BY <1>1, <2>1, <2>2
<1>6. ASSUME NEW c \in Client, PurgeBegin(c) PROVE TeardownWaits'
  <2>1. req[c] \in [step : {"wipe"}, through : Nat]
    BY <1>6 DEF PurgeBegin, TypeOK, Request
  <2> QED BY <1>6, <2>1 DEF PurgeBegin, TypeOK
<1>7. CASE UNCHANGED <<op, req>>
  BY <1>7
<1>8. CASE \E d \in Device : BrowserRead(d) \/ BrowserWriteBody(d) \/ BrowserWriteRecord(d) \/ BrowserAck(d) \/ DeviceLeaves(d)
  BY <1>7, <1>8 DEF BrowserRead, BrowserWriteBody, BrowserWriteRecord, BrowserAck, DeviceLeaves
<1>9. CASE Tick \/ UNCHANGED vars
  BY <1>7, <1>9 DEF Tick, vars
<1> QED
  BY <1>2, <1>3, <1>4, <1>5, <1>6, <1>8, <1>9 DEF Next

\* The variables keep their types, for any meetings, clients, devices and limits.
THEOREM TypeCorrect == Spec => []TypeOK
<1>1. Init => TypeInv
  BY DEF Init, TypeInv, TypeOK, TeardownWaits, Op, Idle, Request, NoRequest
<1>2. TypeInv /\ [Next]_vars => TypeInv'
  BY TypeStep, WaitStep DEF TypeInv
<1>3. TypeInv => TypeOK
  BY DEF TypeInv
<1> QED BY <1>1, <1>2, <1>3, PTL DEF Spec
-----------------------------------------------------------------------------
(* The ledger                                                              *)

\* When requests are orderly the ledger is never behind what a teardown did.
LEMMA LedgerStep ==
  ASSUME OneWriter, [ClearsAlone]_vars, TypeInv, LedgerInv, [Next]_vars
  PROVE LedgerInv'
<1> USE DEF LedgerInv, SeenIsCurrent, RecordedFirst, LedgerHolds, Writing
<1>t. TypeOK /\ TeardownWaits
  BY DEF TypeInv
<1>0. CASE UNCHANGED <<ledger, req, wiped>>
  BY <1>0
<1>1. ASSUME NEW m \in Meeting, NEW half \in Half, UpsertBegin(m, half) PROVE LedgerInv'
  BY <1>0, <1>1 DEF UpsertBegin
<1>2. CASE WriteBlob \/ WriteRow \/ RemoveBlob \/ SweepBegin \/ WriteSwept \/ Tick \/ UNCHANGED vars
  BY <1>0, <1>2 DEF WriteBlob, WriteRow, RemoveBlob, SweepBegin, WriteSwept, Tick, vars
<1>3. ASSUME NEW d \in Device,
             BrowserRead(d) \/ BrowserWriteBody(d) \/ BrowserWriteRecord(d) \/ BrowserAck(d) \/ DeviceLeaves(d)
      PROVE LedgerInv'
  BY <1>0, <1>3 DEF BrowserRead, BrowserWriteBody, BrowserWriteRecord, BrowserAck, DeviceLeaves
<1>4. CASE PurgeEnd
  <2>1. op.by \in Client
    BY <1>4, <1>t DEF PurgeEnd, TypeOK, Op
  <2>2. req[op.by].step = "wiping" /\ req[op.by].through \in Nat
    BY <1>4, <1>t, <2>1 DEF PurgeEnd, TeardownWaits, TypeOK, Request
  <2>3. ledger # None /\ req[op.by].through <= ledger.through
    BY <2>1, <2>2
  <2>4. LedgerHolds'
    BY <1>4, <2>3 DEF PurgeEnd, Greatest
  <2>5. SeenIsCurrent' /\ RecordedFirst'
    BY <1>4, <1>t DEF PurgeEnd, TypeOK, NoRequest
  <2> QED BY <2>4, <2>5
<1>5. CASE OpFails
  <2>1. \A c \in Client : req'[c] = req[c] \/ req'[c] = NoRequest
    BY <1>5, <1>t DEF OpFails, TypeOK
  <2> QED BY <1>5, <2>1 DEF OpFails, NoRequest, stored
<1>6. CASE Crash
  BY <1>6 DEF Crash, NoRequest, stored
<1>7. ASSUME NEW c \in Client, PostRead(c) PROVE LedgerInv'
  BY <1>7, <1>t DEF PostRead, TypeOK
<1>8. ASSUME NEW c \in Client, PostWrite(c) PROVE LedgerInv'
  <2>1. req[c] \in [step : {"post", "listed"}, through : Nat, seen : Ledger \cup {None}, ids : SUBSET Meeting]
    BY <1>8, <1>t DEF PostWrite, TypeOK, Request
  <2>2. req[c].seen = ledger
    BY <2>1
  <2>3. /\ ledger' \in Ledger
        /\ ledger # None => ledger.through <= ledger'.through
    BY <1>8, <2>1, <2>2, MergedAdvances DEF PostWrite
  <2>4. req' = [req EXCEPT ![c] = NoRequest] /\ wiped' = wiped
    BY <1>8 DEF PostWrite
  <2>5. ledger' # None /\ ledger'.through \in Nat /\ (ledger # None => ledger.through \in Nat)
    BY <2>3, <1>t, StoreAssumption DEF Ledger, TypeOK
  <2>6. \A d \in Client : \/ req'[d] = NoRequest
                          \/ req'[d] = req[d] /\ ~Writing(d)
    BY <1>8, <2>4, <1>t DEF OneWriter, PostWrite, TypeOK
  <2>7. SeenIsCurrent'
    BY <2>6 DEF NoRequest
  <2>8. RecordedFirst'
    <3> SUFFICES ASSUME NEW d \in Client, req'[d].step \in {"wipe", "wiping"}
                 PROVE  req'[d].through <= ledger'.through
      BY <2>5
    <3>1. req'[d] = req[d] /\ req[d].through \in Nat
      BY <2>6, <1>t DEF NoRequest, TypeOK, Request
    <3>2. ledger # None /\ req[d].through <= ledger.through
      BY <3>1
    <3> QED BY <2>3, <2>5, <3>1, <3>2
  <2>9. LedgerHolds'
    BY <2>3, <2>4, <2>5, <1>t DEF TypeOK
  <2> QED BY <2>7, <2>8, <2>9
<1>9. ASSUME NEW c \in Client, ClearLedger(c) PROVE LedgerInv'
  <2>1. ledger' = None /\ wiped' = None /\ req' = req
    BY <1>9 DEF ClearLedger
  <2>2. CASE ledger = None
    BY <2>1, <2>2
  <2>3. CASE ledger # None
    <3>1. \A d \in Client : req'[d].step = "none"
      BY <2>1, <2>3 DEF ClearsAlone, vars, NoRequest
    <3> QED BY <2>1, <3>1
  <2> QED BY <2>2, <2>3
<1>10. ASSUME NEW c \in Client, RecordRead(c) PROVE LedgerInv'
  BY <1>10, <1>t DEF RecordRead, TypeOK
<1>11. ASSUME NEW c \in Client, RecordWrite(c) PROVE LedgerInv'
  <2>1. req[c] \in [step : {"post", "listed"}, through : Nat, seen : Ledger \cup {None}, ids : SUBSET Meeting]
    BY <1>11, <1>t DEF RecordWrite, TypeOK, Request
  <2>2. req[c].seen = ledger
    BY <1>11 DEF RecordWrite
  <2>3. /\ ledger' \in Ledger
        /\ ledger # None => ledger.through <= ledger'.through
    BY <1>11, <2>1, <2>2, MergedAdvances DEF RecordWrite
  <2>4. ledger' # None /\ ledger'.through \in Nat
    BY <2>3, StoreAssumption DEF Ledger
  <2>5. ledger # None => ledger.through \in Nat
    BY <1>t DEF Ledger, TypeOK
  <2>6. \A d \in Client : \/ req'[d] = [step |-> "wipe", through |-> ledger'.through]
                          \/ req'[d] = req[d] /\ ~Writing(d)
    BY <1>11, <1>t DEF OneWriter, RecordWrite, TypeOK
  <2>7. SeenIsCurrent'
    BY <2>6
  <2>8. RecordedFirst'
    <3> SUFFICES ASSUME NEW d \in Client, req'[d].step \in {"wipe", "wiping"}
                 PROVE  req'[d].through <= ledger'.through
      BY <2>4
    <3>1. CASE req'[d] = [step |-> "wipe", through |-> ledger'.through]
      BY <2>4, <3>1
    <3>2. CASE req'[d] = req[d]
      <4>1. req[d].through \in Nat /\ ledger # None /\ req[d].through <= ledger.through
        BY <3>2, <1>t DEF TypeOK, Request
      <4> QED BY <2>3, <2>4, <2>5, <3>2, <4>1
    <3> QED BY <2>6, <3>1, <3>2
  <2>9. LedgerHolds'
    BY <1>11, <2>3, <2>4, <2>5, <1>t DEF RecordWrite, TypeOK
  <2> QED BY <2>7, <2>8, <2>9
<1>12. ASSUME NEW c \in Client, PurgeBegin(c) PROVE LedgerInv'
  <2>1. req[c] \in [step : {"wipe"}, through : Nat]
    BY <1>12, <1>t DEF PurgeBegin, TypeOK, Request
  <2>2. ledger # None /\ req[c].through <= ledger.through
    BY <2>1
  <2>3. /\ ledger' = ledger /\ wiped' = wiped
        /\ req' = [req EXCEPT ![c].step = "wiping"]
    BY <1>12 DEF PurgeBegin, stored
  <2>4. [req[c] EXCEPT !.step = "wiping"] = [step |-> "wiping", through |-> req[c].through]
    BY <2>1
  <2>5. req' = [req EXCEPT ![c] = [step |-> "wiping", through |-> req[c].through]]
    BY <2>3, <2>4
  <2> QED BY <2>2, <2>3, <2>5, <1>t DEF TypeOK
<1>13. ASSUME NEW c \in Client, RequestFails(c) PROVE LedgerInv'
  BY <1>13, <1>t DEF RequestFails, TypeOK, NoRequest, stored
<1>14. ASSUME NEW c \in Client, RecordList(c) PROVE LedgerInv'
  <2>1. req[c].seen = ledger /\ UNCHANGED <<ledger, wiped>>
    BY <1>14 DEF RecordList
  <2>2. PICK ids \in {{}, Live} :
          req' = [req EXCEPT ![c] = [step |-> "listed", through |-> now, seen |-> req[c].seen, ids |-> ids]]
    BY <1>14 DEF RecordList
  <2> QED BY <2>1, <2>2, <1>t DEF TypeOK
<1> QED
  BY <1>1, <1>2, <1>3, <1>4, <1>5, <1>6, <1>7, <1>8, <1>9, <1>10, <1>11, <1>12, <1>13, <1>14 DEF Next

-----------------------------------------------------------------------------
(* The store                                                               *)

\* A purge covers what is not behind its watermark, and the ledger bars all of it.
LEMMA LedgerBars ==
  ASSUME TypeOK, LedgerHolds, NEW m \in Meeting, ~PurgeTombstoned(ledger, m)
  PROVE m \notin Wiped
<1>1. CASE wiped = None
  BY <1>1 DEF Wiped
<1>2. CASE wiped # None
  <2>1. wiped \in Nat /\ ledger \in Ledger /\ wiped <= ledger.through
    BY <1>2 DEF LedgerHolds, TypeOK
  <2>2. Stamp[m] # None /\ ~(Stamp[m] < ledger.through)
    BY <2>1, <1>2 DEF PurgeTombstoned, LedgerHolds
  <2>3. Stamp[m] \in Nat /\ ledger.through \in Nat
    BY <2>1, <2>2, StoreAssumption DEF Ledger
  <2> QED BY <2>1, <2>2, <2>3 DEF Wiped
<1> QED BY <1>1, <1>2

\* No step stores what a sweep took away, whatever becomes of the ledger.
LEMMA SweptStep ==
  ASSUME TypeInv, SweptInv, [Next]_vars
  PROVE SweptInv'
<1> USE DEF SweptInv, TombstonedIsGone, UpsertUnswept, SweepDone
<1>t. TypeOK
  BY DEF TypeInv
<1>0. ASSUME UNCHANGED <<blob, index, tombs>>, op' = op \/ op' = Idle PROVE SweptInv'
  BY <1>0 DEF Idle
<1>1. ASSUME NEW m \in Meeting, NEW half \in Half, UpsertBegin(m, half) PROVE SweptInv'
  BY <1>1 DEF UpsertBegin, stored
<1>2. CASE WriteBlob
  <2>1. op \in [name : {"blob"}, m : Meeting, half : Half]
    BY <1>2, <1>t DEF WriteBlob, TypeOK, Op
  <2>2. op' = [name |-> "row", m |-> op.m, half |-> op.half]
    BY <1>2, <2>1 DEF WriteBlob
  <2>3. \A m \in Meeting : m # op.m => blob'[m] = blob[m]
    BY <1>2, <1>t DEF WriteBlob, TypeOK
  <2> QED BY <1>2, <2>1, <2>2, <2>3 DEF WriteBlob
<1>3. CASE WriteRow
  <2>1. op \in [name : {"row"}, m : Meeting, half : Half]
    BY <1>3, <1>t DEF WriteRow, TypeOK, Op
  <2>2. op'.name \in {"idle", "evict"}
    BY <1>3 DEF WriteRow, Idle
  <2>3. \A m \in Meeting : m # op.m => index'[m] = None \/ index'[m] = index[m]
    BY <1>3 DEF WriteRow
  <2> QED BY <1>3, <2>1, <2>2, <2>3 DEF WriteRow
<1>4. CASE RemoveBlob
  <2>1. PICK m \in op.todo :
          /\ blob' = [blob EXCEPT ![m] = {}]
          /\ op' = IF op.name = "evict" /\ op.todo = {m} THEN Idle ELSE [op EXCEPT !.todo = @ \ {m}]
    BY <1>4 DEF RemoveBlob
  <2>2. UNCHANGED <<index, tombs>> /\ op.name \in {"evict", "sweep", "purge"}
    BY <1>4 DEF RemoveBlob
  <2>3. \A x \in Meeting : blob'[x] = {} \/ blob'[x] = blob[x]
    BY <2>1, <1>t DEF TypeOK
  <2>4. TombstonedIsGone'
    BY <2>2, <2>3
  <2>5. blob'[m] = {}
    BY <2>1, <2>2, <1>t DEF TypeOK, Op
  <2>6. CASE op.name \in {"evict", "purge"}
    <3>1. op \in [name : {"evict"}, todo : SUBSET Meeting]
                 \cup [name : {"purge"}, todo : SUBSET Meeting, by : Client]
      BY <2>6, <1>t DEF TypeOK, Op
    <3>2. op'.name \in {"evict", "purge", "idle"}
      BY <2>1, <3>1 DEF Idle
    <3> QED BY <2>4, <3>2
  <2>7. CASE op.name = "sweep"
    <3>1. op \in [name : {"sweep"}, todo : SUBSET Meeting, picked : SUBSET Meeting, at : Nat]
      BY <2>7, <1>t DEF TypeOK, Op
    <3>2. op'.name = "sweep" /\ op'.todo = op.todo \ {m} /\ op'.picked = op.picked
      BY <2>1, <3>1
    <3>3. SweepDone'
      BY <2>3, <2>5, <2>7, <3>1, <3>2
    <3> QED BY <2>4, <3>2, <3>3
  <2> QED BY <2>2, <2>6, <2>7
<1>5. CASE SweepBegin
  BY <1>5 DEF SweepBegin, stored
<1>6. CASE WriteSwept
  <2>1. op \in [name : {"sweep"}, todo : SUBSET Meeting, picked : SUBSET Meeting, at : Nat]
    BY <1>6, <1>t DEF WriteSwept, TypeOK, Op
  <2>2. \A m \in op.picked : blob[m] = {}
    BY <1>6, <2>1 DEF WriteSwept
  <2>3. \A m \in Meeting : index'[m] = IF m \in op.picked THEN None ELSE index[m]
    BY <1>6 DEF WriteSwept
  <2>4. \A m \in Meeting : tombs'[m] # None => m \in op.picked \/ tombs[m] # None
    <3> DEFINE t == [m \in Meeting |-> IF m \in op.picked THEN op.at ELSE tombs[m]]
    <3>1. t \in [Meeting -> Nat \cup {None}]
      BY <2>1, <1>t DEF TypeOK
    <3>2. \A m \in Meeting : tombs'[m] # None => t[m] # None
      BY <1>6, <3>1, CappedKeeps DEF WriteSwept
    <3> QED BY <3>2
  <2> QED BY <1>6, <2>2, <2>3, <2>4 DEF WriteSwept, Idle
<1>7. CASE PurgeEnd
  <2>1. \A m \in Meeting : tombs'[m] = None
    BY <1>7 DEF PurgeEnd
  <2> QED BY <1>7, <2>1 DEF PurgeEnd, Idle
<1>8. CASE OpFails \/ Crash \/ Tick \/ UNCHANGED vars
  BY <1>0, <1>8 DEF OpFails, Crash, Tick, vars, stored
<1>9. ASSUME NEW c \in Client,
             PostRead(c) \/ PostWrite(c) \/ ClearLedger(c) \/ RecordRead(c) \/ RecordList(c) \/ RecordWrite(c) \/ RequestFails(c)
      PROVE SweptInv'
  BY <1>0, <1>9 DEF PostRead, PostWrite, ClearLedger, RecordRead, RecordList, RecordWrite, RequestFails, stored
<1>10. ASSUME NEW c \in Client, PurgeBegin(c) PROVE SweptInv'
  <2>1. op'.name = "purge" /\ UNCHANGED <<blob, index, tombs>>
    BY <1>10 DEF PurgeBegin, stored
  <2> QED BY <2>1
<1>11. ASSUME NEW d \in Device, BrowserRead(d) \/ BrowserWriteBody(d) \/ BrowserWriteRecord(d) \/ DeviceLeaves(d) PROVE SweptInv'
  BY <1>0, <1>11 DEF BrowserRead, BrowserWriteBody, BrowserWriteRecord, DeviceLeaves, stored
<1>12. ASSUME NEW d \in Device, BrowserAck(d) PROVE SweptInv'
  <2>1. \A m \in Meeting : index[m] = None => index'[m] = None
    BY <1>12, <1>t DEF BrowserAck, Live, TypeOK
  <2>2. UNCHANGED <<blob, tombs, op>>
    BY <1>12 DEF BrowserAck
  <2> QED BY <2>1, <2>2
<1> QED
  BY <1>1, <1>2, <1>3, <1>4, <1>5, <1>6, <1>7, <1>8, <1>9, <1>10, <1>11, <1>12 DEF Next

\* No step stores what a teardown took away, as long as the ledger holds.
LEMMA PurgedStep ==
  ASSUME TypeInv, LedgerHolds, PurgedInv, [Next]_vars
  PROVE PurgedInv'
<1> USE DEF PurgedInv, PurgedStaysGone, UpsertUnpurged, PurgeDone
<1>t. TypeOK /\ Wiped \subseteq Meeting
  BY DEF TypeInv, Wiped
<1>0. ASSUME UNCHANGED <<blob, index, wiped>>, op' = op \/ op'.name \in {"idle", "sweep"} PROVE PurgedInv'
  BY <1>0 DEF Wiped
<1>1. ASSUME NEW m \in Meeting, NEW half \in Half, UpsertBegin(m, half) PROVE PurgedInv'
  <2>1. m \notin Wiped
    BY <1>1, <1>t, LedgerBars DEF UpsertBegin
  <2> QED BY <1>1, <2>1 DEF UpsertBegin, stored, Wiped
<1>2. CASE WriteBlob
  <2>1. op \in [name : {"blob"}, m : Meeting, half : Half]
    BY <1>2, <1>t DEF WriteBlob, TypeOK, Op
  <2>2. op' = [name |-> "row", m |-> op.m, half |-> op.half]
    BY <1>2, <2>1 DEF WriteBlob
  <2>3. Wiped' = Wiped
    BY <1>2 DEF WriteBlob, Wiped
  <2>4. \A m \in Meeting : m # op.m => blob'[m] = blob[m]
    BY <1>2, <1>t DEF WriteBlob, TypeOK
  <2> QED BY <1>2, <1>t, <2>1, <2>2, <2>3, <2>4 DEF WriteBlob
<1>3. CASE WriteRow
  <2>1. op \in [name : {"row"}, m : Meeting, half : Half]
    BY <1>3, <1>t DEF WriteRow, TypeOK, Op
  <2>2. op'.name \in {"idle", "evict"}
    BY <1>3 DEF WriteRow, Idle
  <2>3. Wiped' = Wiped
    BY <1>3 DEF WriteRow, Wiped
  <2>4. \A m \in Meeting : m # op.m => index'[m] = None \/ index'[m] = index[m]
    BY <1>3 DEF WriteRow
  <2> QED BY <1>3, <1>t, <2>1, <2>2, <2>3, <2>4 DEF WriteRow
<1>4. CASE RemoveBlob
  <2>1. PICK m \in op.todo :
          /\ blob' = [blob EXCEPT ![m] = {}]
          /\ op' = IF op.name = "evict" /\ op.todo = {m} THEN Idle ELSE [op EXCEPT !.todo = @ \ {m}]
    BY <1>4 DEF RemoveBlob
  <2>2. UNCHANGED <<index, wiped>> /\ op.name \in {"evict", "sweep", "purge"}
    BY <1>4 DEF RemoveBlob
  <2>3. \A x \in Meeting : blob'[x] = {} \/ blob'[x] = blob[x]
    BY <2>1, <1>t DEF TypeOK
  <2>4. Wiped' = Wiped
    BY <2>2 DEF Wiped
  <2>5. PurgedStaysGone'
    BY <1>t, <2>2, <2>3, <2>4
  <2>6. blob'[m] = {}
    BY <2>1, <2>2, <1>t DEF TypeOK, Op
  <2>7. CASE op.name \in {"evict", "sweep"}
    <3>1. op \in [name : {"evict"}, todo : SUBSET Meeting]
                 \cup [name : {"sweep"}, todo : SUBSET Meeting, picked : SUBSET Meeting, at : Nat]
      BY <2>7, <1>t DEF TypeOK, Op
    <3>2. op'.name \in {"evict", "sweep", "idle"}
      BY <2>1, <3>1 DEF Idle
    <3> QED BY <2>5, <3>2
  <2>8. CASE op.name = "purge"
    <3>1. op \in [name : {"purge"}, todo : SUBSET Meeting, by : Client]
      BY <2>8, <1>t DEF TypeOK, Op
    <3>2. op'.name = "purge" /\ op'.todo = op.todo \ {m}
      BY <2>1, <3>1
    <3>3. PurgeDone'
      BY <2>3, <2>6, <2>8, <3>1, <3>2
    <3> QED BY <2>5, <3>2, <3>3
  <2> QED BY <2>2, <2>7, <2>8
<1>5. CASE SweepBegin
  BY <1>0, <1>5 DEF SweepBegin, stored
<1>6. CASE WriteSwept
  <2>1. \A m \in Meeting : index'[m] = None \/ index'[m] = index[m]
    BY <1>6 DEF WriteSwept
  <2> QED BY <1>6, <1>t, <2>1 DEF WriteSwept, Idle, Wiped
<1>7. CASE PurgeEnd
  <2>1. op \in [name : {"purge"}, todo : SUBSET Meeting, by : Client]
    BY <1>7, <1>t DEF PurgeEnd, TypeOK, Op
  <2>2. \A m \in Meeting : blob'[m] = {} /\ index'[m] = None
    BY <1>7, <2>1 DEF PurgeEnd
  <2> QED BY <1>7, <2>2 DEF PurgeEnd, Idle, Wiped
<1>8. CASE OpFails \/ Crash \/ Tick \/ UNCHANGED vars
  BY <1>0, <1>8 DEF OpFails, Crash, Tick, vars, stored, Idle
<1>9. ASSUME NEW c \in Client, PostRead(c) \/ PostWrite(c) \/ RecordRead(c) \/ RecordList(c) \/ RecordWrite(c) \/ RequestFails(c)
      PROVE PurgedInv'
  BY <1>0, <1>9 DEF PostRead, PostWrite, RecordRead, RecordList, RecordWrite, RequestFails, stored
<1>10. ASSUME NEW c \in Client, ClearLedger(c) PROVE PurgedInv'
  BY <1>10 DEF ClearLedger, stored, Wiped
<1>11. ASSUME NEW c \in Client, PurgeBegin(c) PROVE PurgedInv'
  <2>1. op' = [name |-> "purge", todo |-> Live \cup {m \in Meeting : blob[m] # {}}, by |-> c]
    BY <1>11 DEF PurgeBegin
  <2> QED BY <1>11, <2>1 DEF PurgeBegin, stored, Wiped
<1>12. ASSUME NEW d \in Device, BrowserRead(d) \/ BrowserWriteBody(d) \/ BrowserWriteRecord(d) \/ DeviceLeaves(d) PROVE PurgedInv'
  BY <1>0, <1>12 DEF BrowserRead, BrowserWriteBody, BrowserWriteRecord, DeviceLeaves, stored
<1>13. ASSUME NEW d \in Device, BrowserAck(d) PROVE PurgedInv'
  <2>1. \A m \in Meeting : index[m] = None => index'[m] = None
    BY <1>13, <1>t DEF BrowserAck, Live, TypeOK
  <2>2. UNCHANGED <<blob, op, wiped>>
    BY <1>13 DEF BrowserAck
  <2>3. Wiped' = Wiped
    BY <2>2 DEF Wiped
  <2> QED BY <1>t, <2>1, <2>2, <2>3
<1> QED
  BY <1>1, <1>2, <1>3, <1>4, <1>5, <1>6, <1>7, <1>8, <1>9, <1>10, <1>11, <1>12, <1>13 DEF Next

LEMMA InitIInv == Init => IInv
<1> SUFFICES ASSUME Init PROVE IInv
  OBVIOUS
<1>1. TypeInv
  BY DEF Init, TypeInv, TypeOK, TeardownWaits, Op, Idle, Request, NoRequest
<1>2. StoreInv
  BY DEF Init, StoreInv, SweptInv, PurgedInv, PurgedStaysGone, TombstonedIsGone, UpsertUnswept,
         UpsertUnpurged, SweepDone, PurgeDone, Wiped, Idle
<1>3. LedgerInv
  BY DEF Init, LedgerInv, SeenIsCurrent, RecordedFirst, LedgerHolds, Writing, NoRequest
<1> QED BY <1>1, <1>2, <1>3 DEF IInv

\* The inductive invariant of the store and its ledger.
LEMMA Invariance == Spec /\ Orderly => []IInv
<1>1. IInv /\ OneWriter /\ [ClearsAlone]_vars /\ [Next]_vars => IInv'
  BY TypeStep, WaitStep, SweptStep, PurgedStep, LedgerStep DEF IInv, TypeInv, StoreInv, LedgerInv
<1> QED BY <1>1, InitIInv, PTL DEF Spec, Orderly

\* Whatever steps requests, the lane, crashes and failed calls take, nothing that a
\* completed teardown covered is in the store again before DELETE /purged: for any number
\* of clients, if their requests keep out of each other's way.
THEOREM PurgedIsKeptOut == Spec /\ Orderly => []PurgedStaysGone
<1>1. IInv => PurgedStaysGone
  BY DEF IInv, StoreInv, PurgedInv
<1> QED BY Invariance, <1>1, PTL

\* An id with a retention tombstone has neither a blob nor a row, whatever the clients
\* do and whatever becomes of the ledger.
THEOREM SweptIsKeptOut == Spec => []TombstonedIsGone
<1>1. Init => TypeInv /\ SweptInv
  BY InitIInv DEF IInv, StoreInv
<1>2. (TypeInv /\ SweptInv) /\ [Next]_vars => (TypeInv /\ SweptInv)'
  BY TypeStep, WaitStep, SweptStep DEF TypeInv
<1>3. SweptInv => TombstonedIsGone
  BY DEF SweptInv
<1> QED BY <1>1, <1>2, <1>3, PTL DEF Spec
-----------------------------------------------------------------------------
(* The browser                                                             *)

\* A copy in progress carries something, its record waits for the transcript it names,
\* and its acknowledgement for the record.
CopyHeld == \A d \in Device : device[d] # None =>
  /\ device[d].step \in {"body", "record"} => device[d].seen # {}
  /\ device[d].step = "record" /\ "transcript" \in device[d].seen => device[d].m \in bodies
  /\ device[d].step = "ack" => records[device[d].m] # {}

\* The acknowledgement of a row comes after the write of its record, the record after
\* the transcript it names, and no step takes either away.
THEOREM AckAfterStorage == Spec => []StorageBeforeAck
<1> DEFINE Inv == TypeInv /\ StorageBeforeAck /\ CopyHeld
<1>1. Init => Inv
  BY DEF Init, TypeInv, TypeOK, TeardownWaits, StorageBeforeAck, CopyHeld, Live, Op, Idle, Request, NoRequest
<1>2. Inv /\ [Next]_vars => Inv'
  <2> SUFFICES ASSUME Inv, [Next]_vars PROVE (StorageBeforeAck /\ CopyHeld)'
    BY TypeStep, WaitStep DEF TypeInv
  <2> DEFINE Goal == (StorageBeforeAck /\ CopyHeld)'
  <2> USE DEF StorageBeforeAck, CopyHeld, Live, copy
  <2>t. TypeOK
    BY DEF TypeInv
  <2>0. ASSUME UNCHANGED <<device, copy>>,
               \A m \in Meeting : index'[m] \in {None, index[m]} \/ ~index'[m].reconciled
        PROVE Goal
    BY <2>0
  <2>1. ASSUME NEW m \in Meeting, NEW half \in Half, UpsertBegin(m, half) PROVE Goal
    BY <2>0, <2>1 DEF UpsertBegin, stored
  <2>2. CASE WriteBlob \/ RemoveBlob \/ SweepBegin \/ OpFails \/ Crash \/ Tick \/ UNCHANGED vars
    BY <2>0, <2>2 DEF WriteBlob, RemoveBlob, SweepBegin, OpFails, Crash, Tick, vars, stored
  <2>3. CASE WriteRow
    <3>1. UNCHANGED <<device, copy>>
      BY <2>3 DEF WriteRow
    <3>2. \A m \in Meeting : index'[m] \in {None, index[m]} \/ ~index'[m].reconciled
      BY <2>3 DEF WriteRow
    <3> QED BY <2>0, <3>1, <3>2
  <2>4. CASE WriteSwept \/ PurgeEnd
    <3>1. UNCHANGED <<device, copy>>
      BY <2>4 DEF WriteSwept, PurgeEnd
    <3>2. \A m \in Meeting : index'[m] \in {None, index[m]}
      BY <2>4 DEF WriteSwept, PurgeEnd
    <3> QED BY <2>0, <3>1, <3>2
  <2>5. ASSUME NEW c \in Client,
               PostRead(c) \/ PostWrite(c) \/ ClearLedger(c) \/ RecordRead(c) \/ RecordList(c) \/ RecordWrite(c)
               \/ PurgeBegin(c) \/ RequestFails(c)
        PROVE Goal
    BY <2>0, <2>5 DEF PostRead, PostWrite, ClearLedger, RecordRead, RecordList, RecordWrite, PurgeBegin, RequestFails, stored
  <2>6. ASSUME NEW d \in Device, BrowserRead(d) PROVE Goal
    <3>1. UNCHANGED <<index, bodies, records>>
      BY <2>6 DEF BrowserRead, stored, copy
    <3>2. PICK m \in Meeting :
            /\ blob[m] # {}
            /\ device' = [device EXCEPT ![d] =
                 [step |-> IF "transcript" \in blob[m] THEN "body" ELSE "record", m |-> m, seen |-> blob[m]]]
      BY <2>6 DEF BrowserRead
    <3> QED BY <3>1, <3>2, <2>t DEF TypeOK
  <2>7. ASSUME NEW d \in Device, BrowserWriteBody(d) PROVE Goal
    <3>1. /\ device[d] \in [step : {"body"}, m : Meeting, seen : SUBSET Half]
          /\ device[d].seen # {} /\ device[d] # None
      BY <2>7, <2>t DEF BrowserWriteBody, TypeOK
    <3>2. /\ UNCHANGED <<index, records>>
          /\ bodies' = bodies \cup {device[d].m}
          /\ device' = [device EXCEPT ![d] = [step |-> "record", m |-> device[d].m, seen |-> device[d].seen]]
      <4>1. [device[d] EXCEPT !.step = "record"]
              = [step |-> "record", m |-> device[d].m, seen |-> device[d].seen]
        BY <3>1
      <4> QED BY <2>7, <4>1 DEF BrowserWriteBody, stored
    <3>3. StorageBeforeAck'
      BY <3>2
    <3>4. CopyHeld'
      <4>1. /\ device'[d] = [step |-> "record", m |-> device[d].m, seen |-> device[d].seen]
            /\ device[d].m \in bodies'
        BY <3>2, <2>t DEF TypeOK
      <4>2. \A e \in Device : e # d => device'[e] = device[e]
        BY <3>2, <2>t DEF TypeOK
      <4> QED BY <3>1, <3>2, <4>1, <4>2
    <3> QED BY <3>3, <3>4
  <2>8. ASSUME NEW d \in Device, BrowserWriteRecord(d) PROVE Goal
    <3>1. /\ device[d] \in [step : {"record"}, m : Meeting, seen : SUBSET Half]
          /\ device[d].seen # {} /\ device[d] # None
          /\ "transcript" \in device[d].seen => device[d].m \in bodies
      BY <2>8, <2>t DEF BrowserWriteRecord, TypeOK
    <3>2. /\ UNCHANGED <<index, bodies>>
          /\ records' = [records EXCEPT ![device[d].m] = device[d].seen]
          /\ device' = [device EXCEPT ![d] = [step |-> "ack", m |-> device[d].m]]
      BY <2>8 DEF BrowserWriteRecord, stored
    <3>3. /\ records'[device[d].m] = device[d].seen
          /\ \A m \in Meeting : m # device[d].m => records'[m] = records[m]
      BY <3>1, <3>2, <2>t DEF TypeOK
    <3>4. \A m \in Meeting : records[m] # {} => records'[m] # {}
      BY <3>1, <3>3
    <3>5. StorageBeforeAck'
      BY <3>1, <3>2, <3>3, <3>4
    <3>6. CopyHeld'
      <4> SUFFICES ASSUME NEW e \in Device, device'[e] # None
                   PROVE /\ device'[e].step \in {"body", "record"} => device'[e].seen # {}
                         /\ device'[e].step = "record" /\ "transcript" \in device'[e].seen
                              => device'[e].m \in bodies'
                         /\ device'[e].step = "ack" => records'[device'[e].m] # {}
        OBVIOUS
      <4>1. CASE e = d
        BY <4>1, <3>1, <3>2, <3>3, <2>t DEF TypeOK
      <4>2. CASE e # d
        <5>1. device'[e] = device[e]
          BY <4>2, <3>2, <2>t DEF TypeOK
        <5>2. device[e].step = "ack" => device[e].m \in Meeting
          BY <5>1, <2>t DEF TypeOK
        <5> QED BY <5>1, <5>2, <3>2, <3>4
      <4> QED BY <4>1, <4>2
    <3> QED BY <3>5, <3>6
  <2>9. ASSUME NEW d \in Device, BrowserAck(d) PROVE Goal
    <3>1. /\ device[d].m \in Meeting
          /\ records[device[d].m] # {}
          /\ UNCHANGED <<bodies, records>>
          /\ device' = [device EXCEPT ![d] = None]
      BY <2>9, <2>t DEF BrowserAck, TypeOK, copy
    <3>2. \A m \in Meeting : m # device[d].m => index'[m] = index[m]
      BY <2>9, <2>t DEF BrowserAck, TypeOK
    <3>3. StorageBeforeAck'
      BY <3>1, <3>2
    <3>4. CopyHeld'
      BY <3>1, <2>t DEF TypeOK
    <3> QED BY <3>3, <3>4
  <2>10. ASSUME NEW d \in Device, DeviceLeaves(d) PROVE Goal
    BY <2>10, <2>t DEF DeviceLeaves, TypeOK, stored
  <2> QED
    BY <2>1, <2>2, <2>3, <2>4, <2>5, <2>6, <2>7, <2>8, <2>9, <2>10 DEF Next
<1>3. Inv => StorageBeforeAck
  OBVIOUS
<1> QED BY <1>1, <1>2, <1>3, PTL DEF Spec

-----------------------------------------------------------------------------
(* The caps                                                                *)

\* Rows, tombstones and recently purged ids stay within their caps; a cap of no
\* meetings still keeps the one just stored.  (enforceCaps, capTombstones, recentIds)
StoreWithinCaps ==
  /\ Cardinality(Live) <= Greatest(MaxMeetings, 1)
  /\ Cardinality({m \in Meeting : tombs[m] # None}) <= MaxTombstones
  /\ ledger # None => Cardinality(ledger.ids) <= RecentCap

\* A meeting disappears from the index to make room at the cap, when it has been there
\* for the whole retention, or in a purge; not before, and for no other reason.
LeavesForAReason ==
  [][\A m \in Live \ Live' :
       \/ op.name = "row" /\ Cardinality(Live') >= MaxMeetings
       \/ op.name = "sweep" /\ index[m].storedAt + Retention < now
       \/ op.name = "purge"]_vars

\* What a sweep picked is still there and had been for longer than the retention.
SweptAreOld == op.name = "sweep" =>
  op.at <= now /\ \A m \in op.picked : m \in Live /\ index[m].storedAt + Retention < op.at

\* The body of LeavesForAReason.
LeaveStep ==
  \A m \in Live \ Live' :
    \/ op.name = "row" /\ Cardinality(Live') >= MaxMeetings
    \/ op.name = "sweep" /\ index[m].storedAt + Retention < now
    \/ op.name = "purge"

CapInv == TypeInv /\ StoreWithinCaps /\ SweptAreOld

CapsKept == (StoreWithinCaps /\ SweptAreOld)' /\ LeaveStep

LEMMA FiniteMeetings ==
  ASSUME NEW S \in SUBSET Meeting
  PROVE  IsFiniteSet(S) /\ Cardinality(S) \in Nat
<1>1. IsFiniteSet(S)
  BY StoreAssumption, FS_Subset
<1> QED BY <1>1, FS_CardinalityType

\* What the caps of the tombstones keep is not more than the cap.
LEMMA CappedFits ==
  ASSUME NEW t \in [Meeting -> Nat \cup {None}], NEW k \in CappedTombs(t)
  PROVE  Cardinality({m \in Meeting : k[m] # None}) <= MaxTombstones
<1> DEFINE held == {m \in Meeting : t[m] # None}
<1>1. PICK K \in SUBSET held :
        /\ Cardinality(K) = Least(Cardinality(held), MaxTombstones)
        /\ k = [m \in Meeting |-> IF m \in K THEN t[m] ELSE None]
  BY DEF CappedTombs
<1>2. {m \in Meeting : k[m] # None} = K
  BY <1>1
<1>3. held \in SUBSET Meeting /\ MaxTombstones \in Nat
  BY StoreAssumption
<1> HIDE DEF held
<1>4. Cardinality(held) \in Nat
  BY <1>3, FiniteMeetings
<1>5. Cardinality(K) <= MaxTombstones
  BY <1>1, <1>3, <1>4 DEF Least
<1> QED BY <1>2, <1>5

\* A ledger writer keeps the recent ids within their cap.
LEMMA MergedFits ==
  ASSUME NEW seen \in Ledger \cup {None}, NEW t, NEW ids \in SUBSET Meeting,
         NEW l \in Merged(seen, t, ids)
  PROVE  Cardinality(l.ids) <= RecentCap
<1> DEFINE old == IF seen = None THEN {} ELSE seen.ids
           all == old \cup (ids \ old)
<1>1. PICK K \in RecentIds(seen, ids) : l.ids = K
  BY DEF Merged
<1>2. Cardinality(K) = Least(Cardinality(all), RecentCap)
  BY DEF RecentIds
<1>3. all \in SUBSET Meeting /\ RecentCap \in Nat
  BY StoreAssumption DEF Ledger
<1> HIDE DEF all
<1>4. Cardinality(all) \in Nat
  BY <1>3, FiniteMeetings
<1>5. Cardinality(K) <= RecentCap
  BY <1>2, <1>3, <1>4 DEF Least
<1> QED BY <1>1, <1>5

\* The row just stored and what enforceCaps left of the others are within the cap, and
\* rows are dropped only if it is reached.
LEMMA EvictionFits ==
  ASSUME NEW S \in SUBSET Meeting, NEW m \in Meeting, NEW V \in Evictions(S \ {m})
  PROVE  LET left == ((S \ {m}) \ V) \cup {m}
         IN /\ Cardinality(left) <= Greatest(MaxMeetings, 1)
            /\ V # {} => Cardinality(left) >= MaxMeetings
<1> DEFINE others == S \ {m}
           room == IF MaxMeetings = 0 THEN 0 ELSE MaxMeetings - 1
<1>1. V \in SUBSET others /\ Cardinality(others \ V) = Least(Cardinality(others), room)
  BY DEF Evictions
<1>2. others \in SUBSET Meeting /\ others \ V \in SUBSET Meeting /\ m \notin others \ V
  OBVIOUS
<1>3. MaxMeetings \in Nat /\ room \in Nat
  BY StoreAssumption
<1>4. room + 1 <= Greatest(MaxMeetings, 1) /\ room + 1 >= MaxMeetings
  BY <1>3 DEF Greatest
<1> HIDE DEF others, room
<1>5. /\ IsFiniteSet(others) /\ Cardinality(others) \in Nat
      /\ IsFiniteSet(others \ V) /\ Cardinality(others \ V) \in Nat
  BY <1>2, FiniteMeetings
<1>6. Cardinality((others \ V) \cup {m}) = Cardinality(others \ V) + 1
  BY <1>2, <1>5, FS_AddElement
<1>7. Cardinality(others \ V) <= room
  BY <1>1, <1>3, <1>5 DEF Least
<1>8. V # {} => Cardinality(others \ V) = room
  <2> SUFFICES ASSUME V # {}, Cardinality(others \ V) = Cardinality(others) PROVE FALSE
    BY <1>1 DEF Least
  <2>1. others = others \ V
    BY <1>5, FS_Subset
  <2> QED BY <1>1, <2>1
<1>9. Cardinality((others \ V) \cup {m}) <= Greatest(MaxMeetings, 1)
  <2>1. Greatest(MaxMeetings, 1) \in Nat
    BY <1>3 DEF Greatest
  <2> QED BY <1>3, <1>4, <1>5, <1>6, <1>7, <2>1
<1>10. V # {} => Cardinality((others \ V) \cup {m}) >= MaxMeetings
  BY <1>3, <1>4, <1>5, <1>6, <1>8
<1> QED BY <1>9, <1>10 DEF others

\* A step that leaves rows, tombstones and ledger alone, and goes on with the same sweep
\* if any.
LEMMA QuietKeepsCaps ==
  ASSUME CapInv, UNCHANGED <<tombs, ledger>>, Live' = Live,
         op.name = "sweep" => index' = index,
         now' >= now, now' \in Nat,
         op'.name = "sweep" => op.name = "sweep" /\ op'.picked = op.picked /\ op'.at = op.at
  PROVE  CapsKept
<1>1. StoreWithinCaps'
  BY DEF CapInv, StoreWithinCaps
<1>2. SweptAreOld'
  <2> SUFFICES ASSUME op'.name = "sweep"
               PROVE  op'.at <= now' /\ \A m \in op'.picked :
                        m \in Live' /\ index'[m].storedAt + Retention < op'.at
    BY DEF SweptAreOld
  <2>1. op \in [name : {"sweep"}, todo : SUBSET Meeting, picked : SUBSET Meeting, at : Nat]
    BY DEF CapInv, TypeInv, TypeOK, Op
  <2>2. op'.at = op.at /\ op'.picked = op.picked /\ index' = index /\ op.at \in Nat /\ now \in Nat
    BY <2>1 DEF CapInv, TypeInv, TypeOK
  <2>3. op.at <= now /\ \A m \in op.picked : m \in Live /\ index[m].storedAt + Retention < op.at
    BY <2>1 DEF CapInv, SweptAreOld
  <2> QED BY <2>2, <2>3
<1>3. LeaveStep
  BY DEF LeaveStep
<1> QED BY <1>1, <1>2, <1>3 DEF CapsKept

LEMMA CapStep ==
  ASSUME CapInv, [Next]_vars
  PROVE  CapsKept
<1>t. /\ TypeOK /\ None \notin Row /\ Retention \in Nat /\ MaxMeetings \in Nat
      /\ Live \in SUBSET Meeting
  BY StoreAssumption DEF CapInv, TypeInv, Live
<1> DEFINE Rest == /\ UNCHANGED <<tombs, ledger, index>>
                   /\ now' >= now /\ now' \in Nat
<1>0. ASSUME Rest,
             op'.name = "sweep" => op.name = "sweep" /\ op'.picked = op.picked /\ op'.at = op.at
      PROVE  CapsKept
  BY <1>0, QuietKeepsCaps DEF Live
<1>n. now \in Nat
  BY <1>t DEF TypeOK
<1>1. ASSUME NEW m \in Meeting, NEW half \in Half, UpsertBegin(m, half) PROVE CapsKept
  BY <1>n, <1>0, <1>1 DEF UpsertBegin, stored
<1>2. CASE WriteBlob \/ RemoveBlob
  <2>1. Rest
    BY <1>n, <1>2 DEF WriteBlob, RemoveBlob
  <2>2. op'.name = "sweep" => op.name = "sweep" /\ op'.picked = op.picked /\ op'.at = op.at
    <3>1. CASE WriteBlob
      <4>1. op \in [name : {"blob"}, m : Meeting, half : Half]
        BY <1>t, <3>1 DEF WriteBlob, TypeOK, Op
      <4> QED BY <3>1, <4>1 DEF WriteBlob
    <3>2. CASE RemoveBlob
      <4>1. CASE op.name = "sweep"
        <5>1. op \in [name : {"sweep"}, todo : SUBSET Meeting, picked : SUBSET Meeting, at : Nat]
          BY <1>t, <4>1 DEF TypeOK, Op
        <5>2. PICK m \in op.todo : op' = [op EXCEPT !.todo = @ \ {m}]
          BY <3>2, <4>1 DEF RemoveBlob
        <5> QED BY <4>1, <5>1, <5>2
      <4>2. CASE op.name = "evict"
        <5>1. op \in [name : {"evict"}, todo : SUBSET Meeting]
          BY <1>t, <4>2 DEF TypeOK, Op
        <5>2. PICK m \in op.todo : op' = Idle \/ op' = [op EXCEPT !.todo = @ \ {m}]
          BY <3>2 DEF RemoveBlob
        <5> QED BY <5>1, <5>2 DEF Idle
      <4>3. CASE op.name = "purge"
        <5>1. op \in [name : {"purge"}, todo : SUBSET Meeting, by : Client]
          BY <1>t, <4>3 DEF TypeOK, Op
        <5>2. PICK m \in op.todo : op' = Idle \/ op' = [op EXCEPT !.todo = @ \ {m}]
          BY <3>2 DEF RemoveBlob
        <5> QED BY <5>1, <5>2 DEF Idle
      <4> QED BY <3>2, <4>1, <4>2, <4>3 DEF RemoveBlob
    <3> QED BY <1>2, <3>1, <3>2
  <2> QED BY <1>0, <2>1, <2>2
<1>3. CASE WriteRow
  <2>1. op \in [name : {"row"}, m : Meeting, half : Half]
    BY <1>t, <1>3 DEF WriteRow, TypeOK, Op
  <2> DEFINE m == op.m
             row == [storedAt |-> IF m \in Live THEN index[m].storedAt ELSE now, reconciled |-> FALSE]
  <2>2. PICK V \in Evictions(Live \ {m}) :
          /\ index' = [x \in Meeting |-> IF x = m THEN row ELSE IF x \in V THEN None ELSE index[x]]
          /\ op' = IF V = {} THEN Idle ELSE [name |-> "evict", todo |-> V]
    BY <1>3 DEF WriteRow
  <2>3. m \in Meeting /\ row # None
    <3>1. (IF m \in Live THEN index[m].storedAt ELSE now) \in Nat
      BY <1>t, <2>1 DEF TypeOK, Live, Row
    <3>2. row \in Row
      BY <3>1 DEF Row
    <3> QED BY <1>t, <2>1, <3>2
  <2>4. V \subseteq Live \ {m}
    BY DEF Evictions
  <2> HIDE DEF row, m
  <2>5. Live' = ((Live \ {m}) \ V) \cup {m}
    BY <2>2, <2>3, <2>4 DEF Live
  <2>6. /\ Cardinality(Live') <= Greatest(MaxMeetings, 1)
        /\ V # {} => Cardinality(Live') >= MaxMeetings
    BY <1>t, <2>3, <2>5, EvictionFits
  <2>7. op'.name # "sweep" /\ UNCHANGED <<tombs, ledger>>
    BY <1>3, <2>2 DEF WriteRow, Idle
  <2>8. StoreWithinCaps' /\ SweptAreOld'
    BY <2>6, <2>7 DEF CapInv, StoreWithinCaps, SweptAreOld
  <2>9. LeaveStep
    BY <2>1, <2>5, <2>6 DEF LeaveStep
  <2> QED BY <2>8, <2>9 DEF CapsKept
<1>4. CASE SweepBegin
  <2> DEFINE swept == {m \in Meeting : Expired(m)}
  <2>1. /\ op' = [name |-> "sweep", todo |-> swept, picked |-> swept, at |-> now]
        /\ UNCHANGED <<index, tombs, ledger, now>>
    BY <1>4 DEF SweepBegin, stored
  <2>2. ASSUME NEW m \in swept PROVE m \in Live /\ index[m].storedAt + Retention < now
    <3>1. m \in Live /\ RetentionAge(m) + Retention < now
      BY <2>2 DEF Expired
    <3>2. index[m].storedAt \in Nat /\ Stamp[m] \in Nat \cup {None} /\ None \notin Nat
      BY <1>t, <3>1, StoreAssumption DEF TypeOK, Live, Row
    <3>3. RetentionAge(m) \in Nat /\ RetentionAge(m) >= index[m].storedAt
      BY <3>2 DEF RetentionAge
    <3> QED BY <1>t, <1>n, <3>1, <3>2, <3>3
  <2>3. Live' = Live
    BY <2>1 DEF Live
  <2>4. SweptAreOld'
    BY <1>n, <2>1, <2>2, <2>3 DEF SweptAreOld
  <2>5. StoreWithinCaps' /\ LeaveStep
    BY <2>1, <2>3 DEF CapInv, StoreWithinCaps, LeaveStep
  <2> QED BY <2>4, <2>5 DEF CapsKept
<1>5. CASE WriteSwept
  <2>1. op \in [name : {"sweep"}, todo : SUBSET Meeting, picked : SUBSET Meeting, at : Nat]
    BY <1>t, <1>5 DEF WriteSwept, TypeOK, Op
  <2> DEFINE t == [m \in Meeting |-> IF m \in op.picked THEN op.at ELSE tombs[m]]
  <2>2. /\ index' = [m \in Meeting |-> IF m \in op.picked THEN None ELSE index[m]]
        /\ tombs' \in CappedTombs(t) /\ op' = Idle /\ ledger' = ledger
    BY <1>5 DEF WriteSwept
  <2>3. t \in [Meeting -> Nat \cup {None}]
    BY <1>t, <2>1 DEF TypeOK
  <2> HIDE DEF t
  <2>4. Cardinality({m \in Meeting : tombs'[m] # None}) <= MaxTombstones
    BY <2>2, <2>3, CappedFits
  <2>5. Live' = Live \ op.picked
    BY <2>2 DEF Live
  <2>6. Cardinality(Live') <= Greatest(MaxMeetings, 1)
    <3>1. IsFiniteSet(Live) /\ Cardinality(Live) \in Nat /\ Cardinality(Live') \in Nat
      BY <1>t, <2>5, FiniteMeetings
    <3>2. Cardinality(Live') <= Cardinality(Live)
      BY <2>5, <3>1, FS_Subset
    <3>3. Cardinality(Live) <= Greatest(MaxMeetings, 1) /\ Greatest(MaxMeetings, 1) \in Nat
      BY <1>t DEF CapInv, StoreWithinCaps, Greatest
    <3> QED BY <3>1, <3>2, <3>3
  <2>7. StoreWithinCaps' /\ SweptAreOld'
    BY <2>2, <2>4, <2>6 DEF CapInv, StoreWithinCaps, SweptAreOld, Idle
  <2>8. LeaveStep
    <3>1. \A m \in op.picked : index[m].storedAt + Retention < op.at /\ m \in Live /\ op.at <= now
      BY <2>1 DEF CapInv, SweptAreOld
    <3>2. \A m \in op.picked : index[m].storedAt \in Nat
      BY <1>t, <3>1 DEF TypeOK, Live, Row
    <3>3. \A m \in op.picked : index[m].storedAt + Retention < now
      BY <1>t, <1>n, <2>1, <3>1, <3>2
    <3> QED BY <2>1, <2>5, <3>3 DEF LeaveStep
  <2> QED BY <2>7, <2>8 DEF CapsKept
<1>6. ASSUME NEW c \in Client, PostRead(c) \/ RecordRead(c) \/ RecordList(c) \/ RequestFails(c) PROVE CapsKept
  BY <1>n, <1>0, <1>6 DEF PostRead, RecordRead, RecordList, RequestFails, stored
<1>7. ASSUME NEW c \in Client, PurgeBegin(c) PROVE CapsKept
  BY <1>n, <1>0, <1>7 DEF PurgeBegin, stored
<1>8. ASSUME UNCHANGED <<index, tombs, op, now>>,
             ledger' = None \/ Cardinality(ledger'.ids) <= RecentCap
      PROVE  CapsKept
  <2>1. Live' = Live
    BY <1>8 DEF Live
  <2>2. StoreWithinCaps' /\ SweptAreOld'
    BY <1>8, <2>1 DEF CapInv, StoreWithinCaps, SweptAreOld
  <2> QED BY <2>1, <2>2 DEF CapsKept, LeaveStep
<1>9. ASSUME NEW c \in Client, PostWrite(c) PROVE CapsKept
  <2>1. req[c].seen \in Ledger \cup {None} /\ req[c].ids \in SUBSET Meeting
    BY <1>t, <1>9 DEF PostWrite, TypeOK, Request
  <2>2. ledger' \in Merged(req[c].seen, req[c].through, req[c].ids)
    BY <1>9 DEF PostWrite
  <2>3. Cardinality(ledger'.ids) <= RecentCap
    BY <2>1, <2>2, MergedFits
  <2> QED BY <1>8, <1>9, <2>3 DEF PostWrite, stored
<1>10. ASSUME NEW c \in Client, ClearLedger(c) PROVE CapsKept
  BY <1>8, <1>10 DEF ClearLedger, stored
<1>11. ASSUME NEW c \in Client, RecordWrite(c) PROVE CapsKept
  <2>1. req[c].seen \in Ledger \cup {None} /\ req[c].ids \in SUBSET Meeting
    BY <1>t, <1>11 DEF RecordWrite, TypeOK, Request
  <2>2. ledger' \in Merged(req[c].seen, req[c].through, req[c].ids)
    BY <1>11 DEF RecordWrite
  <2>3. Cardinality(ledger'.ids) <= RecentCap
    BY <2>1, <2>2, MergedFits
  <2> QED BY <1>8, <1>11, <2>3 DEF RecordWrite, stored
<1>12. CASE PurgeEnd
  <2>1. /\ \A m \in Meeting : index'[m] = None /\ tombs'[m] = None
        /\ op' = Idle /\ ledger' = ledger /\ op.name = "purge"
    BY <1>12 DEF PurgeEnd
  <2>2. Live' = {} /\ {m \in Meeting : tombs'[m] # None} = {}
    BY <2>1 DEF Live
  <2>3. Cardinality({}) = 0
    BY FS_EmptySet
  <2>4. StoreWithinCaps'
    <3>1. 0 <= Greatest(MaxMeetings, 1) /\ 0 <= MaxTombstones
      BY StoreAssumption DEF Greatest
    <3> QED BY <2>1, <2>2, <2>3, <3>1 DEF CapInv, StoreWithinCaps
  <2> QED BY <2>1, <2>4 DEF CapsKept, SweptAreOld, LeaveStep, Idle
<1>13. ASSUME NEW d \in Device, BrowserRead(d) \/ BrowserWriteBody(d) \/ BrowserWriteRecord(d) \/ DeviceLeaves(d) PROVE CapsKept
  BY <1>n, <1>0, <1>13 DEF BrowserRead, BrowserWriteBody, BrowserWriteRecord, DeviceLeaves, stored
<1>14. ASSUME NEW d \in Device, BrowserAck(d) PROVE CapsKept
  <2>1. op = Idle /\ op' = Idle /\ UNCHANGED <<tombs, ledger, now>>
    BY <1>14 DEF BrowserAck
  <2>2. Live' = Live
    <3> DEFINE x == device[d].m
    <3>1. CASE x \in Live
      <4>1. index' = [index EXCEPT ![x].reconciled = TRUE]
        BY <1>14, <3>1 DEF BrowserAck
      <4>2. index[x] \in Row /\ x \in Meeting
        BY <1>t, <3>1 DEF TypeOK, Live
      <4>3. [index[x] EXCEPT !.reconciled = TRUE] \in Row
        BY <4>2 DEF Row
      <4>4. index'[x] # None
        BY <1>t, <4>1, <4>2, <4>3 DEF TypeOK
      <4>5. \A m \in Meeting : m # x => index'[m] = index[m]
        BY <1>t, <4>1 DEF TypeOK
      <4> QED BY <3>1, <4>4, <4>5 DEF Live
    <3>2. CASE x \notin Live
      BY <1>14, <3>2 DEF BrowserAck, Live
    <3> QED BY <3>1, <3>2
  <2> QED BY <1>n, <2>1, <2>2, QuietKeepsCaps DEF Idle
<1>15. CASE OpFails \/ Crash
  BY <1>n, <1>0, <1>15 DEF OpFails, Crash, stored, Idle
<1>16. CASE Tick
  BY <1>n, <1>0, <1>16 DEF Tick, stored
<1>17. CASE UNCHANGED vars
  BY <1>n, <1>0, <1>17 DEF vars, stored
<1> QED
  BY <1>1, <1>2, <1>3, <1>4, <1>5, <1>6, <1>7, <1>9, <1>10, <1>11, <1>12, <1>13, <1>14, <1>15,
     <1>16, <1>17 DEF Next

LEMMA CapsHold == Spec => []CapInv /\ [][LeaveStep]_vars
<1>1. Init => CapInv
  <2> SUFFICES ASSUME Init PROVE CapInv
    OBVIOUS
  <2>1. TypeInv
    BY InitIInv DEF IInv
  <2>2. Live = {} /\ {m \in Meeting : tombs[m] # None} = {} /\ ledger = None /\ op = Idle
    BY DEF Init, Live
  <2>3. Cardinality({}) = 0
    BY FS_EmptySet
  <2>4. 0 <= Greatest(MaxMeetings, 1) /\ 0 <= MaxTombstones
    BY StoreAssumption DEF Greatest
  <2> QED BY <2>1, <2>2, <2>3, <2>4 DEF CapInv, StoreWithinCaps, SweptAreOld, Idle
<1>2. CapInv /\ [Next]_vars => CapInv' /\ [LeaveStep]_vars
  BY TypeStep, WaitStep, CapStep DEF CapInv, CapsKept, TypeInv
<1> QED BY <1>1, <1>2, PTL DEF Spec

\* However upserts, sweeps, ledger writers, failures and crashes follow each other, rows,
\* tombstones and purged ids stay within their caps.
THEOREM StoreIsCapped == Spec => []StoreWithinCaps
<1>1. CapInv => StoreWithinCaps
  BY DEF CapInv
<1> QED BY <1>1, CapsHold, PTL

\* A stored meeting leaves the index for room at the cap, after its whole retention or in
\* a purge, whatever is stored, replayed or acknowledged while a sweep runs.
THEOREM MeetingsLeaveForAReason == Spec => LeavesForAReason
<1>1. LeaveStep =>
        \A m \in Live \ Live' :
          \/ op.name = "row" /\ Cardinality(Live') >= MaxMeetings
          \/ op.name = "sweep" /\ index[m].storedAt + Retention < now
          \/ op.name = "purge"
  BY DEF LeaveStep
<1> QED BY <1>1, CapsHold, PTL DEF LeavesForAReason

-----------------------------------------------------------------------------
(* The refinement                                                          *)

\* A step of the store is a step of the archive or a stutter.
LEMMA ArchiveStep ==
  ASSUME IInv, IInv', [Next]_vars
  PROVE [Archive!Next]_(Archive!vars)
<1> DEFINE shown == [m \in Meeting |-> IF m \in Live THEN blob[m] ELSE {}]
           barred == {m \in Meeting : tombs[m] # None} \cup Wiped
<1>t. /\ TypeOK /\ TypeOK'
      /\ StoreInv /\ StoreInv'
  BY DEF IInv, TypeInv
<1>b. /\ barred \subseteq Meeting /\ barred' \subseteq Meeting
      /\ \A m \in barred : shown[m] = {}
      /\ \A m \in barred' : shown'[m] = {}
  BY <1>t DEF StoreInv, SweptInv, PurgedInv, PurgedStaysGone, TombstonedIsGone, Wiped
<1>s. ASSUME UNCHANGED <<shown, barred>> PROVE [Archive!Next]_(Archive!vars)
  BY <1>s DEF Archive!vars
<1>g. ASSUME NEW m \in Meeting, NEW halves \in SUBSET Half, NEW D \in SUBSET Meeting,
             m \notin barred \cup D, UNCHANGED barred,
             shown' = [x \in Meeting |-> IF x = m THEN shown[m] \cup halves
                                         ELSE IF x \in D THEN {} ELSE shown[x]]
      PROVE [Archive!Next]_(Archive!vars)
  <2>1. Archive!Grow(m, halves, D)
    BY <1>g DEF Archive!Grow, Archive!Without
  <2> QED BY <2>1 DEF Archive!Next
<1>d. ASSUME NEW D \in SUBSET Meeting,
             shown' = [x \in Meeting |-> IF x \in D THEN {} ELSE shown[x]]
      PROVE [Archive!Next]_(Archive!vars)
  <2>1. PICK B \in SUBSET Meeting : B = barred'
    BY <1>b
  <2>2. Archive!Drop(D, B)
    BY <1>d, <1>b, <2>1 DEF Archive!Drop, Archive!Without
  <2> QED BY <2>2 DEF Archive!Next
<1>0. ASSUME UNCHANGED <<stored, wiped>> PROVE [Archive!Next]_(Archive!vars)
  <2>1. UNCHANGED <<shown, barred>>
    BY <1>0 DEF stored, Live, Wiped
  <2> QED BY <2>1, <1>s
<1>1. ASSUME NEW m \in Meeting, NEW half \in Half, UpsertBegin(m, half)
      PROVE [Archive!Next]_(Archive!vars)
  BY <1>0, <1>1 DEF UpsertBegin
<1>2. CASE WriteBlob
  <2>1. op.m \in Meeting /\ op.half \in Half
    BY <1>2, <1>t DEF WriteBlob, TypeOK, Op
  <2>2. Live' = Live /\ barred' = barred
    BY <1>2 DEF WriteBlob, Live, Wiped
  <2>3. op.m \notin barred
    BY <1>2, <1>t DEF WriteBlob, StoreInv, SweptInv, PurgedInv, UpsertUnswept, UpsertUnpurged
  <2>4. \A x \in Meeting : blob'[x] = IF x = op.m THEN blob[x] \cup {op.half} ELSE blob[x]
    BY <1>2, <1>t DEF WriteBlob, TypeOK
  <2>5. CASE op.m \in Live
    <3>1. shown' = [x \in Meeting |-> IF x = op.m THEN shown[op.m] \cup {op.half}
                                      ELSE IF x \in {} THEN {} ELSE shown[x]]
      BY <2>1, <2>2, <2>4, <2>5
    <3>2. PICK m \in Meeting, halves \in SUBSET Half : m = op.m /\ halves = {op.half}
      BY <2>1
    <3>3. m \notin barred \cup {}
      BY <2>3, <3>2
    <3>4. shown' = [x \in Meeting |-> IF x = m THEN shown[m] \cup halves
                                      ELSE IF x \in {} THEN {} ELSE shown[x]]
      BY <3>1, <3>2
    <3> QED BY <1>g, <2>2, <3>3, <3>4
  <2>6. CASE op.m \notin Live
    <3>1. shown' = shown
      BY <2>2, <2>4, <2>6
    <3> QED BY <1>s, <2>2, <3>1
  <2> QED BY <2>5, <2>6
<1>3. CASE WriteRow
  <2>1. op.m \in Meeting /\ op.m \notin barred
    BY <1>3, <1>t DEF WriteRow, TypeOK, Op, StoreInv, SweptInv, PurgedInv, UpsertUnswept, UpsertUnpurged
  <2>2. PICK V \in SUBSET (Live \ {op.m}) :
          /\ \A x \in Meeting : x # op.m => index'[x] = IF x \in V THEN None ELSE index[x]
          /\ index'[op.m] \in Row
    <3> DEFINE row == [storedAt |-> IF op.m \in Live THEN index[op.m].storedAt ELSE now,
                       reconciled |-> FALSE]
    <3>2. PICK V \in Evictions(Live \ {op.m}) :
            index' = [x \in Meeting |-> IF x = op.m THEN row ELSE IF x \in V THEN None ELSE index[x]]
      BY <1>3 DEF WriteRow
    <3>3. V \in SUBSET (Live \ {op.m})
      BY DEF Evictions
    <3>4. row \in Row
      BY <2>1, <1>t DEF TypeOK, Live, Row
    <3> QED BY <2>1, <3>2, <3>3, <3>4
  <2>3. index'[op.m] # None
    BY <2>2, StoreAssumption
  <2>4. blob' = blob /\ barred' = barred
    BY <1>3 DEF WriteRow, Wiped
  <2>5. V \in SUBSET Meeting /\ op.m \notin barred \cup V
    BY <2>1, <2>2 DEF Live
  <2>6. shown' = [x \in Meeting |-> IF x = op.m THEN shown[op.m] \cup blob[op.m]
                                    ELSE IF x \in V THEN {} ELSE shown[x]]
    BY <2>1, <2>2, <2>3, <2>4 DEF Live
  <2>7. PICK m \in Meeting, halves \in SUBSET Half : m = op.m /\ halves = blob[op.m]
    BY <2>1, <1>t DEF TypeOK
  <2>8. m \notin barred \cup V
    BY <2>5, <2>7
  <2>9. shown' = [x \in Meeting |-> IF x = m THEN shown[m] \cup halves
                                    ELSE IF x \in V THEN {} ELSE shown[x]]
    BY <2>6, <2>7
  <2>10. UNCHANGED barred
    BY <2>4
  <2> HIDE DEF shown, barred
  <2> QED BY <1>g, <2>5, <2>8, <2>9, <2>10
<1>4. CASE RemoveBlob
  <2>1. PICK m \in Meeting : blob' = [blob EXCEPT ![m] = {}]
    BY <1>4, <1>t DEF RemoveBlob, TypeOK, Op
  <2>2. Live' = Live
    BY <1>4 DEF RemoveBlob, Live
  <2>3. shown' = [x \in Meeting |-> IF x \in {m} THEN {} ELSE shown[x]]
    BY <2>1, <2>2, <1>t DEF TypeOK
  <2> QED BY <1>d, <2>3
<1>5. CASE SweepBegin
  BY <1>0, <1>5 DEF SweepBegin
<1>6. CASE WriteSwept
  <2>1. op.picked \in SUBSET Meeting
    BY <1>6, <1>t DEF WriteSwept, TypeOK, Op
  <2>2. /\ \A x \in Meeting : index'[x] = IF x \in op.picked THEN None ELSE index[x]
        /\ blob' = blob
    BY <1>6 DEF WriteSwept
  <2>3. shown' = [x \in Meeting |-> IF x \in op.picked THEN {} ELSE shown[x]]
    BY <2>2 DEF Live
  <2> QED BY <1>d, <2>1, <2>3
<1>7. CASE PurgeEnd
  <2>1. shown' = [x \in Meeting |-> IF x \in Meeting THEN {} ELSE shown[x]]
    BY <1>7 DEF PurgeEnd, Live
  <2> QED BY <1>d, <2>1
<1>8. ASSUME NEW c \in Client, ClearLedger(c) PROVE [Archive!Next]_(Archive!vars)
  <2>1. shown' = [x \in Meeting |-> IF x \in {} THEN {} ELSE shown[x]]
    BY <1>8 DEF ClearLedger, stored, Live
  <2> QED BY <1>d, <2>1
<1>9. ASSUME NEW c \in Client,
             PostRead(c) \/ PostWrite(c) \/ RecordRead(c) \/ RecordList(c) \/ RecordWrite(c) \/ PurgeBegin(c)
             \/ RequestFails(c)
      PROVE [Archive!Next]_(Archive!vars)
  BY <1>0, <1>9 DEF PostRead, PostWrite, RecordRead, RecordList, RecordWrite, PurgeBegin, RequestFails
<1>10. ASSUME NEW d \in Device, BrowserRead(d) \/ BrowserWriteBody(d) \/ BrowserWriteRecord(d) \/ DeviceLeaves(d)
      PROVE [Archive!Next]_(Archive!vars)
  BY <1>0, <1>10 DEF BrowserRead, BrowserWriteBody, BrowserWriteRecord, DeviceLeaves
<1>11. ASSUME NEW d \in Device, BrowserAck(d) PROVE [Archive!Next]_(Archive!vars)
  <2>1. device[d].m \in Meeting
    BY <1>11, <1>t DEF BrowserAck, TypeOK
  <2>2. Live' = Live
    <3>1. CASE device[d].m \notin Live
      BY <1>11, <3>1 DEF BrowserAck, Live
    <3>2. CASE device[d].m \in Live
      <4>1. index[device[d].m] \in Row
        BY <2>1, <3>2, <1>t DEF TypeOK, Live
      <4>2. /\ index' = [index EXCEPT ![device[d].m].reconciled = TRUE]
            /\ [index[device[d].m] EXCEPT !.reconciled = TRUE] \in Row
        BY <1>11, <3>2, <4>1 DEF BrowserAck, Row
      <4>3. index'[device[d].m] # None
        <5>1. index'[device[d].m] \in Row
          BY <2>1, <4>2, <1>t DEF TypeOK
        <5> QED BY <5>1, StoreAssumption
      <4>4. \A x \in Meeting : x # device[d].m => index'[x] = index[x]
        BY <4>2, <1>t DEF TypeOK
      <4> QED BY <3>2, <4>3, <4>4 DEF Live
    <3> QED BY <3>1, <3>2
  <2>3. UNCHANGED <<shown, barred>>
    BY <1>11, <2>2 DEF BrowserAck, Wiped
  <2> QED BY <2>3, <1>s
<1>12. CASE OpFails \/ Crash \/ Tick \/ UNCHANGED vars
  BY <1>0, <1>12 DEF OpFails, Crash, Tick, vars
<1> QED
  BY <1>1, <1>2, <1>3, <1>4, <1>5, <1>6, <1>7, <1>8, <1>9, <1>10, <1>11, <1>12 DEF Next

\* A reader of the store sees a MeetingArchive: no step shows a part of a meeting
\* less than before except by taking the whole away, and nothing barred appears; for
\* any number of clients, if their requests keep out of each other's way.
THEOREM StoreIsAnArchive == Spec /\ Orderly => ArchiveSpec
<1>1. Init => Archive!Init
  BY DEF Init, Archive!Init, Live, Wiped
<1>2. IInv /\ IInv' /\ [Next]_vars => [Archive!Next]_(Archive!vars)
  BY ArchiveStep
<1> QED BY <1>1, <1>2, Invariance, PTL DEF Spec, ArchiveSpec, Archive!Spec
=============================================================================
