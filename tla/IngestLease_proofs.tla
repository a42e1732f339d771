------------------------- MODULE IngestLease_proofs -------------------------
(***************************************************************************)
(* Proofs about IngestLease, for any processes, TTL, stalls, failures,     *)
(* shutdowns and restarts: the types; that a ticking process without the   *)
(* seat consumes nothing; that a prompt holder which lost the lease gives  *)
(* the seat up within a heartbeat; and, where every process is prompt and  *)
(* none is shut down, that a seat held over a heartbeat is not stolen.     *)
(***************************************************************************)
EXTENDS IngestLease, TLAPS

\* What a record of the store looks like.
LEMMA LeaseShape ==
  ASSUME TypeOK
  PROVE  /\ lease = [state |-> lease.state, owner |-> lease.owner, age |-> lease.age]
         /\ lease.age \in 0..TTL
         /\ Parsed => lease.owner \in Instance /\ lease = Record(lease.owner, lease.age)
         /\ ~ Parsed => lease \in {Empty, Mangled}
<1>1. CASE lease \in {Empty, Mangled}
  BY <1>1, LeaseAssumption DEF Empty, Mangled, Parsed
<1>2. CASE lease \in {Record(i, a) : i \in Instance, a \in 0..TTL}
  BY <1>2 DEF Record, Parsed
<1> QED BY <1>1, <1>2 DEF TypeOK

LEMMA OlderType == ASSUME NEW age \in 0..TTL PROVE Older(age) \in 0..TTL
  BY LeaseAssumption DEF Older

\* What may be stored at any time.
Stored == {Empty, Mangled} \cup {Record(i, a) : i \in Instance, a \in 0..TTL}

LEMMA OwnRecord == ASSUME NEW i \in Instance, NEW a \in 0..TTL PROVE Record(i, a) \in Stored
  BY DEF Stored

LEMMA AgedLease ==
  ASSUME TypeOK, Advance
  PROVE  /\ Parsed => lease' = Record(lease.owner, Older(lease.age))
         /\ ~ Parsed => lease' = lease
         /\ lease' \in Stored
<1>1. /\ lease = [state |-> lease.state, owner |-> lease.owner, age |-> lease.age]
      /\ lease.age \in 0..TTL
      /\ Parsed => lease.owner \in Instance /\ lease = Record(lease.owner, lease.age)
      /\ ~ Parsed => lease \in {Empty, Mangled}
  BY LeaseShape
<1>2. lease' = [lease EXCEPT !.age = IF Parsed THEN Older(lease.age) ELSE 0]
  BY DEF Advance
<1>3. CASE Parsed
  <2>1. lease' = Record(lease.owner, Older(lease.age))
    BY <1>1, <1>2, <1>3 DEF Record
  <2> QED BY <2>1, <1>1, <1>3, OlderType, OwnRecord
<1>4. CASE ~ Parsed
  BY <1>1, <1>2, <1>4 DEF Empty, Mangled, Stored
<1> QED BY <1>3, <1>4

-----------------------------------------------------------------------------
(* Types                                                                   *)

\* The types of everything but the lease.
RestOK ==
  /\ life \in [Instance -> {"down", "up", "stopped", "gone"}]
  /\ holder \in [Instance -> BOOLEAN]
  /\ worker \in [Instance -> BOOLEAN]
  /\ tick \in [Instance -> {"idle", "claimRead", "claimWrite", "claimConfirm",
                            "renewRead", "renewWrite"}]
  /\ stamp \in [Instance -> 0..TTL]
  /\ ticked \in [Instance -> BOOLEAN]
  /\ release \in [Instance -> {"idle", "read", "clear"}]
  /\ heldFor \in [Instance -> 0..1]
  /\ usurped \in [Instance -> 0..2]

LEMMA TypeStep == ASSUME TypeOK, [Next]_vars PROVE TypeOK'
<1> DEFINE Kept == lease' \in Stored /\ RestOK'
<1> SUFFICES Kept
  BY DEF TypeOK, Stored, RestOK
<1>0. lease \in Stored /\ RestOK
  BY DEF TypeOK, Stored, RestOK
<1>z. 0 \in 0..TTL /\ Empty \in Stored /\ Mangled \in Stored
  BY LeaseAssumption DEF Stored
<1>c. ASSUME NEW i \in Instance, NEW seated \in BOOLEAN, Settle(i, seated),
             UNCHANGED <<life, ticked, release>>
      PROVE  RestOK'
  BY <1>0, <1>z, <1>c DEF Settle, Over, RestOK
<1>n. ASSUME NEW i \in Instance, Refuse(i), UNCHANGED <<life, ticked, release>> PROVE RestOK'
  BY <1>0, <1>z, <1>n DEF Refuse, Over, RestOK
<1>g. ASSUME NEW i \in Instance, NEW next \in {"claimWrite", "claimConfirm", "renewWrite"},
             GoOn(i, next), UNCHANGED <<life, ticked, release>>
      PROVE  RestOK'
  BY <1>0, <1>z, <1>g DEF GoOn, RestOK
<1>1. ASSUME NEW i \in Instance, StartTick(i) PROVE Kept
  BY <1>0, <1>1 DEF StartTick, RestOK
<1>2. ASSUME NEW i \in Instance, ClaimRead(i) PROVE Kept
  BY <1>0, <1>2, <1>n, <1>g DEF ClaimRead
<1>3. ASSUME NEW i \in Instance, ClaimWrite(i) PROVE Kept
  <2>1. stamp[i] \in 0..TTL
    BY <1>0 DEF RestOK
  <2>2. lease' \in Stored
    BY <1>3, <1>0, <2>1, OwnRecord DEF ClaimWrite
  <2> QED BY <1>3, <1>n, <1>g, <2>2 DEF ClaimWrite
<1>4. ASSUME NEW i \in Instance, ClaimConfirm(i) PROVE Kept
  BY <1>0, <1>4, <1>c, <1>n DEF ClaimConfirm
<1>5. ASSUME NEW i \in Instance, RenewRead(i) PROVE Kept
  BY <1>0, <1>5, <1>c, <1>g DEF RenewRead
<1>6. ASSUME NEW i \in Instance, RenewWrite(i) PROVE Kept
  <2>1. stamp[i] \in 0..TTL
    BY <1>0 DEF RestOK
  <2>2. lease' \in Stored
    BY <1>6, <1>0, <2>1, OwnRecord DEF RenewWrite
  <2>3. PICK o \in Outcomes :
          IF o.acked
            THEN /\ worker' = [worker EXCEPT ![i] = TRUE]
                 /\ tick' = [tick EXCEPT ![i] = "idle"]
                 /\ stamp' = [stamp EXCEPT ![i] = 0]
                 /\ UNCHANGED <<holder, heldFor, usurped>>
            ELSE Settle(i, FALSE)
    BY <1>6 DEF RenewWrite
  <2>4. UNCHANGED <<life, ticked, release>>
    BY <1>6 DEF RenewWrite
  <2>5. CASE o.acked
    BY <1>0, <1>z, <2>2, <2>3, <2>4, <2>5 DEF RestOK
  <2>6. CASE ~ o.acked
    BY <1>c, <2>2, <2>3, <2>4, <2>6
  <2> QED BY <2>5, <2>6
<1>7. ASSUME NEW i \in Instance, ReleaseRead(i) PROVE Kept
  BY <1>0, <1>7 DEF ReleaseRead, RestOK
<1>8. ASSUME NEW i \in Instance, ReleaseClear(i) PROVE Kept
  <2>1. lease' \in Stored
    BY <1>8, <1>0, <1>z DEF ReleaseClear
  <2> QED BY <1>0, <1>8, <2>1 DEF ReleaseClear, RestOK
<1>9. ASSUME NEW i \in Instance, Boot(i) PROVE Kept
  BY <1>0, <1>9 DEF Boot, RestOK
<1>10. ASSUME NEW i \in Instance, Stop(i) PROVE Kept
  BY <1>0, <1>10 DEF Stop, RestOK
<1>11. ASSUME NEW i \in Instance, Exit(i) PROVE Kept
  BY <1>0, <1>11, <1>z DEF Exit, Settle, Over, RestOK
<1>u. ASSUME UNCHANGED <<life, holder, worker, tick, stamp, ticked, release, heldFor, usurped>>
      PROVE  RestOK'
  BY <1>0, <1>u DEF RestOK
<1>12. CASE Mangle
  <2>1. lease' \in Stored
    BY <1>z, <1>12 DEF Mangle
  <2> QED BY <1>u, <1>12, <2>1 DEF Mangle
<1>13. CASE Advance
  <2>1. lease' \in Stored
    BY <1>13, AgedLease
  <2>2. stamp' \in [Instance -> 0..TTL]
    BY <1>0, <1>13, OlderType DEF Advance, RestOK
  <2>3. heldFor' \in [Instance -> 0..1]
    BY <1>13 DEF Advance
  <2>4. usurped' \in [Instance -> 0..2]
    <3>1. usurped' = [i \in Instance |->
             IF holder[i] /\ ~ Owns(i) THEN (IF usurped[i] < 2 THEN usurped[i] + 1 ELSE 2) ELSE 0]
      BY <1>13 DEF Advance
    <3>2. \A i \in Instance : usurped[i] \in 0..2
      BY <1>0 DEF RestOK
    <3> QED BY <3>1, <3>2
  <2>5. ticked' \in [Instance -> BOOLEAN]
    BY <1>13 DEF Advance
  <2>6. UNCHANGED <<life, holder, worker, tick, release>>
    BY <1>13 DEF Advance
  <2>7. RestOK'
    BY <1>0, <2>2, <2>3, <2>4, <2>5, <2>6 DEF RestOK
  <2> QED BY <2>1, <2>7
<1>14. CASE UNCHANGED vars
  <2>1. lease' = lease
    BY <1>14 DEF vars
  <2>2. RestOK'
    BY <1>14, <1>u DEF vars
  <2> QED BY <1>0, <2>1, <2>2
<1> QED
  BY <1>1, <1>2, <1>3, <1>4, <1>5, <1>6, <1>7, <1>8, <1>9, <1>10, <1>11, <1>12, <1>13, <1>14
  DEF Next, Step

-----------------------------------------------------------------------------
(* The seat and the worker                                                 *)

\* A renewal is in flight only at a process that took the seat, and a claim only at one
\* that has not, unless it has been stopped since; a process that does not run has
\* nothing in flight.
SeatInv ==
  \A i \in Instance :
    /\ life[i] = "up" => /\ worker[i] => holder[i]
                         /\ tick[i] \in {"renewRead", "renewWrite"} => holder[i]
                         /\ tick[i] \in {"claimRead", "claimWrite", "claimConfirm"} => ~ holder[i]
    /\ life[i] \in {"down", "gone"} =>
         tick[i] = "idle" /\ ~ worker[i] /\ ~ holder[i] /\ usurped[i] = 0

LEMMA SeatStep == ASSUME TypeOK, SeatInv, [Next]_vars PROVE SeatInv'
<1> USE DEF TypeOK, SeatInv
<1>1. ASSUME NEW i \in Instance, StartTick(i) PROVE SeatInv'
  BY <1>1 DEF StartTick
<1>2. ASSUME NEW i \in Instance, ClaimRead(i) PROVE SeatInv'
  BY <1>2 DEF ClaimRead, GoOn, Refuse, Over
<1>3. ASSUME NEW i \in Instance, ClaimWrite(i) PROVE SeatInv'
  BY <1>3 DEF ClaimWrite, GoOn, Refuse, Over
<1>4. ASSUME NEW i \in Instance, ClaimConfirm(i) PROVE SeatInv'
  BY <1>4 DEF ClaimConfirm, Settle, Refuse, Over
<1>5. ASSUME NEW i \in Instance, RenewRead(i) PROVE SeatInv'
  BY <1>5 DEF RenewRead, GoOn, Settle, Over
<1>6. ASSUME NEW i \in Instance, RenewWrite(i) PROVE SeatInv'
  BY <1>6 DEF RenewWrite, Settle, Over
<1>7. ASSUME NEW i \in Instance, ReleaseRead(i) \/ ReleaseClear(i) PROVE SeatInv'
  BY <1>7 DEF ReleaseRead, ReleaseClear
<1>8. ASSUME NEW i \in Instance, Boot(i) PROVE SeatInv'
  BY <1>8 DEF Boot
<1>9. ASSUME NEW i \in Instance, Stop(i) PROVE SeatInv'
  BY <1>9 DEF Stop
<1>10. ASSUME NEW i \in Instance, Exit(i) PROVE SeatInv'
  BY <1>10 DEF Exit, Settle, Over
<1>11. CASE Mangle
  BY <1>11 DEF Mangle
<1>12. CASE Advance
  BY <1>12 DEF Advance
<1>13. CASE UNCHANGED vars
  BY <1>13 DEF vars
<1> QED
  BY <1>1, <1>2, <1>3, <1>4, <1>5, <1>6, <1>7, <1>8, <1>9, <1>10, <1>11, <1>12, <1>13
  DEF Next, Step

-----------------------------------------------------------------------------
(* A holder that lost the lease                                            *)

\* In the heartbeat after the loss the process is before its renewal's read, and that
\* read will find the lease lost: only its own writes could have brought it back.
LossInv ==
  \A i \in Prompt :
    life[i] = "up" /\ usurped[i] # 0 =>
      /\ usurped[i] = 1 /\ holder[i] /\ ~ Owns(i)
      /\ tick[i] = IF ticked[i] THEN "renewRead" ELSE "idle"

\* Whose the lease is after a step.
LEMMA OwnsAfterWrite ==
  ASSUME NEW i, NEW j, NEW a, lease' = Record(j, a) PROVE Owns(i)' <=> i = j
  BY DEF Owns, Parsed, Record

LEMMA OwnsAfterRest ==
  ASSUME NEW i \in Instance, TypeOK, lease' = lease \/ lease' \in {Empty, Mangled} \/ Advance
  PROVE  Owns(i)' => Owns(i)
<1>1. CASE lease' = lease
  BY <1>1 DEF Owns, Parsed
<1>2. CASE lease' \in {Empty, Mangled}
  BY <1>2 DEF Owns, Parsed, Empty, Mangled
<1>3. CASE Advance
  BY <1>3, AgedLease DEF Owns, Parsed, Record
<1> QED BY <1>1, <1>2, <1>3

LEMMA LossStep == ASSUME TypeOK, SeatInv, LossInv, [Next]_vars PROVE LossInv'
<1> SUFFICES ASSUME NEW p \in Prompt, life'[p] = "up" /\ usurped'[p] # 0
             PROVE  /\ usurped'[p] = 1 /\ holder'[p] /\ ~ Owns(p)'
                    /\ tick'[p] = IF ticked'[p] THEN "renewRead" ELSE "idle"
  BY DEF LossInv
<1>p. p \in Instance
  BY LeaseAssumption
<1>h. life[p] = "up" /\ usurped[p] # 0 =>
        /\ usurped[p] = 1 /\ holder[p] /\ ~ Owns(p)
        /\ tick[p] = IF ticked[p] THEN "renewRead" ELSE "idle"
  BY DEF LossInv
<1>d. life[p] = "down" => usurped[p] = 0
  BY <1>p DEF SeatInv
<1> USE <1>p DEF TypeOK
<1> DEFINE Lost == /\ usurped'[p] = 1 /\ holder'[p] /\ ~ Owns(p)'
                   /\ tick'[p] = IF ticked'[p] THEN "renewRead" ELSE "idle"
<1>1. ASSUME NEW i \in Instance, StartTick(i) PROVE Lost
  BY <1>1, <1>h, OwnsAfterRest DEF StartTick
<1>2. ASSUME NEW i \in Instance, ClaimRead(i) PROVE Lost
  BY <1>2, <1>h, OwnsAfterRest DEF ClaimRead, GoOn, Refuse, Over
<1>3. ASSUME NEW i \in Instance, ClaimWrite(i) PROVE Lost
  <2>1. i # p
    BY <1>3, <1>h DEF ClaimWrite, GoOn, Refuse, Over
  <2>2. ~ Owns(p)'
    BY <1>3, <1>h, <2>1, OwnsAfterWrite, OwnsAfterRest DEF ClaimWrite, GoOn, Refuse, Over
  <2> QED BY <1>3, <1>h, <2>1, <2>2 DEF ClaimWrite, GoOn, Refuse, Over
<1>4. ASSUME NEW i \in Instance, ClaimConfirm(i) PROVE Lost
  BY <1>4, <1>h, OwnsAfterRest DEF ClaimConfirm, Settle, Refuse, Over
<1>5. ASSUME NEW i \in Instance, RenewRead(i) PROVE Lost
  BY <1>5, <1>h, OwnsAfterRest DEF RenewRead, GoOn, Settle, Over
<1>6. ASSUME NEW i \in Instance, RenewWrite(i) PROVE Lost
  <2>1. i # p
    BY <1>6, <1>h DEF RenewWrite, Settle, Over
  <2>2. ~ Owns(p)'
    BY <1>6, <1>h, <2>1, OwnsAfterWrite, OwnsAfterRest DEF RenewWrite, Settle, Over
  <2> QED BY <1>6, <1>h, <2>1, <2>2 DEF RenewWrite, Settle, Over
<1>7. ASSUME NEW i \in Instance, ReleaseRead(i) PROVE Lost
  BY <1>7, <1>h, OwnsAfterRest DEF ReleaseRead
<1>8. ASSUME NEW i \in Instance, ReleaseClear(i) PROVE Lost
  BY <1>8, <1>h, OwnsAfterRest DEF ReleaseClear
<1>9. ASSUME NEW i \in Instance, Boot(i) PROVE Lost
  BY <1>9, <1>h, <1>d, OwnsAfterRest DEF Boot
<1>10. ASSUME NEW i \in Instance, Stop(i) PROVE Lost
  BY <1>10, <1>h, OwnsAfterRest DEF Stop
<1>11. ASSUME NEW i \in Instance, Exit(i) PROVE Lost
  BY <1>11, <1>h, OwnsAfterRest DEF Exit, Settle, Over
<1>12. CASE Mangle
  BY <1>12, <1>h, OwnsAfterRest DEF Mangle
<1>13. CASE Advance
  <2>1. ticked[p] /\ tick[p] = "idle" /\ usurped[p] = 0
    BY <1>13, <1>h DEF Advance
  <2>2. holder[p] /\ ~ Owns(p) /\ usurped'[p] = 1
    BY <1>13, <2>1 DEF Advance
  <2> QED BY <1>13, <2>1, <2>2, OwnsAfterRest DEF Advance
<1>14. CASE UNCHANGED vars
  BY <1>14, <1>h, OwnsAfterRest DEF vars
<1> QED
  BY <1>1, <1>2, <1>3, <1>4, <1>5, <1>6, <1>7, <1>8, <1>9, <1>10, <1>11, <1>12, <1>13, <1>14
  DEF Next, Step

-----------------------------------------------------------------------------
(* A seat among prompt processes                                           *)

\* Every process is prompt, none is shut down, and a lease outlives the heartbeat in
\* which it was stamped.  (INSTANCE_LEASE_TTL_MS is three heartbeats.)
AllPrompt == Prompt = Instance /\ ~ MayStop /\ TTL > 1

\* What a pass over the heartbeats leaves of a lease: it is stamped in this one, or
\* nobody is about to write.
FreshInv ==
  \A i \in Instance :
    /\ stamp[i] = 0 /\ release[i] = "idle"
    /\ heldFor[i] # 0 \/ usurped[i] # 0 => holder[i]
    /\ Owns(i) /\ ticked[i] /\ tick[i] = "idle" /\ holder[i] => lease.age = 0
    /\ Owns(i) /\ tick[i] = "claimConfirm" => lease.age = 0

\* Against a seat that was held when the heartbeat began nobody writes, and its lease
\* has not expired.
FirmInv ==
  \A i \in Instance :
    life[i] = "up" /\ holder[i] /\ heldFor[i] = 1 /\ usurped[i] = 0 =>
      /\ lease = Mangled \/ (Owns(i) /\ lease.age < TTL)
      /\ \A j \in Instance \ {i} : tick[j] \notin {"claimWrite", "renewWrite"}

\* A record that is stored unchanged is owned and dated as before.
LEMMA SameLease ==
  ASSUME lease' = lease, NEW i PROVE Owns(i)' = Owns(i) /\ lease'.age = lease.age
  BY DEF Owns, Parsed

LEMMA WrittenLease ==
  ASSUME NEW i, NEW j, NEW a, lease' = Record(j, a)
  PROVE  (Owns(i)' <=> i = j) /\ lease'.age = a
  BY DEF Owns, Parsed, Record

LEMMA AckedLands == \A o \in Outcomes : o.acked => o.landed
<1> SUFFICES ASSUME NEW o \in Outcomes, o.acked PROVE o.landed
  OBVIOUS
<1>1. CASE o = [landed |-> TRUE, acked |-> TRUE]
  BY <1>1
<1>2. CASE o \in {[landed |-> l, acked |-> FALSE] : l \in BOOLEAN}
  BY <1>2
<1>3. CASE o \in {}
  BY <1>3
<1> QED BY <1>1, <1>2, <1>3 DEF Outcomes

LEMMA FreshStep == ASSUME AllPrompt, TypeOK, SeatInv, FreshInv, [Next]_vars PROVE FreshInv'
<1> DEFINE Fresh(p) ==
      /\ stamp'[p] = 0 /\ release'[p] = "idle"
      /\ heldFor'[p] # 0 \/ usurped'[p] # 0 => holder'[p]
      /\ Owns(p)' /\ ticked'[p] /\ tick'[p] = "idle" /\ holder'[p] => lease'.age = 0
      /\ Owns(p)' /\ tick'[p] = "claimConfirm" => lease'.age = 0
<1> SUFFICES ASSUME NEW p \in Instance PROVE Fresh(p)
  BY DEF FreshInv
<1>h. \A i \in Instance :
        /\ stamp[i] = 0 /\ release[i] = "idle"
        /\ heldFor[i] # 0 \/ usurped[i] # 0 => holder[i]
        /\ Owns(i) /\ ticked[i] /\ tick[i] = "idle" /\ holder[i] => lease.age = 0
        /\ Owns(i) /\ tick[i] = "claimConfirm" => lease.age = 0
  BY DEF FreshInv
<1> USE DEF TypeOK
<1>1. ASSUME NEW i \in Instance, StartTick(i) PROVE Fresh(p)
  BY <1>1, <1>h, SameLease DEF StartTick
<1>2. ASSUME NEW i \in Instance, ClaimRead(i) PROVE Fresh(p)
  BY <1>2, <1>h, SameLease DEF ClaimRead, GoOn, Refuse, Over
<1>3. ASSUME NEW i \in Instance, ClaimWrite(i) PROVE Fresh(p)
  <2>1. lease' = lease \/ lease' = Record(i, 0)
    BY <1>3, <1>h DEF ClaimWrite
  <2>2. CASE lease' = Record(i, 0)
    BY <1>3, <1>h, <2>2, WrittenLease DEF ClaimWrite, GoOn, Refuse, Over
  <2>3. CASE lease' = lease /\ lease' # Record(i, 0)
    <3>1. Refuse(i)
      BY <1>3, <1>h, <2>3, AckedLands DEF ClaimWrite
    <3> QED BY <1>3, <1>h, <2>3, <3>1, SameLease DEF ClaimWrite, Refuse, Over
  <2> QED BY <2>1, <2>2, <2>3
<1>4. ASSUME NEW i \in Instance, ClaimConfirm(i) PROVE Fresh(p)
  BY <1>4, <1>h, SameLease DEF ClaimConfirm, Settle, Refuse, Over
<1>5. ASSUME NEW i \in Instance, RenewRead(i) PROVE Fresh(p)
  BY <1>5, <1>h, SameLease DEF RenewRead, GoOn, Settle, Over
<1>6. ASSUME NEW i \in Instance, RenewWrite(i) PROVE Fresh(p)
  <2>1. lease' = lease \/ lease' = Record(i, 0)
    BY <1>6, <1>h DEF RenewWrite
  <2>2. CASE lease' = Record(i, 0)
    BY <1>6, <1>h, <2>2, WrittenLease DEF RenewWrite, Settle, Over
  <2>3. CASE lease' = lease /\ lease' # Record(i, 0)
    <3>1. Settle(i, FALSE)
      BY <1>6, <1>h, <2>3, AckedLands DEF RenewWrite
    <3> QED BY <1>6, <1>h, <2>3, <3>1, SameLease DEF RenewWrite, Settle, Over
  <2> QED BY <2>1, <2>2, <2>3
<1>7. ASSUME NEW i \in Instance, ReleaseRead(i) PROVE Fresh(p)
  BY <1>7, <1>h DEF ReleaseRead
<1>8. ASSUME NEW i \in Instance, ReleaseClear(i) PROVE Fresh(p)
  BY <1>8, <1>h DEF ReleaseClear
<1>9. ASSUME NEW i \in Instance, Boot(i) PROVE Fresh(p)
  BY <1>9, <1>h, SameLease DEF Boot, SeatInv
<1>10. ASSUME NEW i \in Instance, Stop(i) PROVE Fresh(p)
  BY <1>10 DEF Stop, AllPrompt
<1>11. ASSUME NEW i \in Instance, Exit(i) PROVE Fresh(p)
  BY <1>11, <1>h, SameLease DEF Exit, Settle, Over
<1>12. CASE Mangle
  <2>1. ~ Owns(p)'
    BY <1>12 DEF Mangle, Mangled, Owns, Parsed
  <2> QED BY <1>12, <1>h, <2>1 DEF Mangle
<1>13. CASE Advance
  <2>1. tick[p] = "idle" /\ tick'[p] = "idle" /\ ~ ticked'[p]
    BY <1>13 DEF Advance, AllPrompt
  <2>2. stamp'[p] = 0
    BY <1>13, <1>h, <2>1 DEF Advance
  <2>3. release'[p] = "idle" /\ holder'[p] = holder[p]
    BY <1>13, <1>h DEF Advance
  <2>4. heldFor'[p] # 0 \/ usurped'[p] # 0 => holder[p]
    BY <1>13 DEF Advance
  <2> QED BY <2>1, <2>2, <2>3, <2>4
<1>14. CASE UNCHANGED vars
  BY <1>14, <1>h, SameLease DEF vars
<1> QED
  BY <1>1, <1>2, <1>3, <1>4, <1>5, <1>6, <1>7, <1>8, <1>9, <1>10, <1>11, <1>12, <1>13, <1>14
  DEF Next, Step

\* A mangled lease, and one that is owned by another and alive, let nobody claim.
LEMMA ClaimRefused ==
  ASSUME NEW i, NEW j, i # j, lease = Mangled \/ (Owns(i) /\ lease.age < TTL), TypeOK
  PROVE  ~ MayClaim(j) /\ ~ Owns(j)
<1>1. CASE lease = Mangled
  BY <1>1 DEF Mangled, MayClaim, Owns, Parsed
<1>2. CASE Owns(i) /\ lease.age < TTL
  <2>1. lease.age \in Nat /\ TTL \in Nat
    BY LeaseShape, LeaseAssumption
  <2> QED BY <1>2, <2>1 DEF MayClaim, Owns, Parsed
<1> QED BY <1>1, <1>2

LEMMA FirmStep ==
  ASSUME AllPrompt, TypeOK, SeatInv, LossInv, FreshInv, FirmInv, [Next]_vars
  PROVE  FirmInv'
<1> SUFFICES ASSUME NEW p \in Instance,
                    life'[p] = "up" /\ holder'[p] /\ heldFor'[p] = 1 /\ usurped'[p] = 0
             PROVE  /\ lease' = Mangled \/ (Owns(p)' /\ lease'.age < TTL)
                    /\ \A j \in Instance \ {p} : tick'[j] \notin {"claimWrite", "renewWrite"}
  BY DEF FirmInv
<1> DEFINE Firm == /\ lease' = Mangled \/ (Owns(p)' /\ lease'.age < TTL)
                   /\ \A j \in Instance \ {p} : tick'[j] \notin {"claimWrite", "renewWrite"}
<1>h. life[p] = "up" /\ holder[p] /\ heldFor[p] = 1 /\ usurped[p] = 0 =>
        /\ lease = Mangled \/ (Owns(p) /\ lease.age < TTL)
        /\ \A j \in Instance \ {p} : tick[j] \notin {"claimWrite", "renewWrite"}
  BY DEF FirmInv
<1>f. \A i \in Instance :
        /\ stamp[i] = 0 /\ release[i] = "idle"
        /\ heldFor[i] # 0 \/ usurped[i] # 0 => holder[i]
        /\ Owns(i) /\ ticked[i] /\ tick[i] = "idle" /\ holder[i] => lease.age = 0
  BY DEF FreshInv
<1>t. 0 < TTL /\ 1 < TTL /\ TTL \in Nat
  BY LeaseAssumption DEF AllPrompt
<1>r. ASSUME life[p] = "up", holder[p], heldFor[p] = 1, usurped[p] = 0,
             NEW j \in Instance, j # p
      PROVE  ~ MayClaim(j) /\ ~ Owns(j)
  BY <1>h, <1>r, ClaimRefused
<1> USE DEF TypeOK
<1>1. ASSUME NEW i \in Instance, StartTick(i) PROVE Firm
  BY <1>1, <1>h, SameLease DEF StartTick
<1>2. ASSUME NEW i \in Instance, ClaimRead(i) PROVE Firm
  <2>1. life[p] = "up" /\ holder[p] /\ heldFor[p] = 1 /\ usurped[p] = 0
    BY <1>2 DEF ClaimRead, GoOn, Refuse, Over
  <2>2. i # p => Refuse(i)
    BY <1>2, <1>r, <2>1 DEF ClaimRead
  <2> QED BY <1>2, <1>h, <2>1, <2>2, SameLease DEF ClaimRead, GoOn, Refuse, Over
<1>3. ASSUME NEW i \in Instance, ClaimWrite(i) PROVE Firm
  <2>1. life[p] = "up" /\ holder[p] /\ heldFor[p] = 1 /\ usurped[p] = 0
    BY <1>3 DEF ClaimWrite, GoOn, Refuse, Over
  <2>2. i = p
    BY <1>3, <1>h, <2>1 DEF ClaimWrite
  <2>3. lease' = lease \/ lease' = Record(p, 0)
    BY <1>3, <1>f, <2>2 DEF ClaimWrite
  <2>4. lease' = Mangled \/ (Owns(p)' /\ lease'.age < TTL)
    BY <1>h, <1>t, <2>1, <2>3, SameLease, WrittenLease
  <2> QED BY <1>3, <1>h, <2>1, <2>2, <2>4 DEF ClaimWrite, GoOn, Refuse, Over
<1>4. ASSUME NEW i \in Instance, ClaimConfirm(i) PROVE Firm
  <2>1. life[p] = "up" /\ holder[p] /\ heldFor[p] = 1 /\ usurped[p] = 0
    BY <1>4, <1>f DEF ClaimConfirm, Settle, Refuse, Over
  <2> QED BY <1>4, <1>h, <2>1, SameLease DEF ClaimConfirm, Settle, Refuse, Over
<1>5. ASSUME NEW i \in Instance, RenewRead(i) PROVE Firm
  <2>1. life[p] = "up" /\ holder[p] /\ heldFor[p] = 1 /\ usurped[p] = 0
    BY <1>5 DEF RenewRead, GoOn, Settle, Over
  <2>2. i # p => Settle(i, FALSE)
    BY <1>5, <1>r, <2>1 DEF RenewRead
  <2> QED BY <1>5, <1>h, <2>1, <2>2, SameLease DEF RenewRead, GoOn, Settle, Over
<1>6. ASSUME NEW i \in Instance, RenewWrite(i) PROVE Firm
  <2>1. life[p] = "up" /\ holder[p] /\ heldFor[p] = 1 /\ usurped[p] = 0
    BY <1>6 DEF RenewWrite, Settle, Over
  <2>2. i = p
    BY <1>6, <1>h, <2>1 DEF RenewWrite
  <2>3. lease' = lease \/ lease' = Record(p, 0)
    BY <1>6, <1>f, <2>2 DEF RenewWrite
  <2>4. lease' = Mangled \/ (Owns(p)' /\ lease'.age < TTL)
    BY <1>h, <1>t, <2>1, <2>3, SameLease, WrittenLease
  <2> QED BY <1>6, <1>h, <2>1, <2>2, <2>4 DEF RenewWrite, Settle, Over
<1>7. ASSUME NEW i \in Instance, ReleaseRead(i) \/ ReleaseClear(i) PROVE Firm
  BY <1>7, <1>f DEF ReleaseRead, ReleaseClear
<1>8. ASSUME NEW i \in Instance, Boot(i) PROVE Firm
  BY <1>8, <1>h, SameLease DEF Boot, SeatInv
<1>9. ASSUME NEW i \in Instance, Stop(i) PROVE Firm
  BY <1>9 DEF Stop, AllPrompt
<1>10. ASSUME NEW i \in Instance, Exit(i) PROVE Firm
  BY <1>10, <1>h, SameLease DEF Exit, Settle, Over
<1>11. CASE Mangle
  <2>1. lease' = Mangled /\ UNCHANGED <<life, holder, tick, heldFor, usurped>>
    BY <1>11 DEF Mangle
  <2>2. \A j \in Instance \ {p} : tick[j] \notin {"claimWrite", "renewWrite"}
    BY <1>h, <2>1
  <2> QED BY <2>1, <2>2
<1>12. CASE Advance
  <2>1. life[p] = "up" /\ holder[p] /\ ticked[p]
    BY <1>12 DEF Advance, AllPrompt
  <2>2. \A j \in Instance : tick[j] = "idle" /\ tick'[j] = "idle"
    BY <1>12 DEF Advance, AllPrompt
  <2>3. Owns(p)
    <3> SUFFICES ASSUME ~ Owns(p) PROVE FALSE
      OBVIOUS
    <3>1. usurped'[p] = IF usurped[p] < 2 THEN usurped[p] + 1 ELSE 2
      BY <1>12, <2>1 DEF Advance
    <3>2. usurped[p] \in 0..2
      OBVIOUS
    <3> QED BY <3>1, <3>2
  <2>4. lease.age = 0
    BY <1>f, <2>1, <2>2, <2>3
  <2>5. lease' = Record(p, 1)
    BY <1>12, <1>t, <2>3, <2>4, AgedLease DEF Owns, Older
  <2> QED BY <1>t, <2>2, <2>5, WrittenLease
<1>13. CASE UNCHANGED vars
  BY <1>13, <1>h, SameLease DEF vars
<1> QED
  BY <1>1, <1>2, <1>3, <1>4, <1>5, <1>6, <1>7, <1>8, <1>9, <1>10, <1>11, <1>12, <1>13
  DEF Next, Step

-----------------------------------------------------------------------------
(* Theorems                                                                *)

\* The variables keep their types, for any processes and any TTL.
THEOREM TypeCorrect == Spec => []TypeOK
<1>1. Init => TypeOK
  <2> SUFFICES ASSUME Init PROVE TypeOK
    OBVIOUS
  <2>1. 0 \in 0..TTL
    BY LeaseAssumption
  <2> QED BY <2>1 DEF Init, TypeOK
<1> QED BY <1>1, TypeStep, PTL DEF Spec

\* The invariant of every instance, whoever stalls or is shut down.
IInv == TypeOK /\ SeatInv /\ LossInv

LEMMA Invariance == Spec => []IInv
<1>1. Init => SeatInv /\ LossInv
  BY LeaseAssumption DEF Init, SeatInv, LossInv
<1>2. IInv /\ [Next]_vars => IInv'
  BY TypeStep, SeatStep, LossStep DEF IInv
<1>3. SeatInv /\ LossInv /\ TypeOK => IInv
  BY DEF IInv
<1>4. Init => TypeOK
  <2> SUFFICES ASSUME Init PROVE TypeOK
    OBVIOUS
  <2>1. 0 \in 0..TTL
    BY LeaseAssumption
  <2> QED BY <2>1 DEF Init, TypeOK
<1> QED BY <1>1, <1>2, <1>3, <1>4, PTL DEF Spec

\* A process whose supervisor ticks runs the worker only while it has the seat,
\* whatever its storage does.
THEOREM WorkerFollowsSeat == Spec => []TickingWorkerNeedsSeat
<1>1. IInv => TickingWorkerNeedsSeat
  BY DEF IInv, SeatInv, TickingWorkerNeedsSeat
<1> QED BY <1>1, Invariance, PTL

\* A prompt holder that lost the stored lease gives the seat up within a heartbeat,
\* also among processes that stall and overwrite it late.
THEOREM LossIsNoticed == Spec => []UsurpedHolderStops
<1>1. IInv => UsurpedHolderStops
  <2> SUFFICES ASSUME IInv, NEW i \in Prompt, life[i] = "up" PROVE usurped[i] <= 1
    BY DEF UsurpedHolderStops
  <2> QED BY DEF IInv, LossInv
<1> QED BY <1>1, Invariance, PTL

\* The invariant of prompt processes that are not shut down.
PromptInv == IInv /\ FreshInv /\ FirmInv

LEMMA PromptInvariance == ASSUME AllPrompt PROVE Spec => []PromptInv
<1>1. Init => FreshInv /\ FirmInv
  BY DEF Init, FreshInv, FirmInv, Owns, Parsed, Empty
<1>2. IInv /\ FreshInv /\ FirmInv /\ [Next]_vars => FreshInv' /\ FirmInv'
  BY AllPrompt, FreshStep, FirmStep DEF IInv
<1> QED BY <1>1, <1>2, Invariance, PTL DEF Spec, PromptInv

\* Among prompt processes that are not shut down, a seat that was held over a heartbeat
\* is not taken by another process.
THEOREM HeldSeatIsKept == ASSUME AllPrompt PROVE Spec => SeatIsNotStolen
<1>1. IInv /\ FreshInv /\ FirmInv /\ [Next]_vars =>
        [\A i \in Instance :
           life[i] = "up" /\ holder[i] /\ heldFor[i] = 1 /\ Owns(i)
             => Owns(i)' \/ lease' = Mangled]_vars
  <2> SUFFICES ASSUME IInv, FreshInv, FirmInv, Next, NEW p \in Instance,
                      life[p] = "up" /\ holder[p] /\ heldFor[p] = 1 /\ Owns(p)
               PROVE  Owns(p)' \/ lease' = Mangled
    OBVIOUS
  <2>1. usurped[p] = 0
    <3>1. p \in Prompt
      BY AllPrompt DEF AllPrompt
    <3> QED BY <3>1 DEF IInv, LossInv
  <2>2. \A j \in Instance \ {p} : tick[j] \notin {"claimWrite", "renewWrite"}
    BY <2>1 DEF FirmInv
  <2>3. CASE lease' = lease
    BY <2>3, SameLease
  <2>4. ASSUME NEW i \in Instance, ClaimWrite(i) \/ RenewWrite(i) PROVE Owns(p)' \/ lease' = Mangled
    <3>1. i = p
      BY <2>2, <2>4 DEF ClaimWrite, RenewWrite
    <3>2. lease' = lease \/ lease' = Record(p, stamp[p])
      BY <2>4, <3>1 DEF ClaimWrite, RenewWrite
    <3> QED BY <3>2, <2>3, WrittenLease
  <2>5. ASSUME NEW i \in Instance, ReleaseClear(i) PROVE FALSE
    BY <2>5 DEF ReleaseClear, FreshInv
  <2>6. CASE Advance
    <3>1. lease' = Record(lease.owner, Older(lease.age))
      BY <2>6, AgedLease DEF IInv, Owns
    <3> QED BY <3>1, WrittenLease DEF Owns
  <2>7. CASE Mangle
    BY <2>7 DEF Mangle
  <2>8. ASSUME NEW i \in Instance,
               \/ StartTick(i) \/ ClaimRead(i) \/ ClaimConfirm(i) \/ RenewRead(i)
               \/ ReleaseRead(i) \/ Boot(i) \/ Stop(i) \/ Exit(i)
        PROVE  lease' = lease
    BY <2>8 DEF StartTick, ClaimRead, ClaimConfirm, RenewRead, ReleaseRead, Boot, Stop, Exit
  <2> QED BY <2>3, <2>4, <2>5, <2>6, <2>7, <2>8 DEF Next, Step
<1> QED BY <1>1, AllPrompt, PromptInvariance, PTL DEF Spec, SeatIsNotStolen, PromptInv

\* Among prompt processes that are not shut down, a holder over a heartbeat is not joined
\* by another: a seat is gained only by a confirming read that finds the claimant's own
\* record, and against such a holder the lease is the holder's or does not parse.
THEOREM HeldSeatIsSole == ASSUME AllPrompt PROVE Spec => HeldSeatIsNotShared
<1> DEFINE Sole ==
      \A i, j \in Instance :
        i # j /\ life[i] = "up" /\ holder[i] /\ heldFor[i] = 1 /\ usurped[i] = 0 /\ ~ holder[j]
          => ~ holder'[j]
<1>1. PromptInv /\ [Next]_vars => [Sole]_vars
  <2> SUFFICES ASSUME PromptInv, Next, NEW i \in Instance, NEW j \in Instance, i # j,
                      life[i] = "up" /\ holder[i] /\ heldFor[i] = 1 /\ usurped[i] = 0, ~ holder[j]
               PROVE  ~ holder'[j]
    OBVIOUS
  <2>1. holder \in [Instance -> BOOLEAN] /\ TypeOK
    BY DEF PromptInv, IInv, TypeOK
  <2>2. ~ Owns(j)
    <3>1. lease = Mangled \/ (Owns(i) /\ lease.age < TTL)
      BY DEF PromptInv, FirmInv
    <3> QED BY <2>1, <3>1, ClaimRefused
  <2>3. ASSUME NEW k \in Instance, ClaimConfirm(k) PROVE ~ holder'[j]
    <3>1. CASE Refuse(k)
      BY <2>1, <3>1 DEF Refuse, Over
    <3>2. CASE Owns(k) /\ Settle(k, TRUE)
      BY <2>1, <2>2, <3>2 DEF Settle, Over
    <3> QED BY <2>3, <3>1, <3>2 DEF ClaimConfirm
  <2>4. ASSUME NEW k \in Instance, ClaimRead(k) \/ ClaimWrite(k) \/ RenewRead(k) \/ RenewWrite(k)
        PROVE  ~ holder'[j]
    <3>1. holder' = holder \/ Over(k, FALSE)
      BY <2>4 DEF ClaimRead, ClaimWrite, RenewRead, RenewWrite, GoOn, Settle, Refuse
    <3> QED BY <2>1, <3>1 DEF Over
  <2>5. ASSUME NEW k \in Instance, Stop(k) \/ Exit(k) PROVE ~ holder'[j]
    BY <2>1, <2>5 DEF Stop, Exit, Settle, Over
  <2>6. ASSUME NEW k \in Instance, StartTick(k) \/ ReleaseRead(k) \/ ReleaseClear(k) \/ Boot(k)
        PROVE  ~ holder'[j]
    BY <2>6 DEF StartTick, ReleaseRead, ReleaseClear, Boot
  <2>7. CASE Mangle \/ Advance
    BY <2>7 DEF Mangle, Advance
  <2> QED BY <2>3, <2>4, <2>5, <2>6, <2>7 DEF Next, Step
<1> QED BY <1>1, AllPrompt, PromptInvariance, PTL DEF Spec, HeldSeatIsNotShared
=============================================================================
