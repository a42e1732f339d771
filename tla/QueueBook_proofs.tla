-------------------------- MODULE QueueBook_proofs --------------------------
(***************************************************************************)
(* The proof that ConnectorQueue implements DeliveryBook, for any caps,    *)
(* TTL and schedule, and whatever fails, crashes or is corrupted.          *)
(*                                                                         *)
(* The refinement needs what an operation's plan is made of: what it adds  *)
(* to the queue comes from the batch being flushed, which no clear has     *)
(* superseded, and what it adds to the dead letters comes from the queue.  *)
(***************************************************************************)
EXTENDS QueueHistory_proofs

FlushIsLive == \A b \in Batch : Flushing(b) => ~ batches[b].superseded

\* What the holder may add to the queue.
Bringing == IF Holder.op = "flush" THEN Carried(Holding) ELSE {}

PlanEnters == phase \in {"writeDead", "writePending"} => Ids(newPending) \subseteq Ids(pending) \cup Bringing

PlanFails == phase = "writeDead" => Ids(newDead) \subseteq Ids(dead) \cup Ids(pending)

AckedIsCarried == phase # "idle" => acked \subseteq Bringing

SourceInv == FlushIsLive /\ PlanEnters /\ PlanFails /\ AckedIsCarried

-----------------------------------------------------------------------------
(* What plans are made of                                                  *)

LEMMA IdsOfUnion == ASSUME NEW S, NEW T PROVE Ids(S \cup T) = Ids(S) \cup Ids(T)
BY DEF Ids

LEMMA IdsOfPart == ASSUME NEW S, NEW T, S \subseteq T PROVE Ids(S) \subseteq Ids(T)
BY DEF Ids

\* The dead-letter value of a plan is made of what was there and of what is promoted.
LEMMA DeadSources ==
  ASSUME NEW promoted, Ids(promoted) \subseteq Ids(pending), NEW D \in DeadAfter(promoted)
  PROVE  Ids(D) \subseteq Ids(dead) \cup Ids(pending)
<1>1. D \subseteq dead \cup promoted
  BY DEF DeadAfter
<1> QED BY <1>1 DEF Ids

LEMMA TimeoutSources == Ids(Timeouts) \subseteq Ids(pending)
<1>1. \A x : Timeout(x).item = x.item
  BY DEF Timeout
<1> QED BY <1>1 DEF Ids, Timeouts, Expired

LEMMA MergedSources ==
  ASSUME IInv, NEW es PROVE Ids(Merged(es)) \subseteq Ids(pending) \cup Carried(es)
<1>1. \A i : Fresh(es, i).item = i
  BY DEF Fresh
<1>2. ASSUME NEW x \in Swept PROVE Refreshed(es, x).item \in Ids(pending)
  <2>1. x \in pending /\ x \in PendingItem
    BY DEF Swept, IInv, TypeOK
  <2>2. \A t : [x EXCEPT !.receivedAt = t].item = x.item
    BY <2>1 DEF PendingItem
  <2>3. Refreshed(es, x).item = x.item
    BY <2>2 DEF Refreshed
  <2> QED BY <2>1, <2>3 DEF Ids
<1> QED BY <1>1, <1>2 DEF Merged, Ids

\* A read that ends in a plan of such parts.
LEMMA PersistSources ==
  ASSUME IInv, SourceInv, phase = "read", NEW items, NEW D, NEW gone, NEW told, NEW force \in BOOLEAN,
         Persist(items, D, gone, told, force),
         Ids(items) \subseteq Ids(pending) \cup Bringing,
         Ids(D) \subseteq Ids(dead) \cup Ids(pending),
         told \subseteq Bringing
  PROVE  SourceInv'
<1>1. /\ UNCHANGED <<pending, dead, batches, lock>>
      /\ newPending' = items /\ newDead' = D /\ acked' = told
      /\ phase' # "idle"
  BY DEF Persist, stored
<1>2. Bringing' = Bringing
  BY <1>1 DEF Bringing, Holder, Holding
<1>3. FlushIsLive'
  BY <1>1 DEF SourceInv, FlushIsLive, Flushing, Holder
<1>4. PlanEnters' /\ PlanFails' /\ AckedIsCarried'
  BY <1>1, <1>2 DEF PlanEnters, PlanFails, AckedIsCarried, Ids
<1> QED BY <1>3, <1>4 DEF SourceInv

LEMMA ReadsKeepSources ==
  ASSUME IInv, SourceInv, ReadFlush \/ ReadSettle \/ ReadAcknowledge \/ ReadSweep
  PROVE  SourceInv'
<1>0. Ids(Swept) \subseteq Ids(pending)
  BY DEF Ids, Swept
<1>1. CASE ReadFlush
  <2>1. phase = "read" /\ Holder.op = "flush"
    BY <1>1 DEF ReadFlush
  <2>2. PICK kept \in Capped(Merged(Holding)), D \in DeadAfter(Timeouts) :
          Persist(kept, D, (Ids(Merged(Holding)) \ Ids(kept)) \cup Evicted(D, Timeouts),
                  Carried(Holding) \cap Ids(kept), TRUE)
    BY <1>1 DEF ReadFlush
  <2>3. Ids(kept) \subseteq Ids(pending) \cup Bringing
    <3>1. kept \subseteq Merged(Holding)
      BY DEF Capped
    <3>2. Ids(kept) \subseteq Ids(Merged(Holding))
      BY <3>1, IdsOfPart
    <3> QED BY <2>1, <3>2, MergedSources DEF Bringing
  <2>4. Ids(D) \subseteq Ids(dead) \cup Ids(pending)
    BY TimeoutSources, DeadSources
  <2>5. Carried(Holding) \cap Ids(kept) \subseteq Bringing
    BY <2>1 DEF Bringing
  <2> QED BY <2>1, <2>2, <2>3, <2>4, <2>5, PersistSources
<1>2. CASE ReadSettle
  <2>1. phase = "read"
    BY <1>2 DEF ReadSettle
  <2>2. PICK S \in (SUBSET Item) \ {{}} : \E out \in [S -> Errors \cup {"done"}] :
          LET hit      == {x \in Swept : x.item \in S}
              finished == {x \in hit : out[x.item] = "done"}
              buried   == {x \in hit \ finished : Exhausted(x, out[x.item])}
              promoted == Timeouts \cup {Buried(x, out[x.item]) : x \in buried}
              items    == (Swept \ hit) \cup
                          {Requeued(x, out[x.item]) : x \in hit \ (finished \cup buried)}
          IN \E D \in DeadAfter(promoted) :
               Persist(items, D, Ids(finished) \cup Evicted(D, promoted), {}, FALSE)
    BY <1>2 DEF ReadSettle
  <2>3. PICK out \in [S -> Errors \cup {"done"}] :
          LET hit      == {x \in Swept : x.item \in S}
              finished == {x \in hit : out[x.item] = "done"}
              buried   == {x \in hit \ finished : Exhausted(x, out[x.item])}
              promoted == Timeouts \cup {Buried(x, out[x.item]) : x \in buried}
              items    == (Swept \ hit) \cup
                          {Requeued(x, out[x.item]) : x \in hit \ (finished \cup buried)}
          IN \E D \in DeadAfter(promoted) :
               Persist(items, D, Ids(finished) \cup Evicted(D, promoted), {}, FALSE)
    BY <2>2
  <2> DEFINE hit      == {x \in Swept : x.item \in S}
             finished == {x \in hit : out[x.item] = "done"}
             buried   == {x \in hit \ finished : Exhausted(x, out[x.item])}
             given    == {Buried(x, out[x.item]) : x \in buried}
             again    == {Requeued(x, out[x.item]) : x \in hit \ (finished \cup buried)}
             items    == (Swept \ hit) \cup again
  <2>4. PICK D \in DeadAfter(Timeouts \cup given) :
          Persist(items, D, Ids(finished) \cup Evicted(D, Timeouts \cup given), {}, FALSE)
    BY <2>3
  <2>5. Ids(given) \subseteq Ids(Swept) /\ Ids(again) \subseteq Ids(Swept)
    <3>1. \A x, o : Buried(x, o).item = x.item /\ Requeued(x, o).item = x.item
      BY DEF Buried, Requeued
    <3> QED BY <3>1 DEF Ids
  <2> HIDE DEF given, again
  <2>6. Ids(items) \subseteq Ids(pending)
    <3>1. Ids(Swept \ hit) \subseteq Ids(Swept)
      BY IdsOfPart
    <3> HIDE DEF hit
    <3> QED BY <1>0, <2>5, <3>1, IdsOfUnion
  <2>7. Ids(Timeouts \cup given) \subseteq Ids(pending)
    BY <1>0, <2>5, TimeoutSources, IdsOfUnion
  <2> HIDE DEF items
  <2>8. Ids(D) \subseteq Ids(dead) \cup Ids(pending)
    BY <2>7, DeadSources
  <2> QED BY <2>1, <2>4, <2>6, <2>8, PersistSources
<1>3. CASE ReadAcknowledge
  <2>1. phase = "read"
    BY <1>3 DEF ReadAcknowledge
  <2>2. PICK S \in (SUBSET Item) \ {{}}, D \in DeadAfter(Timeouts) :
          Persist({x \in Swept : x.item \notin S}, D,
                  (S \cap Ids(Swept)) \cup Evicted(D, Timeouts), {}, FALSE)
    BY <1>3 DEF ReadAcknowledge
  <2> DEFINE items == {x \in Swept : x.item \notin S}
  <2>3. Ids(items) \subseteq Ids(pending)
    BY <1>0, IdsOfPart
  <2> HIDE DEF items
  <2>4. Persist(items, D, (S \cap Ids(Swept)) \cup Evicted(D, Timeouts), {}, FALSE)
    BY <2>2 DEF items
  <2>5. Ids(D) \subseteq Ids(dead) \cup Ids(pending)
    BY TimeoutSources, DeadSources
  <2> QED BY <2>1, <2>3, <2>4, <2>5, PersistSources
<1>4. CASE ReadSweep
  <2>1. phase = "read"
    BY <1>4 DEF ReadSweep
  <2>2. PICK D \in DeadAfter(Timeouts) : Persist(Swept, D, Evicted(D, Timeouts), {}, FALSE)
    BY <1>4 DEF ReadSweep
  <2>3. Ids(D) \subseteq Ids(dead) \cup Ids(pending)
    BY TimeoutSources, DeadSources
  <2> DEFINE items == Swept  gone == Evicted(D, Timeouts)  told == {}
  <2>4. Persist(items, D, gone, told, FALSE)
    BY <2>2
  <2>5. Ids(items) \subseteq Ids(pending) \cup Bringing
    BY <1>0
  <2>6. told \subseteq Bringing
    OBVIOUS
  <2> HIDE DEF items, gone, told
  <2> QED BY <2>1, <2>3, <2>4, <2>5, <2>6, PersistSources
<1> QED BY <1>1, <1>2, <1>3, <1>4

\* The holder works on: the batches, the lock and the plan stay.
LEMMA WorkKeepsSources ==
  ASSUME IInv, SourceInv, phase # "idle", phase' # "idle",
         UNCHANGED <<batches, lock, newPending, newDead, acked>>, PlanEnters', PlanFails'
  PROVE  SourceInv'
<1>1. FlushIsLive'
  BY DEF SourceInv, FlushIsLive, Flushing, Holder
<1>2. Bringing' = Bringing
  BY DEF Bringing, Holder, Holding
<1> QED BY <1>1, <1>2 DEF SourceInv, AckedIsCarried

LEMMA StepsKeepSources ==
  ASSUME IInv, SourceInv,
         \/ ReadFails \/ ReadMangled \/ CountStored \/ WriteQuarantine \/ WriteReset
         \/ WriteDead \/ WritePending \/ DeletePending \/ DeleteDead
  PROVE  SourceInv'
<1>1. /\ phase # "idle" /\ phase' # "idle"
      /\ UNCHANGED <<batches, lock, newPending, newDead, acked>>
      /\ phase' # "writeDead"
      /\ phase' = "writePending" => WriteDead
  BY DEF ReadFails, ReadMangled, CountStored, WriteQuarantine, WriteReset, WriteDead, WritePending,
         DeletePending, DeleteDead, Proceed, plan
<1>2. PlanFails'
  BY <1>1 DEF PlanFails
<1>3. PlanEnters'
  <2>1. WriteDead => phase = "writeDead" /\ pending' = pending
    BY DEF WriteDead
  <2>2. Bringing' = Bringing
    BY <1>1 DEF Bringing, Holder, Holding
  <2> QED BY <1>1, <2>1, <2>2 DEF SourceInv, PlanEnters, Ids
<1> QED BY <1>1, <1>2, <1>3, WorkKeepsSources

\* No operation holds the lock.
LEMMA NoHolder == ASSUME phase' = "idle" PROVE SourceInv'
BY DEF SourceInv, FlushIsLive, Flushing, PlanEnters, PlanFails, AckedIsCarried

\* An operation begins, and plans nothing yet.
LEMMA AcquireKeepsSources == ASSUME IInv, SourceInv, Acquire PROVE SourceInv'
<1>1. CASE Holder.op = "flush" /\ batches[Holder.batch].superseded
  BY <1>1, NoHolder DEF Acquire, Settled
<1>2. CASE ~ (Holder.op = "flush" /\ batches[Holder.batch].superseded)
  <2>1. phase = "idle" /\ phase' = "read" /\ UNCHANGED <<batches, lock, acked>>
    BY <1>2 DEF Acquire, plan
  <2>2. FlushIsLive'
    BY <1>2, <2>1 DEF FlushIsLive, Flushing, Holder
  <2>3. acked' = {}
    BY <2>1 DEF IInv, PlanInv
  <2> QED BY <2>1, <2>2, <2>3 DEF SourceInv, PlanEnters, PlanFails, AckedIsCarried
<1> QED BY <1>1, <1>2

\* Whatever callers do, the batch being flushed stays as it is.
LEMMA CallersKeepSources ==
  ASSUME IInv, SourceInv, UNCHANGED <<pending, dead, phase, newPending, newDead, acked>>,
         phase # "idle" => Holder' = Holder,
         \A b : Flushing(b)' <=> Flushing(b),
         \A b \in Batch : Flushing(b) => /\ batches'[b].entries = batches[b].entries
                                         /\ batches'[b].superseded = batches[b].superseded
  PROVE  SourceInv'
<1>1. FlushIsLive'
  BY DEF SourceInv, FlushIsLive
<1>2. CASE phase = "idle"
  BY <1>2, NoHolder
<1>3. CASE phase # "idle"
  <2>1. lock # <<>> /\ Holder' = Holder
    BY <1>3 DEF IInv, TypeOK
  <2>2. Holder.op = "flush" => Flushing(Holder.batch) /\ Holder.batch \in Batch
    BY <1>3, <2>1, HolderType DEF Flushing
  <2>3. Holder.op = "flush" => Holding' = Holding
    BY <2>1, <2>2 DEF Holding
  <2>4. Bringing' = Bringing
    BY <2>1, <2>3 DEF Bringing, Carried
  <2>5. PlanEnters' /\ PlanFails' /\ AckedIsCarried'
    BY <2>4 DEF SourceInv, PlanEnters, PlanFails, AckedIsCarried, Ids
  <2> QED BY <1>1, <2>5 DEF SourceInv
<1> QED BY <1>2, <1>3

\* The batches a delivery joins, a window closes on or a clear supersedes: open ones,
\* never the one being flushed.
LEMMA EnqueueTouches ==
  ASSUME IInv, HistInv, NEW d \in Delivery, Enqueue(d)
  PROVE  \E b \in Batch :
           /\ ~ Flushing(b)
           /\ batches'[b].entries = Append(batches[b].entries, [delivery |-> d, receivedAt |-> now])
           /\ batches'[b].superseded \in {batches[b].superseded, FALSE}
           /\ batches[b].entries # <<>> => batches'[b].superseded = batches[b].superseded
           /\ \A c \in Batch : c # b => batches'[c] = batches[c]
<1> DEFINE e == [delivery |-> d, receivedAt |-> now]
<1>1. batches \in [Batch -> BatchState]
  BY DEF IInv, TypeOK
<1>2. \A b \in Batch : Flushing(b) => b # current /\ batches[b].stage = "waiting"
  BY DEF HistInv, Order, BatchesInUse, FlushesWait, Flushing, Holder, IInv, TypeOK
<1>3. CASE current # NoBatch
  <2>1. /\ current \in Batch /\ ~ Flushing(current)
        /\ batches' = [batches EXCEPT ![current].entries = Append(@, e)]
    BY <1>2, <1>3 DEF Enqueue, IInv, TypeOK
  <2> HIDE DEF e
  <2>2. /\ batches'[current].entries = Append(batches[current].entries, e)
        /\ batches'[current].superseded = batches[current].superseded
        /\ \A c \in Batch : c # current => batches'[c] = batches[c]
    BY <1>1, <2>1 DEF BatchState
  <2> QED BY <2>1, <2>2 DEF e
<1>4. CASE current = NoBatch
  <2>1. PICK b \in Batch :
          /\ batches[b].stage = "free"
          /\ batches' = [batches EXCEPT ![b] = [stage |-> "window", superseded |-> FALSE,
                                                entries |-> <<e>>]]
    BY <1>4 DEF Enqueue
  <2>2. ~ Flushing(b) /\ batches[b].entries = <<>>
    BY <1>2, <2>1 DEF HistInv, Order, BatchesInUse
  <2>3. Append(<< >>, e) = <<e>>
    OBVIOUS
  <2> HIDE DEF e
  <2>4. /\ batches'[b].entries = <<e>> /\ batches'[b].superseded = FALSE
        /\ \A c \in Batch : c # b => batches'[c] = batches[c]
    BY <1>1, <2>1
  <2> QED BY <2>1, <2>2, <2>3, <2>4 DEF e
<1> QED BY <1>3, <1>4

LEMMA ClearTouches ==
  ASSUME IInv, HistInv, Clear
  PROVE  \A c \in Batch : /\ batches'[c].entries = batches[c].entries
                          /\ batches[c].superseded => batches'[c].superseded
                          /\ Flushing(c) => batches'[c].superseded = batches[c].superseded
<1>1. batches \in [Batch -> BatchState]
  BY DEF IInv, TypeOK
<1>2. \A b \in Batch : Flushing(b) => b # current
  BY DEF HistInv, Order, BatchesInUse
<1>3. CASE current = NoBatch
  BY <1>3 DEF Clear
<1>4. CASE current # NoBatch
  <2>1. batches' = [batches EXCEPT ![current].superseded = TRUE] /\ current \in Batch
    BY <1>4 DEF Clear, IInv, TypeOK
  <2>2. ASSUME NEW c \in Batch
        PROVE  batches'[c] = IF c = current THEN [batches[c] EXCEPT !.superseded = TRUE]
                                            ELSE batches[c]
    BY <1>1, <2>1
  <2>3. \A c \in Batch : batches[c] \in BatchState
    BY <1>1
  <2> QED BY <1>2, <2>2, <2>3 DEF BatchState
<1> QED BY <1>3, <1>4

LEMMA WindowTouches ==
  ASSUME IInv, NEW b \in Batch, WindowCloses(b)
  PROVE  \A c \in Batch : /\ batches'[c].entries = batches[c].entries
                          /\ batches'[c].superseded = batches[c].superseded
<1>1. batches \in [Batch -> BatchState] /\ batches' = [batches EXCEPT ![b].stage = "waiting"]
  BY DEF IInv, TypeOK, WindowCloses
<1>2. \A c \in Batch : batches[c] \in BatchState
  BY <1>1
<1> QED BY <1>1, <1>2 DEF BatchState

LEMMA SourceStep == ASSUME IInv, HistInv, SourceInv, [Next]_vars PROVE SourceInv'
<1>1. ASSUME UNCHANGED <<pending, dead, phase, newPending, newDead, acked, lock, batches>>
      PROVE  SourceInv'
  <2>1. Holder' = Holder /\ \A b : Flushing(b)' <=> Flushing(b)
    BY <1>1 DEF Holder, Flushing
  <2> QED BY <1>1, <2>1, CallersKeepSources
<1>2. CASE Tick \/ UNCHANGED vars
  BY <1>1, <1>2 DEF Tick, vars, stored, InMemory, plan
<1>3. ASSUME NEW d \in Delivery, Enqueue(d) PROVE SourceInv'
  <2>1. UNCHANGED <<pending, dead, phase, newPending, newDead, acked, lock>>
    BY <1>3 DEF Enqueue, stored, plan
  <2>2. Holder' = Holder /\ \A b : Flushing(b)' <=> Flushing(b)
    BY <2>1 DEF Holder, Flushing
  <2>3. \A b \in Batch : Flushing(b) => batches'[b] = batches[b]
    BY <1>3, EnqueueTouches
  <2> QED BY <2>1, <2>2, <2>3, CallersKeepSources
<1>4. ASSUME NEW e \in Operation, lock' = Append(lock, e),
             UNCHANGED <<pending, dead, phase, newPending, newDead, acked>>,
             \A b \in Batch : Flushing(b) => /\ batches'[b].entries = batches[b].entries
                                             /\ batches'[b].superseded = batches[b].superseded
      PROVE  SourceInv'
  <2>1. /\ phase # "idle" => Holder' = Holder
        /\ \A b : Flushing(b)' <=> Flushing(b)
    BY <1>4, HolderStays
  <2> QED BY <1>4, <2>1, CallersKeepSources
<1>5. ASSUME NEW b \in Batch, WindowCloses(b) PROVE SourceInv'
  <2> DEFINE e == [op |-> "flush", batch |-> b, called |-> 0]
  <2>1. e \in Operation
    BY DEF Operation
  <2>2. lock' = Append(lock, e) /\ UNCHANGED <<pending, dead, phase, newPending, newDead, acked>>
    BY <1>5 DEF WindowCloses, stored, plan
  <2> HIDE DEF e
  <2> QED BY <1>4, <1>5, <2>1, <2>2, WindowTouches
<1>6. ASSUME NEW op \in {"settle", "acknowledge", "sweep"}, Request(op) PROVE SourceInv'
  <2> DEFINE e == [op |-> op, batch |-> NoBatch, called |-> 0]
  <2>1. e \in Operation
    BY DEF Operation
  <2>2. /\ lock' = Append(lock, e)
        /\ UNCHANGED <<pending, dead, phase, newPending, newDead, acked, batches>>
    BY <1>6 DEF Request, stored, plan
  <2> HIDE DEF e
  <2> QED BY <1>4, <2>1, <2>2
<1>7. CASE Clear
  <2> DEFINE e == [op |-> "clear", batch |-> NoBatch, called |-> now]
  <2>1. e \in Operation
    BY DEF Operation, IInv, TypeOK
  <2>2. lock' = Append(lock, e) /\ UNCHANGED <<pending, dead, phase, newPending, newDead, acked>>
    BY <1>7 DEF Clear, stored, plan
  <2> HIDE DEF e
  <2> QED BY <1>4, <1>7, <2>1, <2>2, ClearTouches
<1>8. CASE HolderStep
  <2>1. ASSUME Respond \/ Reject PROVE SourceInv'
    BY <2>1, NoHolder DEF Respond, Reject, Settled
  <2> QED BY <1>8, <2>1, AcquireKeepsSources, ReadsKeepSources, StepsKeepSources DEF HolderStep
<1>9. CASE Crash
  BY <1>9, NoHolder DEF Crash
<1>10. CASE Mangle
  BY <1>10, NoHolder DEF Mangle, InMemory
<1> QED BY <1>2, <1>3, <1>5, <1>6, <1>7, <1>8, <1>9, <1>10 DEF Next

-----------------------------------------------------------------------------
(* The steps of the book                                                   *)

LEMMA OfferedType == ASSUME IInv PROVE Offered \subseteq Item
<1>1. \A b \in Batch : batches[b].entries \in Seq(Entry)
  BY DEF IInv, TypeOK, BatchState
<1>2. \A b \in Batch : Carried(batches[b].entries) \subseteq Item
  BY <1>1, CarriedType
<1> QED BY <1>2 DEF Offered

\* What a flush adds was offered.
LEMMA BringingIsOffered ==
  ASSUME IInv, SourceInv, phase # "idle"
  PROVE  Bringing \subseteq Offered
<1>1. lock # <<>>
  BY DEF IInv, TypeOK
<1>2. CASE Holder.op = "flush"
  <2>1. Flushing(Holder.batch) /\ Holder.batch \in Batch
    BY <1>1, <1>2, HolderType DEF Flushing
  <2>2. ~ batches[Holder.batch].superseded
    BY <2>1 DEF SourceInv, FlushIsLive
  <2> QED BY <1>2, <2>1, <2>2 DEF Bringing, Holding, Offered
<1>3. CASE Holder.op # "flush"
  BY <1>3 DEF Bringing
<1> QED BY <1>2, <1>3

BookStep == [Book!Next]_(Book!vars)

\* Nothing the book shows.
LEMMA Unseen == ASSUME UNCHANGED <<pending, dead, owed>>, Offered' = Offered PROVE BookStep
BY DEF BookStep, Book!vars, Ids

\* Deliveries are no longer on offer.
LEMMA Withdrawn ==
  ASSUME IInv, UNCHANGED <<pending, dead, owed>>, Offered' \subseteq Offered
  PROVE  BookStep
<1>1. Offered \ Offered' \in SUBSET Item
  BY OfferedType
<1>2. Book!Withdraw(Offered \ Offered')
  BY DEF Book!Withdraw, Ids
<1> QED BY <1>1, <1>2 DEF BookStep, Book!Next

\* An operation's write takes effect.
LEMMA TakenEffect ==
  ASSUME IInv, IInv', Offered' = Offered,
         Ids(pending') \subseteq Ids(pending) \cup Offered,
         Ids(dead') \subseteq Ids(dead) \cup Ids(pending),
         owed' \subseteq owed, owed \cap (Ids(pending') \cup Ids(dead')) \subseteq owed'
  PROVE  BookStep
<1> DEFINE W  == Ids(pending)
           V  == Ids(pending)'
           F  == Ids(dead) \ Ids(pending)
           G  == (Ids(dead) \ Ids(pending))'
           new     == V \ W
           givenUp == G \cap W
           gone    == (W \cup F) \ (V \cup G)
<1>1. V = Ids(pending') /\ G = Ids(dead') \ Ids(pending')
  BY DEF Ids
<1>2. W \subseteq Item /\ F \subseteq Item /\ V \subseteq Item
  <2>1. pending \subseteq PendingItem /\ dead \subseteq DeadItem /\ pending' \subseteq PendingItem
    BY DEF IInv, TypeOK
  <2>2. (\A x \in PendingItem : x.item \in Item) /\ (\A x \in DeadItem : x.item \in Item)
    BY DEF PendingItem, DeadItem
  <2> QED BY <2>1, <2>2 DEF Ids
<1>3. owed' \subseteq V \cup G
  BY <1>1 DEF IInv, AckedIsStored, Ids
<1>4. G \subseteq F \cup W /\ V \subseteq W \cup Offered /\ W \cap F = {} /\ V \cap G = {}
  BY <1>1
<1>5. owed' = owed \cap (V \cup G)
  BY <1>1, <1>3
<1> HIDE DEF W, V, F, G
<1>6. V = (W \ (givenUp \cup gone)) \cup new
  BY <1>4
<1>7. G = (F \cup givenUp) \ (gone \cup new)
  BY <1>4
<1>8. new \subseteq Offered /\ givenUp \subseteq W
  BY <1>4
<1>9. new \in SUBSET Item /\ givenUp \in SUBSET Item /\ gone \in SUBSET Item
  BY <1>2
<1>10. Book!Take(new, givenUp, gone)
  <2> HIDE DEF new, givenUp, gone
  <2> QED BY <1>5, <1>6, <1>7, <1>8 DEF Book!Take, W, V, F, G
<1> HIDE DEF new, givenUp, gone
<1> QED BY <1>9, <1>10 DEF BookStep, Book!Next

LEMMA EnqueueOffers ==
  ASSUME IInv, HistInv, NEW d \in Delivery, Enqueue(d)
  PROVE  BookStep
<1> DEFINE e == [delivery |-> d, receivedAt |-> now]
           i == ItemOf[d]
<1>1. PICK b \in Batch :
        /\ batches'[b].entries = Append(batches[b].entries, e)
        /\ batches'[b].superseded \in {batches[b].superseded, FALSE}
        /\ batches[b].entries # <<>> => batches'[b].superseded = batches[b].superseded
        /\ \A c \in Batch : c # b => batches'[c] = batches[c]
  BY EnqueueTouches
<1> DEFINE es == batches[b].entries
<1>2. e.delivery = d /\ es \in Seq(Entry) /\ i \in Item
  BY DeliveryAssumption DEF IInv, TypeOK, BatchState
<1> HIDE DEF e
<1>3. Carried(Append(es, e)) = Carried(es) \cup {i}
  <2> HIDE DEF es
  <2>1. /\ DOMAIN Append(es, e) = DOMAIN es \cup {Len(es) + 1}
        /\ Append(es, e)[Len(es) + 1] = e
        /\ \A k \in DOMAIN es : Append(es, e)[k] = es[k]
    BY <1>2
  <2> QED BY <1>2, <2>1 DEF Carried
<1>4. es = <<>> => Carried(es) = {}
  BY DEF Carried
<1> DEFINE rest == UNION {Carried(batches[c].entries) : c \in {a \in Batch \ {b} : ~ batches[a].superseded}}
<1>5. Offered = rest \cup (IF batches[b].superseded THEN {} ELSE Carried(es))
  BY DEF Offered
<1>6. Offered' = rest \cup (IF batches'[b].superseded THEN {} ELSE Carried(es) \cup {i})
  <2>1. \A c \in Batch \ {b} : batches'[c] = batches[c]
    BY <1>1
  <2>2. Carried(batches'[b].entries) = Carried(es) \cup {i}
    BY <1>1, <1>3
  <2>3. \A c \in Batch : Carried(batches[c].entries)' = Carried(batches'[c].entries)
    BY DEF Carried
  <2> QED BY <2>1, <2>2, <2>3 DEF Offered
<1>7. Offered' = Offered \/ Offered' = Offered \cup {i}
  <2> HIDE DEF rest, i
  <2>1. CASE es = <<>>
    BY <1>4, <1>5, <1>6, <2>1
  <2>2. CASE es # <<>>
    <3>1. batches'[b].superseded = batches[b].superseded
      BY <1>1, <2>2
    <3> QED BY <1>5, <1>6, <3>1
  <2> QED BY <2>1, <2>2
<1>8. UNCHANGED <<pending, dead, owed>>
  BY DEF Enqueue, stored
<1>9. CASE Offered' = Offered
  BY <1>8, <1>9, Unseen
<1>10. CASE Offered' = Offered \cup {i}
  <2>1. Book!Offer(i)
    BY <1>8, <1>10 DEF Book!Offer, Ids
  <2> QED BY <1>2, <2>1 DEF BookStep, Book!Next
<1> QED BY <1>7, <1>9, <1>10

\* The deliveries of a batch are answered, and the batch goes.
LEMMA SettledWithdraws == ASSUME IInv, lock # <<>>, Settled PROVE Offered' \subseteq Offered
<1>1. Carried(Free.entries) = {}
  BY DEF Free, Carried
<1>2. \A c \in Batch : batches'[c] = batches[c] \/ batches'[c] = Free
  BY DEF IInv, TypeOK, Settled
<1>3. \A c \in Batch : Carried(batches[c].entries)' = Carried(batches'[c].entries)
  BY DEF Carried
<1> QED BY <1>1, <1>2, <1>3 DEF Offered

LEMMA WritesTakeEffect ==
  ASSUME IInv, IInv', SourceInv, WriteDead \/ WritePending \/ DeletePending \/ DeleteDead \/ Mangle
  PROVE  BookStep
<1>1. batches' = batches /\ Offered' = Offered
  BY DEF WriteDead, WritePending, DeletePending, DeleteDead, Mangle, InMemory, Offered
<1>2. Ids({}) = {}
  BY DEF Ids
<1>3. AckedIsStored
  BY DEF IInv
<1>4. CASE WriteDead
  <2>1. phase = "writeDead" /\ pending' = pending
    BY <1>4 DEF WriteDead
  <2>2. \/ dead' = dead /\ owed' = owed
        \/ dead' = newDead /\ owed' = owed \ (released \ Ids(pending \cup newDead))
    BY <1>4 DEF WriteDead
  <2>3. Ids(newDead) \subseteq Ids(dead) \cup Ids(pending)
    BY <2>1 DEF SourceInv, PlanFails
  <2>4. Ids(pending \cup newDead) = Ids(pending) \cup Ids(newDead)
    BY IdsOfUnion
  <2> QED BY <1>1, <2>1, <2>2, <2>3, <2>4, TakenEffect
<1>5. CASE WritePending
  <2>1. phase = "writePending" /\ dead' = dead
    BY <1>5 DEF WritePending
  <2>2. \/ pending' = pending /\ owed' = owed
        \/ pending' = newPending /\ owed' = owed \ (released \ Ids(newPending \cup dead))
    BY <1>5 DEF WritePending
  <2>3. Ids(newPending) \subseteq Ids(pending) \cup Offered
    BY <2>1, BringingIsOffered DEF SourceInv, PlanEnters
  <2>4. Ids(newPending \cup dead) = Ids(newPending) \cup Ids(dead)
    BY IdsOfUnion
  <2> QED BY <1>1, <2>1, <2>2, <2>3, <2>4, TakenEffect
<1>6. CASE DeletePending \/ Mangle
  <2>1. dead' = dead
    BY <1>6 DEF DeletePending, Mangle
  <2>2. \/ pending' = pending /\ owed' = owed
        \/ pending' = {} /\ owed' = owed \cap Ids(dead)
    BY <1>6 DEF DeletePending, Mangle
  <2> QED BY <1>1, <1>2, <2>1, <2>2, TakenEffect
<1>7. CASE DeleteDead
  <2>1. pending' = pending
    BY <1>7 DEF DeleteDead
  <2>2. \/ dead' = dead /\ owed' = owed
        \/ dead' = {} /\ owed' = owed \cap Ids(pending)
    BY <1>7 DEF DeleteDead
  <2> QED BY <1>1, <1>2, <2>1, <2>2, TakenEffect
<1> QED BY <1>4, <1>5, <1>6, <1>7

\* A flush promises what it carried, which waits; it was offered to the last.
LEMMA RespondAnswers == ASSUME IInv, SourceInv, Respond PROVE BookStep
<1>1. /\ phase = "done" /\ lock # <<>> /\ Settled
      /\ UNCHANGED <<pending, dead>> /\ owed' = owed \cup acked
  BY DEF Respond, stored, IInv, TypeOK
<1>2. Offered' \subseteq Offered
  BY <1>1, SettledWithdraws
<1>3. acked \subseteq Ids(pending) /\ acked \subseteq Offered
  BY <1>1, BringingIsOffered DEF IInv, PlanInv, SourceInv, AckedIsCarried
<1> DEFINE told == acked
           gone == Offered \ Offered'
<1>4. told \in SUBSET Item /\ gone \in SUBSET Item
  BY OfferedType DEF IInv, TypeOK
<1>5. Book!Answer(told, gone)
  BY <1>1, <1>2, <1>3 DEF Book!Answer, Ids
<1> HIDE DEF told, gone
<1> QED BY <1>4, <1>5 DEF BookStep, Book!Next

LEMMA QueueStep == ASSUME IInv, IInv', HistInv, SourceInv, [Next]_vars PROVE BookStep
<1>1. ASSUME UNCHANGED <<pending, dead, owed, batches>> PROVE BookStep
  BY <1>1, Unseen DEF Offered
<1>2. CASE Tick \/ UNCHANGED vars
  BY <1>1, <1>2 DEF Tick, vars, stored, InMemory
<1>3. ASSUME NEW d \in Delivery, Enqueue(d) PROVE BookStep
  BY <1>3, EnqueueOffers
<1>4. ASSUME NEW b \in Batch, WindowCloses(b) PROVE BookStep
  <2>1. Offered' = Offered
    BY <1>4, WindowTouches DEF Offered, Carried
  <2> QED BY <1>4, <2>1, Unseen DEF WindowCloses, stored
<1>5. ASSUME NEW op \in {"settle", "acknowledge", "sweep"}, Request(op) PROVE BookStep
  BY <1>1, <1>5 DEF Request, stored
<1>6. CASE Clear
  <2>1. Offered' \subseteq Offered
    BY <1>6, ClearTouches DEF Offered, Carried
  <2> QED BY <1>6, <2>1, Withdrawn DEF Clear, stored
<1>7. CASE Acquire
  <2>1. UNCHANGED <<pending, dead, owed>> /\ lock # <<>>
    BY <1>7 DEF Acquire, stored
  <2>2. CASE UNCHANGED batches
    BY <1>1, <2>1, <2>2
  <2>3. CASE Settled
    BY <2>1, <2>3, SettledWithdraws, Withdrawn
  <2> QED BY <1>7, <2>2, <2>3 DEF Acquire
<1>8. CASE ReadFails \/ ReadMangled \/ CountStored \/ WriteQuarantine \/ WriteReset
  BY <1>1, <1>8 DEF ReadFails, ReadMangled, CountStored, WriteQuarantine, WriteReset, stored
<1>9. CASE ReadFlush \/ ReadSettle \/ ReadAcknowledge \/ ReadSweep
  BY <1>1, <1>9, PlansTouchNothing
<1>10. CASE Reject
  <2>1. UNCHANGED <<pending, dead, owed>> /\ lock # <<>> /\ Settled
    BY <1>10 DEF Reject, stored, IInv, TypeOK
  <2> QED BY <2>1, SettledWithdraws, Withdrawn
<1>11. CASE Crash
  <2>1. Offered' = {}
    <3>1. \A b \in Batch : Carried(batches[b].entries)' = {}
      BY <1>11 DEF Crash, Free, Carried
    <3> QED BY <3>1 DEF Offered
  <2> QED BY <1>11, <2>1, Withdrawn DEF Crash, stored
<1>12. CASE WriteDead \/ WritePending \/ DeletePending \/ DeleteDead \/ Mangle
  BY <1>12, WritesTakeEffect
<1> QED BY <1>2, <1>3, <1>4, <1>5, <1>6, <1>7, <1>8, <1>9, <1>10, <1>11, <1>12, RespondAnswers
         DEF Next, HolderStep

-----------------------------------------------------------------------------
(* Theorems                                                                *)

LEMMA Sources == Spec => []SourceInv
<1>1. Init => SourceInv
  BY DEF Init, SourceInv, FlushIsLive, Flushing, PlanEnters, PlanFails, AckedIsCarried
<1>2. IInv /\ HistInv /\ SourceInv /\ [Next]_vars => SourceInv'
  BY SourceStep
<1> QED BY <1>1, <1>2, Invariance, History, PTL DEF Spec

\* What the queue is to its callers is a DeliveryBook, for any caps, TTL and schedule:
\* its two values and the writes between which it fails or crashes show as one step or
\* none, an identity enters only from a batch no clear superseded, what is given up was
\* waiting, and a promise is kept until an operation removes its item.
THEOREM QueueIsABook == Spec => BookSpec
<1>1. Init => Book!Init
  <2>1. ASSUME Init PROVE Offered = {} /\ Ids(pending) = {} /\ Ids(dead) = {}
    <3>1. \A b \in Batch : Carried(batches[b].entries) = {}
      BY <2>1 DEF Init, Free, Carried
    <3> QED BY <2>1, <3>1 DEF Init, Offered, Ids
  <2> QED BY <2>1 DEF Init, Book!Init
<1>2. IInv /\ IInv' /\ HistInv /\ SourceInv /\ [Next]_vars => [Book!Next]_(Book!vars)
  BY QueueStep DEF BookStep
<1> QED BY <1>1, <1>2, Invariance, History, Sources, PTL DEF Spec, BookSpec, Book!Spec
=============================================================================
