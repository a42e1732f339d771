------------------------ MODULE ConnectorDrain_proofs ------------------------
(***************************************************************************)
(* Theorems about ConnectorDrain and their proofs, for any addresses,      *)
(* kicks, number of slots, floor and bounds: one drain per address, exact  *)
(* slots, and what the answer of a kick is worth.                          *)
(***************************************************************************)
EXTENDS ConnectorDrain, FiniteSetTheorems, SequenceTheorems, TLAPS

Stages == {"none", "queued"} \cup InPass

Passing == {k \in Kick : stage[k] \in InPass}

\* A drain is alive exactly while it is registered for its address.
RunInv ==
  /\ \A k \in Kick : stage[k] # "none" <=> running[AddressOf[k]] = k
  /\ \A a \in Address : running[a] # None => AddressOf[running[a]] = a
  /\ \A k \in Kick : call[k] = "idle" => stage[k] = "none"

\* The waiting are queued drains, each once.
WaitInv ==
  /\ \A i \in 1..Len(waiting) : stage[waiting[i]] = "queued"
  /\ \A i, j \in 1..Len(waiting) : waiting[i] = waiting[j] => i = j

SlotInv == IsFiniteSet(Passing) /\ SlotsAreExact

\* Whoever holds a drain's promise asked for its address, and the drain is alive.
CallInv ==
  \A j \in Kick :
    /\ joined[j] # None => call[j] = "joined"
    /\ call[j] = "joined" => /\ joined[j] \in Kick
                             /\ AddressOf[joined[j]] = AddressOf[j]
                             /\ stage[joined[j]] # "none"

\* Before the reads of the queue, and of the marker, in the pass of k.
QueueUnread(k) == stage[k] \in {"queued", "begin", "marker", "due"}
MarkerUnread(k) == stage[k] \in {"queued", "begin", "marker"}

\* A waiting kick made its address dirty, or the queue is read after it.
HeardInv ==
  \A j \in Kick :
    call[j] = "joined" =>
      /\ asked[j] <= version[AddressOf[j]]
      /\ AddressOf[j] \in dirty \/ QueueUnread(joined[j]) \/ asked[j] <= found[joined[j]]

\* A banned kick made its address dirty, or the marker is read after it.
BanInv ==
  \A j \in Kick :
    banned[j] =>
      /\ marker[AddressOf[j]]
      /\ call[j] = "joined" => AddressOf[j] \in dirty \/ MarkerUnread(joined[j])

HeardStep ==
  \A k \in Kick :
    Answered(k) /\ joined[k] # None /\ answer'[k].status = "ok" /\ ~ CutShort(k)
      => answer'[k].seen >= asked[k]

BanStep ==
  \A k \in Kick : Answered(k) /\ banned[k] => answer'[k].seen = 0 \/ CutShort(k)

IInv == TypeOK /\ RunInv /\ WaitInv /\ SlotInv /\ CallInv /\ HeardInv /\ BanInv

-----------------------------------------------------------------------------
(* Slots                                                                   *)

SlotCount(set, n, wait) ==
  /\ IsFiniteSet(set)
  /\ n = Cardinality(set)
  /\ n <= MaxConcurrent
  /\ wait # <<>> => n = MaxConcurrent

LEMMA SlotShape ==
  (SlotInv <=> SlotCount(Passing, active, waiting)) /\
  (SlotInv' <=> SlotCount(Passing', active', waiting'))
<1>1. SlotInv <=> SlotCount(Passing, active, waiting)
  BY DEF SlotInv, SlotsAreExact, Passing, SlotCount
<1>2. SlotInv' <=> SlotCount(Passing', active', waiting')
  BY DEF SlotInv, SlotsAreExact, Passing, SlotCount
<1> QED BY <1>1, <1>2

\* What a drain that gives its slot back leaves: the same slots in use, or one fewer,
\* and every other drain where it was, except that one may leave the queue.
LEMMA SlotReleased ==
  ASSUME TypeOK, WaitInv, SlotInv, NEW k \in Kick, stage[k] \in InPass, ReleaseSlot(k)
  PROVE  /\ stage' \in [Kick -> Stages] /\ waiting' \in Seq(Kick) /\ active' \in Nat
         /\ WaitInv' /\ SlotInv'
         /\ stage'[k] = "none"
         /\ \A j \in Kick \ {k} : \/ stage'[j] = stage[j]
                                  \/ (stage[j] = "queued" /\ stage'[j] = "begin")
<1> USE DEF InPass
<1>1. k \in Passing /\ IsFiniteSet(Passing) /\ active = Cardinality(Passing) /\ active \in Nat
  BY SlotShape DEF SlotCount, Passing, TypeOK
<1>2. Cardinality(Passing) > 0
  BY <1>1, FS_EmptySet, FS_CardinalityType
<1>3. CASE waiting = <<>>
  <2>1. /\ active' = active - 1 /\ stage' = [stage EXCEPT ![k] = "none"] /\ waiting' = waiting
    BY <1>3 DEF ReleaseSlot
  <2>2. Passing' = Passing \ {k}
    BY <2>1 DEF Passing, TypeOK
  <2>3. SlotInv'
    <3>1. IsFiniteSet(Passing') /\ Cardinality(Passing') = Cardinality(Passing) - 1
      BY <1>1, <2>2, FS_RemoveElement
    <3> QED BY <1>1, <1>3, <2>1, <3>1, SlotShape, DrainAssumption DEF SlotCount
  <2>4. WaitInv'
    BY <1>3, <2>1 DEF WaitInv
  <2> QED BY <1>1, <1>2, <2>1, <2>3, <2>4 DEF TypeOK, Stages
<1>4. CASE waiting # <<>>
  <2> DEFINE h == Head(waiting)
  <2>1. /\ active' = active /\ waiting' = Tail(waiting)
        /\ stage' = [stage EXCEPT ![k] = "none", ![h] = "begin"]
    BY <1>4 DEF ReleaseSlot
  <2>2. /\ waiting \in Seq(Kick) /\ Len(waiting) \in Nat \ {0} /\ h = waiting[1] /\ h \in Kick
        /\ waiting' \in Seq(Kick) /\ Len(waiting') = Len(waiting) - 1
        /\ \A i \in 1..Len(waiting') : waiting'[i] = waiting[i + 1]
    BY <1>4, <2>1, HeadTailProperties DEF TypeOK
  <2>3. stage[h] = "queued" /\ h # k
    BY <2>2 DEF WaitInv
  <2>4. /\ stage'[k] = "none" /\ stage'[h] = "begin"
        /\ \A j \in Kick \ {k, h} : stage'[j] = stage[j]
        /\ stage' \in [Kick -> Stages]
    BY <2>1, <2>2, <2>3 DEF TypeOK, Stages
  <2>5. WaitInv'
    <3>1. \A i \in 1..Len(waiting') : i + 1 \in 1..Len(waiting) /\ waiting'[i] = waiting[i + 1]
      BY <2>2
    <3>2. \A i \in 1..Len(waiting') : waiting'[i] # h
      BY <2>2, <3>1 DEF WaitInv
    <3>3. \A i \in 1..Len(waiting') : stage'[waiting'[i]] = "queued"
      <4> TAKE i \in 1..Len(waiting')
      <4>1. waiting'[i] \in Kick /\ stage[waiting'[i]] = "queued"
        BY <2>2, <3>1 DEF WaitInv
      <4> QED BY <4>1, <3>2, <2>4
    <3>4. \A i, j \in 1..Len(waiting') : waiting'[i] = waiting'[j] => i = j
      BY <2>2, <3>1 DEF WaitInv
    <3> QED BY <3>3, <3>4 DEF WaitInv
  <2>6. Passing' = (Passing \ {k}) \cup {h}
    BY <2>2, <2>3, <2>4 DEF Passing
  <2>7. h \notin Passing
    BY <2>3 DEF Passing
  <2>8. IsFiniteSet(Passing') /\ Cardinality(Passing') = Cardinality(Passing)
    <3>1. IsFiniteSet(Passing \ {k}) /\ Cardinality(Passing \ {k}) = Cardinality(Passing) - 1
      BY <1>1, FS_RemoveElement
    <3>2. h \notin Passing \ {k}
      BY <2>7
    <3>3. /\ IsFiniteSet((Passing \ {k}) \cup {h})
          /\ Cardinality((Passing \ {k}) \cup {h}) = Cardinality(Passing \ {k}) + 1
      BY <3>1, <3>2, FS_AddElement
    <3> HIDE DEF h
    <3> QED BY <1>1, <2>6, <3>1, <3>3, FS_CardinalityType
  <2>9. SlotInv'
    BY <1>1, <1>4, <2>1, <2>8, SlotShape DEF SlotCount
  <2>10. \A j \in Kick \ {k} : \/ stage'[j] = stage[j]
                                \/ (stage[j] = "queued" /\ stage'[j] = "begin")
    BY <2>3, <2>4
  <2> QED BY <1>1, <2>1, <2>2, <2>4, <2>5, <2>9, <2>10
<1> QED BY <1>3, <1>4

\* A new drain takes a slot, or goes to the end of the queue when all are taken.
LEMMA SlotAcquired ==
  ASSUME TypeOK, WaitInv, SlotInv, NEW k \in Kick, stage[k] = "none", AcquireSlot(k)
  PROVE  /\ stage' \in [Kick -> Stages] /\ waiting' \in Seq(Kick) /\ active' \in Nat
         /\ WaitInv' /\ SlotInv'
         /\ stage'[k] \in {"queued", "begin"}
         /\ \A j \in Kick \ {k} : stage'[j] = stage[j]
<1> USE DEF InPass
<1>1. IsFiniteSet(Passing) /\ active = Cardinality(Passing) /\ active \in Nat /\ active <= MaxConcurrent
  BY SlotShape DEF SlotCount, Passing, TypeOK
<1>2. waiting \in Seq(Kick) /\ k \notin Passing
  BY DEF TypeOK, Passing
<1>3. CASE active < MaxConcurrent
  <2>1. active' = active + 1 /\ stage' = [stage EXCEPT ![k] = "begin"] /\ waiting' = waiting
    BY <1>3 DEF AcquireSlot
  <2>2. Passing' = Passing \cup {k}
    BY <2>1 DEF Passing, TypeOK
  <2>3. waiting = <<>>
    BY <1>1, <1>3, SlotShape, DrainAssumption DEF SlotCount
  <2>4. SlotInv'
    <3>1. IsFiniteSet(Passing') /\ Cardinality(Passing') = Cardinality(Passing) + 1
      BY <1>1, <1>2, <2>2, FS_AddElement
    <3> QED BY <1>1, <1>3, <2>1, <2>3, <3>1, SlotShape, DrainAssumption DEF SlotCount
  <2>5. WaitInv'
    BY <2>1, <2>3 DEF WaitInv
  <2> QED BY <1>1, <1>2, <2>1, <2>4, <2>5 DEF TypeOK, Stages
<1>4. CASE ~ (active < MaxConcurrent)
  <2>1. active' = active /\ stage' = [stage EXCEPT ![k] = "queued"] /\ waiting' = Append(waiting, k)
    BY <1>4 DEF AcquireSlot
  <2>2. /\ waiting' \in Seq(Kick) /\ Len(waiting) \in Nat /\ Len(waiting') = Len(waiting) + 1
        /\ \A i \in 1..Len(waiting) : waiting'[i] = waiting[i]
        /\ waiting'[Len(waiting) + 1] = k
    BY <1>2, <2>1, AppendProperties
  <2>3. Passing' = Passing
    BY <2>1 DEF Passing, TypeOK
  <2>4. active = MaxConcurrent
    BY <1>1, <1>4, DrainAssumption
  <2>5. SlotInv'
    BY <1>1, <2>1, <2>3, <2>4, SlotShape DEF SlotCount
  <2>6. \A i \in 1..Len(waiting) : waiting[i] \in Kick /\ waiting[i] # k
    BY <1>2 DEF WaitInv
  <2>7. /\ stage'[k] = "queued" /\ \A j \in Kick \ {k} : stage'[j] = stage[j]
        /\ stage' \in [Kick -> Stages]
    BY <2>1 DEF TypeOK, Stages
  <2>8. \A i \in 1..Len(waiting') : i \in 1..Len(waiting) \/ i = Len(waiting) + 1
    BY <2>2
  <2>9. WaitInv'
    <3>1. \A i \in 1..Len(waiting') : stage'[waiting'[i]] = "queued"
      BY <2>2, <2>6, <2>7, <2>8 DEF WaitInv
    <3>2. \A i, j \in 1..Len(waiting') : waiting'[i] = waiting'[j] => i = j
      BY <2>2, <2>6, <2>8 DEF WaitInv
    <3> QED BY <3>1, <3>2 DEF WaitInv
  <2> QED BY <1>1, <2>1, <2>2, <2>5, <2>7, <2>9
<1> QED BY <1>3, <1>4

\* A step within a pass, or of somebody else, leaves the slots as they are.
LEMMA SlotsKept ==
  ASSUME TypeOK, WaitInv, SlotInv, UNCHANGED slots, stage' \in [Kick -> Stages],
         \A j \in Kick : \/ stage'[j] = stage[j]
                         \/ (stage[j] \in InPass /\ stage'[j] \in InPass)
  PROVE  WaitInv' /\ SlotInv'
<1> USE DEF InPass
<1>1. Passing' = Passing
  BY DEF Passing
<1>2. SlotInv'
  BY <1>1, SlotShape DEF SlotCount, slots
<1>3. \A i \in 1..Len(waiting) : waiting[i] \in Kick
  BY DEF TypeOK
<1>4. WaitInv'
  BY <1>3 DEF WaitInv, slots
<1> QED BY <1>2, <1>4
-----------------------------------------------------------------------------
(* Parts of steps                                                          *)

\* What the route answers is a result, has ids only if the drain's verdict was "ok", and
\* is that verdict then.
LEMMA Outcome ==
  ASSUME NEW r \in Result \cup {None}
  PROVE  /\ drainOutcome(r) \in Result \cup {None}
         /\ r # None /\ r.status # "ok" => drainOutcome(r) = Aborted
         /\ r = None \/ r.status = "ok" => drainOutcome(r) = r
         /\ Aborted \in Result /\ Aborted.status = "aborted" /\ Aborted.seen = 0
BY DEF drainOutcome, Aborted, Result

\* Two drains that are alive are of two addresses.
LEMMA AliveApart ==
  ASSUME RunInv, NEW j \in Kick, NEW k \in Kick, stage[j] # "none", stage[k] # "none", j # k
  PROVE  AddressOf[j] # AddressOf[k]
BY DEF RunInv

\* The end of a drain.
LEMMA Finished ==
  ASSUME IInv, NEW k \in Kick, stage[k] \in InPass, NEW r \in Result \cup {None},
         Finish(k, AddressOf[k], r), memo' \in [Address -> Result \cup {None}],
         dirty' \subseteq dirty, dirty \ {AddressOf[k]} \subseteq dirty'
  PROVE  IInv'
<1> DEFINE a == AddressOf[k]
<1> USE DEF InPass
<1>1. /\ stage' \in [Kick -> Stages] /\ waiting' \in Seq(Kick) /\ active' \in Nat
      /\ WaitInv' /\ SlotInv'
      /\ stage'[k] = "none"
      /\ \A j \in Kick \ {k} : \/ stage'[j] = stage[j]
                               \/ (stage[j] = "queued" /\ stage'[j] = "begin")
  BY SlotReleased DEF IInv, Finish
<1>2. a \in Address /\ running[a] = k
  BY DrainAssumption DEF IInv, RunInv
<1>3. /\ finishedAt' = [finishedAt EXCEPT ![a] = now]
      /\ running' = [running EXCEPT ![a] = None]
      /\ found' = [found EXCEPT ![k] = 0]
      /\ result' = [result EXCEPT ![k] = None]
      /\ call' = [j \in Kick |-> IF j \notin Joined(k) THEN call[j]
                                 ELSE IF r = None THEN "rejected" ELSE "resolved"]
      /\ answer' = [j \in Kick |-> IF j \in Joined(k) THEN drainOutcome(r) ELSE answer[j]]
      /\ joined' = [j \in Kick |-> IF j \in Joined(k) THEN None ELSE joined[j]]
      /\ asked' = [j \in Kick |-> IF j \in Joined(k) THEN 0 ELSE asked[j]]
      /\ banned' = [j \in Kick |-> banned[j] /\ j \notin Joined(k)]
      /\ now' = now /\ version' = version /\ consent' = consent /\ flag' = flag
      /\ marker' = marker /\ stopped' = stopped
  BY DEF Finish, Forget, Outside, control
<1>4. TypeOK'
  BY <1>1, <1>2, <1>3, Outcome DEF IInv, TypeOK, Stages
<1>5. RunInv'
  <2>1. ASSUME NEW j \in Kick
        PROVE  stage'[j] # "none" <=> running'[AddressOf[j]] = j
    <3>1. AddressOf[j] \in Address /\ running'[a] = None /\ None \notin Kick
      BY <1>2, <1>3, DrainAssumption DEF IInv, TypeOK
    <3>2. CASE j = k
      BY <3>1, <3>2, <1>1
    <3>3. CASE j # k /\ AddressOf[j] = a
      <4>1. stage[j] = "none"
        BY <3>1, <3>3, <1>2 DEF IInv, RunInv
      <4> QED BY <3>1, <3>3, <4>1, <1>1
    <3>4. CASE j # k /\ AddressOf[j] # a
      BY <3>1, <3>4, <1>1, <1>3 DEF IInv, RunInv, TypeOK
    <3> QED BY <3>2, <3>3, <3>4
  <2>2. \A b \in Address : running'[b] # None => AddressOf[running'[b]] = b
    BY <1>2, <1>3 DEF IInv, RunInv, TypeOK
  <2>3. \A j \in Kick : call'[j] = "idle" => stage'[j] = "none"
    BY <1>1, <1>3 DEF IInv, RunInv
  <2> QED BY <2>1, <2>2, <2>3 DEF RunInv
<1>6. ASSUME NEW j \in Kick, call'[j] = "joined"
      PROVE  /\ call[j] = "joined" /\ joined'[j] = joined[j] /\ j \notin Joined(k)
             /\ joined[j] \in Kick /\ joined[j] # k /\ AddressOf[joined[j]] = AddressOf[j]
             /\ stage[joined[j]] # "none" /\ AddressOf[j] # a
  <2>1. call[j] = "joined" /\ j \notin Joined(k)
    BY <1>3, <1>6
  <2>2. joined'[j] = joined[j] /\ joined[j] # k
    BY <1>3, <2>1 DEF Joined
  <2>3. joined[j] \in Kick /\ AddressOf[joined[j]] = AddressOf[j] /\ stage[joined[j]] # "none"
    BY <2>1 DEF IInv, CallInv
  <2>4. AddressOf[joined[j]] # a
    BY <2>2, <2>3, AliveApart DEF IInv
  <2> QED BY <2>1, <2>2, <2>3, <2>4
<1>7. CallInv'
  <2>1. \A j \in Kick : joined'[j] # None => call'[j] = "joined"
    BY <1>3 DEF IInv, CallInv
  <2>2. \A j \in Kick : call'[j] = "joined" => /\ joined'[j] \in Kick
                                              /\ AddressOf[joined'[j]] = AddressOf[j]
                                              /\ stage'[joined'[j]] # "none"
    BY <1>1, <1>6
  <2> QED BY <2>1, <2>2 DEF CallInv
<1>8. HeardInv'
  <2>1. ASSUME NEW j \in Kick, call'[j] = "joined"
        PROVE  /\ asked'[j] <= version'[AddressOf[j]]
               /\ AddressOf[j] \in dirty' \/ QueueUnread(joined[j])' \/ asked'[j] <= found'[joined'[j]]
    <3>1. /\ asked'[j] = asked[j] /\ found'[joined[j]] = found[joined[j]]
          /\ AddressOf[j] \in dirty => AddressOf[j] \in dirty'
          /\ QueueUnread(joined[j]) => stage'[joined[j]] \in {"queued", "begin", "marker", "due"}
      BY <2>1, <1>1, <1>3, <1>6 DEF IInv, TypeOK, QueueUnread
    <3> QED BY <2>1, <3>1, <1>3, <1>6 DEF IInv, HeardInv, QueueUnread
  <2> QED BY <2>1 DEF HeardInv
<1>9. BanInv'
  <2>1. ASSUME NEW j \in Kick, banned'[j]
        PROVE  /\ marker'[AddressOf[j]]
               /\ call'[j] = "joined" => AddressOf[j] \in dirty' \/ MarkerUnread(joined[j])'
    <3>1. banned[j] /\ marker'[AddressOf[j]]
      BY <2>1, <1>3 DEF IInv, BanInv
    <3>2. ASSUME call'[j] = "joined" PROVE AddressOf[j] \in dirty' \/ MarkerUnread(joined[j])'
      <4>1. AddressOf[j] \in dirty => AddressOf[j] \in dirty'
        BY <3>2, <1>6
      <4>2. MarkerUnread(joined[j]) => stage'[joined[j]] \in {"queued", "begin", "marker"}
        BY <3>2, <1>1, <1>6 DEF MarkerUnread
      <4>3. AddressOf[j] \in dirty \/ MarkerUnread(joined[j])
        BY <3>1, <3>2, <1>6 DEF IInv, BanInv
      <4> QED BY <3>2, <4>1, <4>2, <4>3, <1>6 DEF MarkerUnread
    <3> QED BY <3>1, <3>2
  <2> QED BY <2>1 DEF BanInv
<1> QED BY <1>1, <1>4, <1>5, <1>7, <1>8, <1>9 DEF IInv

\* A drain goes on in its pass, or into the next one: what is left to show is that the
\* kicks that wait for it are still heard.
LEMMA WentOn ==
  ASSUME IInv, NEW k \in Kick, stage[k] \in InPass, NEW s \in InPass,
         stage' = [stage EXCEPT ![k] = s],
         UNCHANGED <<running, slots, call, joined>>
  PROVE  stage' \in [Kick -> Stages] /\ RunInv' /\ WaitInv' /\ SlotInv' /\ CallInv'
<1> USE DEF InPass
<1>1. /\ stage' \in [Kick -> Stages] /\ stage'[k] = s /\ \A j \in Kick \ {k} : stage'[j] = stage[j]
      /\ \A j \in Kick : stage'[j] = "none" <=> stage[j] = "none"
  BY DEF IInv, TypeOK, Stages
<1>2. WaitInv' /\ SlotInv'
  BY <1>1, SlotsKept DEF IInv
<1>3. RunInv'
  BY <1>1 DEF IInv, RunInv
<1>4. CallInv'
  BY <1>1 DEF IInv, CallInv
<1> QED BY <1>1, <1>2, <1>3, <1>4

\* Steps that leave the drains and their callers alone.
LEMMA DrainsKept ==
  ASSUME IInv, UNCHANGED <<running, slots, stage, call, joined>>
  PROVE  RunInv' /\ WaitInv' /\ SlotInv' /\ CallInv'
<1>1. stage' \in [Kick -> Stages]
  BY DEF IInv, TypeOK, Stages
<1>2. WaitInv' /\ SlotInv'
  BY <1>1, SlotsKept DEF IInv
<1>3. RunInv' /\ CallInv'
  BY DEF IInv, RunInv, CallInv
<1> QED BY <1>2, <1>3

\* A pass is over; a pass that ends well was after the kicks that are not remembered.
LEMMA PassEnded ==
  ASSUME IInv, NEW k \in Kick, stage[k] \in InPass,
         NEW status \in {"ok", "aborted"}, NEW seen \in Nat, PassEnds(k, status, seen),
         status = "ok" => \A j \in Kick : call[j] = "joined" /\ joined[j] = k =>
                            AddressOf[j] \in dirty \/ (asked[j] <= seen /\ ~ banned[j])
  PROVE  IInv' /\ HeardStep /\ BanStep
<1> DEFINE a == AddressOf[k]
           r == Merged(k, status, seen)
<1> USE DEF InPass
<1>1. r \in Result /\ r.status = status /\ r.seen >= seen
  <2>1. result[k] \in Result \cup {None}
    BY DEF IInv, TypeOK
  <2>2. CASE result[k] # None /\ result[k].seen > seen
    <3>1. result[k].seen \in Nat
      BY <2>1, <2>2 DEF Result
    <3>2. r = [status |-> status, at |-> 0, seen |-> result[k].seen]
      BY <2>2 DEF Merged
    <3> QED BY <2>2, <3>1, <3>2 DEF Result
  <2>3. CASE ~ (result[k] # None /\ result[k].seen > seen)
    <3>1. r = [status |-> status, at |-> 0, seen |-> seen]
      BY <2>3 DEF Merged
    <3> QED BY <3>1 DEF Result
  <2> QED BY <2>2, <2>3
<1>2. a \in Address /\ dirty' = dirty \ {a}
  BY DrainAssumption DEF PassEnds
<1>3. CASE OneMore(a, status)
  <2>1. /\ stage' = [stage EXCEPT ![k] = "begin"]
        /\ result' = [result EXCEPT ![k] = r]
        /\ found' = [found EXCEPT ![k] = 0]
        /\ UNCHANGED <<Outside, running, slots, finishedAt, memo, calls>>
    BY <1>3 DEF PassEnds
  <2>2. stage' \in [Kick -> Stages] /\ RunInv' /\ WaitInv' /\ SlotInv' /\ CallInv'
    BY <2>1, WentOn DEF calls
  <2>3. TypeOK'
    BY <1>1, <1>2, <2>1, <2>2 DEF IInv, TypeOK, Stages, Outside, control, slots, calls
  <2>4. /\ stage'[k] = "begin"
        /\ \A d \in Kick \ {k} : stage'[d] = stage[d] /\ found'[d] = found[d]
    BY <2>1 DEF IInv, TypeOK
  <2>5. \A j \in Kick : call[j] = "joined" =>
          /\ joined[j] \in Kick /\ AddressOf[joined[j]] = AddressOf[j]
          /\ joined[j] # k => AddressOf[j] # a
    BY AliveApart DEF IInv, CallInv
  <2>6. HeardInv'
    BY <1>2, <2>1, <2>4, <2>5 DEF IInv, HeardInv, QueueUnread, Outside, calls
  <2>7. BanInv'
    BY <1>2, <2>1, <2>4, <2>5 DEF IInv, BanInv, MarkerUnread, Outside, control, calls
  <2>8. HeardStep /\ BanStep
    BY <2>1 DEF HeardStep, BanStep, Answered, calls
  <2> QED BY <2>2, <2>3, <2>6, <2>7, <2>8 DEF IInv
<1>4. CASE ~ OneMore(a, status)
  <2>1. Finish(k, a, r) /\ memo' = [memo EXCEPT ![a] = [r EXCEPT !.at = now]]
    BY <1>4 DEF PassEnds
  <2>2. memo' \in [Address -> Result \cup {None}]
    BY <1>1, <1>2, <2>1 DEF IInv, TypeOK, Result
  <2>3. IInv'
    BY <1>1, <1>2, <2>1, <2>2, Finished
  <2>4. \A j \in Kick : Answered(j) => /\ call[j] = "joined" /\ joined[j] = k
                                       /\ answer'[j] = drainOutcome(r) /\ AddressOf[j] = a
    <3> SUFFICES ASSUME NEW j \in Kick, Answered(j)
                 PROVE  /\ call[j] = "joined" /\ joined[j] = k
                        /\ answer'[j] = drainOutcome(r) /\ AddressOf[j] = a
      OBVIOUS
    <3>1. j \in Joined(k)
      BY <2>1 DEF Finish, Answered
    <3> QED BY <2>1, <3>1 DEF Finish, Joined, IInv, CallInv
  <2>5. ASSUME NEW j \in Kick, Answered(j), status = "ok", ~ CutShort(j) PROVE a \notin dirty
    <3>1. joined[j] # None
      BY <2>4, <2>5, DrainAssumption
    <3> QED BY <1>4, <2>4, <2>5, <3>1 DEF OneMore, CutShort
  <2>6. HeardStep
    <3> SUFFICES ASSUME NEW j \in Kick, Answered(j), answer'[j].status = "ok", ~ CutShort(j)
                 PROVE  answer'[j].seen >= asked[j]
      BY DEF HeardStep
    <3>1. status = "ok" /\ answer'[j] = r
      BY <1>1, <2>4, Outcome
    <3>2. asked[j] <= seen
      BY <2>4, <2>5, <3>1
    <3> QED BY <1>1, <3>1, <3>2 DEF IInv, TypeOK, Result
  <2>7. BanStep
    <3> SUFFICES ASSUME NEW j \in Kick, Answered(j), banned[j], ~ CutShort(j)
                 PROVE  answer'[j].seen = 0
      BY DEF BanStep
    <3>1. status = "aborted"
      BY <2>4, <2>5
    <3>2. r # None
      BY <2>1, <2>4, <2>3 DEF Finish, Answered, Merged
    <3> QED BY <1>1, <2>4, <3>1, <3>2, Outcome
  <2> QED BY <2>3, <2>6, <2>7
<1> QED BY <1>3, <1>4

\* Nobody is answered.
LEMMA Unanswered ==
  ASSUME call' = call
  PROVE  HeardStep /\ BanStep
BY DEF HeardStep, BanStep, Answered

-----------------------------------------------------------------------------
(* Steps                                                                   *)

Kept == IInv' /\ HeardStep /\ BanStep

LEMMA DrainKeeps ==
  ASSUME IInv, NEW k \in Kick, Drain(k)
  PROVE  Kept
<1> USE DEF InPass
<1> DEFINE Waiting(j) == call[j] = "joined" /\ joined[j] = k
<1>0. /\ AddressOf[k] \in Address /\ version[AddressOf[k]] \in Nat /\ found[k] \in Nat
      /\ \A j \in Kick : Waiting(j) => AddressOf[j] = AddressOf[k]
      /\ k # None
  BY DrainAssumption DEF IInv, TypeOK, CallInv
<1> DEFINE Onward(next) == GoOn(k, next) /\ next \in InPass /\ found' \in [Kick -> Nat]
                           /\ \A d \in Kick \ {k} : found'[d] = found[d]
<1>1. ASSUME stage[k] \in InPass, NEW next, Onward(next),
             \A j \in Kick : Waiting(j) =>
               \/ AddressOf[j] \in dirty
               \/ next \in {"begin", "marker", "due"} \/ asked[j] <= found'[k],
             \A j \in Kick : Waiting(j) /\ banned[j] =>
               AddressOf[j] \in dirty \/ next \in {"begin", "marker"}
      PROVE  Kept
  <2>1. /\ stage' = [stage EXCEPT ![k] = next]
        /\ UNCHANGED <<Outside, running, dirty, slots, finishedAt, memo, result, calls>>
    BY <1>1 DEF GoOn
  <2>2. stage' \in [Kick -> Stages] /\ RunInv' /\ WaitInv' /\ SlotInv' /\ CallInv'
    BY <1>1, <2>1, WentOn DEF calls
  <2>3. TypeOK'
    BY <1>1, <2>1, <2>2 DEF IInv, TypeOK, Stages, Outside, control, slots, calls
  <2>4. stage'[k] = next /\ \A d \in Kick \ {k} : stage'[d] = stage[d]
    BY <2>1 DEF IInv, TypeOK
  <2>5. HeardInv'
    BY <1>1, <2>1, <2>4 DEF IInv, HeardInv, CallInv, QueueUnread, Outside, calls
  <2>6. BanInv'
    BY <1>1, <2>1, <2>4 DEF IInv, BanInv, CallInv, MarkerUnread, Outside, control, calls
  <2> QED BY <2>1, <2>2, <2>3, <2>5, <2>6, Unanswered DEF IInv, calls, Kept
<1>2. CASE CheckFlag(k)
  <2>1. CASE PassEnds(k, "aborted", 0)
    BY <1>2, <2>1, PassEnded DEF CheckFlag, Kept
  <2>2. CASE GoOn(k, "marker") /\ UNCHANGED found
    <3>1. Onward("marker")
      BY <2>2 DEF IInv, TypeOK
    <3> QED BY <1>1, <1>2, <3>1 DEF CheckFlag
  <2> QED BY <1>2, <2>1, <2>2 DEF CheckFlag
<1>3. CASE ReadMarker(k)
  <2>1. CASE PassEnds(k, "aborted", 0)
    BY <1>3, <2>1, PassEnded DEF ReadMarker, Kept
  <2>2. CASE ~ marker[AddressOf[k]] /\ GoOn(k, "due") /\ UNCHANGED found
    <3>1. Onward("due")
      BY <2>2 DEF IInv, TypeOK
    <3>2. \A j \in Kick : Waiting(j) => ~ banned[j]
      BY <1>0, <2>2 DEF IInv, BanInv
    <3> QED BY <1>1, <1>3, <3>1, <3>2 DEF ReadMarker
  <2> QED BY <1>3, <2>1, <2>2 DEF ReadMarker
\* From here on no kick that is only banned waits.
<1>4. ASSUME stage[k] \in {"due", "items", "settle"}, NEW j \in Kick, Waiting(j), banned[j]
      PROVE  AddressOf[j] \in dirty
  BY <1>4 DEF IInv, BanInv, MarkerUnread
<1>5. CASE ReadDue(k)
  <2>0. \A j \in Kick : Waiting(j) => asked[j] <= version[AddressOf[k]]
    BY <1>0 DEF IInv, HeardInv
  <2>1. CASE PassEnds(k, "ok", version[AddressOf[k]])
    <3>1. \A j \in Kick : Waiting(j) =>
            AddressOf[j] \in dirty \/ (asked[j] <= version[AddressOf[k]] /\ ~ banned[j])
      BY <1>4, <1>5, <2>0 DEF ReadDue
    <3> QED BY <1>0, <1>5, <2>1, <3>1, PassEnded DEF ReadDue, Kept
  <2>2. CASE /\ found' = [found EXCEPT ![k] = version[AddressOf[k]]]
             /\ GoOn(k, "items")
    <3>1. Onward("items") /\ found'[k] = version[AddressOf[k]]
      BY <1>0, <2>2 DEF IInv, TypeOK
    <3> QED BY <1>1, <1>4, <1>5, <2>0, <3>1 DEF ReadDue
  <2> QED BY <1>5, <2>1, <2>2 DEF ReadDue
<1>6. CASE Abort(k)
  BY <1>0, <1>6, PassEnded DEF Abort, Kept
<1>7. ASSUME stage[k] \in {"items", "settle"}, NEW j \in Kick, Waiting(j)
      PROVE  AddressOf[j] \in dirty \/ asked[j] <= found[k]
  BY <1>7 DEF IInv, HeardInv, QueueUnread
<1>8. CASE LastItem(k)
  <2>1. Onward("settle") /\ found'[k] = found[k]
    BY <1>8 DEF IInv, TypeOK, LastItem
  <2> QED BY <1>1, <1>4, <1>7, <1>8, <2>1 DEF LastItem
<1>9. CASE Settle(k)
  <2>1. \A j \in Kick : Waiting(j) =>
          AddressOf[j] \in dirty \/ (asked[j] <= found[k] /\ ~ banned[j])
    BY <1>4, <1>7, <1>9 DEF Settle
  <2> QED BY <1>0, <1>9, <2>1, PassEnded DEF Settle, Kept
<1>10. CASE PassThrows(k)
  <2>1. stage[k] \in InPass /\ Finish(k, AddressOf[k], None) /\ dirty' = dirty /\ memo' = memo
    BY <1>10 DEF PassThrows
  <2>2. IInv'
    BY <2>1, Finished DEF IInv, TypeOK
  <2>3. \A j \in Kick : ~ Answered(j)
    BY <2>1 DEF Finish, Answered, IInv, TypeOK
  <2> QED BY <2>2, <2>3 DEF Kept, HeardStep, BanStep
<1> QED BY <1>2, <1>3, <1>5, <1>6, <1>8, <1>9, <1>10 DEF Drain

\* A kick that does not start a drain, once its promise, dirty mark and answer are right.
LEMMA Asked ==
  ASSUME IInv, NEW k \in Kick, call[k] = "idle",
         UNCHANGED <<now, version, control, stopped, finishedAt, memo, found, result>>,
         UNCHANGED <<running, slots, stage>>,
         dirty \subseteq dirty', TypeOK', CallInv', call'[k] # "idle",
         \A j \in Kick \ {k} : /\ call'[j] = call[j] /\ joined'[j] = joined[j]
                               /\ asked'[j] = asked[j] /\ (banned'[j] <=> banned[j]),
         call'[k] = "joined" => AddressOf[k] \in dirty' /\ asked'[k] = version[AddressOf[k]],
         banned'[k] => marker[AddressOf[k]]
  PROVE  IInv'
<1>1. stage' \in [Kick -> Stages]
  BY DEF IInv, TypeOK, Stages
<1>2. WaitInv' /\ SlotInv'
  BY <1>1, SlotsKept DEF IInv
<1>3. RunInv'
  BY DEF IInv, RunInv
<1>4. version[AddressOf[k]] \in Nat
  BY DrainAssumption DEF IInv, TypeOK
<1>5. HeardInv'
  BY <1>4 DEF IInv, HeardInv, QueueUnread
<1>6. BanInv'
  BY DEF IInv, BanInv, MarkerUnread, control
<1> QED BY <1>2, <1>3, <1>5, <1>6 DEF IInv

LEMMA KickKeeps ==
  ASSUME IInv, NEW k \in Kick,
         KickStopped(k) \/ KickJoins(k) \/ KickReplays(k) \/ KickStarts(k)
  PROVE  Kept
<1> DEFINE a == AddressOf[k]
<1> USE DEF InPass
<1>0. /\ a \in Address /\ call[k] = "idle" /\ joined[k] = None /\ k # None
      /\ version[a] \in Nat /\ marker[a] \in BOOLEAN /\ memo[a] \in Result \cup {None}
      /\ stage[k] = "none"
      /\ \A j \in Kick : joined[j] # k
  BY DrainAssumption
     DEF IInv, TypeOK, CallInv, RunInv, KickStopped, KickJoins, KickReplays, KickStarts, Made
<1>1. Aborted \in Result
  BY DEF Aborted, Result
<1>2. CASE KickStopped(k)
  <2>1. TypeOK'
    BY <1>1, <1>2 DEF IInv, TypeOK, KickStopped, Made, control, slots
  <2>2. CallInv'
    BY <1>0, <1>2 DEF IInv, TypeOK, CallInv, KickStopped
  <2>3. IInv'
    <3>1. call'[k] # "idle" /\ \A j \in Kick \ {k} : /\ call'[j] = call[j] /\ joined'[j] = joined[j]
                                                   /\ asked'[j] = asked[j]
                                                   /\ (banned'[j] <=> banned[j])
      BY <1>0, <1>2 DEF IInv, TypeOK, KickStopped
    <3>2. call'[k] # "joined" /\ (banned'[k] => marker[a])
      BY <1>0, <1>2 DEF IInv, TypeOK, BanInv, KickStopped
    <3> QED BY <1>0, <1>2, <2>1, <2>2, <3>1, <3>2, Asked DEF KickStopped, Made
  <2>4. HeardStep /\ BanStep
    BY <1>0, <1>2 DEF HeardStep, BanStep, Answered, KickStopped, Aborted, IInv, TypeOK
  <2> QED BY <2>3, <2>4 DEF Kept
<1>3. CASE KickJoins(k)
  <2>1. running[a] \in Kick /\ AddressOf[running[a]] = a /\ stage[running[a]] # "none"
    BY <1>0, <1>3 DEF IInv, TypeOK, RunInv, KickJoins, Registered
  <2>2. TypeOK'
    BY <1>0, <1>3, <2>1 DEF IInv, TypeOK, KickJoins, Made, Waits, control, slots
  <2>3. CallInv'
    BY <1>0, <1>3, <2>1 DEF IInv, TypeOK, CallInv, KickJoins
  <2>4. IInv'
    <3>1. call'[k] # "idle" /\ \A j \in Kick \ {k} : /\ call'[j] = call[j] /\ joined'[j] = joined[j]
                                                   /\ asked'[j] = asked[j]
                                                   /\ (banned'[j] <=> banned[j])
      BY <1>0, <1>3 DEF IInv, TypeOK, KickJoins, Waits
    <3>2. /\ call'[k] = "joined" => a \in dirty' /\ asked'[k] = version[a]
          /\ banned'[k] => marker[a]
      BY <1>0, <1>3 DEF IInv, TypeOK, KickJoins, Waits
    <3> QED BY <1>0, <1>3, <2>2, <2>3, <3>1, <3>2, Asked DEF KickJoins, Made
  <2>5. HeardStep /\ BanStep
    BY <1>3 DEF HeardStep, BanStep, Answered, KickJoins, IInv, TypeOK
  <2> QED BY <2>4, <2>5 DEF Kept
<1>4. CASE KickReplays(k)
  <2>1. TypeOK'
    BY <1>0, <1>4 DEF IInv, TypeOK, KickReplays, Made, Waits, control, slots
  <2>2. CallInv'
    BY <1>0, <1>4 DEF IInv, TypeOK, CallInv, KickReplays
  <2>3. IInv'
    <3>1. call'[k] # "idle" /\ \A j \in Kick \ {k} : /\ call'[j] = call[j] /\ joined'[j] = joined[j]
                                                   /\ asked'[j] = asked[j]
                                                   /\ (banned'[j] <=> banned[j])
      BY <1>0, <1>4 DEF IInv, TypeOK, KickReplays, Waits
    <3>2. /\ call'[k] = "joined" => a \in dirty' /\ asked'[k] = version[a]
          /\ banned'[k] => marker[a]
      BY <1>0, <1>4 DEF IInv, TypeOK, KickReplays, Waits
    <3> QED BY <1>0, <1>4, <2>1, <2>2, <3>1, <3>2, Asked DEF KickReplays, Made
  <2>4. HeardStep /\ BanStep
    BY <1>4 DEF HeardStep, BanStep, Answered, KickReplays, IInv, TypeOK
  <2> QED BY <2>3, <2>4 DEF Kept
<1>5. CASE KickStarts(k)
  <2>1. /\ stage' \in [Kick -> Stages] /\ waiting' \in Seq(Kick) /\ active' \in Nat
        /\ WaitInv' /\ SlotInv'
        /\ stage'[k] \in {"queued", "begin"}
        /\ \A j \in Kick \ {k} : stage'[j] = stage[j]
    BY <1>0, <1>5, SlotAcquired DEF IInv, KickStarts
  <2>2. /\ running' = [running EXCEPT ![a] = k]
        /\ call' = [call EXCEPT ![k] = "joined"] /\ joined' = [joined EXCEPT ![k] = k]
        /\ asked' = [asked EXCEPT ![k] = version[a]]
        /\ banned' = [banned EXCEPT ![k] = marker[a]]
        /\ running[a] = None
        /\ UNCHANGED <<now, version, control, stopped, finishedAt, memo, found, result>>
        /\ UNCHANGED <<dirty, answer>>
    BY <1>5 DEF KickStarts, Made, Waits, Registered
  <2>3. TypeOK'
    BY <1>0, <2>1, <2>2 DEF IInv, TypeOK, Stages, control
  <2>4. RunInv'
    <3>1. running'[a] = k /\ \A b \in Address \ {a} : running'[b] = running[b]
      BY <1>0, <2>2 DEF IInv, TypeOK
    <3>2. ASSUME NEW j \in Kick PROVE stage'[j] # "none" <=> running'[AddressOf[j]] = j
      <4>1. AddressOf[j] \in Address /\ j # None
        BY DrainAssumption
      <4>2. CASE j = k
        BY <4>2, <3>1, <2>1
      <4>3. CASE j # k /\ AddressOf[j] = a
        BY <4>1, <4>3, <3>1, <2>1, <2>2 DEF IInv, RunInv
      <4>4. CASE j # k /\ AddressOf[j] # a
        BY <4>1, <4>4, <3>1, <2>1 DEF IInv, RunInv
      <4> QED BY <4>2, <4>3, <4>4
    <3>3. \A b \in Address : running'[b] # None => AddressOf[running'[b]] = b
      BY <3>1 DEF IInv, RunInv
    <3>4. \A j \in Kick : call'[j] = "idle" => stage'[j] = "none"
      BY <2>1, <2>2 DEF IInv, TypeOK, RunInv
    <3> QED BY <3>2, <3>3, <3>4 DEF RunInv
  <2>5. CallInv'
    BY <1>0, <2>1, <2>2 DEF IInv, TypeOK, CallInv
  <2>6. HeardInv'
    BY <1>0, <2>1, <2>2 DEF IInv, TypeOK, CallInv, HeardInv, QueueUnread
  <2>7. BanInv'
    <3>1. ASSUME NEW j \in Kick, j # k, banned'[j]
          PROVE  /\ marker'[AddressOf[j]]
                 /\ call'[j] = "joined" => AddressOf[j] \in dirty' \/ MarkerUnread(joined[j])'
      BY <1>0, <2>1, <2>2, <3>1 DEF IInv, TypeOK, CallInv, BanInv, MarkerUnread, control
    <3>2. banned'[k] => marker'[a] /\ MarkerUnread(joined[k])'
      BY <1>0, <2>1, <2>2 DEF IInv, TypeOK, MarkerUnread, control
    <3> QED BY <3>1, <3>2 DEF BanInv
  <2>8. HeardStep /\ BanStep
    BY <2>2 DEF HeardStep, BanStep, Answered, IInv, TypeOK
  <2> QED BY <2>1, <2>3, <2>4, <2>5, <2>6, <2>7, <2>8 DEF Kept, IInv
<1> QED BY <1>2, <1>3, <1>4, <1>5

LEMMA ReplayKeeps ==
  ASSUME IInv, NEW k \in Kick, Replay(k)
  PROVE  Kept
<1>0. /\ Aborted \in Result /\ Aborted.seen = 0
      /\ answer[k] \in Result \cup {None} /\ drainOutcome(answer[k]) \in Result \cup {None}
  BY Outcome DEF IInv, TypeOK, Aborted, Result
<1>1. /\ call[k] = "replaying" /\ call' = [call EXCEPT ![k] = "resolved"]
      /\ asked' = [j \in Kick |-> IF j \in {k} THEN 0 ELSE asked[j]]
      /\ banned' = [j \in Kick |-> banned[j] /\ j \notin {k}]
      /\ UNCHANGED <<now, version, control, stopped, running, dirty, slots, finishedAt,
                     memo, passes, joined>>
      /\ \/ ~ marker[AddressOf[k]] /\ answer' = [answer EXCEPT ![k] = drainOutcome(answer[k])]
         \/ answer' = [answer EXCEPT ![k] = Aborted]
  BY DEF Replay, Forget
<1>2. TypeOK'
  BY <1>0, <1>1 DEF IInv, TypeOK, control, slots, passes
<1>3. RunInv' /\ CallInv'
  BY <1>1 DEF IInv, TypeOK, RunInv, CallInv, passes
<1>4. WaitInv' /\ SlotInv'
  <2>1. stage' \in [Kick -> Stages] /\ stage' = stage
    BY <1>1 DEF IInv, TypeOK, Stages, passes
  <2> QED BY <1>1, <2>1, SlotsKept DEF IInv
<1>5. HeardInv'
  BY <1>1 DEF IInv, TypeOK, HeardInv, QueueUnread, passes
<1>6. BanInv'
  BY <1>1 DEF IInv, TypeOK, BanInv, MarkerUnread, passes, control
<1>7. HeardStep
  BY <1>1 DEF HeardStep, Answered, IInv, TypeOK, CallInv
<1>8. BanStep
  <2> SUFFICES ASSUME NEW j \in Kick, Answered(j), banned[j] PROVE answer'[j].seen = 0
    BY DEF BanStep
  <2>1. j = k
    BY <1>1 DEF Answered, IInv, TypeOK
  <2>2. marker[AddressOf[k]]
    BY <2>1 DEF IInv, BanInv
  <2>3. answer' = [answer EXCEPT ![k] = Aborted]
    BY <1>1, <2>2
  <2> QED BY <1>0, <2>1, <2>3 DEF IInv, TypeOK
<1> QED BY <1>2, <1>3, <1>4, <1>5, <1>6, <1>7, <1>8 DEF IInv, Kept

LEMMA UserKeeps ==
  ASSUME IInv, NEW a \in Address,
         Deliver(a) \/ Disable(a) \/ MarkDisabled(a) \/ Enable(a) \/ ClearDisabled(a)
  PROVE  Kept
<1>1. /\ UNCHANGED <<now, stopped, Worker, call, joined, answer, asked>>
      /\ \A b \in Address : version[b] <= version'[b]
      /\ \A j \in Kick : banned'[j] =>
           banned[j] /\ (marker[AddressOf[j]] => marker'[AddressOf[j]])
      /\ TypeOK'
  <2>1. CASE Deliver(a)
    BY <2>1 DEF IInv, TypeOK, Deliver, calls, control, Worker, slots, passes
  <2>2. CASE Disable(a)
    BY <2>2 DEF IInv, TypeOK, Disable, calls, control, Worker, slots, passes
  <2>3. CASE MarkDisabled(a)
    BY <2>3, DrainAssumption DEF IInv, TypeOK, MarkDisabled, calls, control, Worker, slots, passes
  <2>4. CASE Enable(a)
    BY <2>4 DEF IInv, TypeOK, Enable, calls, control, Worker, slots, passes
  <2>5. CASE ClearDisabled(a)
    <3>1. /\ UNCHANGED <<now, version, flag, stopped, Worker, call, joined, answer, asked>>
          /\ banned' = [k \in Kick |-> banned[k] /\ AddressOf[k] # a]
          /\ marker' = [marker EXCEPT ![a] = FALSE]
          /\ consent' = [consent EXCEPT ![a] = "enabled"]
      BY <2>5 DEF ClearDisabled
    <3>2. banned' \in [Kick -> BOOLEAN]
      BY <3>1
    <3>3. TypeOK'
      BY <3>1, <3>2 DEF IInv, TypeOK, Worker, slots, passes
    <3>4. \A b \in Address : b # a => marker'[b] = marker[b]
      BY <3>1 DEF IInv, TypeOK
    <3>5. \A j \in Kick : banned'[j] => banned[j] /\ AddressOf[j] # a /\ AddressOf[j] \in Address
      BY <3>1, DrainAssumption
    <3>6. \A b \in Address : version[b] <= version'[b]
      BY <3>1 DEF IInv, TypeOK
    <3> QED BY <3>1, <3>3, <3>4, <3>5, <3>6
  <2> QED BY <2>1, <2>2, <2>3, <2>4, <2>5
<1>2. RunInv' /\ WaitInv' /\ SlotInv' /\ CallInv'
  BY <1>1, DrainsKept DEF Worker, passes
<1>3. HeardInv'
  <2> SUFFICES ASSUME NEW j \in Kick, call'[j] = "joined"
               PROVE  /\ asked'[j] <= version'[AddressOf[j]]
                      /\ \/ AddressOf[j] \in dirty' \/ QueueUnread(joined[j])'
                         \/ asked'[j] <= found'[joined'[j]]
    BY DEF HeardInv
  <2>1. /\ AddressOf[j] \in Address /\ asked[j] \in Nat
        /\ version[AddressOf[j]] \in Nat /\ version'[AddressOf[j]] \in Nat
    BY <1>1, DrainAssumption DEF IInv, TypeOK
  <2>2. asked[j] <= version[AddressOf[j]] /\ version[AddressOf[j]] <= version'[AddressOf[j]]
    BY <1>1, <2>1 DEF IInv, HeardInv
  <2> QED BY <1>1, <2>1, <2>2 DEF IInv, HeardInv, QueueUnread, Worker, passes
<1>4. BanInv'
  BY <1>1 DEF IInv, BanInv, MarkerUnread, Worker, passes
<1> QED BY <1>1, <1>2, <1>3, <1>4, Unanswered DEF IInv, Kept

LEMMA ProcessKeeps ==
  ASSUME IInv, Tick \/ Stop
  PROVE  Kept
<1>1. UNCHANGED <<version, control, Worker, calls>>
  BY DEF Tick, Stop
<1>2. TypeOK'
  <2>1. now' \in Nat /\ stopped' \in BOOLEAN
    <3>1. CASE Tick
      <4>1. now' = now + 1 /\ stopped' = stopped
        BY <3>1 DEF Tick
      <4> QED BY <4>1 DEF IInv, TypeOK
    <3>2. CASE Stop
      <4>1. now' = now /\ stopped' = TRUE
        BY <3>2 DEF Stop
      <4> QED BY <4>1 DEF IInv, TypeOK
    <3> QED BY <3>1, <3>2
  <2> QED BY <1>1, <2>1 DEF IInv, TypeOK, control, Worker, slots, passes, calls
<1>3. RunInv' /\ WaitInv' /\ SlotInv' /\ CallInv'
  BY <1>1, DrainsKept DEF Worker, passes, calls
<1>4. HeardInv' /\ BanInv'
  BY <1>1 DEF IInv, HeardInv, BanInv, QueueUnread, MarkerUnread, Worker, passes, calls, control
<1> QED BY <1>1, <1>2, <1>3, <1>4, Unanswered DEF IInv, Kept, calls

\* Nothing runs and nobody waits.
LEMMA Quiet ==
  ASSUME stage = [k \in Kick |-> "none"], waiting = <<>>, active = 0,
         running = [a \in Address |-> None], joined = [k \in Kick |-> None],
         banned = [k \in Kick |-> FALSE], \A k \in Kick : call[k] # "joined"
  PROVE  RunInv /\ WaitInv /\ SlotInv /\ CallInv /\ HeardInv /\ BanInv
<1>1. Passing = {}
  BY DEF Passing, InPass
<1>2. SlotInv
  <2>1. SlotCount(Passing, active, waiting)
    BY <1>1, FS_EmptySet, DrainAssumption DEF SlotCount
  <2> QED BY <2>1 DEF SlotInv, SlotsAreExact, SlotCount, Passing
<1>3. RunInv
  BY DrainAssumption DEF RunInv
<1> QED BY <1>2, <1>3 DEF WaitInv, CallInv, HeardInv, BanInv

LEMMA RestartKeeps ==
  ASSUME IInv, Restart
  PROVE  Kept
<1>1. TypeOK'
  <2>1. /\ now' \in Nat /\ version' \in [Address -> Nat] /\ marker' \in [Address -> BOOLEAN]
        /\ consent' \in [Address -> {"enabled", "disabling", "disabled", "enabling"}]
        /\ flag' \in [Address -> BOOLEAN] /\ stopped' \in BOOLEAN
    BY DEF IInv, TypeOK, Restart
  <2>2. /\ running' \in [Address -> Kick \cup {None}] /\ dirty' \subseteq Address
        /\ waiting' \in Seq(Kick) /\ active' \in Nat /\ finishedAt' \in [Address -> Nat]
        /\ memo' \in [Address -> Result \cup {None}]
    BY DEF Restart
  <2>3. /\ stage' \in [Kick -> {"none", "queued"} \cup InPass] /\ found' \in [Kick -> Nat]
        /\ result' \in [Kick -> Result \cup {None}] /\ joined' \in [Kick -> Kick \cup {None}]
    BY DEF Restart
  <2>4. call' \in [Kick -> {"idle", "joined", "replaying", "resolved", "rejected"}]
    BY DEF IInv, TypeOK, Restart
  <2>5. answer' \in [Kick -> Result \cup {None}]
    BY DEF IInv, TypeOK, Restart
  <2>6. asked' \in [Kick -> Nat] /\ banned' \in [Kick -> BOOLEAN]
    BY DEF Restart, Forget
  <2> QED BY <2>1, <2>2, <2>3, <2>4, <2>5, <2>6 DEF TypeOK
<1>2. /\ stage' = [k \in Kick |-> "none"] /\ waiting' = <<>> /\ active' = 0
      /\ running' = [a \in Address |-> None] /\ joined' = [k \in Kick |-> None]
      /\ banned' = [k \in Kick |-> FALSE]
      /\ \A k \in Kick : call'[k] # "joined" /\ ~ Answered(k)
  BY DEF Restart, Forget, Answered
<1>3. Passing' = {}
  BY <1>2 DEF Passing, InPass
<1>4. SlotInv'
  <2>1. SlotCount(Passing', active', waiting')
    BY <1>2, <1>3, FS_EmptySet, DrainAssumption DEF SlotCount
  <2> QED BY <2>1, SlotShape
<1>5. RunInv'
  BY <1>2, DrainAssumption DEF RunInv
<1>6. WaitInv' /\ CallInv' /\ HeardInv' /\ BanInv'
  BY <1>2 DEF WaitInv, CallInv, HeardInv, BanInv
<1>7. HeardStep /\ BanStep
  BY <1>2 DEF HeardStep, BanStep
<1> QED BY <1>1, <1>4, <1>5, <1>6, <1>7 DEF IInv, Kept

LEMMA Initially == Init => IInv
<1> SUFFICES ASSUME Init PROVE IInv
  OBVIOUS
<1>1. TypeOK
  <2>1. /\ now \in Nat /\ version \in [Address -> Nat] /\ marker \in [Address -> BOOLEAN]
        /\ consent \in [Address -> {"enabled", "disabling", "disabled", "enabling"}]
        /\ flag \in [Address -> BOOLEAN] /\ stopped \in BOOLEAN
    BY DrainAssumption DEF Init
  <2>2. /\ running \in [Address -> Kick \cup {None}] /\ dirty \subseteq Address
        /\ waiting \in Seq(Kick) /\ active \in Nat /\ finishedAt \in [Address -> Nat]
        /\ memo \in [Address -> Result \cup {None}]
    BY DEF Init
  <2>3. /\ stage \in [Kick -> {"none", "queued"} \cup InPass] /\ found \in [Kick -> Nat]
        /\ result \in [Kick -> Result \cup {None}] /\ joined \in [Kick -> Kick \cup {None}]
    BY DEF Init
  <2>4. /\ call \in [Kick -> {"idle", "joined", "replaying", "resolved", "rejected"}]
        /\ answer \in [Kick -> Result \cup {None}]
        /\ asked \in [Kick -> Nat] /\ banned \in [Kick -> BOOLEAN]
    BY DEF Init
  <2> QED BY <2>1, <2>2, <2>3, <2>4 DEF TypeOK
<1>2. RunInv /\ WaitInv /\ SlotInv /\ CallInv /\ HeardInv /\ BanInv
  BY Quiet DEF Init
<1> QED BY <1>1, <1>2 DEF IInv

LEMMA EachStep == IInv /\ [Next]_vars => IInv' /\ [HeardStep]_vars /\ [BanStep]_vars
<1> SUFFICES ASSUME IInv, [Next]_vars PROVE IInv' /\ [HeardStep]_vars /\ [BanStep]_vars
  OBVIOUS
<1>1. CASE UNCHANGED vars
  <2>1. UNCHANGED <<version, control, Worker, calls, now, stopped>>
    BY <1>1 DEF vars, Worker
  <2>2. TypeOK'
    BY <2>1 DEF IInv, TypeOK, control, Worker, slots, passes, calls
  <2>3. RunInv' /\ WaitInv' /\ SlotInv' /\ CallInv'
    BY <2>1, DrainsKept DEF Worker, passes, calls
  <2>4. HeardInv' /\ BanInv'
    BY <2>1 DEF IInv, HeardInv, BanInv, QueueUnread, MarkerUnread, Worker, passes, calls, control
  <2> QED BY <1>1, <2>2, <2>3, <2>4 DEF IInv
<1>2. CASE Next
  <2>1. ASSUME NEW k \in Kick,
               KickStopped(k) \/ KickJoins(k) \/ KickReplays(k) \/ KickStarts(k) \/ Replay(k) \/ Drain(k)
        PROVE  Kept
    BY <2>1, KickKeeps, ReplayKeeps, DrainKeeps
  <2>2. ASSUME NEW a \in Changing,
               Deliver(a) \/ Disable(a) \/ MarkDisabled(a) \/ Enable(a) \/ ClearDisabled(a)
        PROVE  Kept
    BY <2>2, UserKeeps, DrainAssumption
  <2>3. Kept
    BY <1>2, <2>1, <2>2, ProcessKeeps, RestartKeeps DEF Next
  <2> QED BY <2>3 DEF Kept
<1> QED BY <1>1, <1>2

LEMMA Invariance == Spec => []IInv /\ [][HeardStep]_vars /\ [][BanStep]_vars
BY Initially, EachStep, PTL DEF Spec

-----------------------------------------------------------------------------
(* Theorems                                                                *)

\* Every variable of the worker keeps its type, through stops and restarts.
THEOREM TypeCorrect == Spec => []TypeOK
<1>1. IInv => TypeOK
  BY DEF IInv
<1> QED BY <1>1, Invariance, PTL

\* However kicks, passes, failures and restarts interleave, an address never has two
\* drains: each is the one registered in `running`.
THEOREM DrainIsAlone == Spec => []OneDrainPerAddress
<1>1. IInv => OneDrainPerAddress
  <2> SUFFICES ASSUME IInv, NEW j \in Kick, NEW k \in Kick,
                      stage[j] # "none", stage[k] # "none", AddressOf[j] = AddressOf[k]
               PROVE  j = k
    BY DEF OneDrainPerAddress
  <2> QED BY AliveApart DEF IInv
<1> QED BY <1>1, Invariance, PTL

\* The count of slots is that of the drains in a pass, within the cap, and nobody waits
\* while a slot is free; for any number of slots.
THEOREM SlotsStayExact == Spec => []SlotsAreExact
<1>1. IInv => SlotsAreExact
  BY DEF IInv, SlotInv
<1> QED BY <1>1, Invariance, PTL

\* A kick that starts or joins a drain and is answered "ok" is told of every delivery that
\* was queued when it was made, unless stop() kept the drain from one more pass.
THEOREM JoinedKickIsHeard == Spec => KickIsHeard
<1>1. HeardStep =>
        \A k \in Kick :
          Answered(k) /\ joined[k] # None /\ answer'[k].status = "ok" /\ ~ CutShort(k)
            => answer'[k].seen >= asked[k]
  BY DEF HeardStep
<1> QED BY <1>1, Invariance, PTL DEF KickIsHeard

\* A kick made under a durable disabled marker is given no ids while the marker stays,
\* unless it joined a drain that stop() kept from one more pass.
THEOREM RevocationHolds == Spec => RevokedKickGetsNothing
<1>1. BanStep =>
        \A k \in Kick : Answered(k) /\ banned[k] => answer'[k].seen = 0 \/ CutShort(k)
  BY DEF BanStep
<1> QED BY <1>1, Invariance, PTL DEF RevokedKickGetsNothing
=============================================================================
