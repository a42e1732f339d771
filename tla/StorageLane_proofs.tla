------------------------- MODULE StorageLane_proofs -------------------------
(***************************************************************************)
(* Proofs about StorageLane, for any set of jobs and any burst: the type   *)
(* invariant, that background work is overtaken a bounded number of times, *)
(* and that the lane idles only when nothing waits.                        *)
(***************************************************************************)
EXTENDS StorageLane, SequenceTheorems, TLAPS

\* Removing the element at place k of a sequence leaves a sequence of the others.
LEMMA WithoutType ==
  ASSUME NEW S, NEW s \in Seq(S), NEW k \in 1..Len(s)
  PROVE  /\ Without(s, k) \in Seq(S)
         /\ Len(Without(s, k)) = Len(s) - 1
         /\ \A n \in 1..(Len(s) - 1) : Without(s, k)[n] = IF n < k THEN s[n] ELSE s[n + 1]
<1>1. Len(s) \in Nat /\ Len(s) - 1 \in Nat
  OBVIOUS
<1>2. \A n \in 1..(Len(s) - 1) : (IF n < k THEN s[n] ELSE s[n + 1]) \in S
  OBVIOUS
<1>3. Without(s, k) \in [1..(Len(s) - 1) -> S]
  BY <1>2 DEF Without
<1>4. Without(s, k) \in Seq(S)
  BY <1>1, <1>3
<1>5. Len(Without(s, k)) = Len(s) - 1
  BY <1>1, <1>3, <1>4
<1> QED
  BY <1>4, <1>5 DEF Without

-----------------------------------------------------------------------------
\* The outcomes of drain() are well typed.
LEMMA DrainType ==
  ASSUME NEW fg \in Seq(Foreground), NEW bg \in Seq(Background),
         NEW st \in [Job -> {"idle", "waiting", "running", "rejected"}],
         TypeOK, Drain(fg, bg, st)
  PROVE  /\ foreground' \in Seq(Foreground) /\ background' \in Seq(Background)
         /\ running' \in Job \cup {None}
         /\ overtaken' \in Nat
         /\ status' \in [Job -> {"idle", "waiting", "running", "rejected"}]
         /\ passed' \in [Background -> Nat]
<1>1. CASE DrainBackground(fg, bg, st)
  <2>1. bg # <<>> /\ Head(bg) \in Background /\ Tail(bg) \in Seq(Background)
    BY <1>1 DEF DrainBackground, BackgroundTurn
  <2> QED
    BY <1>1, <2>1 DEF DrainBackground, TypeOK, Job
<1>2. CASE DrainForeground(fg, bg, st)
  <2>1. fg # <<>> /\ Head(fg) \in Foreground /\ Tail(fg) \in Seq(Foreground)
    BY <1>2 DEF DrainForeground
  <2> QED
    BY <1>2, <2>1 DEF DrainForeground, TypeOK, Job
<1>3. CASE DrainNothing(fg, bg, st)
  BY <1>3 DEF DrainNothing, TypeOK
<1> QED
  BY <1>1, <1>2, <1>3 DEF Drain

\* The type invariant.
THEOREM TypeCorrect == Spec => []TypeOK
<1>1. Init => TypeOK
  BY LaneAssumption DEF Init, TypeOK, Job
<1>2. TypeOK /\ [Next]_vars => TypeOK'
  <2> SUFFICES ASSUME TypeOK, [Next]_vars PROVE TypeOK'
    OBVIOUS
  <2>1. ASSUME NEW j \in Foreground, RunForeground(j) PROVE TypeOK'
    <3>1. Append(foreground, j) \in Seq(Foreground)
      BY DEF TypeOK
    <3>2. [status EXCEPT ![j] = "waiting"] \in [Job -> {"idle", "waiting", "running", "rejected"}]
      BY DEF TypeOK
    <3>3. CASE running = None
      BY <2>1, <3>1, <3>2, <3>3, DrainType DEF RunForeground, TypeOK
    <3>4. CASE running # None
      BY <2>1, <3>1, <3>2, <3>4 DEF RunForeground, TypeOK
    <3> QED
      BY <3>3, <3>4
  <2>2. ASSUME NEW j \in Background, RunBackground(j) PROVE TypeOK'
    <3>1. Append(background, j) \in Seq(Background) /\ Len(background) + 1 \in Nat
      BY DEF TypeOK
    <3>2. [status EXCEPT ![j] = "waiting"] \in [Job -> {"idle", "waiting", "running", "rejected"}]
      BY DEF TypeOK
    <3>3. CASE running = None
      BY <2>2, <3>1, <3>2, <3>3, DrainType DEF RunBackground, TypeOK
    <3>4. CASE running # None
      <4>1. background' \in Seq(Background) /\ status' \in [Job -> {"idle", "waiting", "running", "rejected"}]
        BY <2>2, <3>1, <3>2, <3>4 DEF RunBackground
      <4>2. place' \in [Background -> Nat] /\ passed' \in [Background -> Nat]
        BY <2>2, <3>1, <3>4 DEF RunBackground, TypeOK
      <4> QED
        BY <2>2, <3>4, <4>1, <4>2 DEF RunBackground, TypeOK
    <3> QED
      BY <3>3, <3>4
  <2>3. CASE Finish
    <3>1. [status EXCEPT ![running] = "idle"] \in [Job -> {"idle", "waiting", "running", "rejected"}]
      BY DEF TypeOK
    <3> QED
      BY <2>3, <3>1, DrainType DEF Finish, TypeOK
  <2>4. ASSUME NEW k \in DOMAIN foreground, TimeoutForeground(k) PROVE TypeOK'
    <3>1. k \in 1..Len(foreground)
      BY DEF TypeOK
    <3>2. Without(foreground, k) \in Seq(Foreground)
      BY <3>1, WithoutType DEF TypeOK
    <3> QED
      BY <2>4, <3>2 DEF TimeoutForeground, TypeOK
  <2>5. ASSUME NEW k \in DOMAIN background, TimeoutBackground(k) PROVE TypeOK'
    <3>1. k \in 1..Len(background)
      BY DEF TypeOK
    <3>2. Without(background, k) \in Seq(Background)
      BY <3>1, WithoutType DEF TypeOK
    <3> QED
      BY <2>5, <3>2 DEF TimeoutBackground, TypeOK
  <2>6. CASE UNCHANGED vars
    BY <2>6 DEF vars, TypeOK
  <2> QED
    BY <2>1, <2>2, <2>3, <2>4, <2>5, <2>6 DEF Next
<1> QED
  BY <1>1, <1>2, PTL DEF Spec

-----------------------------------------------------------------------------
\* The lane idles only when nothing waits, whatever finishes, joins or times out.
LEMMA DrainConserves ==
  ASSUME NEW fg \in Seq(Foreground), NEW bg \in Seq(Background), NEW st,
         Drain(fg, bg, st)
  PROVE  WorkConserving'
<1>1. CASE DrainBackground(fg, bg, st)
  <2>1. Head(bg) \in Job
    BY <1>1 DEF DrainBackground, BackgroundTurn, Job
  <2> QED
    BY <1>1, <2>1, LaneAssumption DEF DrainBackground, WorkConserving
<1>2. CASE DrainForeground(fg, bg, st)
  <2>1. Head(fg) \in Job
    BY <1>2 DEF DrainForeground, Job
  <2> QED
    BY <1>2, <2>1, LaneAssumption DEF DrainForeground, WorkConserving
<1>3. CASE DrainNothing(fg, bg, st)
  BY <1>3 DEF DrainNothing, WorkConserving
<1> QED
  BY <1>1, <1>2, <1>3 DEF Drain

LEMMA NextConserves == TypeOK /\ WorkConserving /\ [Next]_vars => WorkConserving'
<1> SUFFICES ASSUME TypeOK, WorkConserving, [Next]_vars PROVE WorkConserving'
  OBVIOUS
<1>1. ASSUME NEW j \in Foreground, RunForeground(j) PROVE WorkConserving'
  <2>1. Append(foreground, j) \in Seq(Foreground)
    BY DEF TypeOK
  <2> QED
    BY <1>1, <2>1, DrainConserves DEF RunForeground, TypeOK, WorkConserving
<1>2. ASSUME NEW j \in Background, RunBackground(j) PROVE WorkConserving'
  <2>1. Append(background, j) \in Seq(Background)
    BY DEF TypeOK
  <2> QED
    BY <1>2, <2>1, DrainConserves DEF RunBackground, TypeOK, WorkConserving
<1>3. CASE Finish
  BY <1>3, DrainConserves DEF Finish, TypeOK
<1>4. ASSUME NEW k \in DOMAIN foreground, TimeoutForeground(k) PROVE WorkConserving'
  BY <1>4 DEF TimeoutForeground, WorkConserving
<1>5. ASSUME NEW k \in DOMAIN background, TimeoutBackground(k) PROVE WorkConserving'
  BY <1>5 DEF TimeoutBackground, WorkConserving
<1>6. CASE UNCHANGED vars
  BY <1>6 DEF vars, WorkConserving
<1> QED
  BY <1>1, <1>2, <1>3, <1>4, <1>5, <1>6 DEF Next

\* WorkConserving, for any burst and any set of jobs.
THEOREM LaneConservesWork == Spec => []WorkConserving
<1>1. Init => WorkConserving
  BY DEF Init, WorkConserving
<1> QED
  BY <1>1, NextConserves, TypeCorrect, PTL DEF Spec

-----------------------------------------------------------------------------
\* The debt of the lane to the job at place k of the background queue: what has
\* passed it, and what may still pass those before it, is covered by the burst of each
\* place it has left behind, plus the foreground starts of the current burst.
Covered(k) ==
  passed[background[k]] + Burst * k <= Burst * place[background[k]] + overtaken

OvertakingInv ==
  /\ overtaken <= Burst
  /\ \A k \in DOMAIN background : Covered(k)

LEMMA BurstStep ==
  ASSUME NEW k \in Nat
  PROVE  /\ Burst \in Nat /\ Burst * k \in Nat
         /\ Burst * (k + 1) = Burst * k + Burst
BY LaneAssumption

LEMMA BurstGrows ==
  ASSUME NEW k \in Nat, NEW n \in Nat, k <= n
  PROVE  Burst * k <= Burst * n
BY LaneAssumption

\* drain() keeps the debt covered: the oldest background job starts, or the burst is
\* not used up and each that waits is passed once more.
LEMMA DrainCovers ==
  ASSUME TypeOK, OvertakingInv, NEW fg \in Seq(Foreground), NEW st,
         Drain(fg, background, st), UNCHANGED place
  PROVE  OvertakingInv'
<1>1. CASE DrainBackground(fg, background, st)
  <2>1. background' = Tail(background) /\ background # <<>> /\ overtaken' = 0 /\ passed' = passed
    BY <1>1 DEF DrainBackground, BackgroundTurn
  <2>2. ASSUME NEW k \in DOMAIN background' PROVE Covered(k)'
    <3>1. k \in Nat /\ k + 1 \in DOMAIN background /\ background'[k] = background[k + 1]
      BY <2>1, <2>2 DEF TypeOK
    <3>2. passed[background[k + 1]] + Burst * (k + 1)
            <= Burst * place[background[k + 1]] + overtaken
      BY <3>1 DEF OvertakingInv, Covered
    <3>3. background[k + 1] \in Background
      BY <3>1 DEF TypeOK
    <3>4. passed[background[k + 1]] \in Nat /\ place[background[k + 1]] \in Nat /\ overtaken \in Nat
      BY <3>3 DEF TypeOK
    <3>5. Burst * place[background[k + 1]] \in Nat
      BY <3>4, BurstStep
    <3>6. Burst \in Nat /\ Burst * k \in Nat /\ Burst * (k + 1) = Burst * k + Burst
      BY <3>1, BurstStep
    <3>7. overtaken <= Burst
      BY DEF OvertakingInv
    <3>8. passed[background[k + 1]] + Burst * k <= Burst * place[background[k + 1]]
      <4> DEFINE paid == Burst * k
                 debt == Burst * place[background[k + 1]]
      <4>1. /\ paid \in Nat /\ debt \in Nat
            /\ passed[background[k + 1]] + (paid + Burst) <= debt + overtaken
        BY <3>2, <3>5, <3>6
      <4> HIDE DEF paid, debt
      <4>2. passed[background[k + 1]] + paid <= debt
        BY <3>4, <3>6, <3>7, <4>1
      <4> QED BY <4>2 DEF paid, debt
    <3>9. passed'[background'[k]] + Burst * k <= Burst * place'[background'[k]]
      BY <2>1, <3>1, <3>8
    <3> QED
      BY <2>1, <3>1, <3>4, <3>5, <3>6, <3>9 DEF Covered
  <2> QED
    BY <2>1, <2>2, LaneAssumption DEF OvertakingInv
<1>2. CASE DrainForeground(fg, background, st)
  <2>1. background' = background
    BY <1>2 DEF DrainForeground
  <2>2. CASE background = <<>>
    BY <1>2, <2>1, <2>2, LaneAssumption DEF DrainForeground, OvertakingInv
  <2>3. CASE background # <<>>
    <3>1. overtaken < Burst /\ overtaken' = overtaken + 1
      BY <1>2, <2>3, LaneAssumption DEF DrainForeground, BackgroundTurn, TypeOK
    <3>2. ASSUME NEW k \in DOMAIN background PROVE Covered(k)'
      <4>1. background[k] \in Background /\ Occurs(background[k], background) /\ k \in Nat
        BY DEF TypeOK, Occurs
      <4>2. passed'[background[k]] = passed[background[k]] + 1
        BY <1>2, <4>1 DEF DrainForeground
      <4>3. passed[background[k]] \in Nat /\ place[background[k]] \in Nat /\ overtaken \in Nat
        BY <4>1 DEF TypeOK
      <4>4. Burst * place[background[k]] \in Nat /\ Burst * k \in Nat
        BY <4>1, <4>3, BurstStep
      <4>5. passed[background[k]] + Burst * k <= Burst * place[background[k]] + overtaken
        BY DEF OvertakingInv, Covered
      <4> QED
        BY <2>1, <3>1, <4>2, <4>3, <4>4, <4>5 DEF Covered
    <3> QED
      BY <2>1, <3>1, <3>2, LaneAssumption DEF OvertakingInv, TypeOK
  <2> QED
    BY <2>2, <2>3
<1>3. CASE DrainNothing(fg, background, st)
  BY <1>3, LaneAssumption DEF DrainNothing, OvertakingInv
<1> QED
  BY <1>1, <1>2, <1>3 DEF Drain

LEMMA NextCovers == TypeOK /\ WorkConserving /\ OvertakingInv /\ [Next]_vars => OvertakingInv'
<1> SUFFICES ASSUME TypeOK, WorkConserving, OvertakingInv, [Next]_vars PROVE OvertakingInv'
  OBVIOUS
<1>1. ASSUME NEW j \in Foreground, RunForeground(j) PROVE OvertakingInv'
  <2>1. Append(foreground, j) \in Seq(Foreground)
    BY DEF TypeOK
  <2>2. CASE running = None
    <3>1. background = <<>>
      BY <2>2 DEF WorkConserving
    <3>2. Drain(Append(foreground, j), background, [status EXCEPT ![j] = "waiting"])
      BY <1>1, <2>2, <3>1 DEF RunForeground, WorkConserving
    <3> QED
      BY <1>1, <2>1, <3>2, DrainCovers DEF RunForeground
  <2>3. CASE running # None
    BY <1>1, <2>3 DEF RunForeground, OvertakingInv, Covered
  <2> QED
    BY <2>2, <2>3
<1>2. ASSUME NEW j \in Background, RunBackground(j) PROVE OvertakingInv'
  <2>1. CASE running = None
    \* the job starts at once, and the queue stays empty
    <3>1. background = <<>> /\ foreground = <<>>
      BY <2>1 DEF WorkConserving
    <3>2. Append(background, j) = <<j>>
      BY <3>1
    <3>3. background' = <<>> /\ overtaken' = 0
      BY <1>2, <2>1, <3>1, <3>2
         DEF RunBackground, Drain, DrainBackground, DrainForeground, DrainNothing, BackgroundTurn
    <3> QED
      BY <3>3, LaneAssumption DEF OvertakingInv
  <2>2. CASE running # None
    <3>1. background' = Append(background, j) /\ overtaken' = overtaken
          /\ place' = [place EXCEPT ![j] = Len(background) + 1] /\ passed' = [passed EXCEPT ![j] = 0]
      BY <1>2, <2>2 DEF RunBackground
    <3>2. ASSUME NEW k \in DOMAIN background' PROVE Covered(k)'
      <4>1. k \in Nat /\ k <= Len(background) + 1 /\ background'[k] \in Background
        BY <3>1 DEF TypeOK
      <4>2. CASE background'[k] = j
        <5>1. passed'[j] = 0 /\ place'[j] = Len(background) + 1 /\ Len(background) + 1 \in Nat
          BY <3>1 DEF TypeOK
        <5>2. Burst * k <= Burst * (Len(background) + 1)
          BY <4>1, <5>1, BurstGrows
        <5>3. Burst * k \in Nat /\ Burst * (Len(background) + 1) \in Nat /\ overtaken \in Nat
          BY <4>1, <5>1, BurstStep DEF TypeOK
        <5>4. 0 + Burst * k <= Burst * (Len(background) + 1) + overtaken
          BY <5>2, <5>3
        <5> QED
          BY <3>1, <4>2, <5>1, <5>4 DEF Covered
      <4>3. CASE background'[k] # j
        <5>1. k \in DOMAIN background /\ background'[k] = background[k]
          BY <3>1, <4>1, <4>3 DEF TypeOK
        <5>2. passed'[background[k]] = passed[background[k]] /\ place'[background[k]] = place[background[k]]
          BY <3>1, <4>1, <4>3, <5>1 DEF TypeOK
        <5> QED
          BY <3>1, <5>1, <5>2 DEF Covered, OvertakingInv
      <4> QED
        BY <4>2, <4>3
    <3> QED
      BY <3>1, <3>2 DEF OvertakingInv
  <2> QED
    BY <2>1, <2>2
<1>3. CASE Finish
  BY <1>3, DrainCovers DEF Finish, TypeOK
<1>4. ASSUME NEW k \in DOMAIN foreground, TimeoutForeground(k) PROVE OvertakingInv'
  BY <1>4 DEF TimeoutForeground, OvertakingInv, Covered
<1>5. ASSUME NEW k \in DOMAIN background, TimeoutBackground(k) PROVE OvertakingInv'
  <2>1. k \in 1..Len(background) /\ background' = Without(background, k)
        /\ UNCHANGED <<overtaken, place, passed>>
    BY <1>5 DEF TimeoutBackground, TypeOK
  <2>2. ASSUME NEW n \in DOMAIN background' PROVE Covered(n)'
    <3>0. /\ background \in Seq(Background) /\ Len(background) \in Nat
          /\ Without(background, k) = [i \in 1..(Len(background) - 1) |->
                                        IF i < k THEN background[i] ELSE background[i + 1]]
      BY DEF TypeOK, Without
    <3>1. n \in 1..(Len(background) - 1)
      BY <2>1, <2>2, <3>0
    <3>2. PICK m \in {n, n + 1} : m \in DOMAIN background /\ background'[n] = background[m]
      <4>1. background'[n] = IF n < k THEN background[n] ELSE background[n + 1]
        BY <2>1, <3>0, <3>1
      <4>2. n \in DOMAIN background /\ n + 1 \in DOMAIN background
        BY <3>0, <3>1
      <4> QED
        BY <4>1, <4>2
    <3>3. n \in Nat /\ m \in Nat /\ n <= m
      BY <3>1, <3>2
    <3>4. Burst * n \in Nat /\ Burst * m \in Nat /\ Burst * n <= Burst * m
      BY <3>3, BurstGrows, BurstStep
    <3>5. background[m] \in Background
      BY <3>2 DEF TypeOK
    <3>6. passed[background[m]] \in Nat /\ place[background[m]] \in Nat /\ overtaken \in Nat
      BY <3>5 DEF TypeOK
    <3>7. Burst * place[background[m]] \in Nat
      BY <3>6, BurstStep
    <3>8. passed[background[m]] + Burst * m <= Burst * place[background[m]] + overtaken
      BY <3>2 DEF OvertakingInv, Covered
    <3>9. passed[background[m]] + Burst * n <= Burst * place[background[m]] + overtaken
      BY <3>4, <3>6, <3>7, <3>8
    <3> QED
      BY <2>1, <3>2, <3>9 DEF Covered
  <2> QED
    BY <2>1, <2>2 DEF OvertakingInv
<1>6. CASE UNCHANGED vars
  BY <1>6 DEF vars, OvertakingInv, Covered
<1> QED
  BY <1>1, <1>2, <1>3, <1>4, <1>5, <1>6 DEF Next

\* BoundedOvertaking: whatever the burst and the jobs, a background job is passed at most
\* Burst times per place of the queue it joined.
THEOREM OvertakingIsBounded == Spec => []BoundedOvertaking
<1>1. Init => OvertakingInv
  BY LaneAssumption DEF Init, OvertakingInv
<1>2. TypeOK /\ OvertakingInv => BoundedOvertaking
  <2> SUFFICES ASSUME TypeOK, OvertakingInv, NEW k \in DOMAIN background
               PROVE  passed[background[k]] <= Burst * place[background[k]]
    BY DEF BoundedOvertaking
  <2>1. background[k] \in Background /\ k \in Nat /\ 1 <= k
    BY DEF TypeOK
  <2>2. passed[background[k]] \in Nat /\ place[background[k]] \in Nat /\ overtaken \in Nat
    BY <2>1 DEF TypeOK
  <2>3. Burst \in Nat /\ Burst * place[background[k]] \in Nat /\ Burst * k \in Nat
    BY <2>1, <2>2, BurstStep
  <2>4. Burst * 1 = Burst /\ Burst * 1 <= Burst * k
    BY <2>1, <2>3, BurstGrows
  <2>5. passed[background[k]] + Burst * k <= Burst * place[background[k]] + overtaken
        /\ overtaken <= Burst
    BY DEF OvertakingInv, Covered
  <2> QED
    BY <2>2, <2>3, <2>4, <2>5
<1> QED
  BY <1>1, <1>2, NextCovers, TypeCorrect, LaneConservesWork, PTL DEF Spec

-----------------------------------------------------------------------------
(* A job whose wait timed out neither waits nor runs. *)

Distinct(s) == \A k, n \in DOMAIN s : s[k] = s[n] => k = n

\* The queues fg and bg agree with the statuses st: whoever occurs in one waits, once.
Tracked(fg, bg, st) ==
  /\ Distinct(fg) /\ Distinct(bg)
  /\ \A k \in DOMAIN fg : st[fg[k]] = "waiting"
  /\ \A k \in DOMAIN bg : st[bg[k]] = "waiting"

TrackInv ==
  /\ Tracked(foreground, background, status)
  /\ running # None => status[running] = "running"

LEMMA DistinctTail ==
  ASSUME NEW S, NEW s \in Seq(S), s # <<>>, Distinct(s)
  PROVE  /\ Distinct(Tail(s))
         /\ \A k \in DOMAIN Tail(s) : k + 1 \in DOMAIN s /\ Tail(s)[k] = s[k + 1]
                                     /\ Tail(s)[k] # Head(s)
<1>1. \A k \in DOMAIN Tail(s) : k \in Nat /\ k >= 1 /\ k + 1 \in DOMAIN s /\ Tail(s)[k] = s[k + 1]
  OBVIOUS
<1>2. Head(s) = s[1] /\ 1 \in DOMAIN s
  OBVIOUS
<1>3. \A k \in DOMAIN Tail(s) : Tail(s)[k] # Head(s)
  BY <1>1, <1>2 DEF Distinct
<1>4. Distinct(Tail(s))
  BY <1>1 DEF Distinct
<1> QED
  BY <1>1, <1>3, <1>4

LEMMA DistinctAppend ==
  ASSUME NEW S, NEW s \in Seq(S), NEW e \in S, Distinct(s), \A k \in DOMAIN s : s[k] # e
  PROVE  Distinct(Append(s, e))
<1>1. \A k \in DOMAIN Append(s, e) :
        (k \in DOMAIN s /\ Append(s, e)[k] = s[k]) \/ (k = Len(s) + 1 /\ Append(s, e)[k] = e)
  OBVIOUS
<1> QED
  BY <1>1 DEF Distinct

LEMMA DistinctWithout ==
  ASSUME NEW S, NEW s \in Seq(S), NEW k \in DOMAIN s, Distinct(s)
  PROVE  /\ Distinct(Without(s, k))
         /\ \A n \in DOMAIN Without(s, k) :
              \E m \in DOMAIN s : m # k /\ Without(s, k)[n] = s[m]
<1>1. Len(s) \in Nat /\ k \in 1..Len(s) /\ DOMAIN s = 1..Len(s)
  OBVIOUS
<1>2. DOMAIN Without(s, k) = 1..(Len(s) - 1)
  BY DEF Without
<1>3. \A n \in 1..(Len(s) - 1) : Without(s, k)[n] = s[IF n < k THEN n ELSE n + 1]
  BY DEF Without
<1>4. \A n \in 1..(Len(s) - 1) : (IF n < k THEN n ELSE n + 1) \in (1..Len(s)) \ {k}
  BY <1>1
<1>5. \A n \in DOMAIN Without(s, k) : \E m \in DOMAIN s : m # k /\ Without(s, k)[n] = s[m]
  BY <1>1, <1>2, <1>3, <1>4
<1>6. ASSUME NEW n \in 1..(Len(s) - 1), NEW p \in 1..(Len(s) - 1),
             Without(s, k)[n] = Without(s, k)[p]
      PROVE  n = p
  <2>1. (IF n < k THEN n ELSE n + 1) = (IF p < k THEN p ELSE p + 1)
    BY <1>1, <1>3, <1>4, <1>6 DEF Distinct
  <2> QED
    BY <1>1, <2>1
<1> QED
  BY <1>2, <1>5, <1>6 DEF Distinct

\* drain() keeps the queues tracked.
LEMMA DrainTracks ==
  ASSUME NEW fg \in Seq(Foreground), NEW bg \in Seq(Background),
         NEW st \in [Job -> {"idle", "waiting", "running", "rejected"}],
         Tracked(fg, bg, st), Drain(fg, bg, st)
  PROVE  TrackInv'
<1>1. \A k \in DOMAIN fg, n \in DOMAIN bg : fg[k] \in Job /\ bg[n] \in Job /\ fg[k] # bg[n]
  BY LaneAssumption DEF Job
<1>2. CASE DrainBackground(fg, bg, st)
  <2>1. bg # <<>> /\ Head(bg) = bg[1] /\ 1 \in DOMAIN bg
    BY <1>2 DEF DrainBackground, BackgroundTurn
  <2>2. /\ foreground' = fg /\ background' = Tail(bg) /\ running' = Head(bg)
        /\ status' = [st EXCEPT ![Head(bg)] = "running"]
    BY <1>2 DEF DrainBackground
  <2>3. Head(bg) \in Background /\ Head(bg) \in Job
    BY <2>1 DEF Job
  <2>4. \A k \in DOMAIN fg : status'[fg[k]] = "waiting"
    BY <1>1, <2>1, <2>2, <2>3 DEF Tracked
  <2>5. \A k \in DOMAIN Tail(bg) : status'[Tail(bg)[k]] = "waiting"
    <3> SUFFICES ASSUME NEW k \in DOMAIN Tail(bg) PROVE status'[Tail(bg)[k]] = "waiting"
      OBVIOUS
    <3>1. k + 1 \in DOMAIN bg /\ Tail(bg)[k] = bg[k + 1] /\ Tail(bg)[k] # Head(bg)
      BY <2>1, DistinctTail DEF Tracked
    <3>2. bg[k + 1] \in Job
      BY <3>1 DEF Job
    <3> QED
      BY <2>2, <2>3, <3>1, <3>2 DEF Tracked
  <2>6. Distinct(Tail(bg))
    BY <2>1, DistinctTail DEF Tracked
  <2> QED
    BY <2>2, <2>3, <2>4, <2>5, <2>6 DEF TrackInv, Tracked
<1>3. CASE DrainForeground(fg, bg, st)
  <2>1. fg # <<>> /\ Head(fg) = fg[1] /\ 1 \in DOMAIN fg
    BY <1>3 DEF DrainForeground
  <2>2. /\ foreground' = Tail(fg) /\ background' = bg /\ running' = Head(fg)
        /\ status' = [st EXCEPT ![Head(fg)] = "running"]
    BY <1>3 DEF DrainForeground
  <2>3. Head(fg) \in Foreground /\ Head(fg) \in Job
    BY <2>1 DEF Job
  <2>4. \A k \in DOMAIN bg : status'[bg[k]] = "waiting"
    BY <1>1, <2>1, <2>2, <2>3 DEF Tracked
  <2>5. \A k \in DOMAIN Tail(fg) : status'[Tail(fg)[k]] = "waiting"
    <3> SUFFICES ASSUME NEW k \in DOMAIN Tail(fg) PROVE status'[Tail(fg)[k]] = "waiting"
      OBVIOUS
    <3>1. k + 1 \in DOMAIN fg /\ Tail(fg)[k] = fg[k + 1] /\ Tail(fg)[k] # Head(fg)
      BY <2>1, DistinctTail DEF Tracked
    <3>2. fg[k + 1] \in Job
      BY <3>1 DEF Job
    <3> QED
      BY <2>2, <2>3, <3>1, <3>2 DEF Tracked
  <2>6. Distinct(Tail(fg))
    BY <2>1, DistinctTail DEF Tracked
  <2> QED
    BY <2>2, <2>3, <2>4, <2>5, <2>6 DEF TrackInv, Tracked
<1>4. CASE DrainNothing(fg, bg, st)
  BY <1>4 DEF DrainNothing, TrackInv, Tracked
<1> QED
  BY <1>2, <1>3, <1>4 DEF Drain

LEMMA NextTracks == TypeOK /\ TrackInv /\ [Next]_vars => TrackInv'
<1> SUFFICES ASSUME TypeOK, TrackInv, [Next]_vars PROVE TrackInv'
  OBVIOUS
<1>1. ASSUME NEW j \in Foreground, RunForeground(j) PROVE TrackInv'
  <2> DEFINE fg == Append(foreground, j)
             st == [status EXCEPT ![j] = "waiting"]
  <2>1. /\ fg \in Seq(Foreground) /\ j \in Job
        /\ st \in [Job -> {"idle", "waiting", "running", "rejected"}]
    BY DEF TypeOK, Job
  <2>2. \A k \in DOMAIN foreground : foreground[k] # j
    BY <1>1 DEF RunForeground, TrackInv, Tracked
  <2>3. Distinct(fg)
    BY <2>2, DistinctAppend DEF TrackInv, Tracked, TypeOK
  <2>4. \A k \in DOMAIN fg : st[fg[k]] = "waiting"
    <3>1. \A k \in DOMAIN fg : (k \in DOMAIN foreground /\ fg[k] = foreground[k]) \/ fg[k] = j
      BY DEF TypeOK
    <3>2. \A k \in DOMAIN foreground : foreground[k] \in Job
      BY DEF TypeOK, Job
    <3> QED
      BY <2>1, <3>1, <3>2 DEF TrackInv, Tracked, TypeOK
  <2>5. \A k \in DOMAIN background : st[background[k]] = "waiting"
    <3>1. \A k \in DOMAIN background : background[k] \in Job
      BY DEF TypeOK, Job
    <3> QED
      BY <2>1, <3>1 DEF TrackInv, Tracked, TypeOK
  <2>6. Tracked(fg, background, st)
    BY <2>3, <2>4, <2>5 DEF TrackInv, Tracked
  <2>7. CASE running = None
    BY <1>1, <2>1, <2>6, <2>7, DrainTracks DEF RunForeground, TypeOK
  <2>8. CASE running # None
    <3>1. running # j
      BY <1>1, <2>8 DEF RunForeground, TrackInv
    <3> QED
      BY <1>1, <2>1, <2>6, <2>8, <3>1 DEF RunForeground, TrackInv, TypeOK
  <2> QED
    BY <2>7, <2>8
<1>2. ASSUME NEW j \in Background, RunBackground(j) PROVE TrackInv'
  <2> DEFINE bg == Append(background, j)
             st == [status EXCEPT ![j] = "waiting"]
  <2>1. /\ bg \in Seq(Background) /\ j \in Job
        /\ st \in [Job -> {"idle", "waiting", "running", "rejected"}]
    BY DEF TypeOK, Job
  <2>2. \A k \in DOMAIN background : background[k] # j
    BY <1>2 DEF RunBackground, TrackInv, Tracked
  <2>3. Distinct(bg)
    BY <2>2, DistinctAppend DEF TrackInv, Tracked, TypeOK
  <2>4. \A k \in DOMAIN bg : st[bg[k]] = "waiting"
    <3>1. \A k \in DOMAIN bg : (k \in DOMAIN background /\ bg[k] = background[k]) \/ bg[k] = j
      BY DEF TypeOK
    <3>2. \A k \in DOMAIN background : background[k] \in Job
      BY DEF TypeOK, Job
    <3> QED
      BY <2>1, <3>1, <3>2 DEF TrackInv, Tracked, TypeOK
  <2>5. \A k \in DOMAIN foreground : st[foreground[k]] = "waiting"
    <3>1. \A k \in DOMAIN foreground : foreground[k] \in Job
      BY DEF TypeOK, Job
    <3> QED
      BY <2>1, <3>1 DEF TrackInv, Tracked, TypeOK
  <2>6. Tracked(foreground, bg, st)
    BY <2>3, <2>4, <2>5 DEF TrackInv, Tracked
  <2>7. CASE running = None
    BY <1>2, <2>1, <2>6, <2>7, DrainTracks DEF RunBackground, TypeOK
  <2>8. CASE running # None
    <3>1. running # j
      BY <1>2, <2>8 DEF RunBackground, TrackInv
    <3> QED
      BY <1>2, <2>1, <2>6, <2>8, <3>1 DEF RunBackground, TrackInv, TypeOK
  <2> QED
    BY <2>7, <2>8
<1>3. CASE Finish
  <2>1. running \in Job /\ status[running] = "running"
    BY <1>3 DEF Finish, TypeOK, TrackInv
  <2>2. [status EXCEPT ![running] = "idle"] \in [Job -> {"idle", "waiting", "running", "rejected"}]
    BY DEF TypeOK
  <2>3. Tracked(foreground, background, [status EXCEPT ![running] = "idle"])
    <3>1. \A k \in DOMAIN foreground : foreground[k] \in Job /\ foreground[k] # running
      BY <2>1 DEF TypeOK, Job, TrackInv, Tracked
    <3>2. \A k \in DOMAIN background : background[k] \in Job /\ background[k] # running
      BY <2>1 DEF TypeOK, Job, TrackInv, Tracked
    <3> QED
      BY <2>1, <3>1, <3>2 DEF TrackInv, Tracked, TypeOK
  <2> QED
    BY <1>3, <2>2, <2>3, DrainTracks DEF Finish, TypeOK
<1>4. ASSUME NEW k \in DOMAIN foreground, TimeoutForeground(k) PROVE TrackInv'
  <2>1. /\ foreground' = Without(foreground, k) /\ UNCHANGED <<background, running>>
        /\ status' = [status EXCEPT ![foreground[k]] = "rejected"]
    BY <1>4 DEF TimeoutForeground
  <2>2. /\ Distinct(foreground')
        /\ \A n \in DOMAIN foreground' : \E m \in DOMAIN foreground : m # k /\ foreground'[n] = foreground[m]
    BY <2>1, DistinctWithout DEF TypeOK, TrackInv, Tracked
  <2>3. \A n \in DOMAIN foreground : foreground[n] \in Job /\ (n # k => foreground[n] # foreground[k])
    BY DEF TypeOK, Job, TrackInv, Tracked, Distinct
  <2>4. \A n \in DOMAIN background : background[n] \in Job /\ background[n] # foreground[k]
    BY LaneAssumption DEF TypeOK, Job
  <2>5. \A n \in DOMAIN foreground' : status'[foreground'[n]] = "waiting"
    BY <2>1, <2>2, <2>3 DEF TypeOK, TrackInv, Tracked
  <2>6. \A n \in DOMAIN background' : status'[background'[n]] = "waiting"
    BY <2>1, <2>4 DEF TypeOK, TrackInv, Tracked
  <2>7. running' # None => status'[running'] = "running"
    BY <2>1, <2>3 DEF TypeOK, TrackInv, Tracked
  <2> QED
    BY <2>1, <2>2, <2>5, <2>6, <2>7 DEF TrackInv, Tracked
<1>5. ASSUME NEW k \in DOMAIN background, TimeoutBackground(k) PROVE TrackInv'
  <2>1. /\ background' = Without(background, k) /\ UNCHANGED <<foreground, running>>
        /\ status' = [status EXCEPT ![background[k]] = "rejected"]
    BY <1>5 DEF TimeoutBackground
  <2>2. /\ Distinct(background')
        /\ \A n \in DOMAIN background' : \E m \in DOMAIN background : m # k /\ background'[n] = background[m]
    BY <2>1, DistinctWithout DEF TypeOK, TrackInv, Tracked
  <2>3. \A n \in DOMAIN background : background[n] \in Job /\ (n # k => background[n] # background[k])
    BY DEF TypeOK, Job, TrackInv, Tracked, Distinct
  <2>4. \A n \in DOMAIN foreground : foreground[n] \in Job /\ foreground[n] # background[k]
    BY LaneAssumption DEF TypeOK, Job
  <2>5. \A n \in DOMAIN background' : status'[background'[n]] = "waiting"
    BY <2>1, <2>2, <2>3 DEF TypeOK, TrackInv, Tracked
  <2>6. \A n \in DOMAIN foreground' : status'[foreground'[n]] = "waiting"
    BY <2>1, <2>4 DEF TypeOK, TrackInv, Tracked
  <2>7. running' # None => status'[running'] = "running"
    BY <2>1, <2>3 DEF TypeOK, TrackInv, Tracked
  <2> QED
    BY <2>1, <2>2, <2>5, <2>6, <2>7 DEF TrackInv, Tracked
<1>6. CASE UNCHANGED vars
  BY <1>6 DEF vars, TrackInv, Tracked
<1> QED
  BY <1>1, <1>2, <1>3, <1>4, <1>5, <1>6 DEF Next

\* TimedOutNeverRuns, for any burst and any set of jobs.
THEOREM TimedOutStaysOut == Spec => []TimedOutNeverRuns
<1>1. Init => TrackInv
  BY DEF Init, TrackInv, Tracked, Distinct
<1>2. TypeOK /\ TrackInv => TimedOutNeverRuns
  BY LaneAssumption DEF TypeOK, Job, TrackInv, Tracked, Distinct, TimedOutNeverRuns, Occurs
<1> QED
  BY <1>1, <1>2, NextTracks, TypeCorrect, PTL DEF Spec
=============================================================================
