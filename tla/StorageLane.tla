---------------------------- MODULE StorageLane ----------------------------
(***************************************************************************)
(* The lane every component that writes the backend's own KV space runs    *)
(* its storage calls through: src/backend/src/services/                    *)
(* backend-storage-lane.ts.  One job runs at a time; waiting foreground    *)
(* jobs go before waiting background ones, but after Burst foreground      *)
(* starts in a row that overtook waiting background work the oldest        *)
(* background job goes next.  A waiting job may time out; it is then       *)
(* removed without running.                                                *)
(***************************************************************************)
EXTENDS Naturals, Sequences

CONSTANTS
  Foreground,  \* the jobs request handlers submit (each may be submitted again)
  Background,  \* the jobs background workers submit
  None,        \* no job is running
  Burst        \* FOREGROUND_BURST

Job == Foreground \cup Background

ASSUME LaneAssumption ==
  /\ Foreground \cap Background = {}
  /\ None \notin Job
  /\ Burst \in Nat \ {0}

VARIABLES
  foreground,  \* waiting.foreground
  background,  \* waiting.background
  running,     \* the job picked by drain(), until it settles; None: running = false
  overtaken,   \* foreground starts in a row that passed waiting background jobs
  status,      \* what each job's caller sees
  place,       \* ghost: each background job's place in its queue when it joined it
  passed       \* ghost: foreground starts since then, while it was waiting

vars == <<foreground, background, running, overtaken, status, place, passed>>

TypeOK ==
  /\ foreground \in Seq(Foreground)
  /\ background \in Seq(Background)
  /\ running \in Job \cup {None}
  /\ overtaken \in Nat
  /\ status \in [Job -> {"idle", "waiting", "running", "rejected"}]
  /\ place \in [Background -> Nat]
  /\ passed \in [Background -> Nat]

Init ==
  /\ foreground = <<>> /\ background = <<>>
  /\ running = None
  /\ overtaken = 0
  /\ status = [j \in Job |-> "idle"]
  /\ place = [j \in Background |-> 0]
  /\ passed = [j \in Background |-> 0]

-----------------------------------------------------------------------------
Occurs(j, s) == \E k \in DOMAIN s : s[k] = j

\* s without the element at place k (splice).
Without(s, k) == [n \in 1..(Len(s) - 1) |-> IF n < k THEN s[n] ELSE s[n + 1]]

\* drain() with the queues fg and bg and the statuses st: next() picks the job,
\* unless both queues are empty.  The pass counters are the ghosts of the queue.

\* Mutant: one overtaking too many.
BackgroundTurnLate(fg, bg) == bg # <<>> /\ (fg = <<>> \/ overtaken > Burst)

BackgroundTurn(fg, bg) == bg # <<>> /\ (fg = <<>> \/ overtaken >= Burst)

DrainBackground(fg, bg, st) ==
  /\ BackgroundTurn(fg, bg)
  /\ running' = Head(bg)
  /\ background' = Tail(bg) /\ foreground' = fg
  /\ overtaken' = 0
  /\ status' = [st EXCEPT ![Head(bg)] = "running"]
  /\ UNCHANGED passed

\* Mutant: a foreground start that overtakes background work is not counted.
DrainForegroundUncounted(fg, bg, st) ==
  /\ ~ BackgroundTurn(fg, bg) /\ fg # <<>>
  /\ running' = Head(fg)
  /\ foreground' = Tail(fg) /\ background' = bg
  /\ overtaken' = 0
  /\ status' = [st EXCEPT ![Head(fg)] = "running"]
  /\ UNCHANGED passed

DrainForeground(fg, bg, st) ==
  /\ ~ BackgroundTurn(fg, bg) /\ fg # <<>>
  /\ running' = Head(fg)
  /\ foreground' = Tail(fg) /\ background' = bg
  /\ overtaken' = IF bg # <<>> THEN overtaken + 1 ELSE 0
  /\ status' = [st EXCEPT ![Head(fg)] = "running"]
  /\ passed' = [j \in Background |-> IF Occurs(j, bg) THEN passed[j] + 1 ELSE passed[j]]

\* With nothing waiting, next() still resets the counter.
DrainNothing(fg, bg, st) ==
  /\ fg = <<>> /\ bg = <<>>
  /\ running' = None
  /\ foreground' = fg /\ background' = bg
  /\ overtaken' = 0
  /\ status' = st
  /\ UNCHANGED passed

Drain(fg, bg, st) ==
  DrainBackground(fg, bg, st) \/ DrainForeground(fg, bg, st) \/ DrainNothing(fg, bg, st)

-----------------------------------------------------------------------------
\* run: the job is pushed onto its queue, and drained at once if the lane is free.
RunForeground(j) ==
  /\ status[j] \in {"idle", "rejected"}
  /\ LET fg == Append(foreground, j)
         st == [status EXCEPT ![j] = "waiting"]
     IN IF running = None
          THEN Drain(fg, background, st)
          ELSE /\ foreground' = fg /\ status' = st
               /\ UNCHANGED <<background, running, overtaken, passed>>
  /\ UNCHANGED place

\* The lane is free only when both queues are empty, so a background job that finds
\* it free starts at once and is passed by nothing.
RunBackground(j) ==
  /\ status[j] \in {"idle", "rejected"}
  /\ place' = [place EXCEPT ![j] = Len(background) + 1]
  /\ LET bg == Append(background, j)
         st == [status EXCEPT ![j] = "waiting"]
     IN IF running = None
          THEN Drain(foreground, bg, st)
          ELSE /\ background' = bg /\ status' = st
               /\ passed' = [passed EXCEPT ![j] = 0]
               /\ UNCHANGED <<foreground, running, overtaken>>

\* Mutant: the next job is picked by the next run() only.
FinishAndIdle ==
  /\ running # None
  /\ running' = None
  /\ status' = [status EXCEPT ![running] = "idle"]
  /\ UNCHANGED <<foreground, background, overtaken, place, passed>>

\* The running job settles, one way or the other: a rejection does not poison the lane.
Finish ==
  /\ running # None
  /\ Drain(foreground, background, [status EXCEPT ![running] = "idle"])
  /\ UNCHANGED place

\* Mutants: the caller is told, and the job stays queued; the wrong queue is spliced.
TimeoutUnspliced(k) ==
  /\ status' = [status EXCEPT ![foreground[k]] = "rejected"]
  /\ UNCHANGED <<foreground, background, running, overtaken, place, passed>>

TimeoutMisplaced(k) ==
  /\ foreground' = Without(background, k)
  /\ status' = [status EXCEPT ![background[k]] = "rejected"]
  /\ UNCHANGED <<background, running, overtaken, place, passed>>

\* waitTimeoutMs: a job still waiting is removed and its caller rejected.  drain()
\* clears the timer of the job it picks.
TimeoutForeground(k) ==
  /\ foreground' = Without(foreground, k)
  /\ status' = [status EXCEPT ![foreground[k]] = "rejected"]
  /\ UNCHANGED <<background, running, overtaken, place, passed>>

TimeoutBackground(k) ==
  /\ background' = Without(background, k)
  /\ status' = [status EXCEPT ![background[k]] = "rejected"]
  /\ UNCHANGED <<foreground, running, overtaken, place, passed>>

Next ==
  \/ \E j \in Foreground : RunForeground(j)
  \/ \E j \in Background : RunBackground(j)
  \/ Finish
  \/ \E k \in DOMAIN foreground : TimeoutForeground(k)
  \/ \E k \in DOMAIN background : TimeoutBackground(k)

\* Every storage call settles in the end.  Nothing is assumed of callers or timers.
Spec == Init /\ [][Next]_vars /\ WF_vars(Finish)

-----------------------------------------------------------------------------
(* Properties *)

\* A background job that joins its queue at place p starts after at most Burst * p
\* foreground jobs have started: request traffic delays it, and cannot starve it,
\* whatever times out around it.
BoundedOvertaking ==
  \A k \in DOMAIN background : passed[background[k]] <= Burst * place[background[k]]

\* The lane idles only when nothing waits: no job is left behind by a run, a settled
\* job or a timeout.
WorkConserving ==
  running = None => foreground = <<>> /\ background = <<>>

\* The caller that was told its wait timed out can retry at once: the job it gave up
\* on is neither queued nor running, and a job is never queued twice.
TimedOutNeverRuns ==
  /\ \A j \in Foreground :
       status[j] = "rejected" => running # j /\ ~ Occurs(j, foreground)
  /\ \A j \in Background :
       status[j] = "rejected" => running # j /\ ~ Occurs(j, background)
  /\ \A k, n \in DOMAIN foreground : foreground[k] = foreground[n] => k = n
  /\ \A k, n \in DOMAIN background : background[k] = background[n] => k = n

\* No job waits for ever, of either priority: it runs, or its wait times out.
EveryJobStarts ==
  \A j \in Job : status[j] = "waiting" ~> status[j] \in {"running", "rejected"}
=============================================================================
