---------------------------- MODULE DeliveryBook ----------------------------
(***************************************************************************)
(* What the connector queue promises the webhook routes, the drain and the *)
(* user, as the comments of src/backend/src/services/connector-queue.ts    *)
(* say it, without batches, lock or storage: an identity comes in from a   *)
(* delivery that was offered and not withdrawn, it waits until an          *)
(* operation takes it away or gives it up, giving up is one step, and what *)
(* a 202 promised is waiting or given up until an operation removes it.    *)
(* ConnectorQueue is shown to implement this specification.                *)
(***************************************************************************)
CONSTANT Item  \* the identities kind:meetingId

VARIABLES
  offered,   \* identities with a delivery accepted and neither stored nor superseded
  waiting,   \* identities in the queue
  failed,    \* identities given up: in the dead letters, and not queued
  promised   \* identities answered 202 and not removed since

vars == <<offered, waiting, failed, promised>>

TypeOK ==
  /\ offered \subseteq Item /\ waiting \subseteq Item
  /\ failed \subseteq Item /\ promised \subseteq Item

Init == offered = {} /\ waiting = {} /\ failed = {} /\ promised = {}

\* A delivery arrives.
Offer(i) ==
  /\ offered' = offered \cup {i}
  /\ UNCHANGED <<waiting, failed, promised>>

\* Deliveries are superseded by a clear, refused, or lost with the process.
Withdraw(S) ==
  /\ offered' = offered \ S
  /\ UNCHANGED <<waiting, failed, promised>>

\* An operation takes effect: what is new was offered, what is given up was waiting,
\* what goes is gone, and with it what was promised of it.
Take(new, givenUp, gone) ==
  /\ new \subseteq offered /\ givenUp \subseteq waiting
  /\ waiting' = (waiting \ (givenUp \cup gone)) \cup new
  /\ failed' = (failed \cup givenUp) \ (gone \cup new)
  /\ promised' = promised \cap (waiting' \cup failed')
  /\ UNCHANGED offered

\* A batch is answered: the promise is made for what was offered, and waits.
Answer(S, settled) ==
  /\ S \subseteq offered \cap waiting
  /\ promised' = promised \cup S
  /\ offered' = offered \ settled
  /\ UNCHANGED <<waiting, failed>>

Next ==
  \/ \E i \in Item : Offer(i)
  \/ \E S \in SUBSET Item : Withdraw(S)
  \/ \E new, givenUp, gone \in SUBSET Item : Take(new, givenUp, gone)
  \/ \E S, settled \in SUBSET Item : Answer(S, settled)

Spec == Init /\ [][Next]_vars
=============================================================================
