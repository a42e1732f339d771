--------------------------- MODULE MeetingArchive ---------------------------
(***************************************************************************)
(* What the content store promises a reader of one tenant that finds the   *)
(* meetings by the index, as the header and the comments of                *)
(* src/backend/src/services/content-store.ts say it: a meeting is shown    *)
(* with the halves stored of it, it grows half by half in either order,    *)
(* it disappears only as a whole, and an identity that retention or a      *)
(* purge took away is not shown again while it is barred. ContentStore is  *)
(* shown to implement this specification.                                  *)
(***************************************************************************)
CONSTANTS
  Meeting,  \* the provider's meeting ids of one (source, address)
  Half      \* the two parts of a meeting: transcript and summary

VARIABLES
  shown,    \* the halves of each meeting the index shows (list, then get of a row); {}: none
  barred    \* the identities a replay must not bring back

vars == <<shown, barred>>

TypeOK == shown \in [Meeting -> SUBSET Half] /\ barred \subseteq Meeting

Init == shown = [m \in Meeting |-> {}] /\ barred = {}

\* shown without the meetings of D
Without(D) == [m \in Meeting |-> IF m \in D THEN {} ELSE shown[m]]

\* A meeting that is not barred appears or grows; the caps may drop others.
Grow(m, halves, D) ==
  /\ m \notin barred \cup D
  /\ shown' = [Without(D) EXCEPT ![m] = shown[m] \cup halves]
  /\ UNCHANGED barred

\* Meetings disappear, and the bars are set anew: only what is not shown is barred.
Drop(D, B) ==
  /\ shown' = Without(D)
  /\ barred' = B
  /\ \A m \in B : shown'[m] = {}

Next ==
  \/ \E m \in Meeting, halves \in SUBSET Half, D \in SUBSET Meeting : Grow(m, halves, D)
  \/ \E D, B \in SUBSET Meeting : Drop(D, B)

Spec == Init /\ [][Next]_vars
=============================================================================
