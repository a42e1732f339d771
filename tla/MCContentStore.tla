--------------------------- MODULE MCContentStore ---------------------------
(* Small instances of ContentStore for TLC. *)
EXTENDS ContentStore, TLC

CONSTANTS m1, m2

MCMeeting == {m1, m2}

\* one meeting without a provider's timestamp, one with
MCStamp == (m1 :> None) @@ (m2 :> 0)

MCItems == {<<m1, "transcript">>, <<m1, "summary">>, <<m2, "summary">>}
=============================================================================
