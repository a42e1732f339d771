---------------------------- MODULE MCFetchWorker ----------------------------
(* Small instances of FetchWorker for TLC. *)
EXTENDS FetchWorker, TLC

CONSTANTS a1, a2, i1, i2, i3

\* two items of one address, and one of another that competes for the slots
MCAddressOf == (i1 :> a1) @@ (i2 :> a1) @@ (i3 :> a2)
=============================================================================
