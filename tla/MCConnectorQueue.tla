-------------------------- MODULE MCConnectorQueue --------------------------
(* Small instances of ConnectorQueue for TLC. *)
EXTENDS ConnectorQueue, TLC

CONSTANTS i1, i2, d1, d2, d3

\* d1 and d3 are two deliveries of one identity (a provider's retry).
MCItemOf == (d1 :> i1) @@ (d2 :> i2) @@ (d3 :> i1)

\* min(2^n, 2) ticks
MCBackoff == (0 :> 1) @@ (1 :> 2)

\* two deliveries of one identity
MCOneItem == (d1 :> i1) @@ (d3 :> i1)

BatchSymmetry == Permutations(Batch)
=============================================================================
