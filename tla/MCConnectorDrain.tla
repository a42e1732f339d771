-------------------------- MODULE MCConnectorDrain --------------------------
(* Small instances of ConnectorDrain for TLC. *)
EXTENDS ConnectorDrain, TLC

CONSTANTS a1, a2, k1, k2, k3

\* two kicks of one address, and one of another that competes for the slots
MCAddressOf == (k1 :> a1) @@ (k2 :> a1) @@ (k3 :> a2)

\* three kicks of one address
MCOneAddress == (k1 :> a1) @@ (k2 :> a1) @@ (k3 :> a1)
=============================================================================
