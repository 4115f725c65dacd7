--------------------------- MODULE MCBleTransport ---------------------------
(* Instances of BleTransport for TLC. *)
EXTENDS BleImplementsCoordinator, TLC

\* Writers are interchangeable, and so are client names.
Symmetry == Permutations(Writers) \cup Permutations(Clients)
=============================================================================
