---------------------------- MODULE MCCoordinator ----------------------------
(* Small instances of Coordinator for TLC: the liveness property leaves no   *)
(* room for symmetry, and three transports with two writers do without.      *)
EXTENDS Coordinator
=============================================================================
