----------------------------- MODULE MCRefresh -----------------------------
(* Two entities that write: what it takes for a queue at the lock.            *)
EXTENDS Refresh
=============================================================================
