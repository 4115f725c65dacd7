---------------------------- MODULE MCConfigFlow ----------------------------
(* Small instances of ConfigFlow for TLC: two accounts with a device each,   *)
(* and one with both.                                                        *)
EXTENDS ConfigFlow, TLC

CONSTANTS d1, d2, one, other, both

ThreeAccounts == {one, other, both}
WhoOwnsWhat == one :> {d1} @@ other :> {d2} @@ both :> {d1, d2}

Symmetry == Permutations(Flows)
=============================================================================
