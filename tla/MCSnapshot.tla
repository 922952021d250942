----------------------------- MODULE MCSnapshot -----------------------------
(* Instances of Snapshot for TLC. *)
EXTENDS Snapshot, TLC

CONSTANTS r1, r2, r3

ThreeRows == {r1, r2, r3}
=============================================================================
