-------------------------- MODULE MCManagedInstance --------------------------
(* Instances of ManagedInstance for TLC. *)
EXTENDS ManagedInstance, TLC

CONSTANTS c1, c2

TwoConns == {c1, c2}
First    == {c1}
Second   == {c2}
None     == {}
Symmetry == Permutations(Conns)

AnyFailure == {"io", "runtime", "stale"}
NoFailure  == {}
=============================================================================
