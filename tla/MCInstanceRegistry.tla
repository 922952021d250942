------------------------- MODULE MCInstanceRegistry -------------------------
(* Instances of InstanceRegistry for TLC. *)
EXTENDS InstanceRegistry, TLC

CONSTANTS p1, p2, f1, f2, i1, i2, r1, r2

TwoPaths == {p1, p2}
OnePath  == {p1}
Apart    == p1 :> f1 @@ p2 :> f2
Single   == p1 :> f1
TwoIds   == {i1, i2}
TwoRows  == {r1, r2}
\* Paths change places together with the files they name.
Swapped  == p1 :> p2 @@ p2 :> p1 @@ f1 :> f2 @@ f2 :> f1
Symmetry == Permutations(Ids) \cup Permutations(Rows) \cup {Swapped}
=============================================================================
