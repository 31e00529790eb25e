----------------------------- MODULE MCTrackpad -----------------------------
(* Small instances of Trackpad: see the .cfg files that name these bounds. *)
EXTENDS Trackpad, TLC

Allow(p, s, f) == ("press" :> p) @@ ("switch" :> s) @@ ("fault" :> f)

Bound_2_1_1 == Allow(2, 1, 1)
Bound_1_1_1 == Allow(1, 1, 1)
Bound_1_1_0 == Allow(1, 1, 0)
Bound_0_0_1 == Allow(0, 0, 1)

Symmetry == Permutations(Users) \cup Permutations(Devices)
=============================================================================
