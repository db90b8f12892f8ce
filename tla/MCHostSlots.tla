---------------------------- MODULE MCHostSlots ----------------------------
(* A few objects and host values, each kind interchangeable.               *)
EXTENDS HostSlots, TLC

Interchangeable == Permutations(Objects) \cup Permutations(Values)

=============================================================================
