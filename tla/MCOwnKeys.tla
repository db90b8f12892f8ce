------------------------------ MODULE MCOwnKeys ------------------------------
(* Lists of names that just fit, or just do not, into a buffer that was    *)
(* grown for a shorter one.                                                *)
EXTENDS OwnKeys, TLC

Sizes == <<1, 2, 3, 5, 11, 23, 47, 95>>
Lists == 1..Len(Sizes)
Interchangeable == Permutations(Buffers)

(* What is left in a buffer that nothing refers to makes no difference.    *)
Reachable ==
    <<scratch, calls, last, [b \in Buffers \ Free |-> <<size[b], holds[b]>>]>>

=============================================================================
