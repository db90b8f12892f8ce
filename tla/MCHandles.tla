----------------------------- MODULE MCHandles -----------------------------
(* Two contexts, a handful of handles: model values, interchangeable.      *)
EXTENDS Handles, TLC

Interchangeable == Permutations(Contexts) \cup Permutations(Handles)

=============================================================================
