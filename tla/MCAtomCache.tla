---------------------------- MODULE MCAtomCache ----------------------------
(* A cache that is full with two names, three names to look up.            *)
EXTENDS AtomCache, TLC

Interchangeable == Permutations(Contexts) \cup Permutations(Keys) \cup Permutations(Atoms)

=============================================================================
