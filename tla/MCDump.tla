------------------------------- MODULE MCDump -------------------------------
(* Memory cells are interchangeable.                                       *)
EXTENDS Dump, TLC

Interchangeable == Permutations(Addresses)

=============================================================================
