---------------------------- MODULE MCPromises ----------------------------
(* Small instances of Promises for TLC.                                    *)
EXTENDS Promises, TLC
=============================================================================
