------------------------------ MODULE MCHandle ------------------------------
(* Small instances of DatabaseHandle.                                      *)
EXTENDS DatabaseHandle, TLC

Pools == 1..4
Alike == Permutations(Reader) \cup Permutations(FileOp)
=============================================================================
