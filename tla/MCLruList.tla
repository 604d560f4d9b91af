------------------------------ MODULE MCLruList ------------------------------
(***************************************************************************)
(* Instances of LruList for TLC: two threads and two files, a cell for     *)
(* each, and room for one more.                                            *)
(***************************************************************************)
EXTENDS LruList, TLC

CONSTANTS f1, f2, t1, t2

MCFiles == {f1, f2}
MCThreads == {t1, t2}
MCCells == << [owner |-> f1, st |-> "Dirty"], [owner |-> f2, st |-> "Dirty"] >>

MCSymmetry == Permutations(MCThreads)
=============================================================================
