----------------------------- MODULE MCBlockStore -----------------------------
(***************************************************************************)
(* Instances of BlockStore for TLC.                                        *)
(***************************************************************************)
EXTENDS BlockStore, TLC

CONSTANTS f1, f2, t1, t2, x, y

TwoFiles == {f1, f2}
OneFile  == {f1}
OneThread  == {t1}
TwoThreads == {t1, t2}
OneValue  == {x}
TwoValues == {x, y}

\* Files of one block in storage and new ones; a file of three blocks, so that
\* a write of all of it has a block that is not downloaded.
OldAndNew == [f \in TwoFiles |-> IF f = f1 THEN 1 ELSE 0]
AllOld    == [f \in TwoFiles |-> 1]
OneOfOne  == [f \in OneFile |-> 1]
OneOfThree == [f \in OneFile |-> 3]
OneNew    == [f \in OneFile |-> 0]

AllOps == {"read", "write", "trunc"}
WriteOp == {"write"}
TruncOp == {"trunc"}
NoWrite == {"read", "trunc"}

AllResults == {-1, 1}
Retryable  == {1}
NoResults  == {}

ThreadSymmetry == Permutations(TwoThreads)
=============================================================================
