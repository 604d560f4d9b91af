---------------------------- MODULE MCUploadQueue ----------------------------
(***************************************************************************)
(* Instances of UploadQueue for TLC.  The clients are interchangeable.     *)
(***************************************************************************)
EXTENDS UploadQueue, TLC

CONSTANTS f1, f2, c1, c2

MCFiles   == {f1, f2}
MCStored  == {f2}
MCClients == {c1, c2}
OneClient == {c1}

AllResults == {-1, 1}
NoResults  == {}
Retryable  == {1}

\* The debug heap of the MSVC runtime fills new memory with 0xCD: a non-zero
\* m_exist and a status that is none of the enumerators.
DebugStatus == {"Junk"}
DebugExist  == {TRUE}

ClientSymmetry == Permutations(MCClients)
=============================================================================
