------------------------------- MODULE MCVolume -------------------------------
(***************************************************************************)
(* Instances of Volume for TLC: an empty container, or one that has a root *)
(* directory with a directory a and a file b.                              *)
(***************************************************************************)
EXTENDS Volume, TLC

CONSTANTS root, dirA, fileB, n1, n2, a, b

MCGuids == {root, dirA, fileB, n1, n2}
MCNames == {a, b}
MCTree ==
  root  :> <<Record(Dot, root), Record(DotDot, root), Record(a, dirA),
             Record(b, fileB)>> @@
  dirA  :> <<Record(Dot, dirA), Record(DotDot, root)>> @@
  fileB :> <<>>
AllOps == {"create", "mkdir", "unlink", "rmdir", "rename"}
=============================================================================
