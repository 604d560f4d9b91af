------------------------------ MODULE MCNamespace ------------------------------
(***************************************************************************)
(* Instances of Namespace for TLC: a root directory with a directory a     *)
(* and a file b.  Only files are renamed.                                  *)
(***************************************************************************)
EXTENDS Namespace, TLC

CONSTANTS root, dirA, fileB, n1, n2, a, b, t1, t2

MCIds == {root, dirA, fileB, n1, n2}
MCNames == {a, b}
MCParents == {<<>>, <<a>>}
MCThreads == {t1, t2}
MCFiles == {fileB}
MCTree ==
  (root :> (Dot :> root @@ DotDot :> root @@ a :> dirA @@ b :> fileB)) @@
  (dirA :> (Dot :> dirA @@ DotDot :> root))

OnlyFiles == {"reg"}

MCSymmetry == Permutations(MCThreads) \cup Permutations({n1, n2})
=============================================================================
