---------------------------- MODULE NamespaceProofs ----------------------------
(***************************************************************************)
(* Proofs about Namespace, for any guids, names, threads and trees.        *)
(*                                                                         *)
(* A link count is changed first and the entry it stands for later, both   *)
(* while the directory's inner_f_mutex is held, but not the mutex of any   *)
(* other directory that names the same file.  The proof keeps what the     *)
(* holder of inner_f_mutex has found out (Holding) and that nobody else    *)
(* knows a guid before create_dir has entered it (Hidden).                 *)
(*                                                                         *)
(* Of calls that follow one another it shows more: that they meet no null  *)
(* pointer (AloneInv), and that they keep the tree.  Between two steps of  *)
(* a removal or of create_dir there is a tree of names once the entries    *)
(* are set aside that the call is about to remove or to reach (TreeInv).   *)
(***************************************************************************)
EXTENDS Namespace, FiniteSetTheorems, SequenceTheorems, WellFoundedInduction,
        TLAPS

AllNames == Names \cup {Dot, DotDot}

\* A family of directories.
IsTree(tree) ==
  /\ DOMAIN tree = Ids
  /\ \A d \in Ids : /\ DOMAIN tree[d] \subseteq AllNames
                    /\ \A nm \in DOMAIN tree[d] : tree[d][nm] \in Ids

LEMMA LinksFinite ==
  ASSUME NEW tree, IsTree(tree), NEW n
  PROVE  IsFiniteSet(Links(n, tree)) /\ Cardinality(Links(n, tree)) \in Nat
<1>1. IsFiniteSet(AllNames)
  <2>1. IsFiniteSet({Dot}) /\ IsFiniteSet({DotDot})
    BY FS_Singleton
  <2>2. IsFiniteSet({Dot} \cup {DotDot})
    BY <2>1, FS_Union
  <2>3. AllNames = Names \cup ({Dot} \cup {DotDot})
    BY DEF AllNames
  <2>4. IsFiniteSet(Names \cup ({Dot} \cup {DotDot}))
    BY <2>2, FS_Union, NamespaceAssumption
  <2> QED
    BY <2>3, <2>4
<1>2. IsFiniteSet(Ids \X AllNames)
  BY <1>1, FS_Product, NamespaceAssumption
<1>3. Links(n, tree) \in SUBSET (Ids \X AllNames)
  BY DEF Links, IsTree, AllNames
<1> QED
  BY <1>2, <1>3, FS_Subset, FS_CardinalityType

\* One more entry, under a name that was free, is one more link of its file
\* and of no other.
LEMMA AddLink ==
  ASSUME NEW tree, IsTree(tree), NEW new, DOMAIN new = Ids,
         NEW d \in Ids, NEW nm \in AllNames, nm \notin DOMAIN tree[d],
         NEW n \in Ids,
         \A e \in Ids \ {d} : new[e] = tree[e],
         new[d] = [x \in DOMAIN tree[d] \cup {nm} |->
                     IF x = nm THEN n ELSE tree[d][x]]
  PROVE  /\ IsTree(new)
         /\ Links(n, new) = Links(n, tree) \cup {<<d, nm>>}
         /\ Cardinality(Links(n, new)) = Cardinality(Links(n, tree)) + 1
         /\ \A m \in Ids \ {n} : Links(m, new) = Links(m, tree)
<1>1. /\ DOMAIN new[d] = DOMAIN tree[d] \cup {nm}
      /\ new[d][nm] = n
      /\ \A x \in DOMAIN tree[d] : new[d][x] = tree[d][x]
  OBVIOUS
<1>2. IsTree(new)
  BY <1>1 DEF IsTree
<1>3. ASSUME NEW m \in Ids, NEW e \in Ids, NEW x \in AllNames
      PROVE  <<e, x>> \in Links(m, new)
               <=> <<e, x>> \in Links(m, tree) \/ (m = n /\ e = d /\ x = nm)
  BY <1>1 DEF Links, IsTree, AllNames
<1>4. \A m : \A t : t \in {tree, new} => Links(m, t) \subseteq Ids \X AllNames
  BY DEF Links, AllNames, IsTree
<1>5. Links(n, new) = Links(n, tree) \cup {<<d, nm>>}
  BY <1>3, <1>4
<1>6. ASSUME NEW m \in Ids \ {n}
      PROVE  Links(m, new) = Links(m, tree)
  <2>1. \A e \in Ids, x \in AllNames :
          <<e, x>> \in Links(m, new) <=> <<e, x>> \in Links(m, tree)
    BY <1>3
  <2>2. Links(m, new) \subseteq Ids \X AllNames
        /\ Links(m, tree) \subseteq Ids \X AllNames
    BY <1>4
  <2> QED
    BY <2>1, <2>2
<1>7. <<d, nm>> \notin Links(n, tree)
  BY DEF Links
<1>8. IsFiniteSet(Links(n, tree))
  BY LinksFinite
<1>9. Cardinality(Links(n, new)) = Cardinality(Links(n, tree)) + 1
  BY <1>5, <1>7, <1>8, FS_AddElement
<1> QED
  BY <1>2, <1>5, <1>6, <1>9

\* An entry removed is a link less for the file it named.
LEMMA DropLink ==
  ASSUME NEW tree, IsTree(tree), NEW new, DOMAIN new = Ids,
         NEW d \in Ids, NEW nm \in DOMAIN tree[d],
         \A e \in Ids \ {d} : new[e] = tree[e],
         new[d] = [x \in DOMAIN tree[d] \ {nm} |-> tree[d][x]]
  PROVE  /\ IsTree(new)
         /\ Cardinality(Links(tree[d][nm], tree)) \in Nat \ {0}
         /\ Cardinality(Links(tree[d][nm], new))
              = Cardinality(Links(tree[d][nm], tree)) - 1
         /\ \A m \in Ids \ {tree[d][nm]} : Links(m, new) = Links(m, tree)
<1> DEFINE n == tree[d][nm]
<1>1. /\ DOMAIN new[d] = DOMAIN tree[d] \ {nm}
      /\ \A x \in DOMAIN new[d] : new[d][x] = tree[d][x]
      /\ n \in Ids /\ nm \in AllNames
  BY DEF IsTree
<1>2. IsTree(new)
  BY <1>1 DEF IsTree
<1> HIDE DEF n
<1>3. ASSUME NEW m \in Ids, NEW e \in Ids, NEW x \in AllNames
      PROVE  <<e, x>> \in Links(m, new)
               <=> <<e, x>> \in Links(m, tree) /\ ~(e = d /\ x = nm)
  BY <1>1 DEF Links, IsTree, AllNames
<1>4. \A m : \A t : t \in {tree, new} => Links(m, t) \subseteq Ids \X AllNames
  BY DEF Links, AllNames, IsTree
<1>5. Links(n, new) = Links(n, tree) \ {<<d, nm>>}
  BY <1>1, <1>3, <1>4
<1>6. \A m \in Ids \ {n} : <<d, nm>> \notin Links(m, tree)
  BY DEF Links, n
<1>7. ASSUME NEW m \in Ids \ {n}
      PROVE  Links(m, new) = Links(m, tree)
  <2>1. \A e \in Ids, x \in AllNames :
          <<e, x>> \in Links(m, new) <=> <<e, x>> \in Links(m, tree)
    BY <1>3, <1>6
  <2>2. Links(m, new) \subseteq Ids \X AllNames
        /\ Links(m, tree) \subseteq Ids \X AllNames
    BY <1>4
  <2> QED
    BY <2>1, <2>2
<1>8. <<d, nm>> \in Links(n, tree)
  BY <1>1 DEF Links, n, IsTree, AllNames
<1>9. Cardinality(Links(n, tree)) \in Nat /\ Cardinality(Links(n, new)) \in Nat
  BY <1>2, LinksFinite
<1>10. IsFiniteSet(Links(n, tree))
  BY LinksFinite
<1>11. Cardinality(Links(n, new)) = Cardinality(Links(n, tree)) - 1
  BY <1>5, <1>8, <1>10, FS_RemoveElement
<1>12. Cardinality(Links(n, tree)) # 0
  BY <1>8, <1>10, FS_EmptySet
<1> QED
  BY <1>2, <1>7, <1>9, <1>11, <1>12 DEF n

\* Trees with the same entries have the same links.
LEMMA SameLinks ==
  ASSUME NEW tree, NEW new, DOMAIN new = DOMAIN tree, NEW n,
         \A d \in DOMAIN tree : new[d] = tree[d]
  PROVE  Links(n, new) = Links(n, tree)
  BY DEF Links

-----------------------------------------------------------------------------
(***************************************************************************)
(* The inductive invariant.                                                *)
(***************************************************************************)
Ops == {"create", "mkdir", "unlink", "rmdir", "rename"}

Calls == [op : Ops \cup {"none"}, p : Seq(Names), nm : AllNames,
          q : Seq(Names), qn : AllNames]

LocalsOK ==
  /\ call \in [Threads -> Calls]
  /\ todo \in [Threads -> Seq(Seq(Names))]
  /\ work \in [Threads -> Seq(Ids \X AllNames)]

\* The paths a call parses.
Paths(op) == IF op \in {"rmdir", "rename"} THEN 2 ELSE 1

\* What the place of a thread says of its local variables.
Shape(t) ==
  /\ pc[t] = "idle" => found[t] = <<>>
  /\ pc[t] \in {"get", "find"} =>
       /\ call[t].op \in Ops
       /\ todo[t] # <<>>
       /\ Len(found[t]) + Len(todo[t]) = Paths(call[t].op)
  /\ pc[t] = "find" => Head(todo[t]) # <<>>
  /\ pc[t] \in {"create", "mkdir", "linkup", "unlink"} => Len(found[t]) = 1
  /\ pc[t] \in {"rmdir", "rename", "findother", "add", "linking"} =>
       Len(found[t]) = 2
  /\ pc[t] \in {"add", "linking"} => uid[t] # Null
  /\ pc[t] \in {"remove", "unlinking"} => work[t] # <<>>

\* What the holder of an inner_f_mutex has found out about the directory.
Holding(t) ==
  /\ pc[t] = "linkup" =>
       /\ Parent(t) \in Ids
       /\ dlock[Parent(t)] = t
       /\ call[t].nm \notin DOMAIN entries[Parent(t)]
  /\ pc[t] = "linking" =>
       /\ Other(t) \in Ids
       /\ dlock[Other(t)] = t
       /\ call[t].qn \notin DOMAIN entries[Other(t)]
  /\ pc[t] = "unlinking" =>
       /\ dlock[RmDir(t)] = t
       /\ RmName(t) \in DOMAIN entries[RmDir(t)]

Refers(t, n) ==
  \/ at[t] = n
  \/ \E i \in DOMAIN found[t] : found[t][i] = n
  \/ \E i \in DOMAIN work[t] : work[t][i][1] = n

\* No path leads to n and no callback is at work on it.
Hidden(n) ==
  /\ n # Root
  /\ dlock[n] = NoOne
  /\ \A t \in Threads : ~Refers(t, n)
  /\ \A d \in Ids \ {n} : \A nm \in DOMAIN entries[d] : entries[d][nm] # n

\* A guid that is not in use, and a directory create_dir has not entered yet.
Untouched(n) ==
  /\ ~m_exist[n]
  /\ DOMAIN entries[n] = {}
  /\ Hidden(n)
  /\ \A t \in Threads : uid[t] # n

Fresh(t, n) ==
  /\ n \in Ids
  /\ kind[n] = "dir"
  /\ entries[n] = [nm \in {Dot} |-> n]
  /\ Hidden(n)
  /\ \A u \in Threads \ {t} : uid[u] # n

ExistIsLinked == \A n \in Ids : m_exist[n] => nlink[n] > 0

IInv ==
  /\ TypeOK
  /\ LocalsOK
  /\ \A t \in Threads : Shape(t) /\ Holding(t)
  /\ \A t \in Threads : pc[t] = "linkup" => Fresh(t, uid[t])
  /\ \A n \in Ids : kind[n] = "none" => Untouched(n)
  /\ LinkCount
  /\ ExistIsLinked
  /\ kind[Root] # "none"

-----------------------------------------------------------------------------
(***************************************************************************)
(* Steps that change no link.                                              *)
(***************************************************************************)
\* A step of t leaves the local variables of the others alone, ...
Others(t) ==
  \A u \in Threads \ {t} :
    /\ pc'[u] = pc[u] /\ call'[u] = call[u] /\ todo'[u] = todo[u]
    /\ at'[u] = at[u] /\ found'[u] = found[u] /\ uid'[u] = uid[u]
    /\ work'[u] = work[u]

\* ... and the directories whose inner_f_mutex they hold.
Locked(t) ==
  \A d \in Ids : dlock[d] \notin {NoOne, t} =>
    dlock'[d] = dlock[d] /\ entries'[d] = entries[d]

LEMMA Frame ==
  ASSUME IInv, NEW t \in Threads, Others(t), Locked(t)
  PROVE  \A u \in Threads \ {t} : Shape(u)' /\ Holding(u)'
<1> SUFFICES ASSUME NEW u \in Threads \ {t}
             PROVE  Shape(u)' /\ Holding(u)'
  OBVIOUS
<1>1. u \in Threads /\ u \notin {NoOne, t}
  BY NamespaceAssumption
<1>2. Shape(u) /\ Holding(u)
  BY DEF IInv
<1>3. Shape(u)'
  BY <1>2 DEF Shape, Others
<1>4. pc[u] = "unlinking" => RmDir(u) \in Ids
  BY <1>1, <1>2 DEF IInv, LocalsOK, Shape, RmDir
<1>5. /\ Parent(u)' = Parent(u) /\ Other(u)' = Other(u)
      /\ RmDir(u)' = RmDir(u) /\ RmName(u)' = RmName(u)
  BY DEF Others, Parent, Other, RmDir, RmName
<1>6. \A d \in Ids : dlock[d] = u =>
        dlock'[d] = dlock[d] /\ entries'[d] = entries[d]
  BY <1>1 DEF Locked
<1>7. Holding(u)'
  BY <1>1, <1>2, <1>4, <1>5, <1>6 DEF Holding, Others
<1> QED
  BY <1>3, <1>7

LEMMA Quiet ==
  ASSUME IInv, NEW t \in Threads, Others(t), Locked(t),
         TypeOK', LocalsOK',
         UNCHANGED <<kind, nlink, m_exist, entries>>,
         Shape(t)', Holding(t)', pc'[t] # "linkup",
         \A n \in Ids : Hidden(n) => ~Refers(t, n)' /\ dlock'[n] = NoOne,
         \A n \in Ids : Hidden(n) /\ uid'[t] = n => uid[t] = n
  PROVE  IInv'
<1>1. \A u \in Threads : Shape(u)' /\ Holding(u)'
  BY Frame
<1>2. ASSUME NEW n \in Ids, Hidden(n)
      PROVE  Hidden(n)'
  <2>1. \A u \in Threads \ {t} : ~Refers(u, n)'
    BY <1>2 DEF Hidden, Refers, Others
  <2> QED
    BY <1>2, <2>1 DEF Hidden
<1>3. ASSUME NEW u \in Threads, pc'[u] = "linkup"
      PROVE  Fresh(u, uid[u])'
  <2>1. u # t /\ uid'[u] = uid[u] /\ Fresh(u, uid[u])
    BY <1>3 DEF Others, IInv
  <2>2. Hidden(uid[u]) /\ uid[u] \in Ids
    BY <2>1 DEF Fresh
  <2>3. \A w \in Threads \ {u} : uid'[w] # uid[u]
    BY <2>1, <2>2 DEF Fresh, Others
  <2> QED
    BY <1>2, <2>1, <2>2, <2>3 DEF Fresh
<1>4. ASSUME NEW n \in Ids, kind'[n] = "none"
      PROVE  Untouched(n)'
  <2>1. Untouched(n)
    BY <1>4 DEF IInv
  <2>2. \A u \in Threads : uid'[u] # n
    BY <2>1 DEF Untouched, Others
  <2> QED
    BY <1>2, <2>1, <2>2 DEF Untouched
<1>5. LinkCount' /\ ExistIsLinked' /\ kind'[Root] # "none"
  BY DEF IInv, LinkCount, ExistIsLinked, Links
<1> QED
  BY <1>1, <1>3, <1>4, <1>5 DEF IInv

\* A path is dropped and what it leads to is noted.
LEMMA NextPath ==
  ASSUME NEW S, NEW s \in Seq(S), s # <<>>,
         NEW T, NEW f \in Seq(T), NEW e \in T
  PROVE  /\ Tail(s) \in Seq(S)
         /\ Len(s) # 1 => Tail(s) # <<>>
         /\ Append(f, e) \in Seq(T)
         /\ Len(Append(f, e)) = Len(f) + 1
         /\ Len(Append(f, e)) + Len(Tail(s)) = Len(f) + Len(s)
<1>1. /\ Len(s) \in Nat /\ Len(f) \in Nat
      /\ Tail(s) \in Seq(S) /\ Len(Tail(s)) = Len(s) - 1
      /\ Append(f, e) \in Seq(T) /\ Len(Append(f, e)) = Len(f) + 1
  BY HeadTailProperties, AppendProperties, LenProperties
<1>2. Len(s) # 1 => Len(Tail(s)) # 0
  BY <1>1
<1>3. Len(Append(f, e)) + Len(Tail(s)) = Len(f) + Len(s)
  BY <1>1
<1>4. Len(<<>>) = 0
  BY EmptySeq
<1> QED
  BY <1>1, <1>2, <1>3, <1>4

\* The typing of a thread's local variables, one thread at a time.
LEMMA LocalTypes ==
  ASSUME IInv, NEW t \in Threads
  PROVE  /\ call[t] \in Calls
         /\ todo[t] \in Seq(Seq(Names))
         /\ work[t] \in Seq(Ids \X AllNames)
         /\ at[t] \in Ids
         /\ found[t] \in Seq(Ids \cup {Null})
         /\ uid[t] \in Ids \cup {Null}
         /\ Shape(t) /\ Holding(t)
  BY DEF IInv, TypeOK, LocalsOK

\* A path handled: its directory is known, and the next path or the call
\* itself follows.
LEMMA AfterParsed ==
  ASSUME IInv, NEW t \in Threads, pc[t] \in {"get", "find"},
         NEW dir \in {at[t], Null}, Parsed(t, dir),
         UNCHANGED <<fileVars, call, uid, work, ops, raced>>
  PROVE  IInv'
<1>1. /\ call[t] \in Calls /\ todo[t] \in Seq(Seq(Names))
      /\ found[t] \in Seq(Ids \cup {Null}) /\ at[t] \in Ids
      /\ Shape(t) /\ Root \in Ids /\ dir \in Ids \cup {Null}
  BY LocalTypes, NamespaceAssumption
<1>2. /\ found' = [found EXCEPT ![t] = Append(@, dir)]
      /\ todo' = [todo EXCEPT ![t] = Tail(@)]
      /\ at' = [at EXCEPT ![t] = Root]
      /\ pc' = [pc EXCEPT ![t] = IF Len(todo[t]) = 1 THEN call[t].op
                                                     ELSE "get"]
  BY DEF Parsed, Goto
<1>3. /\ call[t].op \in Ops /\ todo[t] # <<>>
      /\ Len(found[t]) + Len(todo[t]) = Paths(call[t].op)
  BY <1>1 DEF Shape
<1>4. /\ Tail(todo[t]) \in Seq(Seq(Names))
      /\ Len(todo[t]) # 1 => Tail(todo[t]) # <<>>
      /\ Append(found[t], dir) \in Seq(Ids \cup {Null})
      /\ Len(Append(found[t], dir)) = Len(found[t]) + 1
      /\ Len(Append(found[t], dir)) + Len(Tail(todo[t]))
           = Paths(call[t].op)
  <2>1. \A s \in Seq(Seq(Names)), f \in Seq(Ids \cup {Null}),
           e \in Ids \cup {Null} :
          s # <<>> =>
            /\ Tail(s) \in Seq(Seq(Names))
            /\ Len(s) # 1 => Tail(s) # <<>>
            /\ Append(f, e) \in Seq(Ids \cup {Null})
            /\ Len(Append(f, e)) = Len(f) + 1
            /\ Len(Append(f, e)) + Len(Tail(s)) = Len(f) + Len(s)
    BY NextPath
  <2> QED
    BY <1>1, <1>3, <2>1
<1>5. Others(t) /\ Locked(t)
  BY <1>2 DEF Others, Locked, fileVars
<1>6. /\ pc' \in [Threads -> Ops \cup {"get"} \cup
                   {pc[u] : u \in Threads}]
      /\ pc'[t] \in Ops \cup {"get"}
  BY <1>2, <1>3 DEF IInv, TypeOK
<1>7. TypeOK'
  BY <1>1, <1>2, <1>3, <1>4 DEF IInv, TypeOK, fileVars, Ops
<1>8. LocalsOK'
  BY <1>1, <1>2, <1>4 DEF IInv, LocalsOK
<1>9. Shape(t)'
  <2>1. CASE Len(todo[t]) = 1
    BY <1>1, <1>2, <1>3, <1>4, <2>1 DEF Shape, Ops, Paths, IInv, TypeOK
  <2>2. CASE Len(todo[t]) # 1
    <3>1. /\ pc'[t] = "get" /\ call'[t] = call[t]
          /\ todo'[t] = Tail(todo[t])
          /\ found'[t] = Append(found[t], dir)
      BY <1>2, <2>2 DEF IInv, TypeOK, LocalsOK
    <3> QED
      BY <1>3, <1>4, <2>2, <3>1 DEF Shape
  <2> QED
    BY <2>1, <2>2
<1>10. Holding(t)'
  BY <1>6 DEF Holding, Ops
<1>11. ASSUME NEW n \in Ids, Hidden(n)
       PROVE  ~Refers(t, n)'
  <2>1. ~Refers(t, n) /\ n # Root /\ n # Null
    BY <1>11, NamespaceAssumption DEF Hidden
  <2>2. dir # n
    BY <2>1 DEF Refers
  <2>3. /\ at'[t] = Root /\ found'[t] = Append(found[t], dir)
        /\ work'[t] = work[t]
    BY <1>2 DEF IInv, TypeOK
  <2>4. \A i \in DOMAIN Append(found[t], dir) :
          Append(found[t], dir)[i] # n
    BY <1>1, <2>1, <2>2 DEF Refers
  <2> QED
    BY <2>1, <2>3, <2>4 DEF Refers
<1> QED
  BY <1>5, <1>7, <1>8, <1>9, <1>10, <1>11, <1>6, Quiet
  DEF fileVars, Ops, Hidden

LEMMA StepBegin ==
  ASSUME IInv, NEW t \in Threads, BeginCall(t)
  PROVE  IInv'
<1>1. PICK c \in Calls, paths \in Seq(Seq(Names)) :
        /\ Begin(t, c, paths)
        /\ c.op \in Ops
        /\ Len(paths) = Paths(c.op)
        /\ paths # <<>>
  <2> SUFFICES ASSUME NEW p \in Seq(Names), NEW nm \in Names,
                      NEW q \in Seq(Names), NEW qn \in Names,
                      \/ azs_create(t, p, nm)
                      \/ azs_mkdir(t, p, nm)
                      \/ azs_unlink(t, p, nm)
                      \/ azs_rmdir(t, p, nm)
                      \/ azs_rename(t, p, nm, q, qn)
               PROVE  \E c \in Calls, paths \in Seq(Seq(Names)) :
                        /\ Begin(t, c, paths)
                        /\ c.op \in Ops
                        /\ Len(paths) = Paths(c.op)
                        /\ paths # <<>>
    BY NamespaceAssumption DEF BeginCall
  <2>1. /\ nm \in AllNames /\ qn \in AllNames /\ Dot \in AllNames
        /\ <<>> \in Seq(Names) /\ Append(p, nm) \in Seq(Names)
    BY DEF AllNames
  <2>2. CASE azs_create(t, p, nm)
    <3> DEFINE c == [NoCall EXCEPT !.op = "create", !.p = p, !.nm = nm]
    <3>1. c \in Calls /\ c.op = "create"
      BY <2>1 DEF NoCall, Calls, Ops
    <3>2. Begin(t, c, <<p>>)
      BY <2>2 DEF azs_create
    <3> HIDE DEF c
    <3>3. <<p>> \in Seq(Seq(Names))
      BY <2>1
    <3> QED
      BY <3>1, <3>2, <3>3 DEF Ops, Paths
  <2>3. CASE azs_mkdir(t, p, nm)
    <3> DEFINE c == [NoCall EXCEPT !.op = "mkdir", !.p = p, !.nm = nm]
    <3>1. c \in Calls /\ c.op = "mkdir"
      BY <2>1 DEF NoCall, Calls, Ops
    <3>2. Begin(t, c, <<p>>)
      BY <2>3 DEF azs_mkdir
    <3> HIDE DEF c
    <3>3. <<p>> \in Seq(Seq(Names))
      BY <2>1
    <3> QED
      BY <3>1, <3>2, <3>3 DEF Ops, Paths
  <2>4. CASE azs_unlink(t, p, nm)
    <3> DEFINE c == [NoCall EXCEPT !.op = "unlink", !.p = p, !.nm = nm]
    <3>1. c \in Calls /\ c.op = "unlink"
      BY <2>1 DEF NoCall, Calls, Ops
    <3>2. Begin(t, c, <<p>>)
      BY <2>4 DEF azs_unlink
    <3> HIDE DEF c
    <3>3. <<p>> \in Seq(Seq(Names))
      BY <2>1
    <3> QED
      BY <3>1, <3>2, <3>3 DEF Ops, Paths
  <2>5. CASE azs_rmdir(t, p, nm)
    <3> DEFINE c == [NoCall EXCEPT !.op = "rmdir", !.p = p, !.nm = nm]
    <3>1. c \in Calls /\ c.op = "rmdir"
      BY <2>1 DEF NoCall, Calls, Ops
    <3>2. Begin(t, c, <<p, Append(p, nm)>>)
      BY <2>5 DEF azs_rmdir
    <3> HIDE DEF c
    <3>3. <<p, Append(p, nm)>> \in Seq(Seq(Names))
      BY <2>1
    <3> QED
      BY <3>1, <3>2, <3>3 DEF Ops, Paths
  <2>6. CASE azs_rename(t, p, nm, q, qn)
    <3> DEFINE c == [op |-> "rename", p |-> p, nm |-> nm, q |-> q, qn |-> qn]
    <3>1. c \in Calls /\ c.op = "rename"
      BY <2>1 DEF Calls, Ops
    <3>2. Begin(t, c, <<p, q>>)
      BY <2>6 DEF azs_rename
    <3> HIDE DEF c
    <3>3. <<p, q>> \in Seq(Seq(Names))
      OBVIOUS
    <3> QED
      BY <3>1, <3>2, <3>3 DEF Ops, Paths
  <2> QED
    BY <2>2, <2>3, <2>4, <2>5, <2>6
<1>2. /\ pc' = [pc EXCEPT ![t] = "get"]
      /\ call' = [call EXCEPT ![t] = c]
      /\ todo' = [todo EXCEPT ![t] = paths]
      /\ UNCHANGED <<fileVars, at, found, uid, work>>
      /\ ops' = ops + 1 /\ ops < MaxOps /\ raced' \in BOOLEAN
      /\ pc[t] = "idle"
  BY <1>1 DEF Begin, Goto, IInv, TypeOK
<1>3. Others(t) /\ Locked(t)
  BY <1>2 DEF Others, Locked, fileVars
<1>4. TypeOK' /\ LocalsOK'
  <2>1. ops' \in 0..MaxOps
    BY <1>2, NamespaceAssumption DEF IInv, TypeOK
  <2> QED
    BY <1>2, <2>1 DEF IInv, TypeOK, LocalsOK, fileVars
<1>5. pc'[t] = "get" /\ call'[t] = c /\ todo'[t] = paths
  BY <1>2 DEF IInv, TypeOK, LocalsOK
<1>6. Shape(t)' /\ Holding(t)'
  <2>1. found'[t] = <<>>
    BY <1>2 DEF IInv, Shape
  <2>2. Len(found'[t]) + Len(paths) = Paths(c.op)
    BY <1>1, <2>1
  <2> QED
    BY <1>1, <1>5, <2>1, <2>2 DEF Shape, Holding
<1> QED
  BY <1>2, <1>3, <1>4, <1>5, <1>6, Quiet DEF fileVars, Hidden, Refers

LEMMA StepGet ==
  ASSUME IInv, NEW t \in Threads, Get(t)
  PROVE  IInv'
<1>1. CASE Head(todo[t]) # <<>> /\ IsDir(at[t])
  <2>1. /\ pc' = [pc EXCEPT ![t] = "find"] /\ pc[t] = "get"
        /\ UNCHANGED <<fileVars, call, walkVars, uid, work, ops, raced>>
    BY <1>1 DEF Get, Goto
  <2>2. Others(t) /\ Locked(t)
    BY <2>1 DEF Others, Locked, fileVars, walkVars
  <2>3. TypeOK' /\ LocalsOK'
    BY <2>1 DEF IInv, TypeOK, LocalsOK, fileVars, walkVars
  <2>4. Shape(t)' /\ Holding(t)' /\ pc'[t] # "linkup"
    BY <1>1, <2>1 DEF IInv, TypeOK, Shape, Holding, walkVars
  <2> QED
    BY <2>1, <2>2, <2>3, <2>4, Quiet
    DEF fileVars, walkVars, Hidden, Refers
<1>2. CASE ~(Head(todo[t]) # <<>> /\ IsDir(at[t]))
  <2>1. PICK dir \in {at[t], Null} : Parsed(t, dir)
    BY <1>2 DEF Get
  <2> QED
    BY <2>1, AfterParsed DEF Get
<1> QED
  BY <1>1, <1>2

LEMMA StepFind ==
  ASSUME IInv, NEW t \in Threads, Find(t)
  PROVE  IInv'
<1> DEFINE nm == Head(todo[t])[1]
<1>1. CASE nm \in DOMAIN entries[at[t]]
  <2> DEFINE rest == <<Tail(Head(todo[t]))>> \o Tail(todo[t])
  <2>1. /\ todo[t] \in Seq(Seq(Names)) /\ at[t] \in Ids
        /\ todo[t] # <<>> /\ Head(todo[t]) # <<>>
        /\ call[t].op \in Ops
        /\ Len(found[t]) + Len(todo[t]) = Paths(call[t].op)
    BY LocalTypes DEF Find, Shape
  <2>2. rest \in Seq(Seq(Names)) /\ rest # <<>> /\ Len(rest) = Len(todo[t])
    <3>1. Head(todo[t]) \in Seq(Names) /\ Tail(todo[t]) \in Seq(Seq(Names))
          /\ Len(Tail(todo[t])) = Len(todo[t]) - 1
      BY <2>1
    <3>2. Tail(Head(todo[t])) \in Seq(Names)
      BY <2>1, <3>1
    <3>3. /\ <<Tail(Head(todo[t]))>> \in Seq(Seq(Names))
          /\ Len(<<Tail(Head(todo[t]))>>) = 1
      BY <3>2
    <3>4. Len(todo[t]) \in Nat
      BY <2>1
    <3>5. rest \in Seq(Seq(Names)) /\ Len(rest) = Len(todo[t])
      BY <3>1, <3>3, <3>4
    <3> QED
      BY <2>1, <3>5, EmptySeq
  <2> HIDE DEF rest
  <2>3. /\ at' = [at EXCEPT ![t] = entries[at[t]][nm]]
        /\ todo' = [todo EXCEPT ![t] = rest]
        /\ pc' = [pc EXCEPT ![t] = "get"]
        /\ UNCHANGED <<fileVars, call, found, uid, work, ops, raced>>
    BY <1>1 DEF Find, Goto, rest
  <2>4. Others(t) /\ Locked(t)
    BY <2>3 DEF Others, Locked, fileVars
  <2>5. entries[at[t]][nm] \in Ids
    BY <1>1, <2>1 DEF IInv, TypeOK
  <2>6. TypeOK' /\ LocalsOK'
    BY <2>2, <2>3, <2>5 DEF IInv, TypeOK, LocalsOK, fileVars
  <2>7. pc'[t] = "get" /\ todo'[t] = rest
        /\ at'[t] = entries[at[t]][nm]
    BY <2>3 DEF IInv, TypeOK, LocalsOK
  <2>8. Shape(t)' /\ Holding(t)'
    BY <2>1, <2>2, <2>3, <2>7 DEF Shape, Holding
  <2>9. ASSUME NEW n \in Ids, Hidden(n)
        PROVE  ~Refers(t, n)'
    <3>1. at[t] # n /\ ~Refers(t, n)
      BY <2>9 DEF Hidden, Refers
    <3>2. entries[at[t]][nm] # n
      BY <1>1, <2>1, <2>9, <3>1 DEF Hidden
    <3> QED
      BY <2>3, <2>7, <3>1, <3>2 DEF Refers
  <2> QED
    BY <2>3, <2>4, <2>6, <2>7, <2>8, <2>9, Quiet DEF fileVars, Hidden
<1>2. CASE nm \notin DOMAIN entries[at[t]]
  BY <1>2, AfterParsed DEF Find
<1> QED
  BY <1>1, <1>2

LEMMA AfterReturn ==
  ASSUME IInv, NEW t \in Threads, Return(t), pc[t] # "linkup",
         UNCHANGED <<fileVars, todo, at, ops, raced>>
  PROVE  IInv'
<1>1. Null \in Ids \cup {Null} /\ NoCall \in Calls
  BY DEF NoCall, Calls, AllNames
<1>2. Others(t) /\ Locked(t)
  BY DEF Others, Locked, fileVars, Return, Goto
<1>3. TypeOK' /\ LocalsOK'
  BY <1>1 DEF IInv, TypeOK, LocalsOK, fileVars, Return, Goto
<1>4. /\ pc'[t] = "idle" /\ found'[t] = <<>> /\ work'[t] = <<>>
      /\ uid'[t] = Null
  BY DEF IInv, TypeOK, LocalsOK, Return, Goto
<1>5. Shape(t)' /\ Holding(t)'
  BY <1>4 DEF Shape, Holding
<1> QED
  BY <1>2, <1>3, <1>4, <1>5, Quiet, NamespaceAssumption
  DEF fileVars, Hidden, Refers

LEMMA AfterCrash ==
  ASSUME IInv, NEW t \in Threads, Crash(t)
  PROVE  IInv'
<1>1. Others(t) /\ Locked(t)
  BY DEF Others, Locked, fileVars, walkVars, Crash, Goto
<1>2. TypeOK' /\ LocalsOK' /\ pc'[t] = "crashed"
  BY DEF IInv, TypeOK, LocalsOK, fileVars, walkVars, Crash, Goto
<1>3. Shape(t)' /\ Holding(t)'
  BY <1>2 DEF Shape, Holding
<1> QED
  BY <1>1, <1>2, <1>3, Quiet DEF fileVars, walkVars, Hidden, Refers, Crash

LEMMA AfterToRemove ==
  ASSUME IInv, NEW t \in Threads, pc[t] # "linkup",
         NEW list \in Seq(Ids \X AllNames), list # <<>>,
         \A n \in Ids : Hidden(n) => \A i \in DOMAIN list : list[i][1] # n,
         ToRemove(t, list),
         UNCHANGED <<fileVars, call, walkVars, uid, ops, raced>>
  PROVE  IInv'
<1>1. Others(t) /\ Locked(t)
  BY DEF Others, Locked, fileVars, walkVars, ToRemove, Goto
<1>2. /\ \A i \in DOMAIN list : list[i][1] \in Ids
      /\ work'[t] = list /\ pc'[t] = "remove"
  BY DEF ToRemove, Goto, IInv, TypeOK, LocalsOK
<1>3. TypeOK' /\ LocalsOK'
  BY <1>2 DEF IInv, TypeOK, LocalsOK, fileVars, walkVars, ToRemove, Goto
<1>4. Shape(t)' /\ Holding(t)'
  BY <1>2 DEF Shape, Holding
<1> QED
  BY <1>1, <1>2, <1>3, <1>4, Quiet DEF fileVars, walkVars, Hidden, Refers

\* What parse_path has found is no hidden directory.
LEMMA Found ==
  ASSUME IInv, NEW t \in Threads, NEW where, At(t, where)
  PROVE  /\ Len(found[t]) \in {1, 2} =>
              Parent(t) \in Ids /\ \A n \in Ids : Hidden(n) => Parent(t) # n
         /\ Len(found[t]) = 2 =>
              Other(t) \in Ids /\ \A n \in Ids : Hidden(n) => Other(t) # n
<1>1. found[t] \in Seq(Ids \cup {Null})
  BY LocalTypes
<1>2. \A i \in DOMAIN found[t] :
        found[t][i] \in Ids /\ \A n \in Ids : Hidden(n) => found[t][i] # n
  BY <1>1 DEF At, Hidden, Refers
<1>3. /\ Len(found[t]) \in {1, 2} => 1 \in DOMAIN found[t]
      /\ Len(found[t]) = 2 => 2 \in DOMAIN found[t]
  BY <1>1
<1> QED
  BY <1>2, <1>3 DEF Parent, Other

LEMMA StepReturn ==
  ASSUME IInv, NEW t \in Threads, NoDirectory(t) \/ Exists(t)
  PROVE  IInv'
  BY AfterReturn DEF NoDirectory, Exists, At

LEMMA StepCrash ==
  ASSUME IInv, NEW t \in Threads,
         CreateDirCrash(t) \/ RmEntryCrash(t) \/ AddEntryCrash(t)
  PROVE  IInv'
  BY AfterCrash DEF CreateDirCrash, RmEntryCrash, AddEntryCrash

\* unlink and the last part of rename: one entry of the parent.
LEMMA AfterToRemoveOne ==
  ASSUME IInv, NEW t \in Threads, pc[t] # "linkup",
         Parent(t) \in Ids, \A n \in Ids : Hidden(n) => Parent(t) # n,
         ToRemove(t, << <<Parent(t), call[t].nm>> >>),
         UNCHANGED <<fileVars, call, walkVars, uid, ops, raced>>
  PROVE  IInv'
<1> DEFINE list == << <<Parent(t), call[t].nm>> >>
<1>1. call[t].nm \in AllNames
  BY LocalTypes DEF Calls
<1>2. list \in Seq(Ids \X AllNames) /\ list # <<>>
  BY <1>1
<1>3. \A i \in DOMAIN list : list[i][1] = Parent(t)
  OBVIOUS
<1> QED
  BY <1>2, <1>3, AfterToRemove

LEMMA StepUnlink ==
  ASSUME IInv, NEW t \in Threads, Unlink(t)
  PROVE  IInv'
<1>1. At(t, "unlink") /\ pc[t] # "linkup" /\ Len(found[t]) = 1
  BY DEF Unlink, At, IInv, Shape
<1> QED
  BY <1>1, Found, AfterToRemoveOne DEF Unlink

LEMMA StepAddTaken ==
  ASSUME IInv, NEW t \in Threads, AddTaken(t)
  PROVE  IInv'
<1>1. At(t, "add") /\ pc[t] # "linkup" /\ Len(found[t]) = 2
  BY DEF AddTaken, At, IInv, Shape
<1> QED
  BY <1>1, Found, AfterToRemoveOne DEF AddTaken

LEMMA StepRmdir ==
  ASSUME IInv, NEW t \in Threads, Rmdir(t)
  PROVE  IInv'
<1>1. At(t, "rmdir") /\ pc[t] # "linkup" /\ Len(found[t]) = 2
  BY DEF Rmdir, At, IInv, Shape
<1>2. /\ Parent(t) \in Ids /\ Other(t) \in Ids
      /\ \A n \in Ids : Hidden(n) => Parent(t) # n /\ Other(t) # n
  BY <1>1, Found
<1>3. CASE Return(t)
  BY <1>1, <1>3, AfterReturn DEF Rmdir
<1>4. CASE ToRemove(t, RmdirList(t)) /\ UNCHANGED <<call, found, uid>>
  <2>1. call[t].nm \in AllNames /\ Dot \in AllNames /\ DotDot \in AllNames
    BY LocalTypes DEF Calls, AllNames
  <2>2. RmdirList(t) \in Seq(Ids \X AllNames) /\ RmdirList(t) # <<>>
    BY <1>2, <2>1 DEF RmdirList
  <2>3. \A i \in DOMAIN RmdirList(t) :
          RmdirList(t)[i][1] \in {Parent(t), Other(t)}
    BY DEF RmdirList
  <2> QED
    BY <1>1, <1>2, <1>4, <2>2, <2>3, AfterToRemove DEF Rmdir, walkVars
<1> QED
  BY <1>3, <1>4 DEF Rmdir

LEMMA StepNoEntry ==
  ASSUME IInv, NEW t \in Threads, NoEntry(t)
  PROVE  IInv'
<1>1. /\ pc[t] = "remove" /\ work[t] # <<>>
      /\ work[t] \in Seq(Ids \X AllNames)
  BY LocalTypes DEF NoEntry, AtRemove, Shape
<1>2. CASE Len(work[t]) = 1
  BY <1>1, <1>2, AfterReturn DEF NoEntry, NextRemove
<1>3. CASE Len(work[t]) # 1
  <2>1. Tail(work[t]) \in Seq(Ids \X AllNames) /\ Tail(work[t]) # <<>>
    BY <1>1, <1>3, NextPath
  <2>2. \A i \in DOMAIN Tail(work[t]) :
          i + 1 \in DOMAIN work[t] /\ Tail(work[t])[i] = work[t][i + 1]
    BY <1>1
  <2>3. \A n \in Ids : Hidden(n) =>
          \A i \in DOMAIN Tail(work[t]) : Tail(work[t])[i][1] # n
    BY <2>2 DEF Hidden, Refers
  <2> QED
    BY <1>1, <1>3, <2>1, <2>3, AfterToRemove
    DEF NoEntry, NextRemove, walkVars
<1> QED
  BY <1>2, <1>3

\* Locking a directory that paths lead to.
LEMMA AfterLock ==
  ASSUME IInv, NEW t \in Threads, pc[t] \in {"remove", "add"},
         NEW d \in Ids, dlock[d] = NoOne, \A n \in Ids : Hidden(n) => d # n,
         dlock' = [dlock EXCEPT ![d] = t],
         NEW where \in {"unlinking", "linking"}, Goto(t, where),
         UNCHANGED <<kind, nlink, m_exist, entries, call, walkVars, uid, work,
                     ops, raced>>,
         where = "unlinking" => /\ pc[t] = "remove"
                                /\ RmDir(t) = d
                                /\ RmName(t) \in DOMAIN entries[d],
         where = "linking" => /\ pc[t] = "add"
                              /\ Other(t) = d
                              /\ call[t].qn \notin DOMAIN entries[d]
  PROVE  IInv'
<1>1. Others(t) /\ Locked(t)
  BY DEF Others, Locked, walkVars, Goto
<1>2. /\ TypeOK' /\ LocalsOK' /\ pc'[t] = where
      /\ dlock'[d] = t
  BY DEF IInv, TypeOK, LocalsOK, walkVars, Goto
<1>3. Shape(t)'
  BY <1>2 DEF Shape, IInv, walkVars
<1>4. /\ RmDir(t)' = RmDir(t) /\ RmName(t)' = RmName(t)
      /\ Other(t)' = Other(t)
  BY DEF RmDir, RmName, Other, walkVars
<1>5. Holding(t)'
  BY <1>2, <1>4 DEF Holding
<1>6. \A n \in Ids : Hidden(n) => ~Refers(t, n)' /\ dlock'[n] = NoOne
  BY DEF Hidden, Refers, walkVars, IInv, TypeOK
<1> QED
  BY <1>1, <1>2, <1>3, <1>5, <1>6, Quiet

LEMMA StepRmEntry ==
  ASSUME IInv, NEW t \in Threads, RmEntry(t)
  PROVE  IInv'
<1>1. /\ pc[t] = "remove" /\ work[t] # <<>>
      /\ work[t] \in Seq(Ids \X AllNames)
  BY LocalTypes DEF RmEntry, AtRemove, Shape
<1>2. /\ RmDir(t) \in Ids /\ 1 \in DOMAIN work[t]
      /\ RmDir(t) = work[t][1][1]
  BY <1>1 DEF RmDir
<1>3. \A n \in Ids : Hidden(n) => RmDir(t) # n
  BY <1>2 DEF Hidden, Refers
<1> QED
  BY <1>1, <1>2, <1>3, AfterLock DEF RmEntry, AtRemove, Unlocked

LEMMA StepAddEntry ==
  ASSUME IInv, NEW t \in Threads, AddEntry(t)
  PROVE  IInv'
<1>1. At(t, "add") /\ pc[t] = "add" /\ Len(found[t]) = 2
  BY DEF AddEntry, At, IInv, Shape
<1>2. Other(t) \in Ids /\ \A n \in Ids : Hidden(n) => Other(t) # n
  BY <1>1, Found
<1> QED
  BY <1>1, <1>2, AfterLock DEF AddEntry, Unlocked

LEMMA StepRenameFind ==
  ASSUME IInv, NEW t \in Threads, RenameFind(t)
  PROVE  IInv'
<1> DEFINE file == Entry(Parent(t), call[t].nm)
<1>1. At(t, "rename") /\ pc[t] = "rename" /\ Len(found[t]) = 2
  BY DEF RenameFind, At, IInv, Shape
<1>2. Parent(t) \in Ids /\ \A n \in Ids : Hidden(n) => Parent(t) # n
  BY <1>1, Found
<1>3. file \in Ids \cup {Null}
  BY <1>2 DEF Entry, IInv, TypeOK
<1>4. \A n \in Ids : Hidden(n) => file # n
  BY <1>2, NamespaceAssumption DEF Entry, Hidden
<1> HIDE DEF file
<1>5. /\ uid' = [uid EXCEPT ![t] = file]
      /\ pc' = [pc EXCEPT ![t] = "findother"]
      /\ UNCHANGED <<fileVars, call, walkVars, work, ops, raced>>
  BY DEF RenameFind, Goto, file
<1>6. Others(t) /\ Locked(t)
  BY <1>5 DEF Others, Locked, fileVars, walkVars
<1>7. /\ TypeOK' /\ LocalsOK'
      /\ pc'[t] = "findother" /\ uid'[t] = file
  BY <1>3, <1>5 DEF IInv, TypeOK, LocalsOK, fileVars, walkVars
<1>8. Shape(t)' /\ Holding(t)'
  BY <1>1, <1>5, <1>7 DEF Shape, Holding, walkVars
<1> QED
  BY <1>4, <1>5, <1>6, <1>7, <1>8, Quiet
  DEF fileVars, walkVars, Hidden, Refers

LEMMA StepRenameFindOther ==
  ASSUME IInv, NEW t \in Threads, RenameFindOther(t)
  PROVE  IInv'
<1>1. pc[t] = "findother" /\ Len(found[t]) = 2
  BY DEF RenameFindOther, At, IInv, Shape
<1>2. CASE Return(t)
  BY <1>1, <1>2, AfterReturn DEF RenameFindOther
<1>3. CASE /\ Goto(t, "add") /\ uid[t] # Null
           /\ UNCHANGED <<call, found, uid, work>>
  <2>1. UNCHANGED <<fileVars, todo, at, ops, raced>>
    BY DEF RenameFindOther
  <2>2. Others(t) /\ Locked(t)
    BY <1>3, <2>1 DEF Others, Locked, fileVars, Goto
  <2>3. TypeOK' /\ LocalsOK' /\ pc'[t] = "add"
    BY <1>3, <2>1 DEF IInv, TypeOK, LocalsOK, fileVars, Goto
  <2>4. Shape(t)' /\ Holding(t)'
    BY <1>1, <1>3, <2>3 DEF Shape, Holding
  <2> QED
    BY <1>3, <2>1, <2>2, <2>3, <2>4, Quiet DEF fileVars, Hidden, Refers
<1> QED
  BY <1>2, <1>3 DEF RenameFindOther

-----------------------------------------------------------------------------
(***************************************************************************)
(* Steps that change a link.                                               *)
(***************************************************************************)
LocalTypeOK ==
  /\ pc \in [Threads -> {"idle", "get", "find", "create", "mkdir", "linkup",
                         "unlink", "rmdir", "rename", "findother", "add",
                         "linking", "remove", "unlinking", "crashed"}]
  /\ \A t \in Threads : \A i \in DOMAIN work[t] : work[t][i][1] \in Ids
  /\ at \in [Threads -> Ids]
  /\ found \in [Threads -> Seq(Ids \cup {Null})]
  /\ uid \in [Threads -> Ids \cup {Null}]

LEMMA KeepHidden ==
  ASSUME IInv, NEW t \in Threads, Others(t),
         NEW k \in Ids, Hidden(k), ~Refers(t, k)', dlock'[k] = NoOne,
         \A d \in Ids \ {k} : \A nm \in DOMAIN entries'[d] :
           entries'[d][nm] = k =>
             nm \in DOMAIN entries[d] /\ entries[d][nm] = k
  PROVE  Hidden(k)'
<1>1. \A u \in Threads \ {t} : ~Refers(u, k)'
  BY DEF Hidden, Refers, Others
<1> QED
  BY <1>1 DEF Hidden

LEMMA KeepFresh ==
  ASSUME IInv, NEW t \in Threads, Others(t), pc'[t] # "linkup",
         uid'[t] \in {uid[t], Null}, NEW u \in Threads, pc'[u] = "linkup",
         Hidden(uid[u])', kind'[uid[u]] = kind[uid[u]],
         entries'[uid[u]] = entries[uid[u]]
  PROVE  Fresh(u, uid[u])'
<1>1. u # t /\ uid'[u] = uid[u] /\ Fresh(u, uid[u])
  BY DEF Others, IInv
<1>2. \A w \in Threads \ {u} : uid'[w] # uid[u]
  BY <1>1, NamespaceAssumption DEF Fresh, Others
<1> QED
  BY <1>1, <1>2 DEF Fresh

LEMMA KeepUntouched ==
  ASSUME IInv, NEW t \in Threads, Others(t), uid'[t] \in {uid[t], Null},
         NEW k \in Ids, Untouched(k), Hidden(k)', ~m_exist'[k],
         entries'[k] = entries[k]
  PROVE  Untouched(k)'
<1>1. \A u \in Threads : uid'[u] # k
  BY NamespaceAssumption DEF Untouched, Others
<1> QED
  BY <1>1 DEF Untouched

\* The local variables when a call is over, and when an entry is removed.
LEMMA ReturnLocal ==
  ASSUME IInv, NEW t \in Threads, Return(t), UNCHANGED <<todo, at>>
  PROVE  /\ Others(t) /\ LocalTypeOK' /\ LocalsOK'
         /\ Shape(t)' /\ Holding(t)' /\ pc'[t] = "idle" /\ uid'[t] = Null
         /\ \A n \in Ids : Hidden(n) => ~Refers(t, n)'
<1>1. NoCall \in Calls
  BY DEF NoCall, Calls, AllNames
<1>2. Others(t)
  BY DEF Others, Return, Goto
<1>3. LocalTypeOK' /\ LocalsOK'
  BY <1>1 DEF IInv, TypeOK, LocalTypeOK, LocalsOK, Return, Goto
<1>4. /\ pc'[t] = "idle" /\ found'[t] = <<>> /\ work'[t] = <<>>
      /\ uid'[t] = Null
  BY DEF IInv, TypeOK, LocalsOK, Return, Goto
<1>5. Shape(t)' /\ Holding(t)'
  BY <1>4 DEF Shape, Holding
<1> QED
  BY <1>2, <1>3, <1>4, <1>5, NamespaceAssumption DEF Hidden, Refers

LEMMA ToRemoveLocal ==
  ASSUME IInv, NEW t \in Threads,
         NEW list \in Seq(Ids \X AllNames), list # <<>>,
         \A n \in Ids : Hidden(n) => \A i \in DOMAIN list : list[i][1] # n,
         ToRemove(t, list), UNCHANGED <<call, walkVars, uid>>
  PROVE  /\ Others(t) /\ LocalTypeOK' /\ LocalsOK'
         /\ Shape(t)' /\ Holding(t)' /\ pc'[t] = "remove"
         /\ \A n \in Ids : Hidden(n) => ~Refers(t, n)'
<1>1. Others(t)
  BY DEF Others, walkVars, ToRemove, Goto
<1>2. /\ \A i \in DOMAIN list : list[i][1] \in Ids
      /\ work'[t] = list /\ pc'[t] = "remove"
  BY DEF ToRemove, Goto, IInv, TypeOK, LocalsOK
<1>3. LocalTypeOK' /\ LocalsOK'
  BY <1>2 DEF IInv, TypeOK, LocalTypeOK, LocalsOK, walkVars, ToRemove, Goto
<1>4. Shape(t)' /\ Holding(t)'
  BY <1>2 DEF Shape, Holding
<1> QED
  BY <1>1, <1>2, <1>3, <1>4 DEF walkVars, Hidden, Refers

LEMMA NextRemoveLocal ==
  ASSUME IInv, NEW t \in Threads, pc[t] = "unlinking",
         NextRemove(t), UNCHANGED <<todo, at>>
  PROVE  /\ Others(t) /\ LocalTypeOK' /\ LocalsOK'
         /\ Shape(t)' /\ Holding(t)' /\ pc'[t] # "linkup"
         /\ uid'[t] \in {uid[t], Null}
         /\ \A n \in Ids : Hidden(n) => ~Refers(t, n)'
<1>1. work[t] # <<>> /\ work[t] \in Seq(Ids \X AllNames)
  BY LocalTypes DEF Shape
<1>2. CASE Len(work[t]) = 1
  BY <1>2, ReturnLocal DEF NextRemove
<1>3. CASE Len(work[t]) # 1
  <2>1. Tail(work[t]) \in Seq(Ids \X AllNames) /\ Tail(work[t]) # <<>>
    BY <1>1, <1>3, NextPath
  <2>2. \A i \in DOMAIN Tail(work[t]) :
          i + 1 \in DOMAIN work[t] /\ Tail(work[t])[i] = work[t][i + 1]
    BY <1>1
  <2>3. \A n \in Ids : Hidden(n) =>
          \A i \in DOMAIN Tail(work[t]) : Tail(work[t])[i][1] # n
    BY <2>2 DEF Hidden, Refers
  <2>4. ToRemove(t, Tail(work[t])) /\ UNCHANGED <<call, walkVars, uid>>
    BY <1>3 DEF NextRemove, walkVars
  <2> QED
    BY <2>1, <2>3, <2>4, ToRemoveLocal
<1> QED
  BY <1>2, <1>3

LEMMA StepCreateReg ==
  ASSUME IInv, NEW t \in Threads, NEW n \in Unused, CreateReg(t, n)
  PROVE  IInv'
<1> DEFINE d  == Parent(t)
           nm == call[t].nm
<1>1. /\ n \in Ids /\ kind[n] = "none" /\ Untouched(n) /\ Hidden(n)
      /\ IsTree(entries)
  BY DEF Unused, IInv, TypeOK, IsTree, AllNames, Untouched
<1>2. /\ d \in Ids /\ \A k \in Ids : Hidden(k) => d # k
      /\ nm \in AllNames /\ nm \notin DOMAIN entries[d]
  <2>1. At(t, "create") /\ Len(found[t]) = 1
    BY DEF CreateReg, At, IInv, Shape
  <2> QED
    BY <2>1, Found, LocalTypes DEF CreateReg, Calls
<1>3. /\ Return(t) /\ UNCHANGED <<dlock, todo, at, ops, raced>>
      /\ kind' = [kind EXCEPT ![n] = "reg"]
      /\ nlink' = [nlink EXCEPT ![n] = 1]
      /\ m_exist' = [m_exist EXCEPT ![n] = TRUE]
      /\ entries' = [entries EXCEPT ![d] = WithEntry(d, nm, n)]
      /\ dlock[d] = NoOne
  BY DEF CreateReg, Unlocked
<1> HIDE DEF d, nm
<1>4. /\ Others(t) /\ LocalTypeOK' /\ LocalsOK'
      /\ Shape(t)' /\ Holding(t)' /\ pc'[t] = "idle" /\ uid'[t] = Null
      /\ \A k \in Ids : Hidden(k) => ~Refers(t, k)'
  BY <1>3, ReturnLocal
<1>5. /\ DOMAIN entries' = Ids
      /\ \A e \in Ids \ {d} : entries'[e] = entries[e]
      /\ entries'[d] = [x \in DOMAIN entries[d] \cup {nm} |->
                          IF x = nm THEN n ELSE entries[d][x]]
  BY <1>2, <1>3 DEF IInv, TypeOK, WithEntry
<1>6. /\ IsTree(entries')
      /\ Cardinality(Links(n, entries')) = Cardinality(Links(n, entries)) + 1
      /\ \A m \in Ids \ {n} : Links(m, entries') = Links(m, entries)
  BY <1>1, <1>2, <1>5, AddLink
<1>7. LinkCount'
  <2>1. Links(n, entries) = {}
    BY <1>1 DEF Links, Untouched, Hidden, IsTree
  <2>2. Cardinality(Links(n, entries')) = 1
    BY <1>6, <2>1, FS_EmptySet
  <2> QED
    BY <1>1, <1>3, <1>6, <2>2 DEF LinkCount, IInv, TypeOK
<1>8. TypeOK'
  BY <1>1, <1>3, <1>4, <1>6 DEF TypeOK, LocalTypeOK, IInv, IsTree, AllNames
<1>9. \A u \in Threads : Shape(u)' /\ Holding(u)'
  <2>1. Locked(t)
    BY <1>3, <1>5 DEF Locked
  <2> QED
    BY <1>4, <2>1, Frame
<1>10. ASSUME NEW k \in Ids \ {n}, Hidden(k)
       PROVE  Hidden(k)'
  <2>1. ~Refers(t, k)' /\ dlock'[k] = NoOne
    BY <1>3, <1>4, <1>10 DEF Hidden
  <2>2. \A e \in Ids \ {k} : \A x \in DOMAIN entries'[e] :
          entries'[e][x] = k => x \in DOMAIN entries[e] /\ entries[e][x] = k
    BY <1>5, <1>10
  <2> QED
    BY <1>4, <1>10, <2>1, <2>2, KeepHidden
<1>11. ASSUME NEW u \in Threads, pc'[u] = "linkup"
       PROVE  Fresh(u, uid[u])'
  <2>1. uid[u] \in Ids \ {n} /\ Hidden(uid[u]) /\ uid'[u] = uid[u]
    BY <1>1, <1>4, <1>11 DEF Others, IInv, Fresh
  <2>2. kind'[uid[u]] = kind[uid[u]] /\ entries'[uid[u]] = entries[uid[u]]
    BY <1>2, <1>3, <1>5, <2>1 DEF IInv, TypeOK
  <2> QED
    BY <1>4, <1>10, <1>11, <2>1, <2>2, KeepFresh
<1>12. ASSUME NEW k \in Ids, kind'[k] = "none"
       PROVE  Untouched(k)'
  <2>1. k # n /\ Untouched(k) /\ Hidden(k)
    BY <1>1, <1>3, <1>12 DEF IInv, TypeOK, Untouched
  <2>2. ~m_exist'[k] /\ entries'[k] = entries[k]
    BY <1>2, <1>3, <1>5, <2>1 DEF IInv, TypeOK, Untouched
  <2> QED
    BY <1>4, <1>10, <2>1, <2>2, KeepUntouched
<1>13. ExistIsLinked' /\ kind'[Root] # "none"
  BY <1>1, <1>3 DEF IInv, TypeOK, ExistIsLinked
<1> QED
  BY <1>4, <1>7, <1>8, <1>9, <1>11, <1>12, <1>13 DEF IInv

LEMMA StepLinking ==
  ASSUME IInv, NEW t \in Threads, Linking(t)
  PROVE  IInv'
<1> DEFINE d  == Other(t)
           nm == call[t].qn
           n  == uid[t]
           list == << <<Parent(t), call[t].nm>> >>
<1>1. IsTree(entries)
  BY DEF IInv, TypeOK, IsTree, AllNames
<1>2. /\ d \in Ids /\ \A k \in Ids : Hidden(k) => d # k
      /\ nm \in AllNames /\ nm \notin DOMAIN entries[d]
      /\ n \in Ids /\ dlock[d] = t
      /\ list \in Seq(Ids \X AllNames) /\ list # <<>>
      /\ \A k \in Ids : Hidden(k) => \A i \in DOMAIN list : list[i][1] # k
  <2>1. At(t, "linking") /\ Len(found[t]) = 2
    BY DEF Linking, At, IInv, Shape
  <2>2. /\ Parent(t) \in Ids /\ \A k \in Ids : Hidden(k) => Parent(t) # k
        /\ d \in Ids /\ \A k \in Ids : Hidden(k) => d # k
    BY <2>1, Found
  <2>3. nm \in AllNames /\ call[t].nm \in AllNames
    BY LocalTypes DEF Calls
  <2>4. n \in Ids /\ dlock[d] = t /\ nm \notin DOMAIN entries[d]
    BY LocalTypes DEF Shape, Holding, Linking, At
  <2>5. \A i \in DOMAIN list : list[i][1] = Parent(t)
    OBVIOUS
  <2> QED
    BY <2>2, <2>3, <2>4, <2>5
<1>3. /\ ToRemove(t, list)
      /\ UNCHANGED <<kind, m_exist, call, walkVars, uid, ops, raced>>
      /\ nlink' = [nlink EXCEPT ![n] = @ + 1]
      /\ entries' = [entries EXCEPT ![d] = WithEntry(d, nm, n)]
      /\ dlock' = [dlock EXCEPT ![d] = NoOne]
  BY DEF Linking
<1> HIDE DEF d, nm, n, list
<1>4. /\ Others(t) /\ LocalTypeOK' /\ LocalsOK'
      /\ Shape(t)' /\ Holding(t)' /\ pc'[t] = "remove"
      /\ \A k \in Ids : Hidden(k) => ~Refers(t, k)'
  BY <1>2, <1>3, ToRemoveLocal
<1>5. /\ DOMAIN entries' = Ids
      /\ \A e \in Ids \ {d} : entries'[e] = entries[e]
      /\ entries'[d] = [x \in DOMAIN entries[d] \cup {nm} |->
                          IF x = nm THEN n ELSE entries[d][x]]
  BY <1>2, <1>3 DEF IInv, TypeOK, WithEntry
<1>6. /\ IsTree(entries')
      /\ Cardinality(Links(n, entries')) = Cardinality(Links(n, entries)) + 1
      /\ \A m \in Ids \ {n} : Links(m, entries') = Links(m, entries)
  <2>1. d \in Ids /\ nm \in AllNames /\ nm \notin DOMAIN entries[d] /\ n \in Ids
    BY <1>2
  <2> QED
    BY <1>1, <1>5, <2>1, AddLink
<1>7. LinkCount'
  BY <1>2, <1>3, <1>6 DEF LinkCount, IInv, TypeOK
<1>8. TypeOK'
  BY <1>2, <1>3, <1>4, <1>6 DEF TypeOK, LocalTypeOK, IInv, IsTree, AllNames
<1>9. \A u \in Threads : Shape(u)' /\ Holding(u)'
  <2>1. Locked(t)
    BY <1>2, <1>3, <1>5 DEF Locked, IInv, TypeOK
  <2> QED
    BY <1>4, <2>1, Frame
<1>10. ASSUME NEW k \in Ids \ {n}, Hidden(k)
       PROVE  Hidden(k)'
  <2>1. ~Refers(t, k)' /\ dlock'[k] = NoOne
    BY <1>2, <1>3, <1>4, <1>10 DEF Hidden, IInv, TypeOK
  <2>2. \A e \in Ids \ {k} : \A x \in DOMAIN entries'[e] :
          entries'[e][x] = k => x \in DOMAIN entries[e] /\ entries[e][x] = k
    BY <1>5, <1>10
  <2> QED
    BY <1>4, <1>10, <2>1, <2>2, KeepHidden
<1>11. ASSUME NEW u \in Threads, pc'[u] = "linkup"
       PROVE  Fresh(u, uid[u])'
  <2>1. u # t /\ Fresh(u, uid[u])
    BY <1>4, <1>11 DEF Others, IInv
  <2>2. uid[u] \in Ids \ {n} /\ Hidden(uid[u])
    BY <2>1 DEF Fresh, n
  <2>3. kind'[uid[u]] = kind[uid[u]] /\ entries'[uid[u]] = entries[uid[u]]
    BY <1>2, <1>3, <1>5, <2>2
  <2> QED
    BY <1>3, <1>4, <1>10, <1>11, <2>2, <2>3, KeepFresh
<1>12. ASSUME NEW k \in Ids, kind'[k] = "none"
       PROVE  Untouched(k)'
  <2>1. k # n /\ Untouched(k) /\ Hidden(k)
    BY <1>3, <1>12 DEF IInv, Untouched, n
  <2>2. ~m_exist'[k] /\ entries'[k] = entries[k]
    BY <1>2, <1>3, <1>5, <2>1 DEF Untouched
  <2> QED
    BY <1>3, <1>4, <1>10, <2>1, <2>2, KeepUntouched
<1>13. ExistIsLinked' /\ kind'[Root] # "none"
  BY <1>2, <1>3 DEF IInv, TypeOK, ExistIsLinked
<1> QED
  BY <1>4, <1>7, <1>8, <1>9, <1>11, <1>12, <1>13 DEF IInv

LEMMA StepCreateDir ==
  ASSUME IInv, NEW t \in Threads, NEW n \in Unused, CreateDir(t, n)
  PROVE  IInv'
<1> DEFINE d == Parent(t)
<1>1. /\ n \in Ids /\ kind[n] = "none" /\ Untouched(n) /\ Hidden(n)
      /\ IsTree(entries)
  BY DEF Unused, IInv, TypeOK, IsTree, AllNames, Untouched
<1>2. /\ d \in Ids /\ \A k \in Ids : Hidden(k) => d # k
      /\ Len(found[t]) = 1 /\ call[t].nm \notin DOMAIN entries[d]
  <2>1. At(t, "mkdir") /\ Len(found[t]) = 1
    BY DEF CreateDir, At, IInv, Shape
  <2> QED
    BY <2>1, Found DEF CreateDir
<1>3. /\ UNCHANGED <<call, walkVars, work, ops, raced>>
      /\ kind' = [kind EXCEPT ![n] = "dir"]
      /\ nlink' = [nlink EXCEPT ![n] = 1]
      /\ m_exist' = [m_exist EXCEPT ![n] = TRUE]
      /\ entries' = [entries EXCEPT ![n] = [nm \in {Dot} |-> n]]
      /\ dlock' = [dlock EXCEPT ![d] = t]
      /\ uid' = [uid EXCEPT ![t] = n]
      /\ pc' = [pc EXCEPT ![t] = "linkup"]
      /\ dlock[d] = NoOne
  BY DEF CreateDir, Unlocked, Goto
<1>4. d # n /\ Parent(t)' = d /\ dlock[n] = NoOne
  BY <1>1, <1>2, <1>3 DEF walkVars, Parent, Hidden
<1> HIDE DEF d
<1>5. /\ Others(t) /\ LocalsOK' /\ pc'[t] = "linkup" /\ uid'[t] = n
      /\ \A k \in Ids : Hidden(k) => ~Refers(t, k)'
  BY <1>1, <1>3 DEF Others, IInv, TypeOK, LocalsOK, walkVars, Hidden, Refers
<1>6. Shape(t)' /\ Holding(t)'
  <2>1. Shape(t)'
    BY <1>2, <1>3, <1>5 DEF Shape, walkVars
  <2>2. /\ dlock'[d] = t /\ entries'[d] = entries[d]
        /\ call'[t] = call[t]
    BY <1>2, <1>3, <1>4 DEF IInv, TypeOK
  <2> QED
    BY <1>2, <1>4, <1>5, <2>1, <2>2 DEF Holding
<1>7. /\ DOMAIN entries' = Ids
      /\ \A e \in Ids \ {n} : entries'[e] = entries[e]
      /\ entries'[n] = [nm \in {Dot} |-> n]
  BY <1>1, <1>3 DEF IInv, TypeOK
<1>8. /\ IsTree(entries')
      /\ Cardinality(Links(n, entries')) = Cardinality(Links(n, entries)) + 1
      /\ \A m \in Ids \ {n} : Links(m, entries') = Links(m, entries)
  <2>1. Dot \in AllNames /\ Dot \notin DOMAIN entries[n]
    BY <1>1 DEF AllNames, Untouched
  <2>2. entries'[n] = [x \in DOMAIN entries[n] \cup {Dot} |->
                         IF x = Dot THEN n ELSE entries[n][x]]
    BY <1>1, <1>7 DEF Untouched
  <2> QED
    BY <1>1, <1>7, <2>1, <2>2, AddLink
<1>9. LinkCount'
  <2>1. Links(n, entries) = {}
    BY <1>1 DEF Links, Untouched, Hidden, IsTree
  <2>2. Cardinality(Links(n, entries')) = 1
    BY <1>8, <2>1, FS_EmptySet
  <2> QED
    BY <1>1, <1>3, <1>8, <2>2 DEF LinkCount, IInv, TypeOK
<1>10. TypeOK'
  BY <1>1, <1>2, <1>3, <1>8
  DEF TypeOK, IInv, IsTree, AllNames, walkVars
<1>11. \A u \in Threads : Shape(u)' /\ Holding(u)'
  <2>1. Locked(t)
    BY <1>2, <1>3, <1>4, <1>7 DEF Locked, IInv, TypeOK
  <2> QED
    BY <1>5, <1>6, <2>1, Frame
<1>12. ASSUME NEW k \in Ids, Hidden(k)
       PROVE  Hidden(k)'
  <2>1. ~Refers(t, k)' /\ dlock'[k] = NoOne
    BY <1>2, <1>3, <1>5, <1>12 DEF Hidden, IInv, TypeOK
  <2>2. \A e \in Ids \ {k} : \A x \in DOMAIN entries'[e] :
          entries'[e][x] = k => x \in DOMAIN entries[e] /\ entries[e][x] = k
    BY <1>7
  <2> QED
    BY <1>5, <1>12, <2>1, <2>2, KeepHidden
<1>13. ASSUME NEW u \in Threads, pc'[u] = "linkup"
       PROVE  Fresh(u, uid[u])'
  <2>1. CASE u = t
    <3>1. \A w \in Threads \ {t} : uid'[w] # n
      BY <1>1, <1>5 DEF Others, Untouched
    <3>2. kind'[n] = "dir"
      BY <1>1, <1>3 DEF IInv, TypeOK
    <3>3. Hidden(n)'
      BY <1>1, <1>12
    <3> QED
      BY <1>1, <1>5, <1>7, <2>1, <3>1, <3>2, <3>3 DEF Fresh
  <2>2. CASE u # t
    <3>1. /\ uid'[u] = uid[u] /\ Fresh(u, uid[u]) /\ uid[u] \in Ids \ {n}
          /\ Hidden(uid[u])
      BY <1>1, <1>5, <1>13, <2>2 DEF Others, IInv, Fresh
    <3>2. \A w \in Threads \ {u} : uid'[w] # uid[u]
      BY <1>5, <3>1 DEF Fresh, Others
    <3>3. kind'[uid[u]] = kind[uid[u]] /\ entries'[uid[u]] = entries[uid[u]]
      BY <1>3, <1>7, <3>1 DEF IInv, TypeOK
    <3>4. Hidden(uid[u])'
      BY <1>12, <3>1
    <3> QED
      BY <3>1, <3>2, <3>3, <3>4 DEF Fresh
  <2> QED
    BY <2>1, <2>2
<1>14. ASSUME NEW k \in Ids, kind'[k] = "none"
       PROVE  Untouched(k)'
  <2>1. k # n /\ Untouched(k) /\ Hidden(k)
    BY <1>1, <1>3, <1>14 DEF IInv, TypeOK, Untouched
  <2>2. ~m_exist'[k] /\ entries'[k] = entries[k]
    BY <1>3, <1>7, <2>1 DEF IInv, TypeOK, Untouched
  <2>3. \A u \in Threads : uid'[u] # k
    BY <1>5, <2>1 DEF Untouched, Others
  <2>4. Hidden(k)'
    BY <1>12, <2>1
  <2> QED
    BY <2>1, <2>2, <2>3, <2>4 DEF Untouched
<1>15. ExistIsLinked' /\ kind'[Root] # "none"
  BY <1>1, <1>3 DEF IInv, TypeOK, ExistIsLinked
<1> QED
  BY <1>5, <1>9, <1>10, <1>11, <1>13, <1>14, <1>15 DEF IInv

LEMMA StepLinkUp ==
  ASSUME IInv, NEW t \in Threads, LinkUp(t)
  PROVE  IInv'
<1> DEFINE d   == Parent(t)
           n   == uid[t]
           nm  == call[t].nm
           mid == [entries EXCEPT ![n] = WithEntry(n, DotDot, d)]
<1>1. /\ pc[t] = "linkup" /\ Fresh(t, n) /\ n \in Ids /\ Hidden(n)
      /\ IsTree(entries)
  BY DEF LinkUp, At, IInv, TypeOK, IsTree, AllNames, Fresh
<1>2. /\ d \in Ids /\ \A k \in Ids : Hidden(k) => d # k
      /\ dlock[d] = t
      /\ nm \in AllNames /\ nm \notin DOMAIN entries[d]
  <2>1. At(t, "linkup") /\ Len(found[t]) = 1
    BY DEF LinkUp, At, IInv, Shape
  <2> QED
    BY <1>1, <2>1, Found, LocalTypes DEF Calls, Holding
<1>3. /\ Return(t) /\ UNCHANGED <<kind, m_exist, todo, at, ops, raced>>
      /\ nlink' = [nlink EXCEPT ![d] = @ + 1, ![n] = @ + 1]
      /\ entries' = [entries EXCEPT ![n] = WithEntry(n, DotDot, d),
                                    ![d] = WithEntry(d, nm, n)]
      /\ dlock' = [dlock EXCEPT ![d] = NoOne]
  BY DEF LinkUp
<1>4. d # n /\ dlock[n] = NoOne
  BY <1>1, <1>2 DEF Hidden
<1> HIDE DEF d, n, nm
<1>5. /\ Others(t) /\ LocalTypeOK' /\ LocalsOK'
      /\ Shape(t)' /\ Holding(t)' /\ pc'[t] = "idle" /\ uid'[t] = Null
      /\ \A k \in Ids : Hidden(k) => ~Refers(t, k)'
  BY <1>3, ReturnLocal
<1>6. /\ DOMAIN mid = Ids
      /\ \A e \in Ids \ {n} : mid[e] = entries[e]
      /\ mid[n] = [x \in DOMAIN entries[n] \cup {DotDot} |->
                     IF x = DotDot THEN d ELSE entries[n][x]]
  BY <1>1 DEF IInv, TypeOK, WithEntry
<1>7. /\ DOMAIN entries' = Ids
      /\ \A e \in Ids \ {d} : entries'[e] = mid[e]
      /\ entries'[d] = [x \in DOMAIN mid[d] \cup {nm} |->
                          IF x = nm THEN n ELSE mid[d][x]]
  <2>1. DOMAIN entries' = Ids /\ DOMAIN entries = Ids
    BY <1>3 DEF IInv, TypeOK
  <2>2. \A e \in Ids \ {d} : entries'[e] = mid[e]
    BY <1>3, <2>1
  <2>3. entries'[d] = WithEntry(d, nm, n) /\ mid[d] = entries[d]
    BY <1>2, <1>3, <1>4, <1>6, <2>1
  <2> QED
    BY <2>1, <2>2, <2>3 DEF WithEntry
<1>8. /\ IsTree(mid)
      /\ Cardinality(Links(d, mid)) = Cardinality(Links(d, entries)) + 1
      /\ \A m \in Ids \ {d} : Links(m, mid) = Links(m, entries)
  <2>1. DotDot \in AllNames /\ DotDot \notin DOMAIN entries[n]
    BY <1>1, NamespaceAssumption DEF AllNames, Fresh
  <2>2. d \in Ids
    BY <1>2
  <2> HIDE DEF mid
  <2> QED
    BY <1>1, <1>6, <2>1, <2>2, AddLink
<1> HIDE DEF mid
<1>9. /\ IsTree(entries')
      /\ Cardinality(Links(n, entries')) = Cardinality(Links(n, mid)) + 1
      /\ \A m \in Ids \ {n} : Links(m, entries') = Links(m, mid)
  <2>1. /\ d \in Ids /\ n \in Ids /\ nm \in AllNames
        /\ nm \notin DOMAIN mid[d]
    BY <1>1, <1>2, <1>4, <1>6
  <2> QED
    BY <1>7, <1>8, <2>1, AddLink
<1>10. /\ nlink'[d] = nlink[d] + 1 /\ nlink'[n] = nlink[n] + 1
       /\ \A m \in Ids \ {d, n} : nlink'[m] = nlink[m]
  BY <1>1, <1>2, <1>3, <1>4 DEF IInv, TypeOK
<1>11. LinkCount'
  BY <1>1, <1>2, <1>4, <1>8, <1>9, <1>10 DEF LinkCount, IInv
<1>12. TypeOK'
  <2>1. nlink' \in [Ids -> Nat]
    BY <1>1, <1>2, <1>3 DEF IInv, TypeOK
  <2> QED
    BY <1>2, <1>3, <1>5, <1>9, <2>1
    DEF TypeOK, LocalTypeOK, IInv, IsTree, AllNames
<1>13. \A u \in Threads : Shape(u)' /\ Holding(u)'
  <2>1. Locked(t)
    BY <1>2, <1>3, <1>4, <1>6, <1>7 DEF Locked, IInv, TypeOK
  <2> QED
    BY <1>5, <2>1, Frame
<1>14. ASSUME NEW k \in Ids \ {n}, Hidden(k)
       PROVE  Hidden(k)'
  <2>1. d # k
    BY <1>2, <1>14
  <2>2. ~Refers(t, k)' /\ dlock'[k] = NoOne
    BY <1>2, <1>3, <1>5, <1>14, <2>1 DEF Hidden, IInv, TypeOK
  <2>3. \A e \in Ids \ {k} : \A x \in DOMAIN mid[e] :
          mid[e][x] = k => x \in DOMAIN entries[e] /\ entries[e][x] = k
    BY <1>6, <2>1
  <2>4. \A e \in Ids \ {k} : \A x \in DOMAIN entries'[e] :
          entries'[e][x] = k => x \in DOMAIN mid[e] /\ mid[e][x] = k
    BY <1>7, <1>14
  <2> QED
    BY <1>5, <1>14, <2>2, <2>3, <2>4, KeepHidden
<1>15. ASSUME NEW u \in Threads, pc'[u] = "linkup"
       PROVE  Fresh(u, uid[u])'
  <2>1. u # t /\ uid'[u] = uid[u] /\ Fresh(u, uid[u])
    BY <1>5, <1>15 DEF Others, IInv
  <2>2. uid[u] \in Ids \ {n} /\ Hidden(uid[u])
    BY <1>1, <2>1 DEF Fresh, n
  <2>3. kind'[uid[u]] = kind[uid[u]] /\ entries'[uid[u]] = entries[uid[u]]
    BY <1>2, <1>3, <1>6, <1>7, <2>2
  <2> QED
    BY <1>5, <1>14, <1>15, <2>1, <2>2, <2>3, KeepFresh
<1>16. ASSUME NEW k \in Ids, kind'[k] = "none"
       PROVE  Untouched(k)'
  <2>1. k # n /\ Untouched(k) /\ Hidden(k)
    BY <1>1, <1>3, <1>16 DEF IInv, Untouched, Fresh
  <2>2. ~m_exist'[k] /\ entries'[k] = entries[k]
    BY <1>2, <1>3, <1>6, <1>7, <2>1 DEF Untouched
  <2> QED
    BY <1>5, <1>14, <2>1, <2>2, KeepUntouched
<1>17. ExistIsLinked' /\ kind'[Root] # "none"
  <2>1. \A m \in Ids : nlink[m] \in Nat
    BY DEF IInv, TypeOK
  <2>2. ASSUME NEW m \in Ids, m_exist'[m]
        PROVE  nlink'[m] > 0
    <3>1. nlink[m] > 0
      BY <1>3, <2>2 DEF IInv, ExistIsLinked
    <3> QED
      BY <1>10, <2>1, <3>1
  <2> QED
    BY <1>3, <2>2 DEF IInv, ExistIsLinked
<1> QED
  BY <1>5, <1>11, <1>12, <1>13, <1>15, <1>16, <1>17 DEF IInv

\* What dec_nlink and the removal of the entry do to the links.
LosesLink(t, d, nm, n) ==
  /\ nm \in DOMAIN entries[d]
  /\ RmDir(t) = d /\ RmName(t) = nm /\ n = entries[d][nm]
  /\ dlock[d] = t /\ \A k \in Ids : Hidden(k) => d # k
  /\ nlink[n] > 0 /\ nlink' = [nlink EXCEPT ![n] = @ - 1]
  /\ m_exist' = [m_exist EXCEPT ![n] = @ /\ nlink[n] - 1 > 0]
  /\ DOMAIN entries' = Ids
  /\ \A e \in Ids \ {d} : entries'[e] = entries[e]
  /\ entries'[d] = [x \in DOMAIN entries[d] \ {nm} |-> entries[d][x]]
  /\ IsTree(entries')
  /\ LinkCount'

LEMMA UnlinkingLinks ==
  ASSUME IInv, NEW t \in Threads, Unlinking(t)
  PROVE  \E d \in Ids, nm \in AllNames, n \in Ids : LosesLink(t, d, nm, n)
<1> DEFINE d  == RmDir(t)
           nm == RmName(t)
           n  == entries[d][nm]
<1>1. /\ pc[t] = "unlinking" /\ work[t] # <<>>
      /\ work[t] \in Seq(Ids \X AllNames)
      /\ dlock[d] = t /\ nm \in DOMAIN entries[d]
  BY LocalTypes DEF Unlinking, Shape, Holding
<1>2. /\ d \in Ids /\ 1 \in DOMAIN work[t] /\ d = work[t][1][1]
  BY <1>1 DEF RmDir
<1>3. \A k \in Ids : Hidden(k) => d # k
  BY <1>2 DEF Hidden, Refers
<1>4. /\ nlink' = [nlink EXCEPT ![n] = @ - 1]
      /\ m_exist' = [m_exist EXCEPT ![n] = @ /\ nlink[n] - 1 > 0]
      /\ entries' = [entries EXCEPT ![d] =
                       [x \in DOMAIN @ \ {nm} |-> @[x]]]
  BY DEF Unlinking, Dec
<1>5. IsTree(entries) /\ n \in Ids
  BY <1>1, <1>2 DEF IInv, TypeOK, IsTree, AllNames
<1> HIDE DEF d, nm
<1>6. /\ DOMAIN entries' = Ids
      /\ \A e \in Ids \ {d} : entries'[e] = entries[e]
      /\ entries'[d] = [x \in DOMAIN entries[d] \ {nm} |-> entries[d][x]]
  BY <1>2, <1>4, <1>5 DEF IsTree
<1>7. /\ IsTree(entries')
      /\ Cardinality(Links(n, entries)) \in Nat \ {0}
      /\ Cardinality(Links(n, entries')) = Cardinality(Links(n, entries)) - 1
      /\ \A m \in Ids \ {n} : Links(m, entries') = Links(m, entries)
  BY <1>1, <1>2, <1>5, <1>6, DropLink
<1> HIDE DEF n
<1>8. nlink[n] > 0
  BY <1>5, <1>7 DEF IInv, LinkCount
<1>9. LinkCount'
  BY <1>4, <1>5, <1>7 DEF IInv, TypeOK, LinkCount
<1> QED
  <2>1. nm \in AllNames
    BY <1>1, <1>2, <1>5 DEF IsTree
  <2>2. /\ nm \in DOMAIN entries[d] /\ RmDir(t) = d /\ RmName(t) = nm
        /\ n = entries[d][nm] /\ dlock[d] = t
    BY <1>1 DEF d, nm, n
  <2>3. LosesLink(t, d, nm, n)
    BY <1>3, <1>4, <1>6, <1>7, <1>8, <1>9, <2>2 DEF LosesLink
  <2> QED
    BY <1>2, <1>5, <2>1, <2>3

LEMMA StepUnlinking ==
  ASSUME IInv, NEW t \in Threads, Unlinking(t)
  PROVE  IInv'
<1>1. PICK d \in Ids, nm \in AllNames, n \in Ids : LosesLink(t, d, nm, n)
  BY UnlinkingLinks
<1>2. /\ pc[t] = "unlinking" /\ NextRemove(t)
      /\ UNCHANGED <<kind, todo, at, ops, raced>>
      /\ dlock' = [dlock EXCEPT ![d] = NoOne]
  BY <1>1 DEF LosesLink, Unlinking
<1>3. /\ Others(t) /\ LocalTypeOK' /\ LocalsOK'
      /\ Shape(t)' /\ Holding(t)' /\ pc'[t] # "linkup"
      /\ uid'[t] \in {uid[t], Null}
      /\ \A k \in Ids : Hidden(k) => ~Refers(t, k)'
  BY <1>2, NextRemoveLocal
<1>4. TypeOK'
  <2>1. nlink' \in [Ids -> Nat] /\ m_exist' \in [Ids -> BOOLEAN]
    BY <1>1 DEF LosesLink, IInv, TypeOK
  <2>2. dlock' \in [Ids -> Threads \cup {NoOne}]
    BY <1>2 DEF IInv, TypeOK
  <2> QED
    BY <1>1, <1>2, <1>3, <2>1, <2>2
    DEF LosesLink, TypeOK, LocalTypeOK, IInv, IsTree, AllNames
<1>5. \A u \in Threads : Shape(u)' /\ Holding(u)'
  <2>1. Locked(t)
    BY <1>1, <1>2 DEF LosesLink, Locked, IInv, TypeOK
  <2> QED
    BY <1>3, <2>1, Frame
<1>6. ASSUME NEW k \in Ids, Hidden(k)
      PROVE  Hidden(k)'
  <2>1. ~Refers(t, k)' /\ dlock'[k] = NoOne
    BY <1>1, <1>2, <1>3, <1>6 DEF LosesLink, Hidden, IInv, TypeOK
  <2>2. \A e \in Ids \ {k} : \A x \in DOMAIN entries'[e] :
          entries'[e][x] = k => x \in DOMAIN entries[e] /\ entries[e][x] = k
    BY <1>1 DEF LosesLink
  <2> QED
    BY <1>3, <1>6, <2>1, <2>2, KeepHidden
<1>7. ASSUME NEW u \in Threads, pc'[u] = "linkup"
      PROVE  Fresh(u, uid[u])'
  <2>1. u # t /\ uid'[u] = uid[u] /\ Fresh(u, uid[u])
    BY <1>3, <1>7 DEF Others, IInv
  <2>2. uid[u] \in Ids /\ Hidden(uid[u])
    BY <2>1 DEF Fresh
  <2>3. kind'[uid[u]] = kind[uid[u]] /\ entries'[uid[u]] = entries[uid[u]]
    BY <1>1, <1>2, <2>2 DEF LosesLink
  <2> QED
    BY <1>3, <1>6, <1>7, <2>1, <2>2, <2>3, KeepFresh
<1>8. ASSUME NEW k \in Ids, kind'[k] = "none"
      PROVE  Untouched(k)'
  <2>1. Untouched(k) /\ Hidden(k)
    BY <1>2, <1>8 DEF IInv, Untouched
  <2>2. entries'[k] = entries[k]
    BY <1>1, <2>1 DEF LosesLink
  <2>3. ~m_exist'[k]
    BY <1>1, <2>1 DEF LosesLink, Untouched, IInv, TypeOK
  <2> QED
    BY <1>3, <1>6, <2>1, <2>2, <2>3, KeepUntouched
<1>9. ExistIsLinked'
  BY <1>1 DEF LosesLink, IInv, TypeOK, ExistIsLinked
<1> QED
  BY <1>1, <1>2, <1>3, <1>4, <1>5, <1>7, <1>8, <1>9 DEF LosesLink, IInv

-----------------------------------------------------------------------------
LEMMA Initially ==
  ASSUME Init
  PROVE  IInv
<1> DEFINE Files == DOMAIN Tree0 \cup Files0
<1>1. /\ DOMAIN entries = Ids
      /\ \A d \in Ids : entries[d] = IF d \in DOMAIN Tree0 THEN Tree0[d]
                                                           ELSE NoEntries
      /\ DOMAIN NoEntries = {}
  BY DEF Init, NoEntries
<1>2. IsTree(entries)
  BY <1>1, NamespaceAssumption DEF IsTree, AllNames
<1>3. \A n : Links(n, entries) = Links(n, Tree0)
  BY <1>1, NamespaceAssumption DEF Links, AllNames
<1>4. LinkCount
  BY <1>3 DEF Init, LinkCount
<1>5. \A n \in Ids : Cardinality(Links(n, entries)) \in Nat
  BY <1>2, LinksFinite
<1>6. TypeOK
  <2>1. nlink \in [Ids -> Nat]
    BY <1>4, <1>5 DEF Init, LinkCount
  <2>2. Root \in Ids /\ 0 \in 0..MaxOps
    BY NamespaceAssumption
  <2>3. /\ kind \in [Ids -> {"none", "reg", "dir"}]
        /\ m_exist \in [Ids -> BOOLEAN]
        /\ dlock \in [Ids -> Threads \cup {NoOne}]
    BY DEF Init
  <2>4. /\ \A t \in Threads : work[t] = <<>>
        /\ found \in [Threads -> Seq(Ids \cup {Null})]
        /\ at \in [Threads -> Ids]
        /\ uid \in [Threads -> Ids \cup {Null}]
    BY <2>2 DEF Init
  <2>5. /\ ops \in 0..MaxOps /\ raced \in BOOLEAN
        /\ pc = [t \in Threads |-> "idle"]
    BY <2>2 DEF Init
  <2>6. \A t \in Threads : \A i \in DOMAIN work[t] : work[t][i][1] \in Ids
    BY <2>4
  <2> QED
    BY <1>2, <2>1, <2>3, <2>4, <2>5, <2>6 DEF TypeOK, IsTree, AllNames
<1>7. LocalsOK
  <2>1. NoCall \in Calls
    BY DEF NoCall, Calls, AllNames
  <2> QED
    BY <2>1 DEF Init, LocalsOK
<1>8. \A t \in Threads : Shape(t) /\ Holding(t) /\ pc[t] = "idle"
  BY DEF Init, Shape, Holding
<1>9. ASSUME NEW n \in Ids, kind[n] = "none"
      PROVE  Untouched(n)
  <2>1. n \notin Files /\ n # Root /\ n # Null
    BY <1>9, NamespaceAssumption DEF Init
  <2>2. ~m_exist[n] /\ DOMAIN entries[n] = {} /\ dlock[n] = NoOne
    BY <1>1, <2>1 DEF Init
  <2>3. \A d \in Ids : \A nm \in DOMAIN entries[d] : entries[d][nm] # n
    BY <1>1, <2>1, NamespaceAssumption
  <2>4. \A t \in Threads : ~Refers(t, n) /\ uid[t] # n
    BY <2>1 DEF Init, Refers
  <2> QED
    BY <2>1, <2>2, <2>3, <2>4 DEF Untouched, Hidden
<1>10. ASSUME NEW n \in Ids, m_exist[n]
       PROVE  nlink[n] > 0
  <2>1. n \in Files
    BY <1>10 DEF Init
  <2>2. PICK d \in DOMAIN Tree0, nm \in AllNames :
          nm \in DOMAIN Tree0[d] /\ Tree0[d][nm] = n
    BY <2>1, NamespaceAssumption DEF AllNames
  <2>3. <<d, nm>> \in Links(n, entries)
    BY <1>1, <2>2, NamespaceAssumption DEF Links, AllNames
  <2>4. IsFiniteSet(Links(n, entries))
    BY <1>2, LinksFinite
  <2>5. Cardinality(Links(n, entries)) # 0
    BY <2>3, <2>4, FS_EmptySet
  <2> QED
    BY <1>4, <1>5, <2>5 DEF LinkCount
<1>11. kind[Root] # "none"
  BY NamespaceAssumption DEF Init
<1> QED
  BY <1>4, <1>6, <1>7, <1>8, <1>9, <1>10, <1>11 DEF IInv, ExistIsLinked

LEMMA Stutters ==
  ASSUME IInv, UNCHANGED vars
  PROVE  IInv'
<1>1. UNCHANGED <<kind, nlink, m_exist, entries, dlock, pc, call, todo, at,
                  found, uid, work, ops, raced>>
  BY DEF vars, fileVars, walkVars
<1>2. /\ TypeOK' /\ LocalsOK' /\ LinkCount' /\ ExistIsLinked'
      /\ kind'[Root] # "none"
  BY <1>1 DEF IInv, TypeOK, LocalsOK, LinkCount, Links, ExistIsLinked
<1>3. \A n : Hidden(n)' = Hidden(n)
  BY <1>1 DEF Hidden, Refers
<1>4. \A t \in Threads : Shape(t)' /\ Holding(t)'
  BY <1>1 DEF IInv, Shape, Holding, Parent, Other, RmDir, RmName
<1>5. /\ \A t \in Threads : pc'[t] = "linkup" => Fresh(t, uid[t])'
      /\ \A n \in Ids : kind'[n] = "none" => Untouched(n)'
  BY <1>1, <1>3 DEF IInv, Fresh, Untouched
<1> QED
  BY <1>2, <1>4, <1>5 DEF IInv

LEMMA Invariance == Spec => []IInv
<1>1. ASSUME IInv, [Next]_vars
      PROVE  IInv'
  <2>1. CASE UNCHANGED vars
    BY <1>1, <2>1, Stutters
  <2>2. ASSUME NEW t \in Threads, BeginCall(t)
        PROVE  IInv'
    BY <1>1, <2>2, StepBegin
  <2>3. ASSUME NEW t \in Threads, Proceed(t)
        PROVE  IInv'
    <3>1. ASSUME NEW n \in Unused, CreateReg(t, n) \/ CreateDir(t, n)
          PROVE  IInv'
      BY <1>1, <3>1, StepCreateReg, StepCreateDir
    <3>2. CASE Get(t) \/ Find(t) \/ NoDirectory(t) \/ Exists(t)
      BY <1>1, <3>2, StepGet, StepFind, StepReturn
    <3>3. CASE CreateDirCrash(t) \/ RmEntryCrash(t) \/ AddEntryCrash(t)
      BY <1>1, <3>3, StepCrash
    <3>4. CASE LinkUp(t) \/ Unlink(t) \/ Rmdir(t)
      BY <1>1, <3>4, StepLinkUp, StepUnlink, StepRmdir
    <3>5. CASE NoEntry(t) \/ RmEntry(t) \/ Unlinking(t)
      BY <1>1, <3>5, StepNoEntry, StepRmEntry, StepUnlinking
    <3>6. CASE \/ RenameFind(t) \/ RenameFindOther(t)
               \/ AddTaken(t) \/ AddEntry(t) \/ Linking(t)
      BY <1>1, <3>6, StepRenameFind, StepRenameFindOther, StepAddTaken,
         StepAddEntry, StepLinking
    <3> QED
      BY <2>3, <3>1, <3>2, <3>3, <3>4, <3>5, <3>6 DEF Proceed
  <2> QED
    BY <1>1, <2>1, <2>2, <2>3 DEF Next
<1> QED
  BY <1>1, Initially, PTL DEF Spec

\* Type correctness of the name tree and of the calls at work on it: the guids
\* callbacks hold are files, whatever has become of the files meanwhile.
THEOREM TypeCorrect == Spec => []TypeOK
  BY Invariance, PTL DEF IInv

\* BasicFile::nlink is the number of entries that name the file, for any
\* number of callbacks that create, move and remove names at the same time.
THEOREM CountsLinks == Spec => []LinkCount
  BY Invariance, PTL DEF IInv

\* A file that exists for FileMap::get is named by some directory.
THEOREM KeepsOnlyNamed == Spec => []KeptIsNamed
<1>1. IInv => KeptIsNamed
  <2> SUFFICES ASSUME IInv, NEW n \in Ids, m_exist[n], Links(n, entries) = {}
               PROVE  FALSE
    BY DEF KeptIsNamed
  <2>1. nlink[n] > 0 /\ nlink[n] = Cardinality(Links(n, entries))
    BY DEF IInv, ExistIsLinked, LinkCount
  <2> QED
    BY <2>1, FS_EmptySet
<1> QED
  BY <1>1, Invariance, PTL

\* dec_nlink lets a file cease to exist only when its last name goes.
THEOREM LastNameEnds == Spec => DiesUnnamed
<1>1. ASSUME IInv, [Next]_vars, NEW n \in Ids, m_exist[n], ~m_exist'[n]
      PROVE  Links(n, entries') = {}
  <2>1. PICK t \in Threads : Unlinking(t)
    <3>1. ASSUME NEW t \in Threads, BeginCall(t)
          PROVE  FALSE
      BY <1>1, <3>1 DEF BeginCall, azs_create, azs_mkdir, azs_unlink, azs_rmdir,
                  azs_rename, Begin, fileVars
    <3>2. \A t \in Threads : \A k \in Unused : ~CreateDir(t, k) /\ ~CreateReg(t, k)
      BY <1>1 DEF CreateDir, CreateReg, IInv, TypeOK, Unused
    <3>3. \A t \in Threads : ~(Get(t) \/ Find(t) \/ NoDirectory(t)
                               \/ Exists(t) \/ LinkUp(t) \/ Linking(t)
                               \/ Unlink(t) \/ Rmdir(t) \/ NoEntry(t))
      BY <1>1 DEF Get, Find, NoDirectory, Exists, LinkUp, Linking, Unlink,
                  Rmdir, NoEntry, fileVars
    <3>4. \A t \in Threads : ~(CreateDirCrash(t) \/ RmEntryCrash(t)
                               \/ AddEntryCrash(t) \/ RmEntry(t)
                               \/ RenameFind(t) \/ RenameFindOther(t)
                               \/ AddTaken(t) \/ AddEntry(t))
      BY <1>1 DEF CreateDirCrash, RmEntryCrash, AddEntryCrash, Crash, RmEntry,
                  RenameFind, RenameFindOther, AddTaken, AddEntry, fileVars
    <3> QED
      BY <1>1, <3>1, <3>2, <3>3, <3>4 DEF Next, Proceed, vars, fileVars
  <2>2. PICK d \in Ids, nm \in AllNames, k \in Ids : LosesLink(t, d, nm, k)
    BY <1>1, <2>1, UnlinkingLinks
  <2>3. nlink'[n] = 0
    BY <1>1, <2>2 DEF LosesLink, IInv, TypeOK
  <2>4. Cardinality(Links(n, entries')) = 0
    BY <2>2, <2>3 DEF LosesLink, LinkCount
  <2>5. IsFiniteSet(Links(n, entries'))
    BY <2>2, LinksFinite DEF LosesLink
  <2> QED
    BY <2>4, <2>5, FS_EmptySet
<1>2. IInv /\ [Next]_vars =>
        [\A n \in Ids :
           m_exist[n] /\ ~m_exist'[n] => Links(n, entries') = {}]_vars
  BY <1>1
<1> QED
  BY <1>2, Invariance, PTL DEF Spec, DiesUnnamed

-----------------------------------------------------------------------------
(***************************************************************************)
(* Calls that follow one another.                                          *)
(***************************************************************************)
OneAtWork ==
  \A t, u \in Threads : pc[t] # "idle" /\ pc[u] # "idle" => t = u

LinkedExist ==
  \A d \in Ids : \A nm \in DOMAIN entries[d] : m_exist[entries[d][nm]]

\* What the only call has found exists as long as the call relies on it.
Seen(t) ==
  /\ pc[t] \in {"get", "find", "mkdir", "linkup"} =>
       \A i \in DOMAIN found[t] :
         found[t][i] # Null => m_exist[found[t][i]]
  /\ pc[t] \in {"findother", "add", "linking"} /\ uid[t] # Null =>
       m_exist[uid[t]]

AloneInv ==
  ~raced => Up /\ OneAtWork /\ LinkedExist /\ \A t \in Threads : Seen(t)

LEMMA AloneStep ==
  ASSUME IInv, AloneInv, ~raced, raced' = raced, NEW t \in Threads,
         pc[t] # "idle", Others(t), pc'[t] # "crashed",
         LinkedExist', Seen(t)'
  PROVE  AloneInv'
<1>1. \A u \in Threads \ {t} : pc[u] = "idle" /\ pc'[u] = "idle"
  BY DEF AloneInv, OneAtWork, Others
<1>2. Up' /\ OneAtWork'
  BY <1>1 DEF Up, OneAtWork
<1>3. \A u \in Threads \ {t} : Seen(u)'
  BY <1>1 DEF Seen
<1> QED
  BY <1>2, <1>3 DEF AloneInv

\* A step that changes neither entries nor what exists.
LEMMA AloneQuiet ==
  ASSUME IInv, AloneInv, ~raced, raced' = raced, NEW t \in Threads,
         pc[t] # "idle", Others(t), pc'[t] # "crashed",
         UNCHANGED <<m_exist, entries>>, Seen(t)'
  PROVE  AloneInv'
<1>1. LinkedExist'
  BY DEF AloneInv, LinkedExist
<1> QED
  BY <1>1, AloneStep

LEMMA AloneBegin ==
  ASSUME IInv, AloneInv, NEW t \in Threads, BeginCall(t)
  PROVE  AloneInv'
<1> SUFFICES ASSUME ~raced' PROVE AloneInv'
  BY DEF AloneInv
<1>1. /\ pc[t] = "idle"
      /\ pc' = [pc EXCEPT ![t] = "get"]
      /\ raced' = (raced \/ \E u \in Threads : pc[u] # "idle")
      /\ UNCHANGED <<m_exist, entries, found, uid>>
  BY DEF BeginCall, azs_create, azs_mkdir, azs_unlink, azs_rmdir, azs_rename,
         Begin, Goto, fileVars
<1>2. /\ ~raced /\ \A u \in Threads : pc[u] = "idle"
      /\ \A u \in Threads \ {t} : pc'[u] = "idle"
      /\ pc'[t] = "get"
  BY <1>1 DEF IInv, TypeOK
<1>3. LinkedExist'
  BY <1>1, <1>2 DEF AloneInv, LinkedExist
<1>4. Up' /\ OneAtWork'
  BY <1>2 DEF Up, OneAtWork
<1>5. found[t] = <<>>
  BY <1>1, LocalTypes DEF Shape
<1>6. \A u \in Threads : Seen(u)'
  BY <1>1, <1>2, <1>5 DEF Seen
<1> QED
  BY <1>3, <1>4, <1>6 DEF AloneInv

LEMMA AloneParsed ==
  ASSUME IInv, AloneInv, ~raced, NEW t \in Threads,
         pc[t] \in {"get", "find"},
         NEW dir \in Ids \cup {Null}, Parsed(t, dir),
         dir # Null => m_exist[dir],
         UNCHANGED <<fileVars, call, uid, work, ops, raced>>
  PROVE  AloneInv'
<1>1. /\ found' = [found EXCEPT ![t] = Append(@, dir)]
      /\ pc' = [pc EXCEPT ![t] = IF Len(todo[t]) = 1 THEN call[t].op
                                                     ELSE "get"]
      /\ Others(t) /\ UNCHANGED <<m_exist, entries>>
  BY DEF Parsed, Goto, Others, fileVars
<1>2. /\ found[t] \in Seq(Ids \cup {Null}) /\ call[t].op \in Ops
  BY LocalTypes DEF Shape
<1>3. pc'[t] \in Ops \cup {"get"}
  BY <1>1, <1>2 DEF IInv, TypeOK
<1>4. found'[t] = Append(found[t], dir)
  BY <1>1 DEF IInv, TypeOK
<1>5. \A i \in DOMAIN found[t] : found[t][i] # Null => m_exist[found[t][i]]
  BY DEF AloneInv, Seen
<1>6. \A i \in DOMAIN Append(found[t], dir) :
        Append(found[t], dir)[i] # Null => m_exist[Append(found[t], dir)[i]]
  <2>1. \A i \in DOMAIN Append(found[t], dir) :
          \/ i \in DOMAIN found[t] /\ Append(found[t], dir)[i] = found[t][i]
          \/ Append(found[t], dir)[i] = dir
    BY <1>2
  <2> QED
    BY <1>5, <2>1
<1>7. Seen(t)'
  BY <1>1, <1>3, <1>4, <1>6 DEF Seen, Ops
<1> QED
  BY <1>1, <1>3, <1>7, AloneQuiet DEF Ops

LEMMA AloneWalks ==
  ASSUME IInv, AloneInv, ~raced, NEW t \in Threads, Get(t) \/ Find(t)
  PROVE  AloneInv'
<1>1. at[t] \in Ids
  BY LocalTypes
<1>2. ASSUME pc[t] \in {"get", "find"}, pc'[t] \in {"get", "find"}, Others(t),
             UNCHANGED <<m_exist, entries, found, raced>>
      PROVE  AloneInv'
  <2>1. Seen(t)'
    BY <1>2 DEF Seen, AloneInv
  <2> QED
    BY <1>2, <2>1, AloneQuiet
<1>3. CASE Get(t)
  <2>1. CASE Head(todo[t]) # <<>> /\ IsDir(at[t])
    <3>1. /\ pc[t] = "get" /\ Goto(t, "find") /\ UNCHANGED walkVars
          /\ UNCHANGED <<fileVars, call, uid, work, ops, raced>>
      BY <1>3, <2>1 DEF Get
    <3>2. pc'[t] = "find"
      BY <3>1 DEF Goto, IInv, TypeOK
    <3>3. Others(t)
      BY <3>1 DEF Goto, Others, walkVars
    <3> QED
      BY <1>2, <3>1, <3>2, <3>3 DEF fileVars, walkVars
  <2>2. CASE ~(Head(todo[t]) # <<>> /\ IsDir(at[t]))
    <3>1. \E dir \in {at[t], Null} :
            Parsed(t, dir) /\ (dir # Null => m_exist[dir])
      BY <1>3, <2>2 DEF Get, IsDir
    <3> QED
      BY <1>1, <1>3, <3>1, AloneParsed DEF Get
  <2> QED
    BY <2>1, <2>2
<1>4. CASE Find(t)
  <2> DEFINE nm == Head(todo[t])[1]
  <2>1. CASE nm \in DOMAIN entries[at[t]]
    <3>1. /\ pc[t] = "find" /\ Goto(t, "get")
          /\ at' = [at EXCEPT ![t] = entries[@][nm]]
          /\ todo' = [todo EXCEPT ![t] = <<Tail(Head(@))>> \o Tail(@)]
          /\ UNCHANGED <<found, fileVars, call, uid, work, ops, raced>>
      BY <1>4, <2>1 DEF Find
    <3>2. pc'[t] = "get"
      BY <3>1 DEF Goto, IInv, TypeOK
    <3>3. Others(t)
      BY <3>1 DEF Goto, Others
    <3> QED
      BY <1>2, <3>1, <3>2, <3>3 DEF fileVars
  <2>2. CASE nm \notin DOMAIN entries[at[t]]
    BY <1>4, <2>2, AloneParsed DEF Find
  <2> QED
    BY <2>1, <2>2
<1> QED
  BY <1>3, <1>4

\* Where nothing that has been found matters any more.
LEMMA AloneLater ==
  ASSUME IInv, AloneInv, ~raced, NEW t \in Threads,
         \/ NoDirectory(t) \/ Exists(t) \/ Unlink(t) \/ Rmdir(t)
         \/ NoEntry(t) \/ RmEntry(t) \/ AddTaken(t)
  PROVE  AloneInv'
<1>1. pc[t] # "idle" /\ UNCHANGED <<todo, at, m_exist, entries, raced>>
  BY DEF NoDirectory, Exists, Unlink, Rmdir, NoEntry, RmEntry, AddTaken, At,
         AtRemove, fileVars, walkVars
<1>2. \/ Return(t)
      \/ /\ \/ \E list : ToRemove(t, list)
            \/ Goto(t, "unlinking") /\ UNCHANGED work
         /\ UNCHANGED <<call, found, uid>>
  BY DEF NoDirectory, Exists, Unlink, Rmdir, NoEntry, RmEntry, AddTaken,
         NextRemove, walkVars
<1>3. pc'[t] \in {"idle", "remove", "unlinking"}
  BY <1>2 DEF Return, ToRemove, Goto, IInv, TypeOK
<1>4. Others(t)
  <2>1. CASE Return(t)
    BY <1>1, <2>1 DEF Return, Goto, Others
  <2>2. ASSUME NEW list, ToRemove(t, list), UNCHANGED <<call, found, uid>>
        PROVE  Others(t)
    BY <1>1, <2>2 DEF ToRemove, Goto, Others
  <2>3. CASE Goto(t, "unlinking") /\ UNCHANGED <<work, call, found, uid>>
    BY <1>1, <2>3 DEF Goto, Others
  <2> QED
    BY <1>2, <2>1, <2>2, <2>3
<1>5. Seen(t)'
  BY <1>3 DEF Seen
<1> QED
  BY <1>1, <1>3, <1>4, <1>5, AloneQuiet

LEMMA AloneRename ==
  ASSUME IInv, AloneInv, ~raced, NEW t \in Threads,
         RenameFind(t) \/ RenameFindOther(t) \/ AddEntry(t)
  PROVE  AloneInv'
<1>1. CASE RenameFind(t)
  <2>1. /\ pc'[t] = "findother" /\ pc[t] # "idle" /\ Others(t)
        /\ UNCHANGED <<m_exist, entries, raced>>
        /\ uid'[t] = Entry(Parent(t), call[t].nm)
    BY <1>1 DEF RenameFind, At, Goto, Others, fileVars, walkVars, IInv, TypeOK
  <2>2. Parent(t) \in Ids
    BY <1>1, Found, LocalTypes DEF RenameFind, Shape, At
  <2>3. uid'[t] # Null => m_exist[uid'[t]]
    BY <2>1, <2>2 DEF Entry, AloneInv, LinkedExist
  <2>4. Seen(t)'
    BY <2>1, <2>3 DEF Seen
  <2> QED
    BY <2>1, <2>4, AloneQuiet
<1>2. CASE RenameFindOther(t) \/ AddEntry(t)
  <2>1. /\ pc[t] \in {"findother", "add"}
        /\ UNCHANGED <<todo, at, m_exist, entries, raced>>
    BY <1>2 DEF RenameFindOther, AddEntry, At, fileVars, walkVars
  <2>2. \/ Return(t)
        \/ /\ Goto(t, "add") \/ Goto(t, "linking")
           /\ UNCHANGED <<call, found, uid, work>>
    BY <1>2 DEF RenameFindOther, AddEntry, walkVars
  <2>3. pc'[t] = "idle" \/ (pc'[t] \in {"add", "linking"} /\ uid' = uid)
    BY <2>2 DEF Return, Goto, IInv, TypeOK
  <2>4. Others(t)
    <3>1. CASE Return(t)
      BY <2>1, <3>1 DEF Return, Goto, Others
    <3>2. ASSUME NEW w, Goto(t, w), UNCHANGED <<call, found, uid, work>>
          PROVE  Others(t)
      BY <2>1, <3>2 DEF Goto, Others
    <3> QED
      BY <2>2, <3>1, <3>2
  <2>5. Seen(t)'
    BY <2>1, <2>3 DEF Seen, AloneInv
  <2> QED
    BY <2>1, <2>3, <2>4, <2>5, AloneQuiet
<1> QED
  BY <1>1, <1>2

LEMMA AloneSurvives ==
  ASSUME IInv, AloneInv, ~raced, NEW t \in Threads
  PROVE  ~(CreateDirCrash(t) \/ RmEntryCrash(t) \/ AddEntryCrash(t))
<1>1. ASSUME CreateDirCrash(t) PROVE FALSE
  <2>1. /\ pc[t] = "mkdir" /\ ~m_exist[found[t][1]]
        /\ \A i \in DOMAIN found[t] : found[t][i] # Null
    BY <1>1 DEF CreateDirCrash, At, Parent
  <2>2. Len(found[t]) = 1 /\ found[t] \in Seq(Ids \cup {Null})
    BY <2>1, LocalTypes DEF Shape
  <2>3. 1 \in DOMAIN found[t]
    BY <2>2
  <2> QED
    BY <2>1, <2>3 DEF AloneInv, Seen
<1>2. ASSUME RmEntryCrash(t) PROVE FALSE
  <2>1. work[t] # <<>> /\ work[t] \in Seq(Ids \X AllNames)
    BY <1>2, LocalTypes DEF RmEntryCrash, AtRemove, Shape
  <2>2. RmDir(t) \in Ids
    BY <2>1 DEF RmDir
  <2> QED
    BY <1>2, <2>2 DEF RmEntryCrash, AloneInv, LinkedExist
<1>3. ASSUME AddEntryCrash(t) PROVE FALSE
  BY <1>3, LocalTypes DEF AddEntryCrash, At, Shape, AloneInv, Seen
<1> QED
  BY <1>1, <1>2, <1>3

LEMMA AloneCreates ==
  ASSUME IInv, AloneInv, ~raced, NEW t \in Threads, NEW n \in Unused,
         CreateReg(t, n) \/ CreateDir(t, n)
  PROVE  AloneInv'
<1>1. /\ pc[t] \in {"create", "mkdir"} /\ Others(t) /\ raced' = raced
      /\ pc'[t] \in {"idle", "linkup"}
      /\ m_exist' = [m_exist EXCEPT ![n] = TRUE]
      /\ pc'[t] = "linkup" => pc[t] = "mkdir" /\ found' = found
  <2>1. CASE CreateReg(t, n)
    BY <2>1 DEF CreateReg, At, Return, Goto, Others, IInv, TypeOK
  <2>2. CASE CreateDir(t, n)
    BY <2>2 DEF CreateDir, At, Goto, Others, walkVars, IInv, TypeOK
  <2> QED
    BY <2>1, <2>2
<1>2. n \in Ids /\ DOMAIN entries = Ids
  BY DEF Unused, IInv, TypeOK
<1>3. \A k \in Ids : m_exist[k] => m_exist'[k]
  BY <1>1 DEF IInv, TypeOK
<1>4. m_exist'[n]
  BY <1>1, <1>2 DEF IInv, TypeOK
<1>5. Parent(t) \in Ids
  BY <1>1, Found, LocalTypes DEF CreateReg, CreateDir, Shape, At
<1>6. \A d \in Ids : \A nm \in DOMAIN entries'[d] :
        \/ entries'[d][nm] = n
        \/ nm \in DOMAIN entries[d] /\ entries'[d][nm] = entries[d][nm]
  <2>1. CASE CreateReg(t, n)
    BY <1>2, <1>5, <2>1 DEF CreateReg, WithEntry
  <2>2. CASE CreateDir(t, n)
    BY <1>2, <2>2 DEF CreateDir
  <2> QED
    BY <2>1, <2>2
<1>7. LinkedExist'
  <2> SUFFICES ASSUME NEW d \in Ids, NEW nm \in DOMAIN entries'[d]
               PROVE  m_exist'[entries'[d][nm]]
    BY DEF LinkedExist
  <2>1. CASE entries'[d][nm] = n
    BY <1>4, <2>1
  <2>2. CASE nm \in DOMAIN entries[d] /\ entries'[d][nm] = entries[d][nm]
    BY <1>3, <2>2 DEF AloneInv, LinkedExist, IInv, TypeOK
  <2> QED
    BY <1>6, <2>1, <2>2
<1>8. Seen(t)'
  <2>1. found[t] \in Seq(Ids \cup {Null})
    BY LocalTypes
  <2>2. pc'[t] = "linkup" =>
          \A i \in DOMAIN found'[t] :
            found'[t][i] # Null => m_exist'[found'[t][i]]
    BY <1>1, <1>3, <2>1 DEF AloneInv, Seen
  <2> QED
    BY <1>1, <2>2 DEF Seen
<1> QED
  BY <1>1, <1>7, <1>8, AloneStep

LEMMA AloneLinks ==
  ASSUME IInv, AloneInv, ~raced, NEW t \in Threads, LinkUp(t) \/ Linking(t)
  PROVE  AloneInv'
<1>1. /\ pc[t] \in {"linkup", "linking"} /\ Others(t) /\ raced' = raced
      /\ pc'[t] \in {"idle", "remove"} /\ m_exist' = m_exist
  <2>1. CASE LinkUp(t)
    BY <2>1 DEF LinkUp, At, Return, Goto, Others, IInv, TypeOK
  <2>2. CASE Linking(t)
    BY <2>2 DEF Linking, At, ToRemove, Goto, Others, walkVars, IInv, TypeOK
  <2> QED
    BY <2>1, <2>2
<1>2. DOMAIN entries = Ids
  BY DEF IInv, TypeOK
<1>3. LinkedExist'
  <2>1. CASE LinkUp(t)
    <3>1. /\ pc[t] = "linkup" /\ \A i \in DOMAIN found[t] : found[t][i] # Null
          /\ entries' = [entries EXCEPT
                           ![uid[t]] = WithEntry(uid[t], DotDot, Parent(t)),
                           ![Parent(t)] =
                             WithEntry(Parent(t), call[t].nm, uid[t])]
      BY <2>1 DEF LinkUp, At
    <3>2. 1 \in DOMAIN found[t]
      <4>1. Len(found[t]) = 1 /\ found[t] \in Seq(Ids \cup {Null})
        BY <3>1, LocalTypes DEF Shape
      <4> QED
        BY <4>1
    <3>3. m_exist[Parent(t)]
      BY <3>1, <3>2 DEF AloneInv, Seen, Parent
    <3>4. Fresh(t, uid[t])
      BY <3>1 DEF IInv
    <3>5. m_exist[uid[t]]
      <4>1. /\ uid[t] \in Ids /\ Dot \in DOMAIN entries[uid[t]]
            /\ entries[uid[t]][Dot] = uid[t]
        BY <3>4 DEF Fresh
      <4> QED
        BY <4>1 DEF AloneInv, LinkedExist
    <3>6. \A d \in Ids : \A nm \in DOMAIN entries'[d] :
            \/ entries'[d][nm] \in {uid[t], Parent(t)}
            \/ nm \in DOMAIN entries[d] /\ entries'[d][nm] = entries[d][nm]
      BY <1>2, <3>1 DEF WithEntry
    <3> QED
      BY <1>1, <3>3, <3>5, <3>6 DEF AloneInv, LinkedExist
  <2>2. CASE Linking(t)
    <3>1. /\ pc[t] = "linking"
          /\ entries' = [entries EXCEPT ![Other(t)] =
                           WithEntry(Other(t), call[t].qn, uid[t])]
      BY <2>2 DEF Linking, At
    <3>2. m_exist[uid[t]]
      BY <3>1, LocalTypes DEF Shape, AloneInv, Seen
    <3>3. \A d \in Ids : \A nm \in DOMAIN entries'[d] :
            \/ entries'[d][nm] = uid[t]
            \/ nm \in DOMAIN entries[d] /\ entries'[d][nm] = entries[d][nm]
      BY <1>2, <3>1 DEF WithEntry
    <3> QED
      BY <1>1, <3>2, <3>3 DEF AloneInv, LinkedExist
  <2> QED
    BY <2>1, <2>2
<1>4. Seen(t)'
  BY <1>1 DEF Seen
<1> QED
  BY <1>1, <1>3, <1>4, AloneStep

LEMMA AloneUnlinks ==
  ASSUME IInv, AloneInv, ~raced, NEW t \in Threads, Unlinking(t)
  PROVE  AloneInv'
<1>1. PICK d \in Ids, nm \in AllNames, n \in Ids : LosesLink(t, d, nm, n)
  BY UnlinkingLinks
<1>2. /\ pc[t] = "unlinking" /\ Others(t) /\ raced' = raced
      /\ pc'[t] \in {"idle", "remove"}
  <2>1. /\ pc[t] = "unlinking" /\ NextRemove(t)
        /\ UNCHANGED <<todo, at, raced>>
    BY DEF Unlinking
  <2>2. pc'[t] \in {"idle", "remove"}
    BY <2>1 DEF NextRemove, Return, ToRemove, Goto, IInv, TypeOK
  <2> QED
    BY <2>1, <2>2, NextRemoveLocal
<1>3. ASSUME NEW e \in Ids, NEW x \in DOMAIN entries'[e]
      PROVE  m_exist'[entries'[e][x]]
  <2>1. /\ IsTree(entries') /\ x \in AllNames /\ entries'[e][x] \in Ids
    BY <1>1, <1>3 DEF LosesLink, IsTree
  <2>2. x \in DOMAIN entries[e] /\ entries'[e][x] = entries[e][x]
    BY <1>1, <1>3 DEF LosesLink
  <2>3. m_exist[entries'[e][x]]
    BY <2>2 DEF AloneInv, LinkedExist
  <2>4. CASE entries'[e][x] # n
    BY <1>1, <2>1, <2>3, <2>4 DEF LosesLink, IInv, TypeOK
  <2>5. CASE entries'[e][x] = n
    <3>1. <<e, x>> \in Links(n, entries')
      BY <2>1, <2>5 DEF Links, IsTree, AllNames
    <3>2. nlink'[n] # 0 /\ nlink'[n] = nlink[n] - 1
      <4>1. IsFiniteSet(Links(n, entries'))
        BY <2>1, LinksFinite
      <4>2. Cardinality(Links(n, entries')) # 0
        BY <3>1, <4>1, FS_EmptySet
      <4> QED
        BY <1>1, <4>2 DEF LosesLink, LinkCount, IInv, TypeOK
    <3>3. nlink[n] - 1 > 0
      BY <1>1, <3>2 DEF LosesLink, IInv, TypeOK
    <3> QED
      BY <1>1, <2>3, <2>5, <3>3 DEF LosesLink, IInv, TypeOK
  <2> QED
    BY <2>4, <2>5
<1>4. LinkedExist'
  BY <1>3 DEF LinkedExist
<1>5. Seen(t)'
  BY <1>2 DEF Seen
<1> QED
  BY <1>2, <1>4, <1>5, AloneStep

LEMMA AloneInductive ==
  IInv /\ AloneInv /\ [Next]_vars => AloneInv'
<1> SUFFICES ASSUME IInv, AloneInv, [Next]_vars, ~raced'
             PROVE  AloneInv'
  BY DEF AloneInv
<1>1. CASE UNCHANGED vars
  BY <1>1 DEF vars, fileVars, walkVars, AloneInv, Up, OneAtWork, LinkedExist,
              Seen
<1>2. ASSUME NEW t \in Threads, BeginCall(t)
      PROVE  AloneInv'
  BY <1>2, AloneBegin
<1>3. ASSUME NEW t \in Threads, Proceed(t)
      PROVE  AloneInv'
  <2>1. ~raced
    BY <1>3 DEF Proceed, Get, Find, NoDirectory, Exists, CreateReg, CreateDir,
           CreateDirCrash, LinkUp, Unlink, Rmdir, NoEntry, RmEntry,
           RmEntryCrash, Unlinking, RenameFind, RenameFindOther, AddTaken,
           AddEntry, AddEntryCrash, Linking, Crash
  <2>2. ASSUME NEW n \in Unused, CreateReg(t, n) \/ CreateDir(t, n)
        PROVE  AloneInv'
    BY <2>1, <2>2, AloneCreates
  <2>3. ~(CreateDirCrash(t) \/ RmEntryCrash(t) \/ AddEntryCrash(t))
    BY <2>1, AloneSurvives
  <2>4. CASE Get(t) \/ Find(t)
    BY <2>1, <2>4, AloneWalks
  <2>5. CASE \/ NoDirectory(t) \/ Exists(t) \/ Unlink(t) \/ Rmdir(t)
             \/ NoEntry(t) \/ RmEntry(t) \/ AddTaken(t)
    BY <2>1, <2>5, AloneLater
  <2>6. CASE RenameFind(t) \/ RenameFindOther(t) \/ AddEntry(t)
    BY <2>1, <2>6, AloneRename
  <2>7. CASE LinkUp(t) \/ Linking(t)
    BY <2>1, <2>7, AloneLinks
  <2>8. CASE Unlinking(t)
    BY <2>1, <2>8, AloneUnlinks
  <2> QED
    BY <1>3, <2>2, <2>3, <2>4, <2>5, <2>6, <2>7, <2>8 DEF Proceed
<1> QED
  BY <1>1, <1>2, <1>3 DEF Next

LEMMA AloneStart == Init => AloneInv
<1> SUFFICES ASSUME Init PROVE AloneInv
  OBVIOUS
<1>1. /\ \A d \in Ids : entries[d] = IF d \in DOMAIN Tree0 THEN Tree0[d]
                                                           ELSE NoEntries
      /\ \A n \in Ids : m_exist[n] = (n \in DOMAIN Tree0 \cup Files0)
      /\ \A t \in Threads : pc[t] = "idle"
  BY DEF Init
<1>2. DOMAIN NoEntries = {}
  BY DEF NoEntries
<1>3. LinkedExist
  BY <1>1, <1>2, NamespaceAssumption DEF LinkedExist
<1> QED
  BY <1>1, <1>3 DEF AloneInv, Up, OneAtWork, Seen

\* Calls that follow one another, of any number and on any tree, never follow
\* a null pointer from FileMap::get: an entry that is left names a file that
\* still exists.
THEOREM AloneIsSafe == Spec => []AloneNeverCrashes
<1>1. AloneInv => AloneNeverCrashes
  BY DEF AloneInv, AloneNeverCrashes
<1> QED
  BY <1>1, AloneStart, AloneInductive, Invariance, PTL DEF Spec

-----------------------------------------------------------------------------
(***************************************************************************)
(* The tree that such calls keep.  First what Reachable and Resolve, which *)
(* are recursive functions, come to.                                       *)
(***************************************************************************)
\* Induction on the natural numbers, for a set.
LEMMA InductionOnSet ==
  ASSUME NEW S, 0 \in S, \A k \in Nat : k \in S => k + 1 \in S
  PROVE  Nat \subseteq S
<1> DEFINE T == Nat \ S
<1> SUFFICES ASSUME T # {} PROVE FALSE
  OBVIOUS
<1>1. T \subseteq Nat
  OBVIOUS
<1> HIDE DEF T
<1>2. PICK x \in T : \A y \in T : ~ (<<y, x>> \in OpToRel(<, Nat))
  BY <1>1, NatLessThanWellFounded, WFMin, Zenon
<1> USE DEF T
<1>3. x \in Nat /\ x \notin S /\ x # 0
  BY <1>2
<1>4. x - 1 \in Nat /\ x - 1 < x /\ (x - 1) + 1 = x
  BY <1>3
<1>5. x - 1 \notin S
  BY <1>3, <1>4
<1>6. <<x - 1, x>> \in OpToRel(<, Nat)
  BY <1>3, <1>4 DEF OpToRel
<1> QED
  BY <1>2, <1>4, <1>5, <1>6

-----------------------------------------------------------------------------
\* The files that paths of names lead to are the least set that has the root
\* and is closed under names.
Closed(tree, S) ==
  \A d \in S : \A nm \in Names \cap DOMAIN tree[d] : tree[d][nm] \in S

Reach(tree) ==
  {n \in Ids : \A S \in SUBSET Ids : Root \in S /\ Closed(tree, S) => n \in S}

LEMMA ReachFacts ==
  ASSUME NEW tree, IsTree(tree)
  PROVE  /\ Root \in Reach(tree) /\ Reach(tree) \subseteq Ids
         /\ Closed(tree, Reach(tree))
         /\ \A S \in SUBSET Ids :
              Root \in S /\ Closed(tree, S) => Reach(tree) \subseteq S
<1>1. Root \in Ids
  BY NamespaceAssumption
<1>2. Closed(tree, Reach(tree))
  <2> SUFFICES ASSUME NEW d \in Reach(tree),
                      NEW nm \in Names \cap DOMAIN tree[d],
                      NEW S \in SUBSET Ids, Root \in S, Closed(tree, S)
               PROVE  tree[d][nm] \in S
    BY DEF Closed, Reach, IsTree
  <2> QED
    BY DEF Reach, Closed
<1> QED
  BY <1>1, <1>2 DEF Reach

Below(S) ==
  S \cup {entries[e[1]][e[2]] :
            e \in {e \in S \X Names : e[2] \in DOMAIN entries[e[1]]}}

IsDown(f, N) ==
  f = [k \in 0..N |-> IF k = 0 THEN {Root} ELSE Below(f[k-1])]

LEMMA BelowFacts ==
  ASSUME NEW S
  PROVE  /\ S \subseteq Below(S)
         /\ \A d \in S : \A nm \in Names \cap DOMAIN entries[d] :
              entries[d][nm] \in Below(S)
         /\ \A n \in Below(S) :
              \/ n \in S
              \/ \E d \in S : \E nm \in Names \cap DOMAIN entries[d] :
                   n = entries[d][nm]
<1>1. ASSUME NEW d \in S, NEW nm \in Names \cap DOMAIN entries[d]
      PROVE  entries[d][nm] \in Below(S)
  <2>1. <<d, nm>> \in {e \in S \X Names : e[2] \in DOMAIN entries[e[1]]}
    OBVIOUS
  <2> QED
    BY <2>1 DEF Below
<1>2. ASSUME NEW n \in Below(S), n \notin S
      PROVE  \E d \in S : \E nm \in Names \cap DOMAIN entries[d] :
               n = entries[d][nm]
  BY <1>2 DEF Below
<1> QED
  BY <1>1, <1>2 DEF Below

LEMMA DownExists ==
  \A N \in Nat : \E f : IsDown(f, N)
<1> DEFINE S == {N \in Nat : \E f : IsDown(f, N)}
<1>1. 0 \in S
  <2> DEFINE f == [k \in 0..0 |-> {Root}]
  <2>1. IsDown(f, 0)
    BY DEF IsDown
  <2> QED
    BY <2>1
<1>2. ASSUME NEW N \in Nat, N \in S
      PROVE  N + 1 \in S
  <2>1. PICK f : IsDown(f, N)
    BY <1>2
  <2> DEFINE g == [k \in 0..(N + 1) |->
                     IF k = N + 1 THEN Below(f[N]) ELSE f[k]]
  <2>2. IsDown(g, N + 1)
    <3>1. ASSUME NEW k \in 0..(N + 1)
          PROVE  g[k] = IF k = 0 THEN {Root} ELSE Below(g[k-1])
      <4>1. CASE k = N + 1
        <5>1. k # 0 /\ g[k - 1] = f[N]
          BY <4>1
        <5> QED
          BY <4>1, <5>1
      <4>2. CASE k # N + 1 /\ k = 0
        BY <2>1, <4>2 DEF IsDown
      <4>3. CASE k # N + 1 /\ k # 0
        <5>1. k \in 0..N /\ k - 1 \in 0..(N + 1) /\ k - 1 # N + 1
          BY <4>3
        <5>2. g[k] = f[k] /\ g[k - 1] = f[k - 1]
          BY <5>1
        <5>3. f[k] = Below(f[k - 1])
          BY <2>1, <4>3, <5>1 DEF IsDown
        <5> HIDE DEF g
        <5> QED
          BY <4>3, <5>2, <5>3
      <4> QED
        BY <4>1, <4>2, <4>3
    <3>2. g = [k \in 0..(N + 1) |-> g[k]]
      OBVIOUS
    <3> HIDE DEF g
    <3> QED
      BY <3>1, <3>2 DEF IsDown
  <2> QED
    BY <2>2
<1>3. Nat \subseteq S
  <2> HIDE DEF S
  <2> QED
    BY <1>1, <1>2, InductionOnSet
<1> QED
  BY <1>3

LEMMA DownReaches ==
  ASSUME IsTree(entries), NEW f, IsDown(f, Cardinality(Ids))
  PROVE  f[Cardinality(Ids)] = Reach(entries)
<1> DEFINE N == Cardinality(Ids)
<1>1. N \in Nat /\ IsFiniteSet(Ids)
  BY FS_CardinalityType, NamespaceAssumption
<1>2. /\ f[0] = {Root}
      /\ \A k \in 0..N : k + 1 \in 0..N => f[k + 1] = Below(f[k])
  <2>1. \A k \in 0..N : f[k] = IF k = 0 THEN {Root} ELSE Below(f[k-1])
    BY DEF IsDown
  <2> QED
    BY <1>1, <2>1
<1> HIDE DEF N
<1> DEFINE A == {k \in Nat : k \in 0..N => /\ Root \in f[k]
                                           /\ f[k] \subseteq Reach(entries)}
<1>3. Nat \subseteq A
  <2>1. 0 \in A
    BY <1>2, ReachFacts
  <2>2. ASSUME NEW k \in Nat, k \in A, k + 1 \in 0..N
        PROVE  /\ Root \in f[k + 1]
               /\ f[k + 1] \subseteq Reach(entries)
    <3>1. /\ k \in 0..N /\ f[k + 1] = Below(f[k])
          /\ Root \in f[k] /\ f[k] \subseteq Reach(entries)
      BY <1>1, <1>2, <2>2
    <3> QED
      BY <3>1, BelowFacts, ReachFacts DEF Closed
  <2>3. \A k \in Nat : k \in A => k + 1 \in A
    BY <2>2
  <2> HIDE DEF A
  <2> QED
    BY <2>1, <2>3, InductionOnSet
<1>4. ASSUME NEW k \in 0..N
      PROVE  /\ Root \in f[k] /\ f[k] \subseteq Reach(entries)
             /\ IsFiniteSet(f[k]) /\ Cardinality(f[k]) \in Nat
             /\ Cardinality(f[k]) <= N
  <2>1. Root \in f[k] /\ f[k] \subseteq Reach(entries)
    BY <1>1, <1>3
  <2>2. f[k] \in SUBSET Ids
    BY <2>1, ReachFacts
  <2> QED
    BY <1>1, <2>1, <2>2, FS_Subset, FS_CardinalityType DEF N
<1> DEFINE B == {k \in Nat : k \in 0..N =>
                   Closed(entries, f[k]) \/ Cardinality(f[k]) > k}
<1>5. Nat \subseteq B
  <2>1. 0 \in B
    <3>1. Cardinality(f[0]) = 1
      BY <1>2, FS_Singleton
    <3> QED
      BY <3>1
  <2>2. ASSUME NEW k \in Nat, k \in B, k + 1 \in 0..N
        PROVE  Closed(entries, f[k + 1]) \/ Cardinality(f[k + 1]) > k + 1
    <3>1. k \in 0..N /\ f[k + 1] = Below(f[k])
      BY <1>1, <1>2, <2>2
    <3>2. CASE Closed(entries, f[k])
      <4>1. f[k + 1] = f[k]
        BY <3>1, <3>2, BelowFacts DEF Closed
      <4> QED
        BY <3>2, <4>1
    <3>3. CASE ~Closed(entries, f[k])
      <4>1. Cardinality(f[k]) > k
        BY <2>2, <3>1, <3>3
      <4>2. f[k] \subseteq f[k + 1] /\ f[k] # f[k + 1]
        BY <3>1, <3>3, BelowFacts DEF Closed
      <4>3. /\ IsFiniteSet(f[k + 1])
            /\ Cardinality(f[k]) \in Nat /\ Cardinality(f[k + 1]) \in Nat
        BY <1>4, <2>2, <3>1
      <4>4. /\ Cardinality(f[k]) <= Cardinality(f[k + 1])
            /\ Cardinality(f[k]) # Cardinality(f[k + 1])
        BY <4>2, <4>3, FS_Subset
      <4> QED
        BY <4>1, <4>3, <4>4
    <3> QED
      BY <3>2, <3>3
  <2>3. \A k \in Nat : k \in B => k + 1 \in B
    BY <2>2
  <2> HIDE DEF B
  <2> QED
    BY <2>1, <2>3, InductionOnSet
<1>6. N \in 0..N
  BY <1>1
<1>7. Closed(entries, f[N])
  BY <1>1, <1>4, <1>5, <1>6
<1>8. Reach(entries) \subseteq f[N]
  BY <1>4, <1>6, <1>7, ReachFacts
<1>9. f[N] = Reach(entries)
  BY <1>4, <1>6, <1>8
<1> QED
  BY <1>9 DEF N

LEMMA ReachableIsReach ==
  ASSUME IsTree(entries)
  PROVE  Reachable = Reach(entries)
<1> DEFINE N == Cardinality(Ids)
           g == CHOOSE g : g = [k \in 0..N |->
             IF k = 0 THEN {Root}
             ELSE g[k-1] \cup {entries[e[1]][e[2]] : e \in
                    {e \in g[k-1] \X Names : e[2] \in DOMAIN entries[e[1]]}}]
<1>1. Reachable = g[Cardinality(Ids)]
  BY DEF Reachable
<1>2. PICK f : IsDown(f, N)
  BY DownExists, FS_CardinalityType, NamespaceAssumption
<1>3. f = [k \in 0..N |->
             IF k = 0 THEN {Root}
             ELSE f[k-1] \cup {entries[e[1]][e[2]] : e \in
                    {e \in f[k-1] \X Names : e[2] \in DOMAIN entries[e[1]]}}]
  BY <1>2 DEF IsDown, Below
<1>4. g = [k \in 0..N |->
             IF k = 0 THEN {Root}
             ELSE g[k-1] \cup {entries[e[1]][e[2]] : e \in
                    {e \in g[k-1] \X Names : e[2] \in DOMAIN entries[e[1]]}}]
  <2> HIDE DEF N
  <2> QED
    BY <1>3, Zenon
<1> HIDE DEF g
<1>5. IsDown(g, N)
  BY <1>4 DEF IsDown, Below
<1> QED
  BY <1>1, <1>5, DownReaches

-----------------------------------------------------------------------------
\* What a path leads to.
Walk(tree, w, path) ==
  w = [k \in 0..Len(path) |->
         IF k = 0 THEN Root
         ELSE IF w[k-1] # Null /\ path[k] \in DOMAIN tree[w[k-1]]
              THEN tree[w[k-1]][path[k]]
              ELSE Null]

IsWalk(w, path) == Walk(entries, w, path)

Leads(tree, path, n) == \E w : Walk(tree, w, path) /\ w[Len(path)] = n

\* The next step of a walk.
From(n, nm) ==
  IF n # Null /\ nm \in DOMAIN entries[n] THEN entries[n][nm] ELSE Null

LEMMA WalkFacts ==
  ASSUME NEW path \in Seq(Names), NEW w, IsWalk(w, path)
  PROVE  /\ w[0] = Root
         /\ \A k \in 0..Len(path) :
              k # Len(path) => w[k + 1] = From(w[k], path[k + 1])
<1>1. Len(path) \in Nat
  BY LenProperties
<1>2. \A k \in 0..Len(path) :
        w[k] = IF k = 0 THEN Root ELSE From(w[k-1], path[k])
  BY DEF IsWalk, Walk, From
<1> QED
  BY <1>1, <1>2

\* A walk goes on by one name.
LEMMA WalkOn ==
  ASSUME NEW path \in Seq(Names), NEW w, IsWalk(w, path), NEW nm \in Names
  PROVE  \E v : IsWalk(v, Append(path, nm))
                /\ v[Len(path) + 1] = From(w[Len(path)], nm)
<1> DEFINE N == Len(path)
           long == Append(path, nm)
           v == [k \in 0..(N + 1) |->
                   IF k = N + 1 THEN From(w[N], nm) ELSE w[k]]
<1>1. /\ N \in Nat /\ long \in Seq(Names) /\ Len(long) = N + 1
      /\ long[N + 1] = nm
      /\ \A k \in 1..N : long[k] = path[k]
  BY LenProperties, AppendProperties
<1>2. ASSUME NEW k \in 0..(N + 1)
      PROVE  v[k] = IF k = 0 THEN Root ELSE From(v[k-1], long[k])
  <2>1. CASE k = N + 1
    <3>1. k # 0 /\ v[k - 1] = w[N] /\ long[k] = nm
      BY <1>1, <2>1
    <3> QED
      BY <2>1, <3>1
  <2>2. CASE k # N + 1 /\ k = 0
    BY <2>2, WalkFacts
  <2>3. CASE k # N + 1 /\ k # 0
    <3>1. /\ k \in 1..N /\ k - 1 \in 0..N /\ k - 1 # N /\ (k - 1) + 1 = k
          /\ k - 1 \in 0..(N + 1) /\ k - 1 # N + 1
      BY <1>1, <2>3
    <3>2. v[k] = w[k] /\ v[k - 1] = w[k - 1] /\ long[k] = path[k]
      BY <1>1, <3>1
    <3>3. w[k] = From(w[k - 1], path[k])
      BY <3>1, WalkFacts
    <3> HIDE DEF v, long
    <3> QED
      BY <2>3, <3>2, <3>3
  <2> QED
    BY <2>1, <2>2, <2>3
<1>3. v = [k \in 0..(N + 1) |-> v[k]]
  OBVIOUS
<1>4. v[N + 1] = From(w[N], nm)
  BY <1>1
<1> HIDE DEF v, long
<1>5. IsWalk(v, long)
  BY <1>1, <1>2, <1>3 DEF IsWalk, Walk, From
<1> QED
  BY <1>4, <1>5 DEF long

LEMMA WalkExists ==
  ASSUME NEW path \in Seq(Names)
  PROVE  \E w : IsWalk(w, path)
<1> DEFINE S == {k \in Nat : k \in 0..Len(path) =>
                               \E w : IsWalk(w, SubSeq(path, 1, k))}
<1>1. Len(path) \in Nat
  BY LenProperties
<1>2. 0 \in S
  <2>1. SubSeq(path, 1, 0) = <<>>
    BY <1>1
  <2> DEFINE w == [k \in 0..0 |-> Root]
  <2>2. IsWalk(w, <<>>)
    BY DEF IsWalk, Walk
  <2> QED
    BY <2>1, <2>2
<1>3. ASSUME NEW k \in Nat, k \in S, k + 1 \in 0..Len(path)
      PROVE  \E w : IsWalk(w, SubSeq(path, 1, k + 1))
  <2>1. k \in 0..Len(path)
    BY <1>1, <1>3
  <2>2. PICK w : IsWalk(w, SubSeq(path, 1, k))
    BY <1>3, <2>1
  <2>3. /\ SubSeq(path, 1, k) \in Seq(Names)
        /\ path[k + 1] \in Names
        /\ SubSeq(path, 1, k + 1) = Append(SubSeq(path, 1, k), path[k + 1])
    <3>1. 1 <= k + 1 /\ k + 1 <= Len(path) /\ k + 1 \in 1..Len(path)
      BY <1>1, <1>3
    <3>2. path[k + 1] \in Names
      BY <3>1, ElementOfSeq
    <3>3. SubSeq(path, 1, k) \in Seq(Names)
      BY <1>1, <2>1, SubSeqProperties
    <3>4. SubSeq(path, 1, k + 1) = Append(SubSeq(path, 1, k), path[k + 1])
      BY <1>1, <3>1
    <3> QED
      BY <3>2, <3>3, <3>4
  <2> QED
    BY <2>2, <2>3, WalkOn
<1>4. \A k \in Nat : k \in S => k + 1 \in S
  BY <1>3
<1>5. Nat \subseteq S
  <2> HIDE DEF S
  <2> QED
    BY <1>2, <1>4, InductionOnSet
<1>6. SubSeq(path, 1, Len(path)) = path
  BY <1>1
<1>7. Len(path) \in 0..Len(path)
  BY <1>1
<1> QED
  BY <1>1, <1>5, <1>6, <1>7

LEMMA WalkUnique ==
  ASSUME NEW path \in Seq(Names), NEW w, NEW v,
         IsWalk(w, path), IsWalk(v, path)
  PROVE  \A k \in 0..Len(path) : w[k] = v[k]
<1> DEFINE S == {k \in Nat : k \in 0..Len(path) => w[k] = v[k]}
<1>1. Len(path) \in Nat
  BY LenProperties
<1>2. 0 \in S
  BY WalkFacts
<1>3. ASSUME NEW k \in Nat, k \in S, k + 1 \in 0..Len(path)
      PROVE  w[k + 1] = v[k + 1]
  <2>1. k \in 0..Len(path) /\ k # Len(path)
    BY <1>1, <1>3
  <2> QED
    BY <1>3, <2>1, WalkFacts
<1>4. \A k \in Nat : k \in S => k + 1 \in S
  BY <1>3
<1>5. Nat \subseteq S
  <2> HIDE DEF S
  <2> QED
    BY <1>2, <1>4, InductionOnSet
<1> QED
  BY <1>1, <1>5

LEMMA ResolveIsWalk ==
  ASSUME NEW path \in Seq(Names), NEW w, IsWalk(w, path)
  PROVE  Resolve(path) = w[Len(path)]
<1> DEFINE g == CHOOSE g : g = [k \in 0..Len(path) |->
             IF k = 0 THEN Root
             ELSE IF g[k-1] # Null /\ path[k] \in DOMAIN entries[g[k-1]]
                  THEN entries[g[k-1]][path[k]]
                  ELSE Null]
<1>1. Resolve(path) = g[Len(path)]
  BY DEF Resolve
<1>2. w = [k \in 0..Len(path) |->
             IF k = 0 THEN Root
             ELSE IF w[k-1] # Null /\ path[k] \in DOMAIN entries[w[k-1]]
                  THEN entries[w[k-1]][path[k]]
                  ELSE Null]
  BY DEF IsWalk, Walk
<1>3. g = [k \in 0..Len(path) |->
             IF k = 0 THEN Root
             ELSE IF g[k-1] # Null /\ path[k] \in DOMAIN entries[g[k-1]]
                  THEN entries[g[k-1]][path[k]]
                  ELSE Null]
  BY <1>2, Zenon
<1> HIDE DEF g
<1>4. IsWalk(g, path)
  BY <1>3 DEF IsWalk, Walk
<1>5. Len(path) \in 0..Len(path)
  BY LenProperties
<1> QED
  BY <1>1, <1>4, <1>5, WalkUnique

LEMMA ResolveOn ==
  ASSUME NEW path \in Seq(Names), NEW nm \in Names
  PROVE  Resolve(Append(path, nm)) = From(Resolve(path), nm)
<1>1. PICK w : IsWalk(w, path)
  BY WalkExists
<1>2. PICK v : IsWalk(v, Append(path, nm))
               /\ v[Len(path) + 1] = From(w[Len(path)], nm)
  BY <1>1, WalkOn
<1>3. Append(path, nm) \in Seq(Names) /\ Len(Append(path, nm)) = Len(path) + 1
  BY AppendProperties
<1> QED
  BY <1>1, <1>2, <1>3, ResolveIsWalk

-----------------------------------------------------------------------------
\* A tree of names: "." and ".." are right, a file has one name besides, and
\* paths lead to every directory.
Upwards(tree) ==
  /\ {Dot, DotDot} \subseteq DOMAIN tree[Root]
  /\ tree[Root][DotDot] = Root

IsDirIn(tree, knd, d) ==
  /\ knd[d] = "dir"
  /\ {Dot, DotDot} \subseteq DOMAIN tree[d]
  /\ tree[d][Dot] = d
  /\ DOMAIN tree[tree[d][DotDot]] # {}
  /\ d \in Reach(tree)

IsNamed(tree, knd, d, nm) ==
  /\ tree[d][nm] # Root
  /\ knd[tree[d][nm]] \in {"reg", "dir"}
  /\ knd[tree[d][nm]] = "dir" =>
       /\ DOMAIN tree[tree[d][nm]] # {}
       /\ tree[tree[d][nm]][DotDot] = d

OneName(tree) ==
  \A d, e \in Ids : \A nm, x \in Names :
    nm \in DOMAIN tree[d] /\ x \in DOMAIN tree[e] =>
      (tree[d][nm] = tree[e][x] => d = e /\ nm = x)

NameTree(tree, knd) ==
  /\ IsTree(tree)
  /\ Upwards(tree)
  /\ \A d \in Ids : DOMAIN tree[d] # {} => IsDirIn(tree, knd, d)
  /\ \A d \in Ids : \A nm \in Names \cap DOMAIN tree[d] :
       IsNamed(tree, knd, d, nm)
  /\ OneName(tree)

\* Everything on a path but the root has a name.
LEMMA HasName ==
  ASSUME NEW tree, NEW knd, NameTree(tree, knd),
         NEW n \in Reach(tree), n # Root
  PROVE  \E d \in Reach(tree) : \E nm \in Names \cap DOMAIN tree[d] :
           tree[d][nm] = n
<1> SUFFICES ASSUME \A d \in Reach(tree) :
                      \A nm \in Names \cap DOMAIN tree[d] : tree[d][nm] # n
             PROVE  FALSE
  OBVIOUS
<1> DEFINE S == Reach(tree) \ {n}
<1>1. IsTree(tree)
  BY DEF NameTree
<1>2. S \in SUBSET Ids /\ Root \in S
  BY <1>1, ReachFacts
<1>3. Closed(tree, S)
  BY <1>1, ReachFacts DEF Closed
<1> QED
  BY <1>1, <1>2, <1>3, ReachFacts

\* The parent of a directory is the one that names it.
LEMMA ParentNames ==
  ASSUME NEW tree, NEW knd, NameTree(tree, knd),
         NEW d \in Ids, DOMAIN tree[d] # {}, d # Root
  PROVE  \E nm \in Names \cap DOMAIN tree[tree[d][DotDot]] :
           tree[tree[d][DotDot]][nm] = d
<1>1. IsDirIn(tree, knd, d)
  BY DEF NameTree
<1>2. PICK e \in Reach(tree) :
        \E nm \in Names \cap DOMAIN tree[e] : tree[e][nm] = d
  BY <1>1, HasName DEF IsDirIn
<1>3. e \in Ids
  BY DEF Reach
<1>4. tree[d][DotDot] = e
  BY <1>1, <1>2, <1>3 DEF NameTree, IsNamed, IsDirIn
<1> QED
  BY <1>2, <1>4

\* Only the entries count.
SameTree(tree, new) ==
  \A d \in Ids : /\ DOMAIN new[d] = DOMAIN tree[d]
                 /\ \A nm \in DOMAIN tree[d] : new[d][nm] = tree[d][nm]

LEMMA NameTreeSame ==
  ASSUME NEW tree, NEW new, NEW knd, NameTree(tree, knd),
         DOMAIN new = Ids, SameTree(tree, new)
  PROVE  NameTree(new, knd)
<1>1. IsTree(tree) /\ Root \in Ids
  BY NamespaceAssumption DEF NameTree
<1>2. IsTree(new)
  BY <1>1 DEF IsTree, SameTree
<1>3. \A S \in SUBSET Ids : Closed(new, S) <=> Closed(tree, S)
  BY DEF Closed, SameTree
<1>4. Reach(new) = Reach(tree)
  BY <1>3 DEF Reach
<1>5. Upwards(new)
  BY <1>1 DEF NameTree, Upwards, SameTree
<1>6. ASSUME NEW d \in Ids, DOMAIN new[d] # {}
      PROVE  IsDirIn(new, knd, d)
  <2>1. IsDirIn(tree, knd, d) /\ tree[d][DotDot] \in Ids
    BY <1>1, <1>6 DEF NameTree, SameTree, IsDirIn, IsTree
  <2> QED
    BY <1>4, <2>1 DEF IsDirIn, SameTree
<1>7. ASSUME NEW d \in Ids, NEW nm \in Names \cap DOMAIN new[d]
      PROVE  IsNamed(new, knd, d, nm)
  <2>1. /\ IsNamed(tree, knd, d, nm) /\ tree[d][nm] \in Ids
        /\ new[d][nm] = tree[d][nm]
    BY <1>1, <1>7 DEF NameTree, SameTree, IsTree
  <2>2. knd[tree[d][nm]] = "dir" =>
          DotDot \in DOMAIN tree[tree[d][nm]]
    BY <2>1 DEF IsNamed, NameTree, IsDirIn
  <2> QED
    BY <2>1, <2>2 DEF IsNamed, SameTree
<1>8. OneName(new)
  BY DEF OneName, NameTree, SameTree
<1> QED
  BY <1>2, <1>5, <1>6, <1>7, <1>8 DEF NameTree

\* A kind that nobody refers to.
LEMMA NameTreeKind ==
  ASSUME NEW tree, NEW knd, NEW new, NameTree(tree, knd), NEW n \in Ids,
         \A k \in Ids \ {n} : new[k] = knd[k],
         DOMAIN tree[n] = {},
         \A d \in Ids : \A nm \in DOMAIN tree[d] : tree[d][nm] # n
  PROVE  NameTree(tree, new)
<1>1. IsTree(tree)
  BY DEF NameTree
<1>2. \A d \in Ids : DOMAIN tree[d] # {} => IsDirIn(tree, new, d)
  BY DEF NameTree, IsDirIn
<1>3. \A d \in Ids : \A nm \in Names \cap DOMAIN tree[d] :
        IsNamed(tree, new, d, nm)
  BY <1>1 DEF NameTree, IsNamed, IsTree
<1> QED
  BY <1>2, <1>3 DEF NameTree

\* A new file or an empty directory n under a name that was free.
LEMMA AddLeaf ==
  ASSUME NEW tree, NEW knd, NameTree(tree, knd),
         NEW d \in Ids, DOMAIN tree[d] # {},
         NEW nm \in Names, nm \notin DOMAIN tree[d],
         NEW n \in Ids, DOMAIN tree[n] = {},
         \A e \in Ids : \A x \in DOMAIN tree[e] : tree[e][x] # n,
         NEW new, IsTree(new),
         \A e \in Ids \ {d, n} :
           /\ DOMAIN new[e] = DOMAIN tree[e]
           /\ \A x \in DOMAIN tree[e] : new[e][x] = tree[e][x],
         DOMAIN new[d] = DOMAIN tree[d] \cup {nm},
         new[d][nm] = n,
         \A x \in DOMAIN tree[d] : new[d][x] = tree[d][x],
         NEW newknd, \A k \in Ids \ {n} : newknd[k] = knd[k],
         \/ newknd[n] = "reg" /\ DOMAIN new[n] = {}
         \/ /\ newknd[n] = "dir" /\ DOMAIN new[n] = {Dot, DotDot}
            /\ new[n][Dot] = n /\ new[n][DotDot] = d
  PROVE  NameTree(new, newknd)
<1>1. /\ IsTree(tree) /\ Root \in Ids /\ n # d
      /\ Dot \notin Names /\ DotDot \notin Names
  BY NamespaceAssumption DEF NameTree
<1>2. n # Root
  BY <1>1 DEF NameTree, Upwards
<1>3. \A e \in Ids \ {n} :
        /\ DOMAIN tree[e] \subseteq DOMAIN new[e]
        /\ DOMAIN new[e] # {} => DOMAIN tree[e] # {}
        /\ \A x \in DOMAIN tree[e] : new[e][x] = tree[e][x]
        /\ \A x \in DOMAIN new[e] :
             x \in DOMAIN tree[e] \/ (e = d /\ x = nm)
  BY <1>1
<1>4. Names \cap DOMAIN new[n] = {}
  BY <1>1
<1>5. Reach(tree) \subseteq Reach(new)
  <2>1. Closed(tree, Reach(new))
    <3> SUFFICES ASSUME NEW e \in Reach(new), NEW x \in Names \cap DOMAIN tree[e]
                 PROVE  tree[e][x] \in Reach(new)
      BY DEF Closed
    <3>1. e \in Ids \ {n}
      BY ReachFacts
    <3>2. x \in Names \cap DOMAIN new[e] /\ new[e][x] = tree[e][x]
      BY <1>3, <3>1
    <3> QED
      BY <3>2, ReachFacts DEF Closed
  <2>2. Reach(new) \in SUBSET Ids /\ Root \in Reach(new)
    BY ReachFacts
  <2> QED
    BY <1>1, <2>1, <2>2, ReachFacts
<1>6. n \in Reach(new)
  <2>1. d \in Reach(new)
    BY <1>5 DEF NameTree, IsDirIn
  <2> QED
    BY <2>1, ReachFacts DEF Closed
<1>7. Upwards(new)
  BY <1>1, <1>2, <1>3 DEF NameTree, Upwards
<1>8. ASSUME NEW e \in Ids, DOMAIN new[e] # {}
      PROVE  IsDirIn(new, newknd, e)
  <2>1. CASE e = n
    <3>1. DOMAIN new[d] # {}
      OBVIOUS
    <3> QED
      BY <1>6, <1>8, <2>1, <3>1 DEF IsDirIn
  <2>2. CASE e # n
    <3>1. IsDirIn(tree, knd, e)
      BY <1>3, <1>8, <2>2 DEF NameTree
    <3>2. tree[e][DotDot] \in Ids \ {n}
      BY <1>1, <3>1 DEF IsDirIn, IsTree
    <3>3. DOMAIN new[tree[e][DotDot]] # {}
      BY <1>3, <3>1, <3>2 DEF IsDirIn
    <3> QED
      BY <1>3, <1>5, <2>2, <3>1, <3>3 DEF IsDirIn
  <2> QED
    BY <2>1, <2>2
<1>9. ASSUME NEW e \in Ids, NEW x \in Names \cap DOMAIN new[e]
      PROVE  IsNamed(new, newknd, e, x)
  <2>1. e # n
    BY <1>4
  <2>2. CASE e = d /\ x = nm
    BY <1>2, <2>2 DEF IsNamed
  <2>3. CASE ~(e = d /\ x = nm)
    <3>1. x \in Names \cap DOMAIN tree[e] /\ new[e][x] = tree[e][x]
      BY <1>3, <2>1, <2>3
    <3>2. IsNamed(tree, knd, e, x) /\ tree[e][x] \in Ids \ {n}
      BY <1>1, <3>1 DEF NameTree, IsTree
    <3>3. knd[tree[e][x]] = "dir" => DotDot \in DOMAIN tree[tree[e][x]]
      BY <3>2 DEF IsNamed, NameTree, IsDirIn
    <3>4. knd[tree[e][x]] = "dir" =>
            /\ DOMAIN new[tree[e][x]] # {}
            /\ new[tree[e][x]][DotDot] = e
      BY <1>3, <3>2, <3>3 DEF IsNamed
    <3> QED
      BY <3>1, <3>2, <3>4 DEF IsNamed
  <2> QED
    BY <2>2, <2>3
<1>10. OneName(new)
  <2> SUFFICES ASSUME NEW e \in Ids, NEW f \in Ids,
                      NEW x \in Names \cap DOMAIN new[e],
                      NEW y \in Names \cap DOMAIN new[f],
                      new[e][x] = new[f][y]
               PROVE  e = f /\ x = y
    BY DEF OneName
  <2>1. e # n /\ f # n
    BY <1>4
  <2>2. ASSUME NEW g \in Ids, NEW z \in DOMAIN new[g], g # n
        PROVE  \/ g = d /\ z = nm /\ new[g][z] = n
               \/ z \in DOMAIN tree[g] /\ new[g][z] = tree[g][z]
                  /\ new[g][z] # n
    BY <1>3, <2>2
  <2> QED
    BY <2>1, <2>2 DEF NameTree, OneName
<1> QED
  BY <1>7, <1>8, <1>9, <1>10 DEF NameTree

\* A file, or a directory that has but "." and "..", goes with its name.
LEMMA DropLeaf ==
  ASSUME NEW tree, NEW knd, NameTree(tree, knd),
         NEW d \in Ids, NEW nm \in Names \cap DOMAIN tree[d],
         NEW n, n = tree[d][nm],
         knd[n] = "reg" \/ DOMAIN tree[n] \subseteq {Dot, DotDot},
         NEW new, DOMAIN new = Ids,
         \A e \in Ids \ {d, n} :
           /\ DOMAIN new[e] = DOMAIN tree[e]
           /\ \A x \in DOMAIN tree[e] : new[e][x] = tree[e][x],
         DOMAIN new[n] = {},
         n # d => /\ DOMAIN new[d] = DOMAIN tree[d] \ {nm}
                  /\ \A x \in DOMAIN new[d] : new[d][x] = tree[d][x]
  PROVE  /\ NameTree(new, knd)
         /\ \A e \in Ids : \A x \in DOMAIN new[e] : new[e][x] # n
         /\ n # d
<1>1. /\ IsTree(tree) /\ Root \in Ids /\ n \in Ids
      /\ Dot \notin Names /\ DotDot \notin Names
  BY NamespaceAssumption DEF NameTree, IsTree
<1>2. IsNamed(tree, knd, d, nm) /\ n # Root
  BY DEF NameTree, IsNamed
<1>3. Names \cap DOMAIN tree[n] = {}
  <2>1. CASE knd[n] = "reg"
    BY <1>1, <2>1 DEF NameTree, IsDirIn
  <2> QED
    BY <1>1, <2>1
<1>4. n # d
  BY <1>3
<1>5. IsTree(new)
  BY <1>1, <1>4 DEF IsTree
<1>6. /\ \A e \in Ids : DOMAIN new[e] \subseteq DOMAIN tree[e]
      /\ \A e \in Ids : \A x \in DOMAIN new[e] : new[e][x] = tree[e][x]
      /\ \A e \in Ids \ {n} : \A x \in DOMAIN tree[e] :
           x \in DOMAIN new[e] \/ (e = d /\ x = nm)
      /\ nm \notin DOMAIN new[d]
  BY <1>4
<1>7. \A e \in Ids \ {n} : DOMAIN tree[e] # {} => tree[e][DotDot] # n
  <2> SUFFICES ASSUME NEW e \in Ids \ {n}, DOMAIN tree[e] # {},
                      tree[e][DotDot] = n
               PROVE  FALSE
    OBVIOUS
  <2>1. e # Root
    BY <1>2 DEF NameTree, Upwards
  <2> QED
    BY <1>3, <2>1, ParentNames
<1>8. Reach(tree) \subseteq Reach(new) \cup {n}
  <2>1. Closed(tree, Reach(new) \cup {n})
    <3> SUFFICES ASSUME NEW e \in Reach(new) \cup {n},
                        NEW x \in Names \cap DOMAIN tree[e]
                 PROVE  tree[e][x] \in Reach(new) \cup {n}
      BY DEF Closed
    <3>1. e # n /\ e \in Reach(new) /\ e \in Ids
      BY <1>3, <1>5, ReachFacts
    <3>2. CASE e = d /\ x = nm
      BY <3>2
    <3>3. CASE x \in DOMAIN new[e]
      <4>1. new[e][x] \in Reach(new)
        BY <1>5, <3>1, <3>3, ReachFacts DEF Closed
      <4> QED
        BY <1>6, <3>1, <3>3, <4>1
    <3> QED
      BY <1>6, <3>1, <3>2, <3>3
  <2>2. Reach(new) \cup {n} \in SUBSET Ids /\ Root \in Reach(new) \cup {n}
    BY <1>1, <1>5, ReachFacts
  <2> QED
    BY <1>1, <2>1, <2>2, ReachFacts
<1>9. ASSUME NEW e \in Ids, DOMAIN new[e] # {}
      PROVE  IsDirIn(new, knd, e)
  <2>1. e # n /\ DOMAIN tree[e] # {}
    BY <1>6, <1>9
  <2>2. IsDirIn(tree, knd, e) /\ tree[e][DotDot] # n
    BY <1>7, <2>1 DEF NameTree
  <2>3. {Dot, DotDot} \subseteq DOMAIN new[e]
    BY <1>1, <1>6, <2>1, <2>2 DEF IsDirIn
  <2>4. new[e][Dot] = e /\ new[e][DotDot] = tree[e][DotDot]
    BY <1>6, <2>2, <2>3 DEF IsDirIn
  <2>5. DOMAIN new[tree[e][DotDot]] # {}
    <3> DEFINE p == tree[e][DotDot]
    <3>1. p \in Ids /\ p # n /\ DOMAIN tree[p] # {}
      BY <1>1, <2>2 DEF IsDirIn, IsTree
    <3>2. Dot \in DOMAIN tree[p]
      BY <3>1 DEF NameTree, IsDirIn
    <3> HIDE DEF p
    <3>3. Dot \in DOMAIN new[p]
      BY <1>1, <1>6, <3>1, <3>2
    <3> QED
      BY <3>3 DEF p
  <2>6. e \in Reach(new)
    BY <1>8, <2>1, <2>2 DEF IsDirIn
  <2> QED
    BY <2>2, <2>3, <2>4, <2>5, <2>6 DEF IsDirIn
<1>10. ASSUME NEW e \in Ids, NEW x \in DOMAIN new[e]
       PROVE  new[e][x] # n
  <2>1. e # n /\ x \in DOMAIN tree[e] /\ new[e][x] = tree[e][x]
    BY <1>6, <1>10
  <2>2. x \in AllNames
    BY <1>1, <2>1 DEF IsTree
  <2>3. CASE x \in Names
    <3>1. ~(e = d /\ x = nm)
      BY <1>6, <1>10
    <3> QED
      BY <2>1, <2>3, <3>1 DEF NameTree, OneName
  <2>4. CASE x = Dot
    BY <2>1, <2>4 DEF NameTree, IsDirIn
  <2>5. CASE x = DotDot
    BY <1>7, <2>1, <2>5
  <2> QED
    BY <2>2, <2>3, <2>4, <2>5 DEF AllNames
<1>11. ASSUME NEW e \in Ids, NEW x \in Names \cap DOMAIN new[e]
       PROVE  IsNamed(new, knd, e, x)
  <2> DEFINE c == new[e][x]
  <2>1. /\ x \in Names \cap DOMAIN tree[e] /\ c = tree[e][x] /\ c # n
        /\ c \in Ids
    BY <1>5, <1>6, <1>10, <1>11 DEF IsTree
  <2>2. IsNamed(tree, knd, e, x)
    BY <2>1 DEF NameTree
  <2>3. knd[c] = "dir" =>
          DOMAIN tree[c] # {} /\ tree[c][DotDot] = e /\ DotDot \in DOMAIN tree[c]
    BY <2>1, <2>2 DEF IsNamed, NameTree, IsDirIn
  <2>4. knd[c] = "dir" => DotDot \in DOMAIN new[c] /\ new[c][DotDot] = e
    BY <1>1, <1>6, <2>1, <2>3
  <2>5. knd[c] = "dir" => DOMAIN new[c] # {}
    BY <2>4
  <2>6. c # Root /\ knd[c] \in {"reg", "dir"}
    BY <2>1, <2>2 DEF IsNamed
  <2> QED
    BY <2>4, <2>5, <2>6 DEF IsNamed
<1>12. Upwards(new)
  <2>1. DOMAIN tree[Root] # {} /\ Root # n /\ {Dot, DotDot} \subseteq DOMAIN tree[Root]
    BY <1>2 DEF NameTree, Upwards
  <2>2. {Dot, DotDot} \subseteq DOMAIN new[Root]
    BY <1>1, <1>6, <2>1
  <2> QED
    BY <1>1, <1>6, <2>2 DEF NameTree, Upwards
<1>13. OneName(new)
  BY <1>6 DEF OneName, NameTree
<1> QED
  BY <1>4, <1>5, <1>9, <1>10, <1>11, <1>12, <1>13 DEF NameTree

-----------------------------------------------------------------------------
\* What a tree of names has to do with links.
LEMMA TreeExists ==
  ASSUME IInv, LinkedExist, NameTree(entries, kind)
  PROVE  {n \in Ids : m_exist[n]} = Reachable
<1>1. IsTree(entries) /\ Root \in Ids
  BY NamespaceAssumption DEF NameTree
<1>2. Reachable = Reach(entries)
  BY <1>1, ReachableIsReach
<1>3. /\ Root \in Reach(entries) /\ Reach(entries) \subseteq Ids
      /\ Closed(entries, Reach(entries))
  BY <1>1, ReachFacts
<1>4. ASSUME NEW n \in Ids, m_exist[n]
      PROVE  n \in Reach(entries)
  <2>1. Links(n, entries) # {}
    <3>1. nlink[n] > 0 /\ nlink[n] = Cardinality(Links(n, entries))
      BY <1>4 DEF IInv, ExistIsLinked, LinkCount
    <3> QED
      BY <3>1, FS_EmptySet
  <2>2. PICK d \in Ids, nm \in AllNames :
          nm \in DOMAIN entries[d] /\ entries[d][nm] = n
    BY <1>1, <2>1 DEF Links, IsTree, AllNames
  <2>3. IsDirIn(entries, kind, d)
    BY <2>2 DEF NameTree
  <2>4. CASE nm \in Names
    BY <1>3, <2>2, <2>3, <2>4 DEF IsDirIn, Closed
  <2>5. CASE nm = Dot
    BY <2>2, <2>3, <2>5 DEF IsDirIn
  <2>6. CASE nm = DotDot
    BY <2>2, <2>3, <2>6 DEF IsDirIn, NameTree
  <2> QED
    BY <2>2, <2>4, <2>5, <2>6 DEF AllNames
<1>5. ASSUME NEW n \in Reach(entries)
      PROVE  m_exist[n]
  <2>1. CASE n = Root
    BY <1>1, <2>1 DEF LinkedExist, NameTree, Upwards
  <2>2. CASE n # Root
    BY <1>3, <2>2, HasName DEF LinkedExist
  <2> QED
    BY <2>1, <2>2
<1> QED
  BY <1>2, <1>3, <1>4, <1>5

LEMMA TreeKinds ==
  ASSUME NEW tree, NEW knd, NameTree(tree, knd), NEW n \in Reach(tree)
  PROVE  /\ knd[n] \in {"reg", "dir"}
         /\ knd[n] = "dir" <=> DOMAIN tree[n] # {}
         /\ n = Root => knd[n] = "dir"
<1>1. n \in Ids /\ Root \in Ids /\ IsTree(tree)
  BY NamespaceAssumption DEF Reach, NameTree
<1>2. DOMAIN tree[n] # {} => knd[n] = "dir"
  BY <1>1 DEF NameTree, IsDirIn
<1>3. CASE n = Root
  BY <1>2, <1>3 DEF NameTree, Upwards
<1>4. CASE n # Root
  <2>1. PICK d \in Reach(tree) :
          \E nm \in Names \cap DOMAIN tree[d] : tree[d][nm] = n
    BY <1>4, HasName
  <2>2. PICK nm \in Names \cap DOMAIN tree[d] : tree[d][nm] = n
    BY <2>1
  <2>3. IsNamed(tree, knd, d, nm)
    BY <1>1, <2>1, <2>2 DEF NameTree, Reach
  <2> QED
    BY <1>2, <1>4, <2>2, <2>3 DEF IsNamed
<1> QED
  BY <1>3, <1>4

LEMMA TreeFile ==
  ASSUME NameTree(entries, kind), NEW n \in Reach(entries), kind[n] = "reg"
  PROVE  Cardinality(Links(n, entries)) = 1
<1>1. IsTree(entries) /\ n \in Ids /\ n # Root /\ DOMAIN entries[n] = {}
  BY TreeKinds DEF NameTree, Reach
<1>2. PICK d \in Reach(entries) :
        \E nm \in Names \cap DOMAIN entries[d] : entries[d][nm] = n
  BY <1>1, HasName
<1>3. PICK nm \in Names \cap DOMAIN entries[d] : entries[d][nm] = n
  BY <1>2
<1>4. d \in Ids
  BY DEF Reach
<1>5. <<d, nm>> \in Links(n, entries)
  BY <1>1, <1>3, <1>4 DEF Links, IsTree
<1>6. ASSUME NEW e \in Ids, NEW x \in AllNames, x \in DOMAIN entries[e],
             entries[e][x] = n
      PROVE  e = d /\ x = nm
  <2>1. IsDirIn(entries, kind, e)
    BY <1>6 DEF NameTree
  <2>2. x # Dot /\ x # DotDot
    BY <1>1, <1>6, <2>1 DEF IsDirIn
  <2>3. x \in Names
    BY <2>2 DEF AllNames
  <2> QED
    BY <1>3, <1>4, <1>6, <2>3 DEF NameTree, OneName
<1>7. Links(n, entries) \subseteq {<<d, nm>>}
  <2> SUFFICES ASSUME NEW l \in Links(n, entries) PROVE l = <<d, nm>>
    OBVIOUS
  <2>1. PICK e \in Ids, x \in AllNames : l = <<e, x>>
    BY <1>1 DEF Links, IsTree, AllNames
  <2>2. x \in DOMAIN entries[e] /\ entries[e][x] = n
    BY <2>1 DEF Links
  <2> QED
    BY <1>6, <2>1, <2>2
<1>8. Links(n, entries) = {<<d, nm>>}
  BY <1>5, <1>7
<1> QED
  BY <1>8, FS_Singleton

\* A directory is named by ".", by its name or, the root, its "..", and by the
\* ".." of each directory in it.
Children(n) == {<<entries[n][nm], DotDot>> : nm \in Subdirs(n)}

LEMMA ChildrenCount ==
  ASSUME NameTree(entries, kind), NEW n \in Ids
  PROVE  /\ IsFiniteSet(Children(n))
         /\ Cardinality(Children(n)) = Cardinality(Subdirs(n))
<1> DEFINE f == [nm \in Subdirs(n) |-> <<entries[n][nm], DotDot>>]
<1>1. IsFiniteSet(Subdirs(n))
  <2>1. Subdirs(n) \in SUBSET Names
    BY DEF Subdirs
  <2> QED
    BY <2>1, FS_Subset, NamespaceAssumption
<1>2. f \in [Subdirs(n) -> Children(n)]
  BY DEF Children
<1>3. \A nm, x \in Subdirs(n) : f[nm] = f[x] => nm = x
  BY DEF Subdirs, NameTree, OneName
<1>4. \A c \in Children(n) : \E nm \in Subdirs(n) : f[nm] = c
  BY DEF Children
<1>5. f \in Bijection(Subdirs(n), Children(n))
  <2> HIDE DEF f
  <2>1. f \in Injection(Subdirs(n), Children(n))
    BY <1>2, <1>3 DEF Injection, IsInjective
  <2>2. f \in Surjection(Subdirs(n), Children(n))
    BY <1>2, <1>4 DEF Surjection
  <2> QED
    BY <2>1, <2>2 DEF Bijection
<1>6. ExistsBijection(Subdirs(n), Children(n))
  BY <1>5 DEF ExistsBijection
<1> QED
  BY <1>1, <1>6, FS_Bijection

LEMMA TreeDir ==
  ASSUME NameTree(entries, kind), NEW n \in Reach(entries), kind[n] = "dir"
  PROVE  Cardinality(Links(n, entries)) = 2 + Cardinality(Subdirs(n))
<1>1. /\ IsTree(entries) /\ n \in Ids /\ Root \in Ids
      /\ Dot # DotDot /\ Dot \notin Names /\ DotDot \notin Names
      /\ IsDirIn(entries, kind, n)
  BY NamespaceAssumption, TreeKinds DEF NameTree, Reach
<1>2. \E up \in Ids \X AllNames :
        /\ n = Root => up = <<Root, DotDot>>
        /\ n # Root => /\ up[2] \in Names \cap DOMAIN entries[up[1]]
                       /\ entries[up[1]][up[2]] = n
  <2>1. CASE n = Root
    <3>1. <<Root, DotDot>> \in Ids \X AllNames
      BY <1>1 DEF AllNames
    <3> QED
      BY <2>1, <3>1
  <2>2. CASE n # Root
    <3>1. PICK d \in Reach(entries) :
            \E nm \in Names \cap DOMAIN entries[d] : entries[d][nm] = n
      BY <2>2, HasName
    <3>2. PICK nm \in Names \cap DOMAIN entries[d] : entries[d][nm] = n
      BY <3>1
    <3>3. <<d, nm>> \in Ids \X AllNames
      BY DEF Reach, AllNames
    <3> QED
      BY <2>2, <3>2, <3>3
  <2> QED
    BY <2>1, <2>2
<1>3. PICK up \in Ids \X AllNames :
        /\ n = Root => up = <<Root, DotDot>>
        /\ n # Root => /\ up[2] \in Names \cap DOMAIN entries[up[1]]
                       /\ entries[up[1]][up[2]] = n
  BY <1>2
<1> DEFINE L == (Children(n) \cup {<<n, Dot>>}) \cup {up}
<1>4. ASSUME NEW l \in Links(n, entries) PROVE l \in L
  <2>1. PICK e \in Ids, x \in AllNames : l = <<e, x>>
    BY <1>1 DEF Links, IsTree, AllNames
  <2>2. x \in DOMAIN entries[e] /\ entries[e][x] = n
    BY <2>1 DEF Links
  <2>3. IsDirIn(entries, kind, e)
    BY <2>2 DEF NameTree
  <2>4. CASE x \in Names
    <3>1. n # Root
      BY <2>2, <2>4 DEF NameTree, IsNamed
    <3>2. up = <<up[1], up[2]>> /\ up[1] \in Ids
      OBVIOUS
    <3>3. e = up[1] /\ x = up[2]
      BY <1>3, <2>2, <2>4, <3>1, <3>2 DEF NameTree, OneName
    <3> QED
      BY <2>1, <3>2, <3>3
  <2>5. CASE x = Dot
    BY <2>1, <2>2, <2>3, <2>5 DEF IsDirIn
  <2>6. CASE x = DotDot
    <3>1. CASE e = Root
      BY <1>3, <2>1, <2>2, <2>6, <3>1 DEF NameTree, Upwards
    <3>2. CASE e # Root
      <4>1. PICK nm \in Names \cap DOMAIN entries[n] : entries[n][nm] = e
        BY <2>2, <2>6, <3>2, ParentNames
      <4>2. nm \in Subdirs(n)
        BY <2>3, <4>1 DEF Subdirs, IsDirIn
      <4> QED
        BY <2>1, <2>6, <4>1, <4>2 DEF Children
    <3> QED
      BY <3>1, <3>2
  <2> QED
    BY <2>4, <2>5, <2>6 DEF AllNames
<1>5. ASSUME NEW l \in Children(n) PROVE l \in Links(n, entries)
  <2>1. PICK nm \in Subdirs(n) : l = <<entries[n][nm], DotDot>>
    BY DEF Children
  <2> DEFINE c == entries[n][nm]
  <2>2. /\ IsNamed(entries, kind, n, nm) /\ c \in Ids /\ kind[c] = "dir"
    BY <1>1, <2>1 DEF Subdirs, NameTree, IsTree
  <2>3. DOMAIN entries[c] # {} /\ entries[c][DotDot] = n
    BY <2>2 DEF IsNamed
  <2>4. DotDot \in DOMAIN entries[c]
    BY <2>2, <2>3 DEF NameTree, IsDirIn
  <2> HIDE DEF c
  <2>5. <<c, DotDot>> \in Links(n, entries)
    BY <1>1, <2>2, <2>3, <2>4 DEF Links, IsTree
  <2> QED
    BY <2>1, <2>5 DEF c
<1>6. <<n, Dot>> \in Links(n, entries)
  BY <1>1 DEF Links, IsTree, IsDirIn
<1>7. up \in Links(n, entries)
  BY <1>1, <1>3 DEF Links, IsTree, NameTree, Upwards
<1>8. Links(n, entries) = L
  BY <1>4, <1>5, <1>6, <1>7
<1>9. <<n, Dot>> \notin Children(n)
  BY <1>1 DEF Children
<1>10. up \notin Children(n) \cup {<<n, Dot>>}
  <2>1. CASE n = Root
    BY <1>1, <1>3, <2>1 DEF Children, Subdirs, NameTree, IsNamed
  <2>2. CASE n # Root
    <3>1. up[2] # Dot /\ up[2] # DotDot
      BY <1>1, <1>3, <2>2
    <3> QED
      BY <3>1 DEF Children
  <2> QED
    BY <2>1, <2>2
<1>11. /\ IsFiniteSet(Children(n))
       /\ Cardinality(Children(n)) = Cardinality(Subdirs(n))
  BY <1>1, ChildrenCount
<1>12. /\ IsFiniteSet(Children(n) \cup {<<n, Dot>>})
       /\ Cardinality(Children(n) \cup {<<n, Dot>>})
            = Cardinality(Subdirs(n)) + 1
  BY <1>9, <1>11, FS_AddElement
<1>13. Cardinality(L) = Cardinality(Subdirs(n)) + 1 + 1
  BY <1>10, <1>12, FS_AddElement
<1>14. Cardinality(Subdirs(n)) \in Nat
  BY <1>11, FS_CardinalityType
<1> QED
  BY <1>8, <1>13, <1>14

\* A tree of names is what TreeKept promises.
LEMMA TreeIsKept ==
  ASSUME IInv, LinkedExist, NameTree(entries, kind)
  PROVE  TreeKept
<1>1. Reachable = Reach(entries) /\ Reach(entries) \subseteq Ids
  BY ReachableIsReach, ReachFacts DEF NameTree
<1>2. {n \in Ids : m_exist[n]} = Reachable
  BY TreeExists
<1>3. ASSUME NEW n \in Reachable
      PROVE  nlink[n] = IF kind[n] = "reg" THEN 1
                                           ELSE 2 + Cardinality(Subdirs(n))
  <2>1. nlink[n] = Cardinality(Links(n, entries))
    BY <1>1, <1>3 DEF IInv, LinkCount
  <2>2. CASE kind[n] = "reg"
    BY <1>1, <1>3, <2>1, <2>2, TreeFile
  <2>3. CASE kind[n] # "reg"
    <3>1. kind[n] = "dir"
      BY <1>1, <1>3, <2>3, TreeKinds
    <3> QED
      BY <1>1, <1>3, <2>1, <2>3, <3>1, TreeDir
  <2> QED
    BY <2>2, <2>3
<1>4. ASSUME NEW d \in Reachable, NEW nm \in Subdirs(d)
      PROVE  entries[entries[d][nm]][DotDot] = d
  BY <1>1, <1>4 DEF NameTree, IsNamed, Subdirs
<1> QED
  BY <1>2, <1>3, <1>4 DEF TreeKept

-----------------------------------------------------------------------------
\* parse_path on its way: it has come to n, and rest is left of the path.
On(tree, path, n, rest) ==
  \E w : /\ Walk(tree, w, path)
         /\ \E j \in 0..Len(path) :
              /\ w[j] = n
              /\ Len(rest) = Len(path) - j
              /\ \A k \in 1..Len(rest) : rest[k] = path[j + k]

LEMMA OnStart ==
  ASSUME NEW path \in Seq(Names)
  PROVE  On(entries, path, Root, path)
<1>1. PICK w : IsWalk(w, path)
  BY WalkExists
<1>2. w[0] = Root /\ Walk(entries, w, path)
  BY <1>1, WalkFacts DEF IsWalk
<1>3. /\ 0 \in 0..Len(path) /\ Len(path) = Len(path) - 0
      /\ \A k \in 1..Len(path) : path[k] = path[0 + k]
  BY LenProperties
<1> QED
  BY <1>2, <1>3 DEF On

LEMMA OnEnd ==
  ASSUME NEW path \in Seq(Names), NEW n, On(entries, path, n, <<>>)
  PROVE  Leads(entries, path, n)
<1>1. PICK w : /\ Walk(entries, w, path)
               /\ \E j \in 0..Len(path) :
                    w[j] = n /\ Len(<<>>) = Len(path) - j
  BY DEF On
<1>2. PICK j \in 0..Len(path) : w[j] = n /\ Len(<<>>) = Len(path) - j
  BY <1>1
<1>3. j = Len(path)
  BY <1>2, LenProperties, EmptySeq
<1> QED
  BY <1>1, <1>2, <1>3 DEF Leads

LEMMA OnNext ==
  ASSUME NEW path \in Seq(Names), NEW n \in Ids,
         NEW rest \in Seq(Names), rest # <<>>, On(entries, path, n, rest),
         rest[1] \in DOMAIN entries[n]
  PROVE  On(entries, path, entries[n][rest[1]], Tail(rest))
<1>1. PICK w : /\ Walk(entries, w, path)
               /\ \E j \in 0..Len(path) :
                    /\ w[j] = n
                    /\ Len(rest) = Len(path) - j
                    /\ \A k \in 1..Len(rest) : rest[k] = path[j + k]
  BY DEF On
<1>2. PICK j \in 0..Len(path) :
        /\ w[j] = n
        /\ Len(rest) = Len(path) - j
        /\ \A k \in 1..Len(rest) : rest[k] = path[j + k]
  BY <1>1
<1>3. /\ Len(path) \in Nat /\ Len(rest) \in Nat \ {0}
      /\ Len(Tail(rest)) = Len(rest) - 1
      /\ \A k \in 1..Len(Tail(rest)) : Tail(rest)[k] = rest[k + 1]
  BY LenProperties, HeadTailProperties, EmptySeq
<1>4. /\ j # Len(path) /\ j + 1 \in 0..Len(path)
      /\ rest[1] = path[j + 1]
      /\ Len(Tail(rest)) = Len(path) - (j + 1)
  BY <1>2, <1>3
<1>5. \A k \in 1..Len(Tail(rest)) : Tail(rest)[k] = path[(j + 1) + k]
  <2> SUFFICES ASSUME NEW k \in 1..Len(Tail(rest))
               PROVE  Tail(rest)[k] = path[(j + 1) + k]
    OBVIOUS
  <2>1. k + 1 \in 1..Len(rest) /\ j + (k + 1) = (j + 1) + k
    BY <1>3
  <2> QED
    BY <1>2, <1>3, <2>1
<1>6. w[j + 1] = From(w[j], path[j + 1])
  BY <1>1, <1>4, WalkFacts DEF IsWalk
<1>7. w[j + 1] = entries[n][rest[1]]
  BY <1>2, <1>4, <1>6, NamespaceAssumption DEF From
<1> QED
  BY <1>1, <1>4, <1>5, <1>7 DEF On

LEMMA ResolveLeads ==
  ASSUME NEW path \in Seq(Names), NEW n, Leads(entries, path, n)
  PROVE  Resolve(path) = n
  BY ResolveIsWalk DEF Leads, IsWalk

\* One name more.
LEMMA LeadsOn ==
  ASSUME NEW path \in Seq(Names), NEW nm \in Names, NEW d,
         Leads(entries, path, d)
  PROVE  /\ Resolve(Append(path, nm)) = From(d, nm)
         /\ \A n : Leads(entries, Append(path, nm), n) => n = From(d, nm)
<1>1. Append(path, nm) \in Seq(Names)
  OBVIOUS
<1> QED
  BY <1>1, ResolveLeads, ResolveOn

-----------------------------------------------------------------------------
\* A tree some of whose entries are on their way out, or in.
Without(tree, gone) ==
  [d \in Ids |-> [x \in {x \in DOMAIN tree[d] : <<d, x>> \notin gone} |->
                    tree[d][x]]]

LEMMA WithoutFacts ==
  ASSUME NEW tree, NEW gone
  PROVE  /\ DOMAIN Without(tree, gone) = Ids
         /\ \A d \in Ids :
              /\ \A x : x \in DOMAIN Without(tree, gone)[d]
                         <=> x \in DOMAIN tree[d] /\ <<d, x>> \notin gone
              /\ \A x \in DOMAIN Without(tree, gone)[d] :
                   Without(tree, gone)[d][x] = tree[d][x]
  BY DEF Without

LEMMA WithoutNone ==
  ASSUME NEW tree, NEW knd
  PROVE  /\ NameTree(tree, knd) => NameTree(Without(tree, {}), knd)
         /\ DOMAIN tree = Ids =>
              (NameTree(Without(tree, {}), knd) => NameTree(tree, knd))
<1> DEFINE new == Without(tree, {})
<1>1. /\ DOMAIN new = Ids
      /\ \A d \in Ids :
              /\ DOMAIN new[d] = DOMAIN tree[d]
              /\ \A x \in DOMAIN new[d] : new[d][x] = tree[d][x]
  <2>1. /\ DOMAIN new = Ids
        /\ \A d \in Ids :
             /\ \A x : x \in DOMAIN new[d]
                        <=> x \in DOMAIN tree[d] /\ <<d, x>> \notin {}
             /\ \A x \in DOMAIN new[d] : new[d][x] = tree[d][x]
    BY WithoutFacts
  <2> HIDE DEF new
  <2> QED
    BY <2>1
<1> HIDE DEF new
<1>2. SameTree(tree, new) /\ SameTree(new, tree)
  BY <1>1 DEF SameTree
<1>3. NameTree(tree, knd) => NameTree(new, knd)
  BY <1>1, <1>2, NameTreeSame
<1>4. DOMAIN tree = Ids => (NameTree(new, knd) => NameTree(tree, knd))
  BY <1>2, NameTreeSame
<1> QED
  BY <1>3, <1>4 DEF new

\* What unlink, rename and rmdir take out: the name of a file, the name of an
\* empty directory with its "." and "..".
LEMMA Removal ==
  ASSUME NEW tree, NEW knd, NameTree(tree, knd),
         NEW d \in Ids, NEW nm \in Names, NEW gone,
         \/ nm \notin DOMAIN tree[d] /\ gone = {<<d, nm>>}
         \/ /\ nm \in DOMAIN tree[d] /\ knd[tree[d][nm]] = "reg"
            /\ gone = {<<d, nm>>}
         \/ /\ nm \in DOMAIN tree[d]
            /\ DOMAIN tree[tree[d][nm]] \subseteq {Dot, DotDot}
            /\ gone = {<<d, nm>>, <<tree[d][nm], Dot>>,
                       <<tree[d][nm], DotDot>>}
  PROVE  /\ NameTree(Without(tree, gone), knd)
         /\ nm \in DOMAIN tree[d] =>
              /\ tree[d][nm] # d
              /\ \A e \in Ids : \A x \in DOMAIN Without(tree, gone)[e] :
                   Without(tree, gone)[e][x] # tree[d][nm]
<1> DEFINE new == Without(tree, gone)
<1>1. /\ DOMAIN new = Ids
      /\ \A e \in Ids :
              /\ \A x : x \in DOMAIN new[e]
                         <=> x \in DOMAIN tree[e] /\ <<e, x>> \notin gone
              /\ \A x \in DOMAIN new[e] : new[e][x] = tree[e][x]
  BY WithoutFacts
<1> HIDE DEF new
<1>2. CASE nm \notin DOMAIN tree[d]
  <2>1. \A e \in Ids : DOMAIN new[e] = DOMAIN tree[e]
    BY <1>1, <1>2
  <2>2. SameTree(tree, new)
    BY <1>1, <2>1 DEF SameTree
  <2> QED
    BY <1>1, <1>2, <2>2, NameTreeSame DEF new
<1>3. CASE nm \in DOMAIN tree[d]
  <2> DEFINE n == tree[d][nm]
  <2>1. IsTree(tree) /\ n \in Ids /\ n # Root
    BY <1>3 DEF NameTree, IsTree, IsNamed
  <2>2. /\ gone \subseteq {<<d, nm>>, <<n, Dot>>, <<n, DotDot>>}
        /\ <<d, nm>> \in gone
        /\ \/ knd[n] = "reg"
           \/ /\ DOMAIN tree[n] \subseteq {Dot, DotDot}
              /\ {<<n, Dot>>, <<n, DotDot>>} \subseteq gone
    BY <1>3
  <2> HIDE DEF n
  <2>3. knd[n] = "reg" => DOMAIN tree[n] = {}
    BY <2>1 DEF NameTree, IsDirIn
  <2>4. DOMAIN new[n] = {}
    <3>1. \A x \in DOMAIN tree[n] : <<n, x>> \in gone
      BY <2>2, <2>3
    <3> QED
      BY <1>1, <2>1, <3>1
  <2>5. \A e \in Ids \ {d, n} :
          /\ DOMAIN new[e] = DOMAIN tree[e]
          /\ \A x \in DOMAIN tree[e] : new[e][x] = tree[e][x]
    <3>1. \A e \in Ids \ {d, n} : \A x : <<e, x>> \notin gone
      BY <2>2
    <3> QED
      BY <1>1, <3>1
  <2>6. n # d => /\ DOMAIN new[d] = DOMAIN tree[d] \ {nm}
                 /\ \A x \in DOMAIN new[d] : new[d][x] = tree[d][x]
    <3> SUFFICES ASSUME n # d
                 PROVE  /\ DOMAIN new[d] = DOMAIN tree[d] \ {nm}
                        /\ \A x \in DOMAIN new[d] : new[d][x] = tree[d][x]
      OBVIOUS
    <3>1. \A x : <<d, x>> \in gone <=> x = nm
      BY <2>2
    <3>2. \A x : x \in DOMAIN new[d] <=> x \in DOMAIN tree[d] /\ x # nm
      BY <1>1, <3>1
    <3> QED
      BY <1>1, <3>2
  <2>7. knd[n] = "reg" \/ DOMAIN tree[n] \subseteq {Dot, DotDot}
    BY <2>2
  <2>8. n = tree[d][nm] /\ nm \in Names \cap DOMAIN tree[d]
    BY <1>3 DEF n
  <2>9. /\ NameTree(new, knd)
        /\ \A e \in Ids : \A x \in DOMAIN new[e] : new[e][x] # n
        /\ n # d
    BY <1>1, <2>4, <2>5, <2>6, <2>7, <2>8, DropLeaf
  <2> QED
    BY <2>9 DEF new, n
<1> QED
  BY <1>2, <1>3

-----------------------------------------------------------------------------
\* The paths of a call.
PathOf(c, i) == IF i = 1 THEN c.p
                ELSE IF c.op = "rmdir" THEN Append(c.p, c.nm) ELSE c.q

\* What the system has looked up before unlink or rename.
FileNamed(tree, knd, c) ==
  \A d \in Ids : Leads(tree, c.p, d) /\ c.nm \in DOMAIN tree[d] =>
    knd[tree[d][c.nm]] = "reg"

\* A directory that has been found is what its path leads to.
Looked(tree, c, list) ==
  \A i \in DOMAIN list : list[i] # Null =>
    DOMAIN tree[list[i]] # {} /\ Leads(tree, PathOf(c, i), list[i])

Parsing(t) ==
  /\ On(entries, PathOf(call[t], Len(found[t]) + 1), at[t], Head(todo[t]))
  /\ Len(todo[t]) # 1 => todo[t][2] = PathOf(call[t], 2)

Renaming == {"findother", "add", "linking"}
Early == {"get", "find"} \cup Ops \cup Renaming
Late == {"remove", "unlinking", "linkup"}

\* What the only call relies on.
Task(t) ==
  /\ pc[t] \notin {"get", "find"} => at[t] = Root
  /\ pc[t] # "idle" =>
       /\ call[t].nm \in Names
       /\ call[t].op = "rename" => call[t].qn \in Names
  /\ pc[t] \in Ops => call[t].op = pc[t]
  /\ pc[t] \in Early =>
       /\ Looked(entries, call[t], found[t])
       /\ call[t].op \in {"unlink", "rename"} =>
            FileNamed(entries, kind, call[t])
  /\ pc[t] \in {"get", "find"} => Parsing(t)
  /\ pc[t] \in Renaming =>
       /\ call[t].op = "rename"
       /\ uid[t] # Null =>
            /\ call[t].nm \in DOMAIN entries[Parent(t)]
            /\ uid[t] = entries[Parent(t)][call[t].nm]
  /\ pc[t] = "add" => call[t].qn \notin DOMAIN entries[Other(t)]
  /\ pc[t] = "linkup" => DOMAIN entries[Parent(t)] # {}

\* The entries that a call is about to remove, and those of the directory it
\* has created and not entered yet.
Goes(t) ==
  {e \in Ids \X AllNames :
     \/ /\ pc[t] \in {"remove", "unlinking"}
        /\ \E i \in DOMAIN work[t] : work[t][i] = e
     \/ pc[t] = "linkup" /\ e[1] = uid[t]}

\* But for those there is a tree of names at every step.
TreeInv ==
  ~raced =>
    /\ (\A t \in Threads : pc[t] = "idle") => NameTree(entries, kind)
    /\ \A t \in Threads :
         /\ Task(t)
         /\ pc[t] # "idle" => NameTree(Without(entries, Goes(t)), kind)

LEMMA TreeNow ==
  ASSUME IInv, TreeInv, ~raced, NEW t \in Threads,
         pc[t] # "idle", pc[t] \notin Late
  PROVE  NameTree(entries, kind) /\ Task(t)
<1>1. Goes(t) = {}
  BY DEF Goes, Late
<1>2. NameTree(Without(entries, {}), kind) /\ DOMAIN entries = Ids
  BY <1>1 DEF TreeInv, IInv, TypeOK
<1> QED
  BY <1>2, WithoutNone DEF TreeInv

LEMMA TreeStep ==
  ASSUME IInv, AloneInv, TreeInv, ~raced, NEW t \in Threads, pc[t] # "idle",
         Others(t), Task(t)',
         pc'[t] # "idle" => NameTree(Without(entries', Goes(t)'), kind'),
         pc'[t] = "idle" => NameTree(entries', kind')
  PROVE  TreeInv'
<1>1. \A u \in Threads \ {t} : pc[u] = "idle" /\ pc'[u] = "idle"
  BY DEF AloneInv, OneAtWork, Others
<1>2. ASSUME NEW u \in Threads \ {t}
      PROVE  Task(u)'
  <2>1. at'[u] = Root
    BY <1>1 DEF TreeInv, Task, Others
  <2> QED
    BY <1>1, <2>1 DEF Task, Early, Ops, Renaming
<1>3. \A u \in Threads : pc'[u] # "idle" => u = t
  BY <1>1
<1> QED
  BY <1>2, <1>3 DEF TreeInv

\* A step from a whole tree to a whole tree.
LEMMA TreeRest ==
  ASSUME IInv, AloneInv, TreeInv, ~raced, NEW t \in Threads, pc[t] # "idle",
         Others(t), Task(t)', pc'[t] \notin Late, NameTree(entries', kind')
  PROVE  TreeInv'
<1>1. Goes(t)' = {}
  BY DEF Goes, Late
<1>2. NameTree(Without(entries', {}), kind')
  BY WithoutNone
<1> QED
  BY <1>1, <1>2, TreeStep

LEMMA TreeReturn ==
  ASSUME IInv, AloneInv, TreeInv, ~raced, NEW t \in Threads, pc[t] # "idle",
         Return(t), UNCHANGED <<todo, at>>, at[t] = Root,
         NameTree(entries', kind')
  PROVE  TreeInv'
<1>1. pc'[t] = "idle" /\ Others(t)
  BY DEF Return, Goto, Others, IInv, TypeOK
<1>2. Task(t)'
  BY <1>1 DEF Task, Early, Ops, Renaming
<1> QED
  BY <1>1, <1>2, TreeRest DEF Late

LEMMA TreeBegin ==
  ASSUME Movable \subseteq {"reg"},
         IInv, AloneInv, TreeInv, NEW t \in Threads, BeginCall(t)
  PROVE  TreeInv'
<1> SUFFICES ASSUME ~raced' PROVE TreeInv'
  BY DEF TreeInv
<1> DEFINE Good(c, paths) ==
      /\ Begin(t, c, paths)
      /\ c.op \in Ops /\ c.nm \in Names /\ c.p \in Seq(Names)
      /\ c.op = "rename" => c.qn \in Names
      /\ paths[1] = c.p
      /\ Len(paths) # 1 => paths[2] = PathOf(c, 2)
      /\ c.op \in {"unlink", "rename"} => IsA(Append(c.p, c.nm), {"reg"})
<1>1. \E c, paths : Good(c, paths)
  <2> SUFFICES ASSUME NEW p \in Seq(Names), NEW nm \in Names,
                      NEW q \in Seq(Names), NEW qn \in Names,
                      \/ azs_create(t, p, nm)
                      \/ azs_mkdir(t, p, nm)
                      \/ azs_unlink(t, p, nm)
                      \/ azs_rmdir(t, p, nm)
                      \/ azs_rename(t, p, nm, q, qn)
               PROVE  \E c, paths : Good(c, paths)
    BY NamespaceAssumption DEF BeginCall
  <2>1. ASSUME NEW op \in {"create", "mkdir", "unlink"},
               Begin(t, [NoCall EXCEPT !.op = op, !.p = p, !.nm = nm], <<p>>),
               op = "unlink" => IsA(Append(p, nm), {"reg"})
        PROVE  \E c, paths : Good(c, paths)
    <3> DEFINE c == [NoCall EXCEPT !.op = op, !.p = p, !.nm = nm]
               paths == <<p>>
    <3>1. c.op = op /\ c.p = p /\ c.nm = nm
      BY DEF NoCall
    <3>2. paths[1] = p /\ Len(paths) = 1
      OBVIOUS
    <3>3. Begin(t, c, paths)
      BY <2>1
    <3> HIDE DEF c, paths
    <3>4. Good(c, paths)
      BY <2>1, <3>1, <3>2, <3>3 DEF Ops
    <3> HIDE DEF Good
    <3> QED
      BY <3>4
  <2>2. CASE azs_rmdir(t, p, nm)
    <3> DEFINE c == [NoCall EXCEPT !.op = "rmdir", !.p = p, !.nm = nm]
               paths == <<p, Append(p, nm)>>
    <3>1. c.op = "rmdir" /\ c.p = p /\ c.nm = nm
      BY DEF NoCall
    <3>2. paths[1] = p /\ paths[2] = Append(p, nm)
      OBVIOUS
    <3>3. Begin(t, c, paths)
      BY <2>2 DEF azs_rmdir
    <3> HIDE DEF c, paths
    <3>4. Good(c, paths)
      BY <3>1, <3>2, <3>3 DEF Ops, PathOf
    <3> HIDE DEF Good
    <3> QED
      BY <3>4
  <2>3. CASE azs_rename(t, p, nm, q, qn)
    <3> DEFINE c == [op |-> "rename", p |-> p, nm |-> nm, q |-> q, qn |-> qn]
               paths == <<p, q>>
    <3>1. c.op = "rename" /\ c.p = p /\ c.nm = nm /\ c.q = q /\ c.qn = qn
      OBVIOUS
    <3>2. paths[1] = p /\ paths[2] = q
      OBVIOUS
    <3>3. Begin(t, c, paths) /\ IsA(Append(p, nm), Movable)
      BY <2>3 DEF azs_rename
    <3>4. IsA(Append(p, nm), {"reg"})
      BY <3>3 DEF IsA
    <3> HIDE DEF c, paths
    <3>5. Good(c, paths)
      BY <3>1, <3>2, <3>3, <3>4 DEF Ops, PathOf
    <3> HIDE DEF Good
    <3> QED
      BY <3>5
  <2> HIDE DEF Good
  <2> QED
    BY <2>1, <2>2, <2>3 DEF azs_create, azs_mkdir, azs_unlink
<1>2. PICK c, paths : Good(c, paths)
  BY <1>1
<1>3. /\ pc[t] = "idle"
      /\ pc' = [pc EXCEPT ![t] = "get"]
      /\ call' = [call EXCEPT ![t] = c]
      /\ todo' = [todo EXCEPT ![t] = paths]
      /\ raced' = (raced \/ \E u \in Threads : pc[u] # "idle")
      /\ UNCHANGED <<kind, entries, at, found, uid, work>>
  BY <1>2 DEF Begin, Goto, fileVars
<1>4. /\ ~raced /\ \A u \in Threads : pc[u] = "idle"
      /\ \A u \in Threads \ {t} : pc'[u] = "idle"
      /\ pc'[t] = "get" /\ call'[t] = c /\ todo'[t] = paths
  BY <1>3 DEF IInv, TypeOK, LocalsOK
<1>5. /\ found[t] = <<>> /\ at[t] = Root
      /\ NameTree(entries, kind) /\ IsTree(entries)
  BY <1>3, <1>4, LocalTypes DEF Shape, TreeInv, Task, NameTree
<1>6. Looked(entries, c, found[t])
  BY <1>5 DEF Looked
<1>7. c.op \in {"unlink", "rename"} => FileNamed(entries, kind, c)
  <2> SUFFICES ASSUME IsA(Append(c.p, c.nm), {"reg"}), NEW d \in Ids,
                      Leads(entries, c.p, d), c.nm \in DOMAIN entries[d]
               PROVE  kind[entries[d][c.nm]] = "reg"
    BY <1>2 DEF FileNamed
  <2>1. Resolve(Append(c.p, c.nm)) = From(d, c.nm)
    BY <1>2, LeadsOn
  <2>2. From(d, c.nm) = entries[d][c.nm] /\ entries[d][c.nm] # Null
    BY <1>5, NamespaceAssumption DEF From, IsTree
  <2> QED
    BY <2>1, <2>2 DEF IsA
<1>8. On(entries, PathOf(c, Len(found[t]) + 1), at[t], Head(paths))
  <2>1. Len(found[t]) + 1 = 1
    BY <1>5
  <2>2. PathOf(c, 1) = c.p /\ Head(paths) = c.p
    BY <1>2 DEF PathOf
  <2> QED
    BY <1>2, <1>5, <2>1, <2>2, OnStart
<1>9. Parsing(t)'
  BY <1>2, <1>3, <1>4, <1>8 DEF Parsing
<1>10. Task(t)'
  <2> HIDE DEF Good
  <2>1. /\ call'[t].nm \in Names
        /\ call'[t].op = "rename" => call'[t].qn \in Names
    BY <1>2, <1>4 DEF Good
  <2>2. /\ Looked(entries', call'[t], found'[t])
        /\ call'[t].op \in {"unlink", "rename"} =>
             FileNamed(entries', kind', call'[t])
    BY <1>3, <1>4, <1>6, <1>7
  <2> QED
    BY <1>4, <1>9, <2>1, <2>2 DEF Task, Ops, Renaming
<1>11. ASSUME NEW u \in Threads \ {t}
       PROVE  Task(u)'
  <2>1. at'[u] = Root
    BY <1>3, <1>4 DEF TreeInv, Task
  <2> QED
    BY <1>4, <2>1 DEF Task, Early, Ops, Renaming
<1>12. NameTree(Without(entries', Goes(t)'), kind')
  <2>1. Goes(t)' = {}
    BY <1>4 DEF Goes
  <2>2. NameTree(Without(entries', {}), kind')
    BY <1>3, <1>5, WithoutNone
  <2> QED
    BY <2>1, <2>2
<1> HIDE DEF Good
<1> QED
  BY <1>4, <1>10, <1>11, <1>12 DEF TreeInv

\* A path handled.
LEMMA TreeParsed ==
  ASSUME IInv, AloneInv, TreeInv, ~raced, NEW t \in Threads,
         pc[t] \in {"get", "find"},
         NEW dir \in Ids \cup {Null}, Parsed(t, dir),
         dir # Null => /\ DOMAIN entries[dir] # {}
                       /\ Leads(entries, PathOf(call[t], Len(found[t]) + 1),
                                dir),
         UNCHANGED <<fileVars, call, uid, work, ops, raced>>
  PROVE  TreeInv'
<1>1. /\ found' = [found EXCEPT ![t] = Append(@, dir)]
      /\ todo' = [todo EXCEPT ![t] = Tail(@)]
      /\ at' = [at EXCEPT ![t] = Root]
      /\ pc' = [pc EXCEPT ![t] = IF Len(todo[t]) = 1 THEN call[t].op
                                                     ELSE "get"]
      /\ Others(t) /\ UNCHANGED <<kind, entries, call, uid>>
  BY DEF Parsed, Goto, Others, fileVars
<1>2. /\ found[t] \in Seq(Ids \cup {Null}) /\ call[t].op \in Ops
      /\ todo[t] \in Seq(Seq(Names)) /\ todo[t] # <<>>
      /\ Len(found[t]) + Len(todo[t]) = Paths(call[t].op)
      /\ call[t] \in Calls
  BY LocalTypes DEF Shape
<1>3. /\ pc'[t] = IF Len(todo[t]) = 1 THEN call[t].op ELSE "get"
      /\ found'[t] = Append(found[t], dir) /\ at'[t] = Root
      /\ todo'[t] = Tail(todo[t])
  BY <1>1 DEF IInv, TypeOK, LocalsOK
<1>4. /\ NameTree(entries, kind) /\ Task(t)
  BY TreeNow DEF Late
<1>5. Looked(entries, call[t], Append(found[t], dir))
  <2>1. \A i \in DOMAIN Append(found[t], dir) :
          \/ i \in DOMAIN found[t] /\ Append(found[t], dir)[i] = found[t][i]
          \/ Append(found[t], dir)[i] = dir /\ i = Len(found[t]) + 1
    BY <1>2
  <2>2. Looked(entries, call[t], found[t])
    BY <1>4 DEF Task, Early
  <2> QED
    BY <2>1, <2>2 DEF Looked
<1>6. ASSUME Len(todo[t]) # 1
      PROVE  Parsing(t)'
  <2>1. /\ Len(found[t]) \in Nat /\ Len(todo[t]) \in Nat
        /\ Paths(call[t].op) \in {1, 2}
        /\ Len(todo[t]) # 0
    BY <1>2, LenProperties, EmptySeq DEF Paths
  <2>2. Len(found[t]) = 0 /\ Len(todo[t]) = 2
    <3>1. \A a, b \in Nat : \A p \in {1, 2} :
            a + b = p /\ b \notin {0, 1} => a = 0 /\ b = 2
      OBVIOUS
    <3>2. Len(found[t]) + Len(todo[t]) = Paths(call[t].op)
      BY <1>2
    <3> QED
      BY <1>6, <2>1, <3>1, <3>2
  <2>3. call[t].op \in {"rmdir", "rename"}
    BY <1>2, <2>1, <2>2 DEF Paths
  <2>4. Len(Append(found[t], dir)) = 1 /\ Len(Tail(todo[t])) = 1
    BY <1>2, <2>2, HeadTailProperties, AppendProperties
  <2>5. todo[t][2] = PathOf(call[t], 2) /\ call[t].nm \in Names
    BY <1>4, <1>6 DEF Task, Parsing
  <2>6. Head(Tail(todo[t])) = PathOf(call[t], 2)
    BY <1>2, <2>2, <2>5
  <2>7. PathOf(call[t], 2) \in Seq(Names)
    BY <1>2, <2>5 DEF PathOf, Calls
  <2>8. On(entries, PathOf(call[t], 2), Root, PathOf(call[t], 2))
    BY <2>7, OnStart
  <2>9. Len(found'[t]) + 1 = 2
    BY <1>3, <2>4
  <2> QED
    BY <1>1, <1>3, <2>4, <2>6, <2>8, <2>9 DEF Parsing
<1>7. pc'[t] \in Ops \cup {"get"}
  BY <1>2, <1>3
<1>8. Task(t)'
  <2>1. /\ call'[t].nm \in Names
        /\ call'[t].op = "rename" => call'[t].qn \in Names
        /\ call'[t].op \in {"unlink", "rename"} =>
             FileNamed(entries', kind', call'[t])
    BY <1>1, <1>4 DEF Task, Early
  <2>2. Looked(entries', call'[t], found'[t])
    BY <1>1, <1>3, <1>5
  <2>3. pc'[t] = "get" => Len(todo[t]) # 1
    BY <1>2, <1>3 DEF Ops
  <2>4. pc'[t] \in Ops => call'[t].op = pc'[t]
    BY <1>1, <1>3 DEF Ops
  <2>5. pc'[t] \notin {"find", "add", "linkup"} \cup Renaming
    BY <1>7 DEF Ops, Renaming
  <2> QED
    BY <1>3, <1>6, <2>1, <2>2, <2>3, <2>4, <2>5 DEF Task
<1>9. pc[t] # "idle" /\ pc'[t] \notin Late
  BY <1>7 DEF Late, Ops
<1> QED
  BY <1>1, <1>4, <1>8, <1>9, TreeRest

\* A directory that exists has entries.
LEMMA DirHasEntries ==
  ASSUME IInv, LinkedExist, NameTree(entries, kind), NEW n \in Ids, IsDir(n)
  PROVE  DOMAIN entries[n] # {}
<1>1. Reachable = Reach(entries)
  BY ReachableIsReach DEF NameTree
<1>2. n \in Reach(entries)
  BY <1>1, TreeExists DEF IsDir
<1> QED
  BY <1>2, TreeKinds DEF IsDir

\* A sequence with another head.
LEMMA NewHead ==
  ASSUME NEW S, NEW s \in Seq(S), s # <<>>, NEW e \in S
  PROVE  /\ Len(<<e>> \o Tail(s)) = Len(s)
         /\ Head(<<e>> \o Tail(s)) = e
         /\ Len(s) # 1 => (<<e>> \o Tail(s))[2] = s[2]
<1> DEFINE one == <<e>>
           rest == Tail(s)
<1>1. /\ one \in Seq(S) /\ Len(one) = 1 /\ one[1] = e
  OBVIOUS
<1>2. /\ rest \in Seq(S) /\ Len(rest) = Len(s) - 1 /\ Len(s) \in Nat
      /\ Len(s) # 0
      /\ \A i \in 1..Len(rest) : rest[i] = s[i + 1]
  BY HeadTailProperties, LenProperties, EmptySeq
<1> HIDE DEF one, rest
<1>3. /\ one \o rest \in Seq(S)
      /\ Len(one \o rest) = Len(one) + Len(rest)
      /\ \A i \in 1..Len(one) + Len(rest) :
           (one \o rest)[i] =
             IF i <= Len(one) THEN one[i] ELSE rest[i - Len(one)]
  <2>1. one \in Seq(S) /\ rest \in Seq(S)
    BY <1>1, <1>2
  <2> QED
    BY <2>1, ConcatProperties, Zenon
<1> DEFINE new == one \o rest
<1> HIDE DEF new
<1>4. /\ new \in Seq(S) /\ Len(new) = Len(s)
      /\ \A i \in 1..Len(s) : new[i] = IF i <= 1 THEN one[i] ELSE rest[i - 1]
  BY <1>1, <1>2, <1>3 DEF new
<1>5. new[1] = e
  BY <1>1, <1>2, <1>4
<1>6. Len(s) # 1 => new[2] = s[2]
  <2> SUFFICES ASSUME Len(s) # 1 PROVE new[2] = s[2]
    OBVIOUS
  <2>1. 2 \in 1..Len(s) /\ 1 \in 1..Len(rest)
    BY <1>2
  <2>2. new[2] = rest[1]
    BY <1>4, <2>1
  <2> QED
    BY <1>2, <2>1, <2>2
<1>7. Head(new) = new[1]
  BY <1>2, <1>4
<1> QED
  BY <1>4, <1>5, <1>6, <1>7 DEF new, one, rest

LEMMA TreeWalks ==
  ASSUME IInv, AloneInv, TreeInv, ~raced, NEW t \in Threads, Get(t) \/ Find(t)
  PROVE  TreeInv'
<1> DEFINE path == PathOf(call[t], Len(found[t]) + 1)
           rest == Head(todo[t])
<1>1. pc[t] \in {"get", "find"} /\ pc[t] # "idle" /\ pc[t] \notin Late
  BY DEF Get, Find, Late
<1>2. NameTree(entries, kind) /\ Task(t) /\ LinkedExist
  BY <1>1, TreeNow DEF AloneInv
<1>3. /\ at[t] \in Ids /\ call[t] \in Calls
      /\ todo[t] \in Seq(Seq(Names)) /\ todo[t] # <<>>
      /\ rest \in Seq(Names) /\ call[t].nm \in Names
      /\ pc[t] = "find" => rest # <<>>
  <2>1. /\ at[t] \in Ids /\ call[t] \in Calls
        /\ todo[t] \in Seq(Seq(Names)) /\ todo[t] # <<>>
        /\ pc[t] = "find" => rest # <<>>
    BY <1>1, LocalTypes DEF Shape
  <2>2. rest \in Seq(Names)
    BY <2>1
  <2> QED
    BY <1>1, <1>2, <2>1, <2>2 DEF Task
<1>4. path \in Seq(Names)
  BY <1>3 DEF PathOf, Calls
<1>5. On(entries, path, at[t], rest)
  BY <1>1, <1>2 DEF Task, Parsing
<1>6. ASSUME Others(t), pc'[t] \in {"get", "find"},
             UNCHANGED <<kind, entries, call, found, uid>>,
             On(entries, path, at'[t], Head(todo'[t])),
             Len(todo'[t]) # 1 => Len(todo[t]) # 1 /\ todo'[t][2] = todo[t][2]
      PROVE  TreeInv'
  <2>1. Parsing(t)'
    BY <1>1, <1>2, <1>6 DEF Task, Parsing
  <2>2. /\ call'[t].nm \in Names
        /\ call'[t].op = "rename" => call'[t].qn \in Names
        /\ Looked(entries', call'[t], found'[t])
        /\ call'[t].op \in {"unlink", "rename"} =>
             FileNamed(entries', kind', call'[t])
    BY <1>1, <1>2, <1>6 DEF Task, Early
  <2>3. Task(t)'
    BY <1>6, <2>1, <2>2 DEF Task, Ops, Renaming
  <2> QED
    BY <1>1, <1>2, <1>6, <2>3, TreeRest DEF Late
<1> HIDE DEF path, rest
<1>7. CASE Get(t)
  <2>1. CASE rest # <<>> /\ IsDir(at[t])
    <3>1. /\ pc[t] = "get" /\ Goto(t, "find") /\ UNCHANGED walkVars
          /\ UNCHANGED <<fileVars, call, uid, work, ops, raced>>
      BY <1>7, <2>1 DEF Get, rest
    <3>2. pc'[t] = "find" /\ Others(t)
      BY <3>1 DEF Goto, IInv, TypeOK, Others, walkVars
    <3>3. /\ UNCHANGED <<kind, entries, call, found, uid>>
          /\ at'[t] = at[t] /\ todo'[t] = todo[t]
      BY <3>1 DEF fileVars, walkVars
    <3>4. Head(todo'[t]) = rest
      BY <3>3 DEF rest
    <3> QED
      BY <1>5, <1>6, <3>2, <3>3, <3>4
  <2>2. CASE ~(rest # <<>> /\ IsDir(at[t]))
    <3> DEFINE dir == IF rest = <<>> /\ IsDir(at[t]) THEN at[t] ELSE Null
    <3>1. Parsed(t, dir) /\ UNCHANGED <<fileVars, call, uid, work, ops, raced>>
      BY <1>7, <2>2 DEF Get, rest
    <3>2. /\ dir \in Ids \cup {Null}
          /\ dir # Null => dir = at[t] /\ rest = <<>> /\ IsDir(at[t])
      BY <1>3
    <3> HIDE DEF dir
    <3>3. dir # Null => DOMAIN entries[dir] # {} /\ Leads(entries, path, dir)
      BY <1>2, <1>3, <1>4, <1>5, <3>2, OnEnd, DirHasEntries
    <3> QED
      BY <1>1, <3>1, <3>2, <3>3, TreeParsed DEF path
  <2> QED
    BY <2>1, <2>2
<1>8. CASE Find(t)
  <2>1. pc[t] = "find" /\ rest # <<>> /\ Head(todo[t])[1] = rest[1]
    BY <1>3, <1>8 DEF Find, rest
  <2>2. CASE rest[1] \in DOMAIN entries[at[t]]
    <3>1. /\ Goto(t, "get")
          /\ at' = [at EXCEPT ![t] = entries[@][rest[1]]]
          /\ todo' = [todo EXCEPT ![t] = <<Tail(rest)>> \o Tail(@)]
          /\ UNCHANGED <<found, fileVars, call, uid, work, ops, raced>>
      BY <1>8, <2>2 DEF Find, rest
    <3>2. pc'[t] = "get" /\ Others(t)
      BY <3>1 DEF Goto, IInv, TypeOK, Others
    <3>3. /\ at'[t] = entries[at[t]][rest[1]]
          /\ todo'[t] = <<Tail(rest)>> \o Tail(todo[t])
      BY <3>1 DEF IInv, TypeOK, LocalsOK
    <3>4. On(entries, path, at'[t], Tail(rest))
      BY <1>3, <1>4, <1>5, <2>1, <2>2, <3>3, OnNext
    <3>5. Tail(rest) \in Seq(Names) /\ Tail(todo[t]) \in Seq(Seq(Names))
      BY <1>3, <2>1
    <3>6. /\ Head(todo'[t]) = Tail(rest)
          /\ Len(todo'[t]) # 1 =>
               Len(todo[t]) # 1 /\ todo'[t][2] = todo[t][2]
      <4>1. /\ Len(todo'[t]) = Len(todo[t])
            /\ Head(todo'[t]) = Tail(rest)
            /\ Len(todo[t]) # 1 => todo'[t][2] = todo[t][2]
        BY <1>3, <3>3, <3>5, NewHead
      <4> QED
        BY <4>1
    <3>7. UNCHANGED <<kind, entries, call, found, uid>>
      BY <3>1 DEF fileVars
    <3> QED
      BY <1>6, <3>2, <3>4, <3>6, <3>7
  <2>3. CASE rest[1] \notin DOMAIN entries[at[t]]
    <3>1. /\ Parsed(t, Null)
          /\ UNCHANGED <<fileVars, call, uid, work, ops, raced>>
      BY <1>8, <2>3 DEF Find, rest
    <3> QED
      BY <1>1, <3>1, TreeParsed
  <2> QED
    BY <2>2, <2>3
<1> QED
  BY <1>7, <1>8

\* A call that ends and has changed nothing.
LEMMA TreeEnds ==
  ASSUME IInv, AloneInv, TreeInv, ~raced, NEW t \in Threads,
         pc[t] \in Early \ {"get", "find"}, Return(t),
         UNCHANGED <<fileVars, todo, at, raced>>
  PROVE  TreeInv'
<1>1. pc[t] # "idle" /\ pc[t] \notin Late /\ pc[t] \notin {"get", "find"}
  BY DEF Early, Late, Ops, Renaming
<1>2. NameTree(entries, kind) /\ Task(t)
  BY <1>1, TreeNow
<1>3. at[t] = Root /\ UNCHANGED <<kind, entries>>
  BY <1>1, <1>2 DEF Task, fileVars
<1> QED
  BY <1>1, <1>2, <1>3, TreeReturn

\* What a call has found when parse_path is through.
LEMMA TreeFound ==
  ASSUME IInv, NEW t \in Threads, NEW where \in Early \ {"get", "find"},
         At(t, where), Task(t)
  PROVE  /\ Parent(t) \in Ids /\ DOMAIN entries[Parent(t)] # {}
         /\ Leads(entries, call[t].p, Parent(t))
         /\ Len(found[t]) = 2 =>
              /\ Other(t) \in Ids /\ DOMAIN entries[Other(t)] # {}
              /\ Leads(entries, PathOf(call[t], 2), Other(t))
<1>1. /\ pc[t] \in Early /\ found[t] \in Seq(Ids \cup {Null})
      /\ Len(found[t]) \in {1, 2}
  BY LocalTypes DEF At, Shape, Early, Ops, Renaming
<1>2. 1 \in DOMAIN found[t] /\ (Len(found[t]) = 2 => 2 \in DOMAIN found[t])
  BY <1>1
<1>3. \A i \in DOMAIN found[t] :
        found[t][i] \in Ids /\ DOMAIN entries[found[t][i]] # {}
        /\ Leads(entries, PathOf(call[t], i), found[t][i])
  BY <1>1 DEF At, Task, Looked
<1>4. PathOf(call[t], 1) = call[t].p
  BY DEF PathOf
<1> QED
  BY <1>2, <1>3, <1>4 DEF Parent, Other

LEMMA TreeRenames ==
  ASSUME IInv, AloneInv, TreeInv, ~raced, NEW t \in Threads,
         RenameFind(t) \/ RenameFindOther(t) \/ AddEntry(t)
  PROVE  TreeInv'
<1>1. /\ pc[t] \in {"rename", "findother", "add"} /\ pc[t] # "idle"
      /\ pc[t] \in Early \ {"get", "find"} /\ pc[t] \notin Late
      /\ At(t, pc[t])
  BY DEF RenameFind, RenameFindOther, AddEntry, At, Early, Late, Ops, Renaming
<1>2. NameTree(entries, kind) /\ Task(t)
  BY <1>1, TreeNow
<1>3. call[t].op = "rename" /\ at[t] = Root
  BY <1>1, <1>2 DEF Task, Ops, Renaming
<1>4. ASSUME UNCHANGED <<kind, entries, call, found, todo, at, work>>,
             Goto(t, "findother") \/ Goto(t, "add") \/ Goto(t, "linking"),
             \A u \in Threads \ {t} : uid'[u] = uid[u],
             uid'[t] # Null =>
               /\ call[t].nm \in DOMAIN entries[Parent(t)]
               /\ uid'[t] = entries[Parent(t)][call[t].nm],
             pc'[t] = "add" => call[t].qn \notin DOMAIN entries[Other(t)]
      PROVE  TreeInv'
  <2>1. Others(t) /\ pc'[t] \in Renaming
    <3>1. ASSUME NEW w \in Renaming, Goto(t, w)
          PROVE  Others(t) /\ pc'[t] = w
      BY <1>4, <3>1 DEF Goto, Others, IInv, TypeOK
    <3> QED
      BY <1>4, <3>1 DEF Renaming
  <2>2. Parent(t)' = Parent(t) /\ Other(t)' = Other(t)
    BY <1>4 DEF Parent, Other
  <2>3. /\ pc'[t] \in Early /\ pc'[t] \notin Late
        /\ pc'[t] \notin {"get", "find", "idle"} \cup Ops
    BY <2>1 DEF Early, Late, Renaming, Ops
  <2>4. /\ call[t].nm \in Names /\ call[t].qn \in Names
        /\ Looked(entries, call[t], found[t])
        /\ FileNamed(entries, kind, call[t])
    BY <1>1, <1>2, <1>3 DEF Task
  <2>5. /\ call'[t] = call[t]
        /\ Looked(entries', call'[t], found'[t])
        /\ FileNamed(entries', kind', call'[t])
    BY <1>4, <2>4
  <2>6. pc'[t] # "linkup"
    BY <2>1 DEF Renaming
  <2>7. Task(t)'
    BY <1>3, <1>4, <2>2, <2>3, <2>4, <2>5, <2>6 DEF Task
  <2> QED
    BY <1>1, <1>2, <1>4, <2>1, <2>3, <2>7, TreeRest
<1>5. CASE RenameFind(t)
  <2>1. /\ uid' = [uid EXCEPT ![t] = Entry(Parent(t), call[t].nm)]
        /\ Goto(t, "findother")
        /\ UNCHANGED <<kind, entries, call, found, todo, at, work>>
    BY <1>5 DEF RenameFind, fileVars, walkVars
  <2>2. /\ uid'[t] = Entry(Parent(t), call[t].nm)
        /\ \A u \in Threads \ {t} : uid'[u] = uid[u]
    BY <2>1 DEF IInv, TypeOK
  <2>3. pc'[t] = "findother"
    BY <2>1 DEF Goto, IInv, TypeOK
  <2> QED
    BY <1>4, <2>1, <2>2, <2>3 DEF Entry
<1>6. CASE RenameFindOther(t)
  <2>1. CASE Return(t)
    BY <1>1, <1>6, <2>1, TreeEnds DEF RenameFindOther
  <2>2. CASE /\ Entry(Other(t), call[t].qn) = Null
             /\ Goto(t, "add") /\ UNCHANGED <<call, found, uid, work>>
    <3>1. Other(t) \in Ids /\ pc[t] = "findother"
      <4>1. Len(found[t]) = 2
        BY <1>6, LocalTypes DEF RenameFindOther, At, Shape
      <4> QED
        BY <1>1, <1>2, <1>6, <4>1, TreeFound DEF RenameFindOther, At
    <3>2. call[t].qn \notin DOMAIN entries[Other(t)]
      BY <2>2, <3>1, NamespaceAssumption DEF Entry, IInv, TypeOK
    <3>3. UNCHANGED <<kind, entries, call, found, todo, at, work, uid>>
      BY <1>6, <2>2 DEF RenameFindOther, fileVars
    <3>4. uid[t] # Null =>
            /\ call[t].nm \in DOMAIN entries[Parent(t)]
            /\ uid[t] = entries[Parent(t)][call[t].nm]
      BY <1>2, <3>1 DEF Task, Renaming
    <3> QED
      BY <1>4, <2>2, <3>2, <3>3, <3>4
  <2> QED
    BY <1>6, <2>1, <2>2 DEF RenameFindOther
<1>7. CASE AddEntry(t)
  <2>1. /\ Goto(t, "linking") /\ pc[t] = "add"
        /\ UNCHANGED <<kind, entries, call, found, todo, at, work, uid>>
    BY <1>7 DEF AddEntry, At, walkVars
  <2>2. uid[t] # Null =>
          /\ call[t].nm \in DOMAIN entries[Parent(t)]
          /\ uid[t] = entries[Parent(t)][call[t].nm]
    BY <1>2, <2>1 DEF Task, Renaming
  <2>3. pc'[t] = "linking"
    BY <2>1 DEF Goto, IInv, TypeOK
  <2> QED
    BY <1>4, <2>1, <2>2, <2>3
<1> QED
  BY <1>5, <1>6, <1>7

\* azs_rename has seen that the new name is free.
LEMMA TreeNotTaken ==
  ASSUME IInv, TreeInv, ~raced, NEW t \in Threads
  PROVE  ~AddTaken(t)
<1> SUFFICES ASSUME AddTaken(t) PROVE FALSE
  OBVIOUS
<1>1. pc[t] = "add" /\ call[t].qn \in DOMAIN entries[Other(t)]
  BY DEF AddTaken, At
<1> QED
  BY <1>1 DEF TreeInv, Task

-----------------------------------------------------------------------------
\* New files and directories.
LEMMA UnusedIsLoose ==
  ASSUME IInv, NEW n \in Ids, kind[n] = "none"
  PROVE  /\ DOMAIN entries[n] = {}
         /\ \A e \in Ids : \A x \in DOMAIN entries[e] : entries[e][x] # n
  BY DEF IInv, Untouched, Hidden

LEMMA TreeCreateReg ==
  ASSUME IInv, IInv', AloneInv, TreeInv, ~raced, NEW t \in Threads,
         NEW n \in Unused, CreateReg(t, n)
  PROVE  TreeInv'
<1> DEFINE d == Parent(t)
           nm == call[t].nm
<1>1. /\ pc[t] = "create" /\ At(t, "create") /\ pc[t] # "idle"
      /\ "create" \in Early \ {"get", "find"} /\ pc[t] \notin Late
      /\ nm \notin DOMAIN entries[d]
      /\ kind' = [kind EXCEPT ![n] = "reg"]
      /\ entries' = [entries EXCEPT ![d] = WithEntry(d, nm, n)]
      /\ Return(t) /\ UNCHANGED <<todo, at>>
  BY DEF CreateReg, At, Early, Late, Ops
<1>2. NameTree(entries, kind) /\ Task(t)
  BY <1>1, TreeNow
<1>3. /\ d \in Ids /\ DOMAIN entries[d] # {} /\ nm \in Names /\ at[t] = Root
  BY <1>1, <1>2, TreeFound DEF Task
<1>4. /\ n \in Ids /\ DOMAIN entries[n] = {} /\ n # d
      /\ \A e \in Ids : \A x \in DOMAIN entries[e] : entries[e][x] # n
  BY <1>3, UnusedIsLoose DEF Unused
<1> HIDE DEF d, nm
<1>5. /\ IsTree(entries') /\ DOMAIN entries = Ids
      /\ DOMAIN kind = Ids
  BY DEF IInv, TypeOK, IsTree, AllNames
<1>6. /\ \A e \in Ids \ {d} : entries'[e] = entries[e]
      /\ DOMAIN entries'[d] = DOMAIN entries[d] \cup {nm}
      /\ entries'[d][nm] = n
      /\ \A x \in DOMAIN entries[d] : entries'[d][x] = entries[d][x]
  <2>1. entries'[d] = WithEntry(d, nm, n)
    BY <1>1, <1>3, <1>5
  <2> QED
    BY <1>1, <1>3, <1>5, <2>1 DEF WithEntry
<1>7. kind'[n] = "reg" /\ \A k \in Ids \ {n} : kind'[k] = kind[k]
  BY <1>1, <1>4, <1>5
<1>8. DOMAIN entries'[n] = {}
  BY <1>4, <1>6
<1>9. \A e \in Ids \ {d, n} :
        /\ DOMAIN entries'[e] = DOMAIN entries[e]
        /\ \A x \in DOMAIN entries[e] : entries'[e][x] = entries[e][x]
  BY <1>6
<1>10. nm \notin DOMAIN entries[d]
  BY <1>1
<1>11. NameTree(entries', kind')
  BY <1>2, <1>3, <1>4, <1>5, <1>6, <1>7, <1>8, <1>9, <1>10, AddLeaf
<1> QED
  BY <1>1, <1>3, <1>11, TreeReturn

LEMMA TreeCreateDir ==
  ASSUME IInv, IInv', AloneInv, TreeInv, ~raced, NEW t \in Threads,
         NEW n \in Unused, CreateDir(t, n)
  PROVE  TreeInv'
<1> DEFINE d == Parent(t)
<1>1. /\ pc[t] = "mkdir" /\ At(t, "mkdir") /\ pc[t] # "idle"
      /\ "mkdir" \in Early \ {"get", "find"} /\ pc[t] \notin Late
      /\ kind' = [kind EXCEPT ![n] = "dir"]
      /\ entries' = [entries EXCEPT ![n] = [nm \in {Dot} |-> n]]
      /\ uid' = [uid EXCEPT ![t] = n]
      /\ Goto(t, "linkup") /\ UNCHANGED <<call, found, todo, at, work>>
  BY DEF CreateDir, At, Early, Late, Ops, walkVars
<1>2. NameTree(entries, kind) /\ Task(t)
  BY <1>1, TreeNow
<1>3. /\ d \in Ids /\ DOMAIN entries[d] # {}
      /\ call[t].nm \in Names /\ at[t] = Root /\ call[t].op = "mkdir"
  BY <1>1, <1>2, TreeFound DEF Task, Ops
<1>4. /\ n \in Ids /\ DOMAIN entries[n] = {} /\ n # d
      /\ \A e \in Ids : \A x \in DOMAIN entries[e] : entries[e][x] # n
  BY <1>3, UnusedIsLoose DEF Unused
<1>5. pc'[t] = "linkup" /\ uid'[t] = n /\ Others(t) /\ Parent(t)' = d
  BY <1>1 DEF Goto, Others, Parent, IInv, TypeOK
<1> HIDE DEF d
<1>6. DOMAIN entries = Ids /\ DOMAIN kind = Ids
  BY DEF IInv, TypeOK
<1>7. /\ \A e \in Ids \ {n} : entries'[e] = entries[e]
      /\ entries'[n] = [nm \in {Dot} |-> n]
      /\ \A k \in Ids \ {n} : kind'[k] = kind[k]
  BY <1>1, <1>4, <1>6
<1>8. Task(t)'
  BY <1>1, <1>3, <1>4, <1>5, <1>7 DEF Task, Early, Ops, Renaming
<1>9. NameTree(entries, kind')
  BY <1>2, <1>4, <1>7, NameTreeKind
<1> DEFINE gone == Goes(t)'
           new == Without(entries', gone)
<1>10. \A e \in Ids, x \in AllNames : <<e, x>> \in gone <=> e = n
  BY <1>5 DEF Goes
<1>11. /\ DOMAIN new = Ids
       /\ \A e \in Ids :
            /\ \A x : x \in DOMAIN new[e]
                       <=> x \in DOMAIN entries'[e] /\ <<e, x>> \notin gone
            /\ \A x \in DOMAIN new[e] : new[e][x] = entries'[e][x]
  BY WithoutFacts
<1> HIDE DEF gone, new
<1>12. \A e \in Ids : DOMAIN entries'[e] \subseteq AllNames
  BY DEF IInv, TypeOK, AllNames
<1>13. \A e \in Ids : \A x :
         x \in DOMAIN new[e] <=> e # n /\ x \in DOMAIN entries[e]
  BY <1>7, <1>10, <1>11, <1>12
<1>14. SameTree(entries, new)
  <2>1. \A e \in Ids : DOMAIN new[e] = DOMAIN entries[e]
    BY <1>4, <1>13
  <2>2. \A e \in Ids : \A x \in DOMAIN entries[e] : new[e][x] = entries[e][x]
    BY <1>4, <1>7, <1>11, <1>13
  <2> QED
    BY <2>1, <2>2 DEF SameTree
<1>15. NameTree(new, kind')
  BY <1>9, <1>11, <1>14, NameTreeSame
<1> QED
  BY <1>1, <1>5, <1>8, <1>15, TreeStep DEF new, gone

LEMMA TreeLinkUp ==
  ASSUME IInv, IInv', AloneInv, TreeInv, ~raced, NEW t \in Threads, LinkUp(t)
  PROVE  TreeInv'
<1> DEFINE d == Parent(t)
           nm == call[t].nm
           n == uid[t]
           tree == Without(entries, Goes(t))
<1>1. /\ pc[t] = "linkup" /\ pc[t] # "idle"
      /\ entries' = [entries EXCEPT ![n] = WithEntry(n, DotDot, d),
                                    ![d] = WithEntry(d, nm, n)]
      /\ Return(t) /\ UNCHANGED <<kind, todo, at>>
  BY DEF LinkUp, At
<1>2. /\ Task(t) /\ NameTree(tree, kind) /\ Fresh(t, n) /\ Holding(t)
      /\ IsTree(entries) /\ IsTree(entries')
  BY <1>1 DEF TreeInv, IInv, TypeOK, IsTree, AllNames
<1>3. /\ d \in Ids /\ DOMAIN entries[d] # {} /\ nm \in Names /\ at[t] = Root
      /\ nm \notin DOMAIN entries[d]
  BY <1>1, <1>2 DEF Task, Holding
<1>4. /\ n \in Ids /\ kind[n] = "dir" /\ entries[n] = [x \in {Dot} |-> n]
      /\ \A e \in Ids \ {n} : \A x \in DOMAIN entries[e] : entries[e][x] # n
      /\ n # d
  <2>1. 1 \in DOMAIN found[t]
    <3>1. Len(found[t]) = 1 /\ found[t] \in Seq(Ids \cup {Null})
      BY <1>1, LocalTypes DEF Shape
    <3> QED
      BY <3>1
  <2> QED
    BY <1>2, <2>1 DEF Fresh, Hidden, Refers, Parent
<1>5. \A e \in Ids, x \in AllNames : <<e, x>> \in Goes(t) <=> e = n
  BY <1>1 DEF Goes
<1>6. /\ DOMAIN tree = Ids
      /\ \A e \in Ids :
           /\ \A x : x \in DOMAIN tree[e]
                      <=> x \in DOMAIN entries[e] /\ <<e, x>> \notin Goes(t)
           /\ \A x \in DOMAIN tree[e] : tree[e][x] = entries[e][x]
  BY WithoutFacts
<1> HIDE DEF d, nm, n, tree
<1>7. \A e \in Ids : \A x :
        x \in DOMAIN tree[e] <=> e # n /\ x \in DOMAIN entries[e]
  BY <1>2, <1>5, <1>6 DEF IsTree
<1>8. DOMAIN tree[n] = {} /\ \A e \in Ids \ {n} : DOMAIN tree[e] = DOMAIN entries[e]
  BY <1>4, <1>7
<1>9. \A e \in Ids : \A x \in DOMAIN tree[e] : tree[e][x] # n
  BY <1>4, <1>6, <1>7
<1>10. /\ \A e \in Ids \ {d, n} : entries'[e] = entries[e]
       /\ entries'[d] = WithEntry(d, nm, n)
       /\ entries'[n] = WithEntry(n, DotDot, d)
  BY <1>1, <1>2, <1>3, <1>4 DEF IsTree
<1>11. \A e \in Ids \ {d, n} :
         /\ DOMAIN entries'[e] = DOMAIN tree[e]
         /\ \A x \in DOMAIN tree[e] : entries'[e][x] = tree[e][x]
  BY <1>6, <1>8, <1>10
<1>12. /\ DOMAIN entries'[d] = DOMAIN tree[d] \cup {nm}
       /\ entries'[d][nm] = n
       /\ \A x \in DOMAIN tree[d] : entries'[d][x] = tree[d][x]
  <2>1. /\ DOMAIN entries'[d] = DOMAIN entries[d] \cup {nm}
        /\ entries'[d][nm] = n
        /\ \A x \in DOMAIN entries[d] : entries'[d][x] = entries[d][x]
    BY <1>3, <1>10 DEF WithEntry
  <2>2. \A x \in DOMAIN tree[d] : x # nm
    BY <1>3, <1>4, <1>8
  <2> QED
    BY <1>3, <1>4, <1>6, <1>8, <2>1, <2>2
<1>13. /\ DOMAIN entries'[n] = {Dot, DotDot}
       /\ entries'[n][Dot] = n /\ entries'[n][DotDot] = d
  BY <1>4, <1>10, NamespaceAssumption DEF WithEntry
<1>14. DOMAIN tree[d] # {} /\ nm \notin DOMAIN tree[d]
  BY <1>3, <1>4, <1>8
<1>15. NameTree(entries', kind)
  BY <1>2, <1>3, <1>4, <1>8, <1>9, <1>11, <1>12, <1>13, <1>14, AddLeaf
<1>16. NameTree(entries', kind')
  BY <1>1, <1>15
<1> QED
  BY <1>1, <1>3, <1>16, TreeReturn

-----------------------------------------------------------------------------
\* What unlink, rmdir and rename take out, entry by entry.
Elements(list) ==
  {e \in Ids \X AllNames : \E i \in DOMAIN list : list[i] = e}

LEMMA ElementsTail ==
  ASSUME NEW list \in Seq(Ids \X AllNames), list # <<>>
  PROVE  /\ Head(list) \in Ids \X AllNames
         /\ Elements(list) = Elements(Tail(list)) \cup {Head(list)}
         /\ Len(list) = 1 => Elements(Tail(list)) = {}
<1>1. /\ Len(list) \in Nat \ {0} /\ Tail(list) \in Seq(Ids \X AllNames)
      /\ Len(Tail(list)) = Len(list) - 1
      /\ \A i \in 1..Len(Tail(list)) : Tail(list)[i] = list[i + 1]
      /\ Head(list) = list[1] /\ Head(list) \in Ids \X AllNames
      /\ DOMAIN list = 1..Len(list) /\ DOMAIN Tail(list) = 1..Len(Tail(list))
  BY HeadTailProperties, LenProperties, EmptySeq
<1> DEFINE rest == Tail(list)
           hd == Head(list)
<1> HIDE DEF rest, hd
<1>2. /\ Len(list) \in Nat \ {0} /\ DOMAIN list = 1..Len(list)
      /\ DOMAIN rest = 1..(Len(list) - 1)
      /\ \A i \in 1..(Len(list) - 1) : rest[i] = list[i + 1]
      /\ hd = list[1] /\ hd \in Ids \X AllNames
  BY <1>1 DEF rest, hd
<1>3. ASSUME NEW e \in Ids \X AllNames
      PROVE  e \in Elements(list) <=> e \in Elements(rest) \/ e = hd
  <2>1. ASSUME NEW i \in DOMAIN list, list[i] = e
        PROVE  e \in Elements(rest) \/ e = hd
    <3>1. i # 1 => i - 1 \in DOMAIN rest /\ rest[i - 1] = list[i]
      BY <1>2
    <3> QED
      BY <1>2, <2>1, <3>1 DEF Elements
  <2>2. ASSUME NEW i \in DOMAIN rest, rest[i] = e
        PROVE  e \in Elements(list)
    <3>1. i + 1 \in DOMAIN list /\ list[i + 1] = e
      BY <1>2, <2>2
    <3> QED
      BY <3>1 DEF Elements
  <2>3. e = hd => e \in Elements(list)
    BY <1>2 DEF Elements
  <2> QED
    BY <2>1, <2>2, <2>3 DEF Elements
<1>4. Elements(list) = Elements(rest) \cup {hd}
  BY <1>2, <1>3 DEF Elements
<1>5. Len(list) = 1 => Elements(rest) = {}
  <2>1. Len(list) = 1 => DOMAIN rest = {}
    BY <1>2
  <2> QED
    BY <2>1 DEF Elements
<1> QED
  BY <1>2, <1>4, <1>5 DEF rest, hd

\* An entry that was to go has gone, or was not there.
LEMMA NextGone ==
  ASSUME NEW tree, NEW new, NEW knd,
         NEW list \in Seq(Ids \X AllNames), list # <<>>,
         NameTree(Without(tree, Elements(list)), knd),
         DOMAIN new = Ids,
         \A e \in Ids : \A x : x \in DOMAIN new[e]
           <=> x \in DOMAIN tree[e] /\ <<e, x>> # Head(list),
         \A e \in Ids : \A x \in DOMAIN new[e] : new[e][x] = tree[e][x]
  PROVE  /\ NameTree(Without(new, Elements(Tail(list))), knd)
         /\ Len(list) = 1 => NameTree(new, knd)
<1> DEFINE gone == Elements(list)
           rest == Elements(Tail(list))
           old  == Without(tree, gone)
           next == Without(new, rest)
<1>1. /\ gone = rest \cup {Head(list)}
      /\ Len(list) = 1 => rest = {}
  BY ElementsTail
<1>2. /\ \A e \in Ids :
           /\ \A x : x \in DOMAIN old[e]
                      <=> x \in DOMAIN tree[e] /\ <<e, x>> \notin gone
           /\ \A x \in DOMAIN old[e] : old[e][x] = tree[e][x]
      /\ DOMAIN next = Ids
      /\ \A e \in Ids :
           /\ \A x : x \in DOMAIN next[e]
                      <=> x \in DOMAIN new[e] /\ <<e, x>> \notin rest
           /\ \A x \in DOMAIN next[e] : next[e][x] = new[e][x]
  BY WithoutFacts
<1> HIDE DEF gone, rest, old, next
<1>3. \A e \in Ids : \A x : x \in DOMAIN next[e] <=> x \in DOMAIN old[e]
  BY <1>1, <1>2
<1>4. SameTree(old, next)
  <2>1. \A e \in Ids : DOMAIN next[e] = DOMAIN old[e]
    BY <1>3
  <2>2. ASSUME NEW e \in Ids, NEW x \in DOMAIN old[e]
        PROVE  next[e][x] = old[e][x]
    <3>1. x \in DOMAIN next[e] /\ x \in DOMAIN new[e]
      BY <1>2, <1>3
    <3>2. next[e][x] = new[e][x] /\ old[e][x] = tree[e][x]
      BY <1>2, <3>1
    <3> QED
      BY <3>1, <3>2
  <2> QED
    BY <2>1, <2>2 DEF SameTree
<1>5. NameTree(next, knd)
  <2>1. NameTree(old, knd)
    BY DEF old, gone
  <2> QED
    BY <1>2, <1>4, <2>1, NameTreeSame
<1>6. ASSUME Len(list) = 1 PROVE NameTree(new, knd)
  <2>1. next = Without(new, {})
    BY <1>1, <1>6 DEF next
  <2>2. NameTree(Without(new, {}), knd)
    BY <1>5, <2>1
  <2> QED
    BY <2>2, WithoutNone
<1> QED
  BY <1>5, <1>6 DEF next, rest

LEMMA TreeRemoves ==
  ASSUME IInv, AloneInv, TreeInv, ~raced, NEW t \in Threads,
         pc[t] \notin {"idle", "get", "find"},
         NEW list \in Seq(Ids \X AllNames), ToRemove(t, list),
         UNCHANGED <<call, found, uid, todo, at>>,
         NameTree(Without(entries', Elements(list)), kind')
  PROVE  TreeInv'
<1>1. /\ pc'[t] = "remove" /\ work'[t] = list /\ Others(t)
  BY DEF ToRemove, Goto, Others, IInv, TypeOK, LocalsOK
<1>2. Goes(t)' = Elements(list)
  BY <1>1 DEF Goes, Elements
<1>3. Task(t)
  BY DEF TreeInv
<1>4. Task(t)'
  BY <1>1, <1>3 DEF Task, Early, Ops, Renaming
<1> QED
  BY <1>1, <1>2, <1>4, TreeStep

LEMMA TreeNextRemove ==
  ASSUME IInv, AloneInv, TreeInv, ~raced, NEW t \in Threads,
         pc[t] \in {"remove", "unlinking"}, NextRemove(t),
         UNCHANGED <<kind, todo, at>>, DOMAIN entries' = Ids,
         \A e \in Ids : \A x : x \in DOMAIN entries'[e]
           <=> x \in DOMAIN entries[e] /\ <<e, x>> # Head(work[t]),
         \A e \in Ids : \A x \in DOMAIN entries'[e] :
           entries'[e][x] = entries[e][x]
  PROVE  TreeInv'
<1>1. /\ work[t] \in Seq(Ids \X AllNames) /\ work[t] # <<>>
  BY LocalTypes DEF Shape
<1>2. Goes(t) = Elements(work[t])
  BY DEF Goes, Elements
<1>3. NameTree(Without(entries, Elements(work[t])), kind) /\ Task(t)
  BY <1>2 DEF TreeInv
<1>4. /\ NameTree(Without(entries', Elements(Tail(work[t]))), kind)
      /\ Len(work[t]) = 1 => NameTree(entries', kind)
  BY <1>1, <1>3, NextGone
<1>5. kind' = kind /\ at[t] = Root /\ Tail(work[t]) \in Seq(Ids \X AllNames)
  BY <1>1, <1>3 DEF Task
<1>6. CASE Len(work[t]) = 1
  <2>1. Return(t) /\ NameTree(entries', kind')
    BY <1>4, <1>5, <1>6 DEF NextRemove
  <2> QED
    BY <1>5, <2>1, TreeReturn
<1>7. CASE Len(work[t]) # 1
  <2>1. ToRemove(t, Tail(work[t])) /\ UNCHANGED <<call, found, uid>>
    BY <1>7 DEF NextRemove
  <2>2. NameTree(Without(entries', Elements(Tail(work[t]))), kind')
    BY <1>4, <1>5
  <2> QED
    BY <1>5, <2>1, <2>2, TreeRemoves
<1> QED
  BY <1>6, <1>7

LEMMA TreeUnlinks ==
  ASSUME IInv, AloneInv, TreeInv, ~raced, NEW t \in Threads,
         NoEntry(t) \/ RmEntry(t) \/ Unlinking(t)
  PROVE  TreeInv'
<1>1. pc[t] \in {"remove", "unlinking"}
  BY DEF NoEntry, RmEntry, Unlinking, AtRemove
<1>2. /\ work[t] \in Seq(Ids \X AllNames) /\ work[t] # <<>>
      /\ DOMAIN entries = Ids /\ Holding(t)
  BY <1>1, LocalTypes DEF Shape, IInv, TypeOK
<1> DEFINE d == RmDir(t)
           nm == RmName(t)
<1>3. Head(work[t]) = <<d, nm>> /\ d \in Ids
  BY <1>2 DEF RmDir, RmName
<1> HIDE DEF d, nm
<1>4. CASE NoEntry(t)
  <2>1. NextRemove(t) /\ UNCHANGED <<entries, kind, todo, at>>
        /\ nm \notin DOMAIN entries[d]
    BY <1>4 DEF NoEntry, fileVars, nm, d
  <2>2. \A e \in Ids : \A x : x \in DOMAIN entries'[e]
          <=> x \in DOMAIN entries[e] /\ <<e, x>> # Head(work[t])
    BY <1>3, <2>1
  <2> QED
    BY <1>1, <1>2, <2>1, <2>2, TreeNextRemove
<1>5. CASE Unlinking(t)
  <2>1. /\ NextRemove(t) /\ UNCHANGED <<kind, todo, at>>
        /\ entries' = [entries EXCEPT ![d] = [x \in DOMAIN @ \ {nm} |-> @[x]]]
    BY <1>5 DEF Unlinking, nm, d
  <2>2. /\ entries'[d] = [x \in DOMAIN entries[d] \ {nm} |-> entries[d][x]]
        /\ \A e \in Ids \ {d} : entries'[e] = entries[e]
        /\ DOMAIN entries' = Ids
    BY <1>2, <1>3, <2>1
  <2>3. \A e \in Ids : \A x : x \in DOMAIN entries'[e]
          <=> x \in DOMAIN entries[e] /\ <<e, x>> # Head(work[t])
    BY <1>3, <2>2
  <2>4. \A e \in Ids : \A x \in DOMAIN entries'[e] :
          entries'[e][x] = entries[e][x]
    BY <2>2
  <2> QED
    BY <1>1, <2>1, <2>2, <2>3, <2>4, TreeNextRemove
<1>6. CASE RmEntry(t)
  <2>1. /\ pc[t] = "remove" /\ Goto(t, "unlinking")
        /\ UNCHANGED <<kind, entries, call, todo, at, found, uid, work>>
    BY <1>6 DEF RmEntry, AtRemove, walkVars
  <2>2. pc'[t] = "unlinking" /\ Others(t)
    BY <2>1 DEF Goto, Others, IInv, TypeOK
  <2>3. Goes(t)' = Goes(t)
    BY <2>1, <2>2 DEF Goes
  <2>4. Task(t)'
    BY <2>1, <2>2 DEF TreeInv, Task, Early, Ops, Renaming
  <2>5. NameTree(Without(entries', Goes(t)'), kind')
    BY <2>1, <2>3 DEF TreeInv
  <2> QED
    BY <2>1, <2>2, <2>4, <2>5, TreeStep
<1> QED
  BY <1>4, <1>5, <1>6

-----------------------------------------------------------------------------
\* The beginning of a removal.
LEMMA TreeUnlink ==
  ASSUME IInv, AloneInv, TreeInv, ~raced, NEW t \in Threads, Unlink(t)
  PROVE  TreeInv'
<1> DEFINE d == Parent(t)
           nm == call[t].nm
           list == << <<d, nm>> >>
<1>1. /\ pc[t] = "unlink" /\ At(t, "unlink") /\ pc[t] # "idle"
      /\ "unlink" \in Early \ {"get", "find"} /\ pc[t] \notin Late
      /\ ToRemove(t, list)
      /\ UNCHANGED <<call, found, uid, todo, at, entries, kind>>
  BY DEF Unlink, At, Early, Late, Ops, fileVars, walkVars
<1>2. NameTree(entries, kind) /\ Task(t)
  BY <1>1, TreeNow
<1>3. /\ d \in Ids /\ nm \in Names /\ Leads(entries, call[t].p, d)
      /\ FileNamed(entries, kind, call[t])
  BY <1>1, <1>2, TreeFound DEF Task, Early, Ops
<1>4. nm \in DOMAIN entries[d] => kind[entries[d][nm]] = "reg"
  BY <1>3 DEF FileNamed
<1> HIDE DEF d, nm
<1>5. /\ list \in Seq(Ids \X AllNames)
      /\ Elements(list) = {<<d, nm>>}
  BY <1>3 DEF Elements, AllNames
<1> HIDE DEF list
<1>6. NameTree(Without(entries, Elements(list)), kind)
  BY <1>2, <1>3, <1>4, <1>5, Removal
<1>7. NameTree(Without(entries', Elements(list)), kind')
  BY <1>1, <1>6
<1> QED
  BY <1>1, <1>5, <1>7, TreeRemoves

\* A directory with no more than two entries has "." and "..".
LEMMA EmptyDir ==
  ASSUME IInv, NameTree(entries, kind), NEW d \in Ids,
         DOMAIN entries[d] # {}, Cardinality(DOMAIN entries[d]) <= 2
  PROVE  DOMAIN entries[d] \subseteq {Dot, DotDot}
<1> DEFINE D == DOMAIN entries[d]
<1>1. {Dot, DotDot} \subseteq D /\ Dot # DotDot
  BY NamespaceAssumption DEF NameTree, IsDirIn
<1>2. IsFiniteSet(D)
  <2>1. IsFiniteSet({Dot}) /\ IsFiniteSet({DotDot})
    BY FS_Singleton
  <2>2. IsFiniteSet({Dot} \cup {DotDot})
    BY <2>1, FS_Union
  <2>3. IsFiniteSet(Names \cup ({Dot} \cup {DotDot}))
    BY <2>2, FS_Union, NamespaceAssumption
  <2>4. D \in SUBSET (Names \cup ({Dot} \cup {DotDot}))
    BY DEF IInv, TypeOK
  <2> QED
    BY <2>3, <2>4, FS_Subset
<1> HIDE DEF D
<1>3. /\ IsFiniteSet({Dot, DotDot})
      /\ Cardinality({Dot, DotDot}) = 2
  <2>1. IsFiniteSet({Dot}) /\ Cardinality({Dot}) = 1
    BY FS_Singleton
  <2>2. /\ IsFiniteSet({Dot} \cup {DotDot})
        /\ Cardinality({Dot} \cup {DotDot}) = 1 + 1
    BY <1>1, <2>1, FS_AddElement
  <2>3. {Dot} \cup {DotDot} = {Dot, DotDot}
    OBVIOUS
  <2> QED
    BY <2>2, <2>3
<1>4. {Dot, DotDot} \in SUBSET D
  BY <1>1
<1>5. /\ Cardinality({Dot, DotDot}) <= Cardinality(D)
      /\ Cardinality(D) = Cardinality({Dot, DotDot}) => D = {Dot, DotDot}
  BY <1>2, <1>4, FS_Subset
<1>6. Cardinality(D) \in Nat /\ Cardinality(D) <= 2
  BY <1>2, FS_CardinalityType DEF D
<1>7. D = {Dot, DotDot}
  BY <1>3, <1>5, <1>6
<1> QED
  BY <1>7 DEF D

LEMMA TreeRmdir ==
  ASSUME IInv, AloneInv, TreeInv, ~raced, NEW t \in Threads, Rmdir(t)
  PROVE  TreeInv'
<1> DEFINE d == Parent(t)
           o == Other(t)
           nm == call[t].nm
           list == RmdirList(t)
<1>1. /\ pc[t] = "rmdir" /\ At(t, "rmdir") /\ pc[t] # "idle"
      /\ "rmdir" \in Early \ {"get", "find"} /\ pc[t] \notin Late
      /\ UNCHANGED <<entries, kind, todo, at>>
  BY DEF Rmdir, At, Early, Late, Ops, fileVars
<1>2. CASE Return(t)
  BY <1>1, <1>2, TreeEnds DEF Rmdir
<1>3. CASE /\ Cardinality(DOMAIN entries[o]) <= 2
           /\ ToRemove(t, list) /\ UNCHANGED <<call, found, uid>>
  <2>1. NameTree(entries, kind) /\ Task(t) /\ Len(found[t]) = 2
    BY <1>1, TreeNow, LocalTypes DEF Shape
  <2>2. call[t] \in Calls /\ call[t].op = "rmdir" /\ nm \in Names
    BY <1>1, <2>1, LocalTypes DEF Task, Ops
  <2>3. /\ d \in Ids /\ o \in Ids /\ DOMAIN entries[o] # {}
        /\ Leads(entries, call[t].p, d)
        /\ Leads(entries, Append(call[t].p, nm), o)
    BY <1>1, <2>1, <2>2, TreeFound DEF PathOf
  <2>4. nm \in DOMAIN entries[d] /\ o = entries[d][nm]
    <3>1. o = From(d, nm)
      BY <2>2, <2>3, LeadsOn DEF Calls
    <3> QED
      BY <2>3, <3>1, NamespaceAssumption DEF From
  <2>5. DOMAIN entries[o] \subseteq {Dot, DotDot}
    BY <1>3, <2>1, <2>3, EmptyDir
  <2>6. list = << <<o, DotDot>>, <<o, Dot>>, <<d, nm>> >>
    BY DEF RmdirList
  <2> HIDE DEF d, o, nm, list
  <2>7. /\ list \in Seq(Ids \X AllNames)
        /\ Elements(list) = {<<d, nm>>, <<o, Dot>>, <<o, DotDot>>}
    <3>1. <<o, DotDot>> \in Ids \X AllNames /\ <<o, Dot>> \in Ids \X AllNames
          /\ <<d, nm>> \in Ids \X AllNames
      BY <2>2, <2>3 DEF AllNames
    <3>2. list \in Seq(Ids \X AllNames) /\ DOMAIN list = 1..3
      BY <2>6, <3>1
    <3>3. /\ list[1] = <<o, DotDot>> /\ list[2] = <<o, Dot>>
          /\ list[3] = <<d, nm>>
      BY <2>6
    <3>4. \A i \in 1..3 : i = 1 \/ i = 2 \/ i = 3
      OBVIOUS
    <3>5. ASSUME NEW e \in Elements(list)
          PROVE  e \in {<<d, nm>>, <<o, Dot>>, <<o, DotDot>>}
      <4>1. PICK i \in 1..3 : list[i] = e
        BY <3>2 DEF Elements
      <4> QED
        BY <3>3, <3>4, <4>1
    <3>6. <<o, DotDot>> \in Elements(list) /\ <<o, Dot>> \in Elements(list)
          /\ <<d, nm>> \in Elements(list)
      <4>1. 1 \in DOMAIN list /\ 2 \in DOMAIN list /\ 3 \in DOMAIN list
        BY <3>2
      <4> QED
        BY <3>1, <3>3, <4>1 DEF Elements
    <3> QED
      BY <3>2, <3>5, <3>6
  <2>8. NameTree(Without(entries, Elements(list)), kind)
    BY <2>1, <2>2, <2>3, <2>4, <2>5, <2>7, Removal
  <2>9. NameTree(Without(entries', Elements(list)), kind')
    BY <1>1, <2>8
  <2> QED
    BY <1>1, <1>3, <2>7, <2>9, TreeRemoves
<1> QED
  BY <1>2, <1>3 DEF Rmdir

\* The new name of a file that is renamed, and the old one.
LEMMA TreeLinking ==
  ASSUME IInv, IInv', AloneInv, TreeInv, ~raced, NEW t \in Threads, Linking(t)
  PROVE  TreeInv'
<1> DEFINE d == Parent(t)
           o == Other(t)
           nm == call[t].nm
           qn == call[t].qn
           n == uid[t]
           list == << <<d, nm>> >>
<1>1. /\ pc[t] = "linking" /\ At(t, "linking") /\ pc[t] # "idle"
      /\ "linking" \in Early \ {"get", "find"} /\ pc[t] \notin Late
      /\ entries' = [entries EXCEPT ![o] = WithEntry(o, qn, n)]
      /\ ToRemove(t, list)
      /\ UNCHANGED <<call, found, uid, todo, at, kind>>
  BY DEF Linking, At, Early, Late, Ops, Renaming, walkVars
<1>2. /\ NameTree(entries, kind) /\ Task(t) /\ Len(found[t]) = 2
      /\ uid[t] # Null /\ Holding(t)
  BY <1>1, TreeNow, LocalTypes DEF Shape
<1>3. /\ d \in Ids /\ nm \in Names /\ qn \in Names
      /\ Leads(entries, call[t].p, d)
      /\ o \in Ids /\ DOMAIN entries[o] # {}
      /\ FileNamed(entries, kind, call[t])
  BY <1>1, <1>2, TreeFound DEF Task, Early, Renaming
<1>4. /\ nm \in DOMAIN entries[d] /\ n = entries[d][nm] /\ kind[n] = "reg"
      /\ qn \notin DOMAIN entries[o]
  BY <1>1, <1>2, <1>3 DEF FileNamed, Task, Renaming, Holding
<1>5. /\ IsTree(entries) /\ IsTree(entries') /\ n \in Ids
  BY <1>3, <1>4 DEF IInv, TypeOK, IsTree, AllNames
<1> HIDE DEF d, o, nm, qn, n
<1>6. /\ list \in Seq(Ids \X AllNames)
      /\ Elements(list) = {<<d, nm>>}
  BY <1>3 DEF Elements, AllNames
<1> DEFINE gone == Elements(list)
           mid == Without(entries, gone)
           new == Without(entries', gone)
<1>7. /\ NameTree(mid, kind)
      /\ n # d
      /\ \A e \in Ids : \A x \in DOMAIN mid[e] : mid[e][x] # n
  BY <1>2, <1>3, <1>4, <1>6, Removal
<1>8. /\ \A e \in Ids :
           /\ \A x : x \in DOMAIN mid[e]
                      <=> x \in DOMAIN entries[e] /\ <<e, x>> \notin gone
           /\ \A x \in DOMAIN mid[e] : mid[e][x] = entries[e][x]
      /\ DOMAIN new = Ids
      /\ \A e \in Ids :
           /\ \A x : x \in DOMAIN new[e]
                      <=> x \in DOMAIN entries'[e] /\ <<e, x>> \notin gone
           /\ \A x \in DOMAIN new[e] : new[e][x] = entries'[e][x]
  BY WithoutFacts
<1> HIDE DEF list, gone, mid, new
<1>9. gone = {<<d, nm>>}
  BY <1>6 DEF gone
<1>10. /\ \A e \in Ids \ {o} : entries'[e] = entries[e]
       /\ DOMAIN entries'[o] = DOMAIN entries[o] \cup {qn}
       /\ entries'[o][qn] = n
       /\ \A x \in DOMAIN entries[o] : entries'[o][x] = entries[o][x]
  <2>1. /\ entries'[o] = WithEntry(o, qn, n)
        /\ \A e \in Ids \ {o} : entries'[e] = entries[e]
    BY <1>1, <1>3, <1>5 DEF IsTree
  <2> QED
    BY <1>4, <2>1 DEF WithEntry
<1>11. <<o, qn>> \notin gone
  BY <1>4, <1>9
<1>12. \A e \in Ids \ {o} : \A x : x \in DOMAIN new[e] <=> x \in DOMAIN mid[e]
  BY <1>8, <1>10
<1>13. \A x : x \in DOMAIN new[o] <=> x \in DOMAIN mid[o] \/ x = qn
  BY <1>3, <1>8, <1>10, <1>11
<1>14. /\ \A e \in Ids \ {o, n} :
            /\ DOMAIN new[e] = DOMAIN mid[e]
            /\ \A x \in DOMAIN mid[e] : new[e][x] = mid[e][x]
       /\ DOMAIN new[o] = DOMAIN mid[o] \cup {qn}
       /\ new[o][qn] = n
       /\ \A x \in DOMAIN mid[o] : new[o][x] = mid[o][x]
       /\ qn \notin DOMAIN mid[o]
  <2>1. \A e \in Ids \ {o} : DOMAIN new[e] = DOMAIN mid[e]
    BY <1>12
  <2>2. \A e \in Ids \ {o} : \A x \in DOMAIN mid[e] : new[e][x] = mid[e][x]
    BY <1>8, <1>10, <1>12
  <2>3. DOMAIN new[o] = DOMAIN mid[o] \cup {qn}
    BY <1>13
  <2>4. new[o][qn] = n /\ qn \notin DOMAIN mid[o]
    BY <1>3, <1>4, <1>8, <1>10, <1>13
  <2>5. \A x \in DOMAIN mid[o] : new[o][x] = mid[o][x]
    BY <1>3, <1>8, <1>10, <1>13
  <2> QED
    BY <2>1, <2>2, <2>3, <2>4, <2>5
<1>15. DOMAIN entries[n] = {} /\ DOMAIN mid[n] = {} /\ n # o
       /\ DOMAIN new[n] = {}
  <2>1. DOMAIN entries[n] = {}
    BY <1>2, <1>4, <1>5 DEF NameTree, IsDirIn
  <2>2. n # o
    BY <1>3, <2>1
  <2> QED
    BY <1>5, <1>8, <1>10, <2>1, <2>2
<1>16. DOMAIN mid[o] # {}
  <2>1. Dot \in DOMAIN entries[o] /\ Dot # nm
    BY <1>2, <1>3, NamespaceAssumption DEF NameTree, IsDirIn
  <2>2. <<o, Dot>> \notin gone
    BY <1>9, <2>1
  <2> QED
    BY <1>3, <1>8, <2>1, <2>2
<1>17. IsTree(new)
  <2>1. ASSUME NEW e \in Ids, NEW x \in DOMAIN new[e]
        PROVE  x \in AllNames /\ new[e][x] \in Ids
    <3>1. x \in DOMAIN entries'[e] /\ new[e][x] = entries'[e][x]
      BY <1>8
    <3> QED
      BY <1>5, <3>1 DEF IsTree
  <2> QED
    BY <1>8, <2>1 DEF IsTree
<1>18. NameTree(new, kind)
  BY <1>3, <1>4, <1>5, <1>7, <1>14, <1>15, <1>16, <1>17, AddLeaf
<1>19. NameTree(Without(entries', Elements(list)), kind')
  BY <1>1, <1>18 DEF new, gone
<1> QED
  BY <1>1, <1>6, <1>19, TreeRemoves DEF list, d, nm

-----------------------------------------------------------------------------
LEMMA TreeInductive ==
  ASSUME Movable \subseteq {"reg"},
         IInv, IInv', AloneInv, TreeInv, [Next]_vars
  PROVE  TreeInv'
<1> SUFFICES ASSUME ~raced' PROVE TreeInv'
  BY DEF TreeInv
<1>1. CASE UNCHANGED vars
  <2>1. \A t \in Threads : Goes(t)' = Goes(t)
    BY <1>1 DEF vars, Goes
  <2>2. \A t \in Threads : Task(t)' <=> Task(t)
    BY <1>1 DEF vars, fileVars, walkVars, Task, Parsing, Parent, Other
  <2> QED
    BY <1>1, <2>1, <2>2 DEF TreeInv, vars, fileVars
<1>2. ASSUME NEW t \in Threads, BeginCall(t)
      PROVE  TreeInv'
  BY <1>2, TreeBegin
<1>3. ASSUME NEW t \in Threads, Proceed(t)
      PROVE  TreeInv'
  <2>1. ~raced
    BY <1>3 DEF Proceed, Get, Find, NoDirectory, Exists, CreateReg, CreateDir,
           CreateDirCrash, LinkUp, Unlink, Rmdir, NoEntry, RmEntry,
           RmEntryCrash, Unlinking, RenameFind, RenameFindOther, AddTaken,
           AddEntry, AddEntryCrash, Linking, Crash
  <2>2. ASSUME NEW n \in Unused, CreateReg(t, n) \/ CreateDir(t, n)
        PROVE  TreeInv'
    BY <2>1, <2>2, TreeCreateReg, TreeCreateDir
  <2>3. ~(CreateDirCrash(t) \/ RmEntryCrash(t) \/ AddEntryCrash(t))
    BY <2>1, AloneSurvives
  <2>4. CASE Get(t) \/ Find(t)
    BY <2>1, <2>4, TreeWalks
  <2>5. CASE NoDirectory(t) \/ Exists(t)
    <3>1. pc[t] \in Early \ {"get", "find"}
      BY <2>5 DEF NoDirectory, Exists, At, Early, Ops
    <3> QED
      BY <2>1, <2>5, <3>1, TreeEnds DEF NoDirectory, Exists
  <2>6. CASE RenameFind(t) \/ RenameFindOther(t) \/ AddEntry(t)
    BY <2>1, <2>6, TreeRenames
  <2>7. CASE Unlink(t) \/ Rmdir(t)
    BY <2>1, <2>7, TreeUnlink, TreeRmdir
  <2>8. CASE NoEntry(t) \/ RmEntry(t) \/ Unlinking(t)
    BY <2>1, <2>8, TreeUnlinks
  <2>9. CASE LinkUp(t) \/ Linking(t) \/ AddTaken(t)
    BY <2>1, <2>9, TreeLinkUp, TreeLinking, TreeNotTaken
  <2> QED
    BY <1>3, <2>2, <2>3, <2>4, <2>5, <2>6, <2>7, <2>8, <2>9 DEF Proceed
<1> QED
  BY <1>1, <1>2, <1>3 DEF Next

LEMMA TreeStart == Init /\ NameTree(entries, kind) => TreeInv
  BY DEF Init, TreeInv, Task, Early, Ops, Renaming

\* Calls that follow one another keep the tree, whatever the calls and the
\* tree: what exists is what paths lead to, a file has one link, a directory
\* as many as it has subdirectories and two more, and its ".." is the
\* directory that names it.  What is to be renamed are files; the directory
\* tree that the file system starts from is one.
THEOREM CallsKeepTheTree ==
  ASSUME Movable \subseteq {"reg"}
  PROVE  Spec /\ NameTree(entries, kind) => []TreeKept
<1>1. IInv /\ AloneInv /\ TreeInv => TreeKept
  <2> SUFFICES ASSUME IInv, AloneInv, TreeInv,
                      ~raced, \A t \in Threads : pc[t] = "idle"
               PROVE  TreeKept
    BY DEF TreeKept
  <2>1. LinkedExist /\ NameTree(entries, kind)
    BY DEF AloneInv, TreeInv
  <2> QED
    BY <2>1, TreeIsKept
<1>2. IInv /\ IInv' /\ AloneInv /\ TreeInv /\ [Next]_vars => TreeInv'
  BY TreeInductive
<1> QED
  BY <1>1, <1>2, TreeStart, AloneStart, AloneInductive, Invariance, PTL
  DEF Spec
=============================================================================
