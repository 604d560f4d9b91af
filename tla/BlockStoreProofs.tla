-------------------------- MODULE BlockStoreProofs --------------------------
(***************************************************************************)
(* Proofs about BlockStore, for any files, threads, bounds and failures,   *)
(* along three invariants, each proved with the help of those before it.   *)
(* IInv: every cell is in just one place, and what the threads know of     *)
(* their cells.  ListInv: a file's list and the cells agree, snapshots are *)
(* pinned, Dirty blocks are queued.  StoreInv: a block that is to be       *)
(* downloaded is in storage.  CacheBounded counts cells and needs none of  *)
(* them.  A lemma "...Kept" says that one action keeps Kept, which is IInv *)
(* without the count.                                                      *)
(***************************************************************************)
EXTENDS BlockStore, FiniteSetTheorems, SequenceTheorems,
        WellFoundedInduction, TLAPS

\* The threads that found the cache not full and have not made their cell yet.
News == {t \in Threads : pc[t] = "new"}

\* Where a thread may be.
Places == {"idle", "resize", "lock", "alloc", "new", "scan", "assign", "copy",
           "touch", "threw", "asserted"}

\* The cells there are, and those on their way.
NewBound ==
  /\ pc \in [Threads -> Places]
  /\ ncells \in Nat
  /\ ncells + Cardinality(News) < CacheSize + Cardinality(Threads)

\* Two steps of get_free matter; every other one keeps the sum.
Moves(t) ==
  /\ ncells' = ncells
  /\ pc[t] # "new"
  /\ \E w \in Places \ {"new"} : pc' = [pc EXCEPT ![t] = w]

Quiet ==
  \/ UNCHANGED <<ncells, pc>>
  \/ \E t \in Threads : Moves(t)

LEMMA NewsFacts ==
  /\ Cardinality(Threads) \in Nat
  /\ IsFiniteSet(News)
  /\ Cardinality(News) \in Nat
  /\ Cardinality(News) <= Cardinality(Threads)
  /\ Cardinality(News') \in Nat
  /\ Cardinality(News') <= Cardinality(Threads)
<1>1. IsFiniteSet(Threads) /\ News \subseteq Threads /\ News' \subseteq Threads
  BY BlockStoreAssumption DEF News
<1> QED
  BY <1>1, FS_Subset, FS_CardinalityType

LEMMA QuietStep ==
  ASSUME NewBound, Quiet
  PROVE  NewBound'
<1>1. CASE UNCHANGED <<ncells, pc>>
  BY <1>1 DEF NewBound, News
<1>2. ASSUME NEW t \in Threads, Moves(t) PROVE NewBound'
  <2>1. PICK w \in Places \ {"new"} : pc' = [pc EXCEPT ![t] = w]
    BY <1>2 DEF Moves
  <2>2. pc' \in [Threads -> Places]
    BY <2>1 DEF NewBound
  <2>3. News' = News
    BY <1>2, <2>1 DEF Moves, News, NewBound
  <2> QED
    BY <1>2, <2>2, <2>3 DEF Moves, NewBound
<1> QED
  BY <1>1, <1>2 DEF Quiet

LEMMA IsFullStep ==
  ASSUME NewBound, NEW t \in Threads, IsFull(t)
  PROVE  NewBound'
<1>1. ncells' = ncells /\ pc' \in [Threads -> Places]
  BY DEF IsFull, Goto, NewBound, cacheVars, Places
<1>2. CASE CacheFull
  <2>1. News' = News
    BY <1>2 DEF IsFull, Goto, News, NewBound
  <2> QED
    BY <1>1, <2>1 DEF NewBound
<1>3. CASE ~CacheFull
  BY <1>1, <1>3, NewsFacts, BlockStoreAssumption DEF CacheFull, NewBound
<1> QED
  BY <1>2, <1>3

LEMMA PutNewItemStep ==
  ASSUME NewBound, NEW t \in Threads, PutNewItem(t)
  PROVE  NewBound'
<1>1. ncells' = ncells + 1 /\ pc' \in [Threads -> Places] /\ t \in News
  BY DEF PutNewItem, Goto, NewBound, News, Places
<1>2. News' = News \ {t}
  BY DEF PutNewItem, Goto, News, NewBound
<1>3. Cardinality(News') = Cardinality(News) - 1
  BY <1>1, <1>2, NewsFacts, FS_RemoveElement
<1> QED
  BY <1>1, <1>3, NewsFacts DEF NewBound

LEMMA OtherSteps ==
  ASSUME NewBound, [Next]_vars,
         \A t \in Threads : ~IsFull(t) /\ ~PutNewItem(t)
  PROVE  Quiet
<1> USE DEF Moves, Places, Goto, cacheVars, threadVars
<1>1. ASSUME NEW t \in Threads, Begin(t) PROVE Moves(t)
  <2>1. ASSUME NEW where \in {"lock", "resize"}, NEW r, Call(t, where, r)
        PROVE  Moves(t)
    BY <2>1 DEF Call
  <2> HIDE DEF Moves
  <2> QED
    BY <1>1, <2>1 DEF Begin, Read, Write, Truncate
<1>2. ASSUME NEW t \in Threads, NEW c \in Cells,
             TakeExpired(t, c) \/ Evict(t, c)
      PROVE  Moves(t)
  BY <1>2 DEF TakeExpired, Evict, Take
<1>3. ASSUME NEW t \in Threads,
             AfterResize(t) \/ Goto(t, "alloc") \/ Goto(t, "asserted"),
             ncells' = ncells, pc[t] # "new"
      PROVE  Moves(t)
  BY <1>3 DEF AfterResize, ToBlock, Return
<1>4. ASSUME NEW t \in Threads,
             Grow(t) \/ Shrink(t) \/ ShrinkAsserts(t) \/ AssignGrown(t)
      PROVE  Moves(t)
  <2>1. ncells' = ncells
    BY <1>4 DEF Grow, Shrink, ShrinkAsserts, AssignGrown
  <2>2. pc[t] # "new"
    BY <1>4 DEF Grow, Shrink, ShrinkAsserts, AssignGrown
  <2>3. AfterResize(t) \/ Goto(t, "alloc") \/ Goto(t, "asserted")
    <3> HIDE DEF Goto
    <3> QED
      BY <1>4 DEF Grow, Shrink, ShrinkAsserts, AssignGrown
  <2> QED
    BY <1>3, <2>1, <2>2, <2>3
<1>5. ASSUME NEW t \in Threads,
             \/ GetThrows(t) \/ GetCached(t) \/ BeginCopyOnWrite(t)
             \/ BeginLoad(t) \/ AssignBlock(t)
      PROVE  Moves(t)
  <2>1. ncells' = ncells /\ pc[t] # "new"
    BY <1>5 DEF GetThrows, GetCached, BeginCopyOnWrite, BeginLoad,
       AssignBlock, AtBlock
  <2>2. Goto(t, "threw") \/ Goto(t, "copy") \/ Goto(t, "alloc")
    <3> HIDE DEF Goto
    <3> QED
      BY <1>5 DEF GetThrows, GetCached, BeginCopyOnWrite, BeginLoad,
         AssignBlock
  <2> QED
    BY <2>1, <2>2
<1>6. ASSUME NEW t \in Threads, CopyOut(t) \/ CopyIn(t) \/ EndWrite(t)
      PROVE  Moves(t)
  <2>1. ncells' = ncells /\ pc[t] # "new"
    BY <1>6 DEF CopyOut, CopyIn, EndWrite
  <2>2. Goto(t, "lock") \/ Goto(t, "touch") \/ Goto(t, "idle")
    <3> HIDE DEF Goto
    <3> QED
      BY <1>6 DEF CopyOut, CopyIn, EndWrite, ToBlock, Return
  <2> QED
    BY <2>1, <2>2
<1>7. CASE Upload
  BY <1>7 DEF Upload, TakeSnapshot, SendBlock, Commit, RequestFails,
     RestoreBlock, EndUpload, Quiet
<1>8. CASE UNCHANGED vars
  BY <1>8 DEF vars, Quiet
<1> HIDE DEF Moves
<1> QED
  BY <1>1, <1>2, <1>4, <1>5, <1>6, <1>7, <1>8 DEF Next, Proceed, Quiet

\* The cache never holds more cells than its size and one less than there are
\* threads: is_full and put_new_item take the list's lock one after the other,
\* so that each thread may be one cell late, but the last one sees it full.
THEOREM CacheBounded == Spec => []CacheBound
<1>1. Init => NewBound
  <2> SUFFICES ASSUME Init PROVE NewBound
    OBVIOUS
  <2>1. News = {}
    BY DEF Init, News
  <2>2. Cardinality(News) = 0
    BY <2>1, FS_EmptySet
  <2>3. pc \in [Threads -> Places] /\ ncells = 0
    BY DEF Init, Places
  <2>4. Cardinality(Threads) \in Nat /\ CacheSize \in Nat \ {0}
    BY NewsFacts, BlockStoreAssumption
  <2> QED
    BY <2>2, <2>3, <2>4 DEF NewBound
<1>2. NewBound /\ [Next]_vars => NewBound'
  BY QuietStep, IsFullStep, PutNewItemStep, OtherSteps
<1>3. NewBound => CacheBound
  BY NewsFacts, BlockStoreAssumption DEF NewBound, CacheBound
<1> QED
  BY <1>1, <1>2, <1>3, PTL DEF Spec

-----------------------------------------------------------------------------
\* The inductive invariant.

\* A thread that has the m_mutex of its file between two steps.
Holding(t) == pc[t] \in {"alloc", "new", "scan", "assign"}
Owner(t) == Holding(t) => m_mutex[File(t)] = t
HasMutex == \A t \in Threads : Owner(t)

\* What a thread knows of its call.
Request(t) ==
  /\ req[t].op \in {"read", "write", "trunc"}
  /\ req[t].f \in Files
  /\ req[t].hi \in 0..MaxBlocks
  /\ req[t].v \in Data
  /\ req[t].op # "trunc" => req[t].lo \in 1..req[t].hi
AtIndex(t) ==
  /\ pc[t] \in {"lock", "copy"} => req[t].op # "trunc"
  /\ Holding(t) \/ pc[t] \in {"lock", "copy"} => idx[t] \in 1..req[t].hi
  /\ pc[t] = "assign" => pin[t] \in 1..ncells
Calls ==
  /\ DOMAIN req = Threads
  /\ \A t \in Threads : pc[t] # "idle" => Request(t) /\ AtIndex(t)

\* A list is as long as its file, or as the file is going to be.
FileLengths ==
  \A f \in Files : /\ filesize[f] <= Len(blocklist[f])
                   /\ filesize[f] <= Len(content[f])
                   /\ Free(f) => filesize[f] = Len(blocklist[f])
Sized(t) ==
  Holding(t) =>
    IF Growing(t) THEN /\ Len(blocklist[File(t)]) = req[t].hi
                       /\ idx[t] - 1 <= Len(content[File(t)])
    ELSE /\ Len(blocklist[File(t)]) = filesize[File(t)]
         /\ req[t].op # "trunc"
Lengths == FileLengths /\ \A t \in Threads : Sized(t)

\* The place for which a thread gets a cell is empty, or has the block that it
\* copies; the places behind it, if the file grows, are empty.
Copied(t) ==
  ign[t] # 0 => \/ bstatus[ign[t]] = "Up_Expired"
                \/ basefile[ign[t]] # File(t)
Waits(t) ==
  /\ ign[t] # 0 => Holding(t) /\ ign[t] <= ncells
  /\ Holding(t) =>
       /\ blocklist[File(t)][idx[t]] = ign[t]
       /\ Growing(t) =>
            \A i \in idx[t]..req[t].hi : blocklist[File(t)][i] = 0
       /\ Copied(t)
       /\ pc[t] = "assign" => pin[t] # ign[t]
Waiting == \A t \in Threads : Waits(t)

\* A cell that holds a block is in its file's list, at its index.
InList(c) ==
  /\ basefile[c] \in Files
  /\ block_index[c] \in 1..Len(blocklist[basefile[c]])
  /\ blocklist[basefile[c]][block_index[c]] = c
MapsBack == \A c \in Cells : bstatus[c] \in Live => InList(c)
Unmade == \A c \in Cells : c > ncells => bstatus[c] = "Expired"

ReadyTaken ==
  \A c \in Cells : bstatus[c] = "Ready" =>
                     \E t \in Threads : pc[t] = "assign" /\ pin[t] = c

\* What is being uploaded is in the snapshot.
Snapped ==
  \A c \in Cells : bstatus[c] \in {"Uploading", "Up_Expired"} =>
                     \E i \in DOMAIN snap : snap[i] = c
Uploads ==
  /\ upc = "idle" => snap = <<>>
  /\ upc # "idle" => item \in Files
  /\ DOMAIN sent = DOMAIN snap

\* All but the bound on the cells.  TypeOK alone is not inductive: that the
\* entry of a list a thread writes exists needs Lengths, which needs that the
\* holder of an m_mutex is alone (HasMutex); that an evicted cell's entry is
\* cleared in the right list needs MapsBack, which a thread that fills a place
\* keeps because the place is empty (Waiting).
Kept == /\ TypeOK /\ HasMutex /\ Calls /\ Lengths /\ Waiting
        /\ MapsBack /\ Unmade /\ ReadyTaken /\ Snapped /\ Uploads
IInv == NewBound /\ Kept

-----------------------------------------------------------------------------
\* Facts about cells, sequences and numbers.

LEMMA CellsFacts ==
  /\ Cardinality(Threads) \in Nat
  /\ CacheSize + Cardinality(Threads) \in Nat
  /\ Cardinality(Cells) = CacheSize + Cardinality(Threads)
<1>1. Cardinality(Threads) \in Nat /\ CacheSize \in Nat
  BY NewsFacts, BlockStoreAssumption
<1>2. Cardinality(Cells) = CacheSize + Cardinality(Threads)
  BY <1>1, FS_Interval DEF Cells
<1> QED
  BY <1>1, <1>2

\* A sequence given by its elements, and the least of some numbers.
LEMMA SeqOfFunction ==
  ASSUME NEW S, NEW n \in Nat, NEW e, \A i \in 1..n : e[i] \in S,
         e = [i \in 1..n |-> e[i]]
  PROVE  e \in Seq(S) /\ Len(e) = n
OBVIOUS

LEMMA Least ==
  ASSUME NEW T, T \subseteq Nat, T # {}
  PROVE  \E x \in T : \A y \in T : x <= y
<1>1. \E x \in T : \A y \in T : ~ (<<y, x>> \in OpToRel(<, Nat))
  BY NatLessThanWellFounded, WFMin, Zenon
<1>2. ASSUME NEW x \in T, NEW y \in T, ~ (<<y, x>> \in OpToRel(<, Nat))
      PROVE  x <= y
  BY <1>2 DEF OpToRel
<1> QED
  BY <1>1, <1>2

\* The statuses of a cell.
States == {"Expired", "Clean", "Ready", "Dirty", "Uploading", "Up_Expired"}

-----------------------------------------------------------------------------
\* The steps of the threads.

\* A step of a thread that holds no m_mutex: it may make Clean cells Dirty.
Aside(t) ==
  /\ ~Holding(t) /\ ~Holding(t)'
  /\ pc' \in [Threads -> Places]
  /\ DOMAIN req' = Threads
  /\ idx' \in [Threads -> 0..MaxBlocks]
  /\ pin' \in [Threads -> {0} \cup Cells]
  /\ \A u \in Threads \ {t} :
       /\ pc'[u] = pc[u] /\ req'[u] = req[u] /\ idx'[u] = idx[u]
       /\ pin'[u] = pin[u]
  /\ bstatus' \in [Cells -> States]
  /\ \A c \in Cells : bstatus'[c] # bstatus[c] =>
                         bstatus[c] = "Clean" /\ bstatus'[c] = "Dirty"
  /\ \A f \in Files : Len(content'[f]) = Len(content[f])
  /\ pc'[t] # "idle" => Request(t)' /\ AtIndex(t)'
  /\ UNCHANGED <<ncells, basefile, block_index, blocklist, filesize, m_mutex,
                 ign, upVars>>

\* A step outside the mutexes keeps the invariant.
LEMMA AsideKept ==
  ASSUME IInv, NEW t \in Threads, Aside(t), TypeOK'
  PROVE  Kept'
<1> USE DEF IInv, Kept, upVars
<1>1. \A u \in Threads : Holding(u)' => u # t /\ Holding(u)
  BY DEF Aside, Holding
<1>2. \A u \in Threads \ {t} :
        /\ Holding(u)' = Holding(u) /\ File(u)' = File(u)
        /\ Growing(u)' = Growing(u)
  BY DEF Aside, Holding, File, Growing
<1>3. HasMutex'
  BY <1>1, <1>2 DEF HasMutex, Owner, Aside
<1>4. Calls'
  BY DEF Calls, Aside, Request, AtIndex, Holding
<1>5. Lengths'
  <2>1. \A u \in Threads : Holding(u) => File(u) \in Files
    BY DEF Calls, Request, Holding, File
  <2>2. \A f \in Files :
          /\ Len(content'[f]) = Len(content[f]) /\ filesize'[f] = filesize[f]
          /\ blocklist'[f] = blocklist[f] /\ Free(f)' = Free(f)
    BY DEF Aside, Free
  <2>3. \A u \in Threads :
          Holding(u)' =>
            /\ Holding(u) /\ File(u)' = File(u) /\ Growing(u)' = Growing(u)
            /\ idx'[u] = idx[u] /\ req'[u] = req[u]
    BY <1>1, <1>2 DEF Aside
  <2> QED
    BY <2>1, <2>2, <2>3 DEF Lengths, FileLengths, Sized
<1>6. Waiting'
  <2> SUFFICES ASSUME NEW u \in Threads, Holding(u)' \/ ign[u] # 0
               PROVE  /\ Holding(u)'
                      /\ ign'[u] # 0 => ign'[u] <= ncells'
                      /\ blocklist'[File(u)'][idx'[u]] = ign'[u]
                      /\ Growing(u)' =>
                           \A i \in idx'[u]..req'[u].hi :
                             blocklist'[File(u)'][i] = 0
                      /\ Copied(u)'
                      /\ pc'[u] = "assign" => pin'[u] # ign'[u]
    BY DEF Waiting, Waits, Aside
  <2>1. u # t /\ Holding(u)
    BY <1>1 DEF Waiting, Waits, Aside
  <2>2. Copied(u)'
    BY <2>1, <1>2 DEF Waiting, Waits, Aside, Copied, TypeOK
  <2> QED
    BY <2>1, <2>2, <1>2 DEF Waiting, Waits, Aside
<1>7. MapsBack'
  BY DEF MapsBack, Aside, InList, Live
<1>8. Unmade'
  BY DEF Unmade, Aside
<1>9. ReadyTaken'
  BY DEF ReadyTaken, Aside, Holding
<1>10. Snapped' /\ Uploads'
  BY DEF Snapped, Uploads, Aside
<1> QED
  BY <1>3, <1>4, <1>5, <1>6, <1>7, <1>8, <1>9, <1>10

\* What a step may do to the variables of t.
Own(t) ==
  /\ pc' \in [Threads -> Places]
  /\ DOMAIN req' = Threads
  /\ idx' \in [Threads -> 0..MaxBlocks]
  /\ pin' \in [Threads -> {0} \cup Cells]
  /\ \A u \in Threads \ {t} : /\ pc'[u] = pc[u] /\ req'[u] = req[u]
                              /\ idx'[u] = idx[u] /\ pin'[u] = pin[u]

LEMMA GotoOwn ==
  ASSUME IInv, NEW t \in Threads, NEW w \in Places, Goto(t, w)
  PROVE  pc' \in [Threads -> Places] /\ pc'[t] = w
         /\ \A u \in Threads \ {t} : pc'[u] = pc[u]
BY DEF IInv, Kept, TypeOK, Goto, Places

LEMMA ReturnOwn ==
  ASSUME IInv, NEW t \in Threads, Return(t)
  PROVE  Own(t) /\ pc'[t] = "idle"
<1>1. pc' \in [Threads -> Places] /\ pc'[t] = "idle"
      /\ \A u \in Threads \ {t} : pc'[u] = pc[u]
  BY GotoOwn DEF Return, Places
<1>2. /\ idx' \in [Threads -> 0..MaxBlocks]
      /\ pin' \in [Threads -> {0} \cup Cells]
  BY BlockStoreAssumption DEF IInv, Kept, TypeOK, Return
<1>3. DOMAIN req' = Threads
      /\ \A u \in Threads \ {t} :
           req'[u] = req[u] /\ idx'[u] = idx[u] /\ pin'[u] = pin[u]
  BY DEF IInv, Kept, TypeOK, Calls, Return
<1> QED
  BY <1>1, <1>2, <1>3 DEF Own

LEMMA ToBlockOwn ==
  ASSUME IInv, NEW t \in Threads, NEW i \in 0..MaxBlocks, ToBlock(t, i)
  PROVE  Own(t) /\ pc'[t] = "lock" /\ idx'[t] = i /\ req' = req
<1>1. pc' \in [Threads -> Places] /\ pc'[t] = "lock"
      /\ \A u \in Threads \ {t} : pc'[u] = pc[u]
  BY GotoOwn DEF ToBlock, Places
<1> QED
  BY <1>1 DEF IInv, Kept, TypeOK, Calls, ToBlock, Own

LEMMA RequestOf ==
  ASSUME IInv, NEW t \in Threads, pc[t] # "idle"
  PROVE  Request(t) /\ AtIndex(t)
BY DEF IInv, Kept, Calls

\* The types of what is not a thread's own.
Typed ==
  /\ ncells \in 0..Cardinality(Cells)
  /\ bstatus \in [Cells -> States]
  /\ basefile \in [Cells -> Files \cup {Nobody}]
  /\ block_index \in [Cells -> 0..MaxBlocks]
  /\ data \in [Cells -> Data]
  /\ blocklist \in [Files -> Seq({0} \cup Cells)]
  /\ filesize \in [Files -> 0..MaxBlocks]
  /\ fstatus \in [Files -> {"Clean", "Dirty", "Uploading"}]
  /\ m_mutex \in [Files -> Threads \cup {Nobody}]
  /\ ign \in [Threads -> {0} \cup Cells]
  /\ got \in [Threads -> Data]
  /\ ops \in 0..MaxOps
  /\ upload_queue \in Seq(Files)
  /\ upc \in {"idle", "send", "restore"}
  /\ item \in Files \cup {Nobody}
  /\ snap \in Seq({0} \cup Cells)
  /\ sent \in Seq(Data \cup {Nobody})
  /\ result \in {-1, 0, 1}
  /\ blob \in [Files -> Seq(Data)]
  /\ fails \in 0..MaxFails
  /\ content \in [Files -> Seq(Data)]
  /\ exposed \subseteq Files \X Index

LEMMA TypedNow == ASSUME IInv PROVE Typed
BY DEF IInv, Kept, TypeOK, Typed, States

\* TypeOK, from the types of t's variables and those of the others.
LEMMA TypedNext ==
  ASSUME IInv, NEW t \in Threads, Own(t), Typed',
         pc'[t] # "idle" => Request(t)'
  PROVE  TypeOK'
<1>1. \A u \in Threads :
        pc'[u] # "idle" => /\ req'[u].op \in {"read", "write", "trunc"}
                           /\ req'[u].f \in Files
                           /\ req'[u].hi \in 0..MaxBlocks
  BY DEF IInv, Kept, TypeOK, Own, Request
<1> QED
  BY <1>1 DEF TypeOK, Typed, Own, States, Places

\* get's caller copies a block out, and goes to the next one or returns.
LEMMA CopyOutKept ==
  ASSUME IInv, NEW t \in Threads, CopyOut(t)
  PROVE  Kept'
<1> USE DEF cacheVars, fileVars, upVars, history
<1>1. pc[t] = "copy" /\ req[t].op = "read" /\ Request(t) /\ AtIndex(t)
  BY RequestOf DEF CopyOut
<1>0. UNCHANGED <<cacheVars, fileVars, ign, got, ops, upload_queue, upVars,
                 history>>
  BY DEF CopyOut
<1>2. CASE idx[t] < req[t].hi
  <2>1. /\ ToBlock(t, idx[t] + 1) /\ idx[t] + 1 \in 1..req[t].hi
        /\ req[t].hi \in 0..MaxBlocks
    BY <1>1, <1>2, BlockStoreAssumption DEF CopyOut, Request, AtIndex
  <2>2. Own(t) /\ pc'[t] = "lock" /\ idx'[t] = idx[t] + 1 /\ req' = req
    BY <2>1, ToBlockOwn, BlockStoreAssumption
  <2>3. Request(t)' /\ AtIndex(t)'
    BY <1>1, <2>1, <2>2 DEF Request, AtIndex, Holding
  <2>4. Aside(t)
    BY <1>0, <1>1, <2>2, <2>3 DEF Aside, Own, Holding, IInv, Kept, TypeOK,
       States
  <2>5. TypeOK'
    BY <1>0, <2>2, <2>3, TypedNow, TypedNext DEF Typed
  <2> QED
    BY <2>4, <2>5, AsideKept
<1>3. CASE ~(idx[t] < req[t].hi)
  <2>2. Own(t) /\ pc'[t] = "idle"
    BY <1>3, ReturnOwn DEF CopyOut
  <2>4. Aside(t)
    BY <1>0, <1>1, <2>2 DEF Aside, Own, Holding, IInv, Kept, TypeOK, States
  <2>5. TypeOK'
    BY <1>0, <2>2, TypedNow, TypedNext DEF Typed
  <2> QED
    BY <2>4, <2>5, AsideKept
<1> QED
  BY <1>2, <1>3

\* A thread that only goes elsewhere.
LEMMA GotoKept ==
  ASSUME IInv, NEW t \in Threads, NEW w \in Places, Goto(t, w),
         ~Holding(t),
         w \notin {"alloc", "new", "scan", "assign", "lock", "copy"},
         pc[t] # "idle",
         UNCHANGED <<cacheVars, fileVars, req, idx, pin, ign, got, ops,
                    upload_queue, upVars, history>>
  PROVE  Kept'
<1> USE DEF cacheVars, fileVars, upVars, history
<1>1. Request(t)
  BY RequestOf
<1>2. Own(t) /\ pc'[t] = w
  BY GotoOwn DEF Own, IInv, Kept, TypeOK, Calls
<1>3. Request(t)' /\ AtIndex(t)' /\ ~Holding(t)'
  BY <1>1, <1>2 DEF Request, AtIndex, Holding
<1>4. Aside(t)
  BY <1>2, <1>3 DEF Aside, Own, IInv, Kept, TypeOK, States
<1>5. TypeOK'
  BY <1>2, <1>3, TypedNow, TypedNext DEF Typed
<1> QED
  BY <1>4, <1>5, AsideKept

\* blocklist.at throws, or the assertion of truncate fails.
LEMMA ThrowsKept ==
  ASSUME IInv, NEW t \in Threads, GetThrows(t) \/ ShrinkAsserts(t)
  PROVE  Kept'
<1>1. ~Holding(t) /\ pc[t] # "idle"
  BY DEF GetThrows, ShrinkAsserts, AtBlock, Holding
<1>2. CASE GetThrows(t)
  BY <1>1, <1>2, GotoKept DEF GetThrows, Places
<1>3. CASE ShrinkAsserts(t)
  BY <1>1, <1>3, GotoKept DEF ShrinkAsserts, Places
<1> QED
  BY <1>2, <1>3

\* A call is one that read_bytes, write_bytes or truncate may make.
Sound(r, where) ==
  /\ r.f \in Files /\ r.lo \in 0..MaxBlocks /\ r.hi \in 0..MaxBlocks
  /\ r.v \in Data
  /\ r.op # "trunc" => r.lo \in 1..r.hi
  /\ where \in IF r.op = "trunc" THEN {"resize"}
               ELSE IF r.op = "read" THEN {"lock"} ELSE {"resize", "lock"}

LEMMA CallKept ==
  ASSUME IInv, NEW t \in Threads, NEW r, NEW where, Call(t, where, r),
         Sound(r, where)
  PROVE  Kept'
<1> USE DEF cacheVars, fileVars, upVars, history
<1>1. Own(t) /\ req'[t] = r /\ idx'[t] = r.lo /\ pc'[t] = where
  <2>1. where \in Places
    BY DEF Sound, Places
  <2> QED
    <3>1. /\ pc' \in [Threads -> Places] /\ pc'[t] = where
          /\ \A u \in Threads \ {t} : pc'[u] = pc[u]
      BY <2>1, GotoOwn DEF Call
    <3>2. /\ req' = [req EXCEPT ![t] = r] /\ idx' = [idx EXCEPT ![t] = r.lo]
          /\ pin' = pin
      BY DEF Call
    <3>3. r.lo \in 0..MaxBlocks
      BY DEF Sound
    <3> QED
      BY <3>1, <3>2, <3>3 DEF Own, IInv, Kept, TypeOK, Calls
<1>2. Request(t)' /\ AtIndex(t)' /\ ~Holding(t)
  <2>1. r.op \in {"read", "write", "trunc"} /\ where \in {"resize", "lock"}
    BY BlockStoreAssumption DEF Call, Sound
  <2> QED
    BY <1>1, <2>1 DEF Request, AtIndex, Call, Sound, Holding
<1>3. Aside(t)
  BY <1>1, <1>2 DEF Aside, Own, IInv, Kept, TypeOK, States, Call, Sound,
     Holding
<1>4. TypeOK'
  <2>1. ops' \in 0..MaxOps
    <3>1. ops \in 0..MaxOps /\ ops < MaxOps /\ ops' = ops + 1
      BY DEF Call, IInv, Kept, TypeOK
    <3> QED
      BY <3>1, BlockStoreAssumption
  <2> QED
    BY <1>1, <1>2, <2>1, TypedNow, TypedNext DEF Typed, Call
<1> QED
  BY <1>3, <1>4, AsideKept

\* A call of read_bytes, write_bytes or truncate.
LEMMA BeginKept ==
  ASSUME IInv, NEW t \in Threads, Begin(t)
  PROVE  Kept'
<1>1. PICK f \in Files :
        \/ \E lo, hi \in Index : Read(t, f, lo, hi)
        \/ \E lo, hi \in Index, v \in Values : Write(t, f, lo, hi, v)
        \/ \E n \in 0..MaxBlocks : Truncate(t, f, n)
  BY DEF Begin
<1> USE BlockStoreAssumption DEF Index, Data, Sound
<1>2. ASSUME NEW lo \in Index, NEW hi \in Index, Read(t, f, lo, hi)
      PROVE  Kept'
  <2> DEFINE r == [op |-> "read", f |-> f, lo |-> lo, hi |-> hi, v |-> Fresh]
  <2>1. Call(t, "lock", r) /\ Sound(r, "lock")
    BY <1>2 DEF Read
  <2> QED
    BY <2>1, CallKept
<1>3. ASSUME NEW lo \in Index, NEW hi \in Index, NEW v \in Values,
             Write(t, f, lo, hi, v)
      PROVE  Kept'
  <2> DEFINE r == [op |-> "write", f |-> f, lo |-> lo, hi |-> hi, v |-> v]
             w == IF hi > filesize[f] THEN "resize" ELSE "lock"
  <2>1. Call(t, w, r) /\ Sound(r, w)
    BY <1>3 DEF Write
  <2> QED
    BY <2>1, CallKept
<1>4. ASSUME NEW n \in 0..MaxBlocks, Truncate(t, f, n)
      PROVE  Kept'
  <2> DEFINE r == [op |-> "trunc", f |-> f, lo |-> 0, hi |-> n, v |-> Fresh]
  <2>1. Call(t, "resize", r) /\ Sound(r, "resize")
    BY <1>4 DEF Truncate
  <2> QED
    BY <2>1, CallKept
<1> QED
  BY <1>1, <1>2, <1>3, <1>4

\* The end of write_bytes: the file is queued.
LEMMA EndWriteKept ==
  ASSUME IInv, NEW t \in Threads, EndWrite(t)
  PROVE  Kept'
<1> USE DEF cacheVars, upVars, history
<1>1. ~Holding(t) /\ Request(t)
  BY RequestOf DEF EndWrite, Holding
<1>2. Own(t) /\ pc'[t] = "idle"
  BY ReturnOwn DEF EndWrite
<1>3. Aside(t)
  BY <1>1, <1>2 DEF Aside, Own, IInv, Kept, TypeOK, States, EndWrite, Holding
<1>4. TypeOK'
  <2>1. File(t) \in Files
    BY <1>1 DEF Request, File
  <2>2. /\ upload_queue \in Seq(Files)
        /\ Append(upload_queue, File(t)) \in Seq(Files)
    BY <2>1, AppendProperties DEF IInv, Kept, TypeOK
  <2>3. upload_queue' \in Seq(Files)
    BY <2>2 DEF EndWrite, Touch
  <2>4. fstatus' \in [Files -> {"Clean", "Dirty", "Uploading"}]
    BY DEF EndWrite, Touch, IInv, Kept, TypeOK
  <2> QED
    BY <1>2, <2>3, <2>4, TypedNow, TypedNext DEF Typed, EndWrite
<1> QED
  BY <1>3, <1>4, AsideKept

\* What is in the list of a file.
LEMMA ListTyped ==
  ASSUME IInv, NEW f \in Files
  PROVE  /\ blocklist[f] \in Seq({0} \cup Cells)
         /\ Len(blocklist[f]) \in Nat
         /\ DOMAIN blocklist[f] = 1..Len(blocklist[f])
         /\ \A i \in 1..Len(blocklist[f]) : blocklist[f][i] \in {0} \cup Cells
<1>1. blocklist[f] \in Seq({0} \cup Cells)
  BY DEF IInv, Kept, TypeOK
<1> QED
  BY <1>1, LenProperties, ElementOfSeq

LEMMA MappedTyped ==
  ASSUME IInv, NEW t \in Threads, pc[t] = "lock", InRange(t)
  PROVE  /\ idx[t] \in 1..Len(blocklist[File(t)])
         /\ Mapped(t) \in {0} \cup Cells
<1>1. Request(t) /\ AtIndex(t)
  BY RequestOf
<1>2. File(t) \in Files /\ idx[t] \in 1..req[t].hi /\ req[t].hi \in Nat
  BY <1>1, BlockStoreAssumption DEF Request, AtIndex, File
<1>3. Len(blocklist[File(t)]) \in Nat
  BY <1>2, ListTyped
<1>4. idx[t] \in 1..Len(blocklist[File(t)])
  BY <1>2, <1>3 DEF InRange
<1> QED
  BY <1>2, <1>4, ListTyped DEF Mapped

\* get_blocks finds the block in the cache.
LEMMA GetCachedKept ==
  ASSUME IInv, NEW t \in Threads, GetCached(t)
  PROVE  Kept'
<1> USE DEF cacheVars, fileVars, upVars, history
<1>1. pc[t] = "lock" /\ Request(t) /\ AtIndex(t)
  BY RequestOf DEF GetCached, AtBlock
<1>2. Mapped(t) \in Cells
  BY <1>1, MappedTyped DEF GetCached
<1>3. Own(t) /\ pc'[t] = "copy" /\ idx' = idx /\ req' = req
  BY <1>2, GotoOwn DEF GetCached, Own, IInv, Kept, TypeOK, Calls, Places
<1>4. Request(t)' /\ AtIndex(t)'
  BY <1>1, <1>3 DEF Request, AtIndex, Holding
<1>5. /\ bstatus' \in [Cells -> States]
      /\ \A c \in Cells : bstatus'[c] # bstatus[c] =>
                            bstatus[c] = "Clean" /\ bstatus'[c] = "Dirty"
  BY <1>2 DEF GetCached, IInv, Kept, TypeOK, States
<1>6. Aside(t)
  BY <1>1, <1>3, <1>4, <1>5 DEF Aside, Own, GetCached, Holding
<1>7. TypeOK'
  BY <1>3, <1>4, <1>5, TypedNow, TypedNext DEF Typed, GetCached
<1> QED
  BY <1>6, <1>7, AsideKept

\* write_bytes copies into the cell.
LEMMA CopyInKept ==
  ASSUME IInv, NEW t \in Threads, CopyIn(t)
  PROVE  Kept'
<1> USE DEF cacheVars, fileVars, upVars
<1>1. pc[t] = "copy" /\ req[t].op = "write" /\ Request(t) /\ AtIndex(t)
  BY RequestOf DEF CopyIn
<1>2. File(t) \in Files /\ idx[t] \in Index /\ req[t].v \in Data
  BY <1>1, BlockStoreAssumption DEF Request, AtIndex, File, Index
<1>3. /\ Own(t) /\ pc'[t] \in {"lock", "touch"} /\ Request(t)' /\ AtIndex(t)'
  <2>1. CASE idx[t] < req[t].hi
    <3>1. ToBlock(t, idx[t] + 1) /\ idx[t] + 1 \in 1..req[t].hi
          /\ idx[t] + 1 \in 0..MaxBlocks
      BY <1>1, <2>1, BlockStoreAssumption DEF CopyIn, Request, AtIndex
    <3>2. Own(t) /\ pc'[t] = "lock" /\ idx'[t] = idx[t] + 1 /\ req' = req
      BY <3>1, ToBlockOwn
    <3> QED
      BY <1>1, <3>1, <3>2 DEF Request, AtIndex, Holding
  <2>2. CASE ~(idx[t] < req[t].hi)
    <3>1. /\ Goto(t, "touch") /\ pin' = [pin EXCEPT ![t] = 0]
          /\ UNCHANGED <<req, idx>>
      BY <2>2 DEF CopyIn
    <3>2. Own(t) /\ pc'[t] = "touch"
      BY <3>1, GotoOwn DEF Own, IInv, Kept, TypeOK, Calls, Places
    <3> QED
      BY <1>1, <3>1, <3>2 DEF Request, AtIndex, Holding
  <2> QED
    BY <2>1, <2>2
<1>4. /\ content' \in [Files -> Seq(Data)]
      /\ \A f \in Files : Len(content'[f]) = Len(content[f])
  <2> DEFINE s == content[File(t)]
             e == [i \in DOMAIN s |-> IF i = idx[t] THEN req[t].v ELSE s[i]]
  <2>1. s \in Seq(Data) /\ content \in [Files -> Seq(Data)]
    BY <1>2 DEF IInv, Kept, TypeOK
  <2>2. /\ Len(s) \in Nat /\ DOMAIN s = 1..Len(s)
        /\ \A i \in 1..Len(s) : s[i] \in Data
    BY <2>1, LenProperties, ElementOfSeq
  <2>3. e \in Seq(Data) /\ Len(e) = Len(s)
    BY <1>2, <2>2, SeqOfFunction
  <2>4. content' = [content EXCEPT ![File(t)] = e]
    BY DEF CopyIn
  <2> HIDE DEF s, e
  <2> QED
    BY <1>2, <2>1, <2>3, <2>4 DEF s
<1>5. exposed' \subseteq Files \X Index
  BY <1>2 DEF CopyIn, IInv, Kept, TypeOK
<1>6. data' \in [Cells -> Data]
  BY <1>2 DEF CopyIn, IInv, Kept, TypeOK
<1>7. Aside(t)
  BY <1>1, <1>3, <1>4 DEF Aside, Own, IInv, Kept, TypeOK, States, CopyIn,
     Holding
<1>8. TypeOK'
  BY <1>3, <1>4, <1>5, <1>6, TypedNow, TypedNext DEF Typed, CopyIn
<1> QED
  BY <1>7, <1>8, AsideKept

\* Two threads that hold an m_mutex are at different files.
LEMMA OtherFile ==
  ASSUME IInv, NEW t \in Threads, pc[t] # "idle",
         Holding(t) \/ Free(File(t)),
         NEW u \in Threads, u # t, Holding(u)
  PROVE  File(u) \in Files \ {File(t)} /\ File(t) \in Files
<1>1. File(t) \in Files /\ File(u) \in Files
  BY RequestOf DEF Request, File, Holding
<1>2. m_mutex[File(u)] = u /\ Nobody \notin Threads
  BY BlockStoreAssumption DEF IInv, Kept, HasMutex, Owner
<1>3. m_mutex[File(t)] \in {t, Nobody}
  BY DEF IInv, Kept, HasMutex, Owner, Free
<1> QED
  BY <1>1, <1>2, <1>3

\* A step of t leaves alone the files at which other threads are.
Others(t) ==
  /\ \A u \in Threads \ {t} : ign'[u] = ign[u]
  /\ \A u \in Threads \ {t} : Holding(u) =>
       /\ blocklist'[File(u)] = blocklist[File(u)]
       /\ filesize'[File(u)] = filesize[File(u)]
       /\ m_mutex'[File(u)] = m_mutex[File(u)]
       /\ content'[File(u)] = content[File(u)]
  /\ \A u \in Threads \ {t} : ign[u] # 0 /\ Holding(u) => Copied(u)'
  /\ ncells' \in Nat /\ ncells <= ncells'

\* A step of t that leaves the other threads alone keeps the invariant, if
\* what it says of t, of lists and of cells holds after it.
LEMMA StepKept ==
  ASSUME IInv, NEW t \in Threads, Own(t), Others(t), TypeOK',
         pc'[t] # "idle" => Request(t)' /\ AtIndex(t)',
         Owner(t)', Sized(t)', Waits(t)',
         FileLengths', MapsBack', Unmade', ReadyTaken', Snapped', Uploads'
  PROVE  Kept'
<1> USE DEF IInv, Kept
<1>1. ASSUME NEW u \in Threads, u # t
      PROVE  /\ Holding(u)' = Holding(u) /\ File(u)' = File(u)
             /\ pc'[u] = pc[u] /\ req'[u] = req[u] /\ idx'[u] = idx[u]
             /\ pin'[u] = pin[u] /\ ign'[u] = ign[u]
  BY <1>1 DEF Own, Others, Holding, File
<1>2. ASSUME NEW u \in Threads, u # t, Holding(u)
      PROVE  Growing(u)' = Growing(u)
  BY <1>1, <1>2 DEF Others, Growing, File
<1>3. HasMutex'
  BY <1>1 DEF HasMutex, Owner, Others
<1>4. Calls'
  <2>1. ASSUME NEW u \in Threads, pc'[u] # "idle"
        PROVE  Request(u)' /\ AtIndex(u)'
    <3>1. CASE u = t
      BY <2>1, <3>1
    <3>2. CASE u # t
      <4>1. Request(u) /\ AtIndex(u)
        BY <2>1, <3>2, <1>1, RequestOf
      <4> QED
        BY <4>1, <3>2, <1>1, <2>1 DEF Request, AtIndex, Holding, Others,
           NewBound
    <3> QED
      BY <3>1, <3>2
  <2> QED
    BY <2>1 DEF Calls, Own
<1>5. Lengths'
  <2>1. ASSUME NEW u \in Threads PROVE Sized(u)'
    <3>1. CASE u = t
      BY <3>1
    <3>2. CASE u # t
      BY <3>2, <1>1, <1>2 DEF Sized, Lengths, FileLengths, Others
    <3> QED
      BY <3>1, <3>2
  <2> QED
    BY <2>1 DEF Lengths, FileLengths, Sized
<1>6. Waiting'
  <2>1. ASSUME NEW u \in Threads PROVE Waits(u)'
    <3>1. CASE u = t
      BY <3>1
    <3>2. CASE u # t
      <4>1. Waits(u)
        BY DEF Waiting, Waits
      <4>2. Holding(u) => Copied(u)'
        BY <4>1, <3>2, <1>1 DEF Waits, Others, Copied
      <4>3. ign[u] # 0 => ign[u] <= ncells'
        <5>1. ign[u] \in {0} \cup Cells /\ ncells \in Nat
          BY DEF TypeOK, NewBound
        <5>2. ign[u] # 0 => ign[u] \in Nat /\ ign[u] <= ncells
          BY <4>1, <5>1, CellsFacts DEF Waits, Cells
        <5> QED
          BY <5>1, <5>2 DEF Others
      <4> QED
        BY <4>1, <4>2, <4>3, <3>2, <1>1, <1>2 DEF Waits, Others
    <3> QED
      BY <3>1, <3>2
  <2> QED
    BY <2>1 DEF Waiting, Waits
<1> QED
  BY <1>3, <1>4, <1>5, <1>6

\* get_free makes a cell, as is_full has said that there is room.
LEMMA PutNewItemKept ==
  ASSUME IInv, NEW t \in Threads, PutNewItem(t)
  PROVE  Kept'
<1> USE DEF cacheVars, fileVars, upVars, history
<1> DEFINE n == ncells + 1
<1>1. n \in Cells /\ n \in Nat /\ n \in 0..Cardinality(Cells) /\ ncells \in Nat
  <2>1. t \in News /\ ncells \in Nat
    BY DEF PutNewItem, News, IInv, NewBound
  <2>2. Cardinality(News) # 0
    BY <2>1, NewsFacts, FS_EmptySet
  <2> QED
    BY <2>1, <2>2, NewsFacts, CellsFacts DEF IInv, NewBound, Cells
<1>2. pc[t] = "new" /\ Holding(t) /\ Request(t) /\ AtIndex(t)
  BY RequestOf DEF PutNewItem, Holding
<1>3. Own(t) /\ pc'[t] = "assign" /\ pin'[t] = n /\ ncells' = n /\ Holding(t)'
  BY <1>1, GotoOwn DEF PutNewItem, Own, IInv, Kept, TypeOK, Calls, Places,
     Holding
<1>4. Request(t)' /\ AtIndex(t)'
  BY <1>1, <1>2, <1>3 DEF Request, AtIndex, Holding, PutNewItem
<1>5. TypeOK'
  BY <1>1, <1>3, <1>4, TypedNow, TypedNext DEF Typed, PutNewItem
<1>6. Others(t)
  BY <1>1 DEF Others, PutNewItem, IInv, Kept, Waiting, Waits, Copied, File
<1>7. Owner(t)' /\ Sized(t)'
  BY <1>2 DEF Owner, Sized, PutNewItem, IInv, Kept, HasMutex, Lengths,
     FileLengths, File, Growing
<1>8. Waits(t)'
  <2>1. ign[t] # 0 => ign[t] <= ncells
    BY DEF IInv, Kept, Waiting, Waits
  <2>2. ign[t] # n /\ (ign[t] # 0 => ign[t] <= n)
    <3>1. ign[t] = 0 \/ ign[t] \in Nat
      BY CellsFacts DEF IInv, Kept, TypeOK, Cells
    <3> QED
      BY <2>1, <3>1, <1>1
  <2> QED
    BY <1>2, <1>3, <2>2 DEF Waits, PutNewItem, IInv, Kept, Waiting, File,
       Growing, Copied
<1>9. FileLengths' /\ MapsBack' /\ Snapped' /\ Uploads'
  BY DEF FileLengths, MapsBack, InList, Snapped, Uploads, PutNewItem, IInv,
     Kept, Lengths, Sized, Free
<1>10. Unmade'
  BY <1>1, <1>3 DEF Unmade, PutNewItem, IInv, Kept, Cells
<1>11. ReadyTaken'
  BY <1>2, <1>3 DEF ReadyTaken, PutNewItem, IInv, Kept, Own
<1> QED
  BY <1>3, <1>4, <1>5, <1>6, <1>7, <1>8, <1>9, <1>10, <1>11, StepKept

LEMMA ThreadFacts ==
  ASSUME IInv
  PROVE  FileLengths /\ \A u \in Threads : Owner(u) /\ Sized(u) /\ Waits(u)
BY DEF IInv, Kept, HasMutex, Owner, Lengths, FileLengths, Sized, Waiting, Waits

\* get_blocks loads a block from the blob.
LEMMA BeginLoadKept ==
  ASSUME IInv, NEW t \in Threads, BeginLoad(t)
  PROVE  Kept'
<1> USE DEF cacheVars, upVars, history
<1>1. /\ pc[t] = "lock" /\ ~Holding(t) /\ Request(t) /\ AtIndex(t)
      /\ Free(File(t)) /\ File(t) \in Files
  BY RequestOf DEF BeginLoad, AtBlock, Holding, Request, File
<1>2. Own(t) /\ pc'[t] = "alloc" /\ Holding(t)' /\ req' = req /\ idx' = idx
  BY GotoOwn DEF BeginLoad, Own, IInv, Kept, TypeOK, Calls, Places, Holding
<1>3. Request(t)' /\ AtIndex(t)'
  BY <1>1, <1>2 DEF Request, AtIndex, Holding
<1>4. \A u \in Threads \ {t} : Holding(u) => File(u) \in Files \ {File(t)}
  BY <1>1, OtherFile
<1>5. /\ m_mutex' = [m_mutex EXCEPT ![File(t)] = t]
      /\ m_mutex' \in [Files -> Threads \cup {Nobody}]
  BY DEF BeginLoad, IInv, Kept, TypeOK
<1>6. got' \in [Threads -> Data]
  <2>1. ASSUME idx[t] <= Len(blob[File(t)])
        PROVE  blob[File(t)][idx[t]] \in Data
    <3>1. blob[File(t)] \in Seq(Data)
      BY <1>1 DEF IInv, Kept, TypeOK
    <3>2. idx[t] \in 1..Len(blob[File(t)])
      BY <1>1, <2>1, <3>1, LenProperties, BlockStoreAssumption DEF Request,
         AtIndex
    <3> QED
      BY <3>1, <3>2, ElementOfSeq
  <2> QED
    BY <2>1 DEF BeginLoad, IInv, Kept, TypeOK
<1>7. TypeOK'
  BY <1>2, <1>3, <1>5, <1>6, TypedNow, TypedNext DEF Typed, BeginLoad
<1>8. /\ idx[t] <= filesize[File(t)]
      /\ Len(blocklist[File(t)]) = filesize[File(t)]
      /\ blocklist[File(t)][idx[t]] = 0 /\ ign[t] = 0
  BY <1>1, ThreadFacts DEF BeginLoad, InRange, Mapped, FileLengths, Waits
<1>9. ~Growing(t)
  <2>1. filesize[File(t)] \in Nat /\ idx[t] \in Nat
    BY <1>1, BlockStoreAssumption DEF IInv, Kept, TypeOK
  <2> QED
    BY <1>8, <2>1 DEF Growing, File
<1>10. Others(t)
  BY <1>1, <1>4, <1>5, ThreadFacts DEF Others, BeginLoad, IInv, NewBound,
     Waits, Copied, File
<1>11. Owner(t)' /\ Sized(t)'
  BY <1>1, <1>2, <1>5, <1>8, <1>9 DEF Owner, Sized, AtIndex, BeginLoad, IInv,
     Kept, TypeOK, File, Growing
<1>12. Waits(t)'
  BY <1>1, <1>2, <1>8, <1>9 DEF Waits, BeginLoad, File, Growing, Copied
<1>13. FileLengths'
  <2>1. \A f \in Files : Free(f)' => Free(f)
    BY <1>1, <1>5, BlockStoreAssumption DEF Free, IInv, Kept, TypeOK
  <2> QED
    BY <2>1, ThreadFacts DEF FileLengths, BeginLoad
<1>14. MapsBack' /\ Snapped' /\ Uploads' /\ Unmade'
  BY DEF MapsBack, InList, Snapped, Uploads, Unmade, BeginLoad, IInv, Kept
<1>15. ReadyTaken'
  BY <1>1, <1>2 DEF ReadyTaken, BeginLoad, IInv, Kept, Own
<1> QED
  BY <1>2, <1>3, <1>7, <1>10, <1>11, <1>12, <1>13, <1>14, <1>15, StepKept

\* A write gives up a cell that is being uploaded and asks for another.
LEMMA BeginCopyOnWriteKept ==
  ASSUME IInv, NEW t \in Threads, BeginCopyOnWrite(t)
  PROVE  Kept'
<1> USE DEF cacheVars, upVars, history
<1> DEFINE c == Mapped(t)
<1>1. /\ pc[t] = "lock" /\ ~Holding(t) /\ Request(t) /\ AtIndex(t)
      /\ Free(File(t)) /\ File(t) \in Files /\ InRange(t)
  BY RequestOf DEF BeginCopyOnWrite, AtBlock, Holding, Request, File
<1>0. /\ c \in Cells /\ bstatus[c] = "Uploading"
      /\ bstatus' = [bstatus EXCEPT ![c] = "Up_Expired"]
      /\ c # 0 /\ StatusFree(c) /\ ign' = [ign EXCEPT ![t] = c]
  <2>1. c \in {0} \cup Cells
    BY <1>1, MappedTyped
  <2> QED
    BY <2>1, CellsFacts DEF BeginCopyOnWrite, Cells
<1>2. Own(t) /\ pc'[t] = "alloc" /\ Holding(t)' /\ req' = req /\ idx' = idx
  BY GotoOwn DEF BeginCopyOnWrite, Own, IInv, Kept, TypeOK, Calls, Places,
     Holding
<1>3. Request(t)' /\ AtIndex(t)'
  BY <1>1, <1>2 DEF Request, AtIndex, Holding
<1>4. \A u \in Threads \ {t} : Holding(u) => File(u) \in Files \ {File(t)}
  BY <1>1, OtherFile
<1>5. /\ m_mutex' = [m_mutex EXCEPT ![File(t)] = t]
      /\ m_mutex' \in [Files -> Threads \cup {Nobody}]
  BY DEF BeginCopyOnWrite, IInv, Kept, TypeOK
<1>6. bstatus' \in [Cells -> States] /\ ign' \in [Threads -> {0} \cup Cells]
      /\ bstatus'[c] = "Up_Expired" /\ ign'[t] = c
  BY <1>0 DEF IInv, Kept, TypeOK, States
<1>7. TypeOK'
  BY <1>2, <1>3, <1>5, <1>6, TypedNow, TypedNext DEF Typed, BeginCopyOnWrite
<1>8. /\ idx[t] <= filesize[File(t)]
      /\ Len(blocklist[File(t)]) = filesize[File(t)]
      /\ blocklist[File(t)][idx[t]] = c
  BY <1>1, ThreadFacts DEF InRange, Mapped, FileLengths
<1>9. ~Growing(t)
  <2>1. filesize[File(t)] \in Nat /\ idx[t] \in Nat
    BY <1>1, BlockStoreAssumption DEF IInv, Kept, TypeOK
  <2> QED
    BY <1>8, <2>1 DEF Growing, File
<1>10. Others(t)
  <2>1. ASSUME NEW u \in Threads \ {t}, ign[u] # 0, Holding(u)
        PROVE  Copied(u)'
    <3>1. ign[u] \in Cells /\ ign[u] # c /\ ign'[u] = ign[u] /\ Copied(u)
      BY <2>1, <1>0, ThreadFacts DEF Waits, StatusFree, IInv, Kept, TypeOK
    <3>2. bstatus'[ign[u]] = bstatus[ign[u]]
      BY <3>1, <1>0 DEF IInv, Kept, TypeOK
    <3> QED
      BY <3>1, <3>2, <1>2 DEF Copied, BeginCopyOnWrite, File
  <2>2. \A u \in Threads \ {t} : ign'[u] = ign[u]
    BY <1>0 DEF IInv, Kept, TypeOK
  <2> QED
    BY <1>1, <1>4, <1>5, <2>1, <2>2 DEF Others, BeginCopyOnWrite, IInv, Kept,
       TypeOK, NewBound
<1>11. Owner(t)' /\ Sized(t)'
  BY <1>1, <1>2, <1>5, <1>8, <1>9 DEF Owner, Sized, AtIndex, BeginCopyOnWrite,
     IInv, Kept, TypeOK, File, Growing
<1>12. Waits(t)'
  <2>1. c <= ncells
    BY <1>0, CellsFacts DEF IInv, Kept, Unmade, NewBound, Cells
  <2> QED
    BY <1>1, <1>2, <1>6, <1>8, <1>9, <2>1 DEF Waits, BeginCopyOnWrite, File,
       Growing, Copied
<1>13. FileLengths'
  <2>1. \A f \in Files : Free(f)' => Free(f)
    BY <1>1, <1>5, BlockStoreAssumption DEF Free, IInv, Kept, TypeOK
  <2> QED
    BY <2>1, ThreadFacts DEF FileLengths, BeginCopyOnWrite
<1>14. MapsBack' /\ Unmade'
  BY <1>0 DEF MapsBack, InList, Live, Unmade, BeginCopyOnWrite, IInv, Kept,
     TypeOK
<1>15. Snapped' /\ Uploads'
  BY <1>0 DEF Snapped, Uploads, BeginCopyOnWrite, IInv, Kept, TypeOK
<1>16. ReadyTaken'
  <2> SUFFICES ASSUME NEW d \in Cells, bstatus'[d] = "Ready"
               PROVE  \E u \in Threads : pc'[u] = "assign" /\ pin'[u] = d
    BY DEF ReadyTaken
  <2>1. bstatus[d] = "Ready"
    BY <1>0 DEF IInv, Kept, TypeOK
  <2>2. PICK u \in Threads : pc[u] = "assign" /\ pin[u] = d
    BY <2>1 DEF ReadyTaken, IInv, Kept
  <2> QED
    BY <2>2, <1>1, <1>2 DEF Own
<1> QED
  BY <1>2, <1>3, <1>7, <1>10, <1>11, <1>12, <1>13, <1>14, <1>15, <1>16,
     StepKept

\* What get_free_from_list does to the cell it takes.
LEMMA TakeFacts ==
  ASSUME IInv, NEW t \in Threads, NEW c \in Cells, Take(t, c),
         bstatus[c] \in {"Expired", "Clean"}
  PROVE  /\ pc[t] = "scan" /\ Holding(t) /\ Request(t) /\ AtIndex(t)
         /\ File(t) \in Files
         /\ Own(t) /\ pc'[t] = "assign" /\ pin'[t] = c /\ Holding(t)'
         /\ req' = req /\ idx' = idx
         /\ Request(t)' /\ AtIndex(t)'
         /\ bstatus' = [bstatus EXCEPT ![c] = "Ready"]
         /\ bstatus' \in [Cells -> States]
         /\ \A u \in Threads : ign[u] # c /\ (Copied(u) => Copied(u)')
         /\ Unmade' /\ ReadyTaken' /\ Snapped' /\ Uploads'
<1> USE DEF upVars, history
<1>1. /\ pc[t] = "scan" /\ Holding(t) /\ Request(t) /\ AtIndex(t)
      /\ File(t) \in Files
  BY RequestOf DEF Take, Holding, Request, File
<1>2. /\ Own(t) /\ pc'[t] = "assign" /\ pin'[t] = c /\ Holding(t)'
      /\ req' = req /\ idx' = idx
  BY GotoOwn DEF Take, Own, IInv, Kept, TypeOK, Calls, Places, Holding
<1>3. c \in 1..ncells
  BY CellsFacts DEF Take, IInv, NewBound, Cells
<1>4. Request(t)' /\ AtIndex(t)'
  BY <1>1, <1>2, <1>3 DEF Request, AtIndex, Holding, Take
<1>5. /\ bstatus' = [bstatus EXCEPT ![c] = "Ready"]
      /\ bstatus' \in [Cells -> States]
  BY DEF Take, IInv, Kept, TypeOK, States
<1>6. ASSUME NEW u \in Threads PROVE ign[u] # c /\ (Copied(u) => Copied(u)')
  BY <1>2, <1>5 DEF Take, StatusFree, Copied, File, IInv, Kept, TypeOK
<1>7. Unmade'
  BY <1>3, <1>5 DEF Unmade, Take, IInv, Kept, TypeOK, NewBound
<1>8. ReadyTaken'
  <2> SUFFICES ASSUME NEW d \in Cells, bstatus'[d] = "Ready"
               PROVE  \E u \in Threads : pc'[u] = "assign" /\ pin'[u] = d
    BY DEF ReadyTaken
  <2>1. CASE d = c
    BY <2>1, <1>2
  <2>2. CASE d # c
    <3>1. bstatus[d] = "Ready"
      BY <1>5, <2>2 DEF IInv, Kept, TypeOK
    <3>2. PICK u \in Threads : pc[u] = "assign" /\ pin[u] = d
      BY <3>1 DEF ReadyTaken, IInv, Kept
    <3> QED
      BY <3>2, <1>1, <1>2 DEF Own
  <2> QED
    BY <2>1, <2>2
<1>9. Snapped' /\ Uploads'
  BY <1>5 DEF Snapped, Uploads, Take, IInv, Kept, TypeOK
<1> QED
  BY <1>1, <1>2, <1>4, <1>5, <1>6, <1>7, <1>8, <1>9

\* get_free_from_list takes a cell that holds no block.
LEMMA TakeExpiredKept ==
  ASSUME IInv, NEW t \in Threads, NEW c \in Cells, TakeExpired(t, c)
  PROVE  Kept'
<1> USE DEF upVars, history
<1>0. /\ Take(t, c) /\ bstatus[c] \in {"Expired", "Clean"}
      /\ bstatus[c] = "Expired" /\ blocklist' = blocklist
  BY DEF TakeExpired
<1>1. /\ pc[t] = "scan" /\ Holding(t) /\ Own(t) /\ pc'[t] = "assign"
      /\ pin'[t] = c /\ Holding(t)'
      /\ req' = req /\ idx' = idx /\ Request(t)' /\ AtIndex(t)'
      /\ bstatus' = [bstatus EXCEPT ![c] = "Ready"]
      /\ bstatus' \in [Cells -> States]
      /\ \A u \in Threads : ign[u] # c /\ (Copied(u) => Copied(u)')
      /\ Unmade' /\ ReadyTaken' /\ Snapped' /\ Uploads'
  BY <1>0, TakeFacts
<1>2. TypeOK'
  BY <1>0, <1>1, TypedNow, TypedNext DEF Typed, Take
<1>3. Others(t)
  BY <1>0, <1>1, ThreadFacts DEF Others, Take, Waits, IInv, NewBound
<1>4. Owner(t)' /\ Sized(t)' /\ Waits(t)'
  BY <1>0, <1>1, ThreadFacts DEF Owner, Sized, Waits, Take, File, Growing
<1>5. FileLengths'
  BY <1>0, ThreadFacts DEF FileLengths, Take, Free
<1>6. MapsBack'
  BY <1>0, <1>1 DEF MapsBack, InList, Live, Take, IInv, Kept, TypeOK
<1> QED
  BY <1>1, <1>2, <1>3, <1>4, <1>5, <1>6, StepKept

\* get_free_from_list takes a Clean cell: gc_notify empties its place, in the
\* list of a file whose mutex nobody holds.
LEMMA EvictKept ==
  ASSUME IInv, NEW t \in Threads, NEW c \in Cells, Evict(t, c)
  PROVE  Kept'
<1> USE DEF upVars, history
<1>0. Take(t, c) /\ bstatus[c] \in {"Expired", "Clean"} /\ bstatus[c] = "Clean"
  BY DEF Evict, Evictable
<1>1. /\ pc[t] = "scan" /\ Holding(t) /\ Own(t) /\ pc'[t] = "assign"
      /\ pin'[t] = c /\ Holding(t)'
      /\ req' = req /\ idx' = idx /\ Request(t)' /\ AtIndex(t)'
      /\ File(t) \in Files
      /\ bstatus' = [bstatus EXCEPT ![c] = "Ready"]
      /\ bstatus' \in [Cells -> States]
      /\ \A u \in Threads : ign[u] # c /\ (Copied(u) => Copied(u)')
      /\ Unmade' /\ ReadyTaken' /\ Snapped' /\ Uploads'
  BY <1>0, TakeFacts
<1>2. PICK f \in Files, i \in 1..Len(blocklist[basefile[c]]) :
        f = basefile[c] /\ i = block_index[c] /\ blocklist[f][i] = c /\ Free(f)
  BY <1>0 DEF Evict, IInv, Kept, MapsBack, InList, Live
<1>3. blocklist' = [blocklist EXCEPT ![f][i] = 0]
  BY <1>2 DEF Evict
<1>4. /\ blocklist' \in [Files -> Seq({0} \cup Cells)]
      /\ \A g \in Files : Len(blocklist'[g]) = Len(blocklist[g])
      /\ \A g \in Files \ {f} : blocklist'[g] = blocklist[g]
      /\ \A j \in 1..Len(blocklist[f]) :
           blocklist'[f][j] = IF j = i THEN 0 ELSE blocklist[f][j]
  <2> DEFINE e == [blocklist[f] EXCEPT ![i] = 0]
  <2>1. /\ blocklist[f] \in Seq({0} \cup Cells)
        /\ blocklist \in [Files -> Seq({0} \cup Cells)]
    BY DEF IInv, Kept, TypeOK
  <2>2. /\ e \in Seq({0} \cup Cells) /\ Len(e) = Len(blocklist[f])
        /\ \A j \in 1..Len(blocklist[f]) :
             e[j] = IF j = i THEN 0 ELSE blocklist[f][j]
    BY <2>1, <1>2, ExceptSeq
  <2>3. blocklist' = [blocklist EXCEPT ![f] = e]
    BY <1>3
  <2> HIDE DEF e
  <2> QED
    BY <2>1, <2>2, <2>3
<1>5. \A u \in Threads : Holding(u) => File(u) \in Files \ {f}
  <2> SUFFICES ASSUME NEW u \in Threads, Holding(u)
               PROVE  File(u) \in Files \ {f}
    OBVIOUS
  <2>1. File(u) \in Files
    BY RequestOf DEF Request, File, Holding
  <2>2. m_mutex[File(u)] = u
    BY DEF IInv, Kept, HasMutex, Owner
  <2> QED
    BY <2>1, <2>2, <1>2, BlockStoreAssumption DEF Free
<1>6. TypeOK'
  BY <1>0, <1>1, <1>4, TypedNow, TypedNext DEF Typed, Take
<1>7. Others(t)
  BY <1>0, <1>1, <1>4, <1>5, ThreadFacts DEF Others, Take, Waits, IInv,
     NewBound
<1>8. Owner(t)' /\ Sized(t)' /\ Waits(t)'
  <2>1. blocklist'[File(t)] = blocklist[File(t)]
    BY <1>1, <1>4, <1>5
  <2> QED
    BY <2>1, <1>0, <1>1, ThreadFacts DEF Owner, Sized, Waits, Take, File,
       Growing
<1>9. FileLengths'
  BY <1>0, <1>4, ThreadFacts DEF FileLengths, Take, Free
<1>10. MapsBack'
  <2> SUFFICES ASSUME NEW d \in Cells, bstatus'[d] \in Live
               PROVE  InList(d)'
    BY DEF MapsBack
  <2>1. d # c /\ bstatus[d] \in Live
    BY <1>1 DEF Live, IInv, Kept, TypeOK
  <2>2. InList(d)
    BY <2>1 DEF IInv, Kept, MapsBack
  <2> QED
    BY <2>1, <2>2, <1>0, <1>2, <1>4 DEF InList, Take
<1> QED
  BY <1>1, <1>6, <1>7, <1>8, <1>9, <1>10, StepKept

\* A cell becomes block idx of the file of its thread, which holds its mutex.
Assigned(t) ==
  /\ pc[t] = "assign"
  /\ basefile' = [basefile EXCEPT ![pin[t]] = File(t)]
  /\ block_index' = [block_index EXCEPT ![pin[t]] = idx[t]]
  /\ \E s \in {"Clean", "Dirty"} : bstatus' = [bstatus EXCEPT ![pin[t]] = s]
  /\ blocklist' = [blocklist EXCEPT ![File(t)][idx[t]] = pin[t]]
  /\ UNCHANGED <<ncells, upVars>>
  /\ \A u \in Threads \ {t} : ign'[u] = ign[u]
  /\ pc'[t] # "assign"

\* The cell that had the place has been given up, or is another file's.
LEMMA AssignedFacts ==
  ASSUME IInv, NEW t \in Threads, Assigned(t), Own(t)
  PROVE  /\ Holding(t) /\ Request(t) /\ File(t) \in Files
         /\ idx[t] \in 1..Len(blocklist[File(t)])
         /\ Len(blocklist[File(t)]) \in Nat
         /\ basefile' \in [Cells -> Files \cup {Nobody}]
         /\ block_index' \in [Cells -> 0..MaxBlocks]
         /\ bstatus' \in [Cells -> States]
         /\ blocklist' \in [Files -> Seq({0} \cup Cells)]
         /\ \A g \in Files : Len(blocklist'[g]) = Len(blocklist[g])
         /\ \A g \in Files \ {File(t)} : blocklist'[g] = blocklist[g]
         /\ \A j \in 1..Len(blocklist[File(t)]) :
              blocklist'[File(t)][j] = IF j = idx[t] THEN pin[t]
                                       ELSE blocklist[File(t)][j]
         /\ \A u \in Threads \ {t} :
              Holding(u) => File(u) \in Files \ {File(t)}
         /\ \A u \in Threads \ {t} : ign[u] # 0 /\ Holding(u) => Copied(u)'
         /\ MapsBack' /\ Unmade' /\ ReadyTaken' /\ Snapped' /\ Uploads'
<1> USE DEF upVars
<1> DEFINE f == File(t)
           c == pin[t]
           i == idx[t]
<1>1. Holding(t) /\ Request(t) /\ f \in Files /\ AtIndex(t)
  BY RequestOf DEF Assigned, Holding, Request, File
<1>2. c \in 1..ncells /\ c \in Cells
  <2>1. c \in 1..ncells
    BY <1>1 DEF AtIndex, Assigned
  <2> QED
    BY <2>1, CellsFacts DEF IInv, Kept, TypeOK, Cells
<1>3. i \in 1..req[t].hi /\ req[t].hi \in 0..MaxBlocks /\ i \in 0..MaxBlocks
  BY <1>1, BlockStoreAssumption DEF AtIndex, Request
<1>4. Len(blocklist[f]) \in Nat
  BY <1>1, ListTyped
<1>5. i \in 1..Len(blocklist[f])
  <2>1. CASE Growing(t)
    BY <2>1, <1>1, <1>3, ThreadFacts DEF Sized
  <2>2. CASE ~Growing(t)
    <3>1. Len(blocklist[f]) = filesize[f]
      BY <2>2, <1>1, ThreadFacts DEF Sized
    <3> QED
      BY <3>1, <2>2, <1>1, <1>3, <1>4, BlockStoreAssumption DEF Growing, File
  <2> QED
    BY <2>1, <2>2
<1>6. /\ basefile' \in [Cells -> Files \cup {Nobody}]
      /\ block_index' \in [Cells -> 0..MaxBlocks]
      /\ bstatus' \in [Cells -> States]
      /\ bstatus'[c] \in {"Clean", "Dirty"}
      /\ \A d \in Cells \ {c} : bstatus'[d] = bstatus[d]
  BY <1>2, <1>1, <1>3 DEF Assigned, IInv, Kept, TypeOK, States
<1>7. /\ blocklist' \in [Files -> Seq({0} \cup Cells)]
      /\ \A g \in Files : Len(blocklist'[g]) = Len(blocklist[g])
      /\ \A g \in Files \ {f} : blocklist'[g] = blocklist[g]
      /\ \A j \in 1..Len(blocklist[f]) :
           blocklist'[f][j] = IF j = i THEN c ELSE blocklist[f][j]
  <2> DEFINE e == [blocklist[f] EXCEPT ![i] = c]
  <2>1. /\ blocklist[f] \in Seq({0} \cup Cells)
        /\ blocklist \in [Files -> Seq({0} \cup Cells)]
    BY <1>1 DEF IInv, Kept, TypeOK
  <2>2. /\ e \in Seq({0} \cup Cells) /\ Len(e) = Len(blocklist[f])
        /\ \A j \in 1..Len(blocklist[f]) :
             e[j] = IF j = i THEN c ELSE blocklist[f][j]
    BY <2>1, <1>2, <1>5, ExceptSeq
  <2>3. blocklist' = [blocklist EXCEPT ![f] = e]
    BY DEF Assigned
  <2> HIDE DEF e, f, i, c
  <2> QED
    BY <2>1, <2>2, <2>3, <1>1
<1>8. \A u \in Threads \ {t} : Holding(u) => File(u) \in Files \ {f}
  BY <1>1, OtherFile DEF Assigned
<1>9. ASSUME NEW u \in Threads \ {t}, ign[u] # 0, Holding(u)
      PROVE  Copied(u)'
  <2>1. ign[u] \in Cells /\ Copied(u) /\ File(u)' = File(u) /\ ign'[u] = ign[u]
    BY <1>9, ThreadFacts DEF Waits, IInv, Kept, TypeOK, Own, File, Assigned
  <2>2. CASE ign[u] = c
    BY <2>1, <2>2, <1>2, <1>8, <1>9 DEF Copied, Assigned, IInv, Kept, TypeOK
  <2>3. CASE ign[u] # c
    BY <2>1, <2>3, <1>2, <1>9 DEF Copied, Assigned, IInv, Kept, TypeOK
  <2> QED
    BY <2>2, <2>3
<1>10. MapsBack'
  <2> SUFFICES ASSUME NEW d \in Cells, bstatus'[d] \in Live
               PROVE  InList(d)'
    BY DEF MapsBack
  <2>1. CASE d = c
    BY <2>1, <1>1, <1>2, <1>5, <1>7 DEF InList, Assigned, IInv, Kept, TypeOK
  <2>2. CASE d # c
    <3>1. /\ bstatus[d] \in Live /\ basefile'[d] = basefile[d]
          /\ block_index'[d] = block_index[d]
      BY <2>2 DEF Assigned, IInv, Kept, TypeOK
    <3>2. InList(d)
      BY <3>1 DEF IInv, Kept, MapsBack
    <3>3. ~(basefile[d] = f /\ block_index[d] = i)
      <4>1. blocklist[f][i] = ign[t] /\ Copied(t)
        BY <1>1, ThreadFacts DEF Waits
      <4>2. d # 0
        BY CellsFacts DEF Cells
      <4> QED
        BY <4>1, <4>2, <3>1, <3>2 DEF InList, Copied, Live
    <3> QED
      BY <3>1, <3>2, <3>3, <1>7 DEF InList
  <2> QED
    BY <2>1, <2>2
<1>11. Unmade'
  BY <1>2 DEF Unmade, Assigned, IInv, Kept, TypeOK, NewBound
<1>12. ReadyTaken'
  <2> SUFFICES ASSUME NEW d \in Cells, bstatus'[d] = "Ready"
               PROVE  \E u \in Threads : pc'[u] = "assign" /\ pin'[u] = d
    BY DEF ReadyTaken
  <2>1. d # c /\ bstatus[d] = "Ready"
    BY <1>2 DEF Assigned, IInv, Kept, TypeOK
  <2>2. PICK u \in Threads : pc[u] = "assign" /\ pin[u] = d
    BY <2>1 DEF ReadyTaken, IInv, Kept
  <2> QED
    BY <2>1, <2>2 DEF Own
<1>13. Snapped' /\ Uploads'
  BY <1>2 DEF Snapped, Uploads, Assigned, IInv, Kept, TypeOK
<1> QED
  BY <1>1, <1>4, <1>5, <1>6, <1>7, <1>8, <1>9, <1>10, <1>11, <1>12, <1>13

\* The cell is the block that was loaded or copied.
LEMMA AssignBlockKept ==
  ASSUME IInv, NEW t \in Threads, AssignBlock(t)
  PROVE  Kept'
<1> USE DEF upVars, history
<1> DEFINE f == File(t)
           c == pin[t]
           i == idx[t]
<1>1. /\ pc[t] = "assign" /\ ~Growing(t) /\ Request(t) /\ AtIndex(t)
      /\ Holding(t) /\ f \in Files
  BY RequestOf DEF AssignBlock, Holding, Request, File
<1>2. Own(t) /\ pc'[t] = "copy" /\ req' = req /\ idx' = idx
  BY GotoOwn DEF AssignBlock, Own, IInv, Kept, TypeOK, Calls, Places
<1>3. /\ ign' = [ign EXCEPT ![t] = 0] /\ ign' \in [Threads -> {0} \cup Cells]
      /\ ign'[t] = 0
  BY DEF AssignBlock, IInv, Kept, TypeOK
<1>4. Assigned(t)
  BY <1>1, <1>2, <1>3 DEF AssignBlock, Assigned, NotedIndex, File, IInv, Kept,
     TypeOK
<1>5. /\ i \in 1..Len(blocklist[f]) /\ Len(blocklist[f]) \in Nat
      /\ basefile' \in [Cells -> Files \cup {Nobody}]
      /\ block_index' \in [Cells -> 0..MaxBlocks]
      /\ bstatus' \in [Cells -> States]
      /\ blocklist' \in [Files -> Seq({0} \cup Cells)]
      /\ \A g \in Files : Len(blocklist'[g]) = Len(blocklist[g])
      /\ \A g \in Files \ {f} : blocklist'[g] = blocklist[g]
      /\ \A u \in Threads \ {t} : Holding(u) => File(u) \in Files \ {f}
      /\ \A u \in Threads \ {t} : ign[u] # 0 /\ Holding(u) => Copied(u)'
      /\ MapsBack' /\ Unmade' /\ ReadyTaken' /\ Snapped' /\ Uploads'
  BY <1>2, <1>4, AssignedFacts
<1>6. /\ m_mutex' = [m_mutex EXCEPT ![f] = Nobody]
      /\ m_mutex' \in [Files -> Threads \cup {Nobody}]
  BY DEF AssignBlock, IInv, Kept, TypeOK
<1>7. data' \in [Cells -> Data] /\ got' \in [Threads -> Data]
  <2>1. c \in Cells /\ ign[t] \in {0} \cup Cells /\ Fresh \in Data
    BY <1>1, CellsFacts DEF IInv, Kept, TypeOK, AtIndex, Data, Cells
  <2> QED
    BY <2>1 DEF AssignBlock, IInv, Kept, TypeOK
<1>8. Request(t)' /\ AtIndex(t)' /\ ~Holding(t)'
  BY <1>1, <1>2, ThreadFacts DEF Request, AtIndex, Holding, Sized
<1>9. TypeOK'
  BY <1>2, <1>3, <1>5, <1>6, <1>7, <1>8, TypedNow, TypedNext DEF Typed,
     AssignBlock
<1>10. Others(t)
  <2>1. \A u \in Threads \ {t} : ign'[u] = ign[u]
    BY <1>3 DEF IInv, Kept, TypeOK
  <2>2. \A g \in Files \ {f} : m_mutex'[g] = m_mutex[g]
    BY <1>6 DEF IInv, Kept, TypeOK
  <2>3. UNCHANGED <<ncells, filesize, content>>
    BY DEF AssignBlock
  <2> HIDE DEF f
  <2> QED
    BY <1>5, <2>1, <2>2, <2>3 DEF Others, IInv, NewBound
<1>11. Owner(t)' /\ Sized(t)' /\ Waits(t)'
  BY <1>3, <1>8 DEF Owner, Sized, Waits
<1>12. FileLengths'
  <2>1. Len(blocklist[f]) = filesize[f]
    BY <1>1, ThreadFacts DEF Sized
  <2>2. \A g \in Files \ {f} : m_mutex'[g] = m_mutex[g]
    BY <1>6 DEF IInv, Kept, TypeOK
  <2> QED
    BY <2>1, <2>2, <1>5, ThreadFacts DEF FileLengths, AssignBlock, Free
<1> QED
  BY <1>2, <1>5, <1>8, <1>9, <1>10, <1>11, <1>12, StepKept

\* The cell is the next of the blocks that make the file longer.
LEMMA AssignGrownKept ==
  ASSUME IInv, NEW t \in Threads, AssignGrown(t)
  PROVE  Kept'
<1> USE DEF upVars
<1> DEFINE f == File(t)
           c == pin[t]
           i == idx[t]
<1>1. /\ pc[t] = "assign" /\ Growing(t) /\ Request(t) /\ AtIndex(t)
      /\ Holding(t)
      /\ f \in Files /\ c \in Cells /\ i \in 1..req[t].hi
      /\ req[t].hi \in 0..MaxBlocks
      /\ i \in Nat /\ i \in 0..MaxBlocks
  <2>1. /\ pc[t] = "assign" /\ Growing(t) /\ Request(t) /\ AtIndex(t)
        /\ Holding(t) /\ f \in Files
    BY RequestOf DEF AssignGrown, Holding, Request, File
  <2>2. c \in Cells
    BY <2>1, CellsFacts DEF IInv, Kept, TypeOK, AtIndex, Cells
  <2> QED
    BY <2>1, <2>2, BlockStoreAssumption DEF AtIndex, Request
<1>2. \/ /\ i < req[t].hi
         /\ idx' = [idx EXCEPT ![t] = i + 1]
         /\ pin' = [pin EXCEPT ![t] = 0]
         /\ Goto(t, "alloc")
         /\ UNCHANGED <<filesize, fstatus, m_mutex, req, upload_queue>>
      \/ /\ i = req[t].hi
         /\ filesize' = [filesize EXCEPT ![f] = i]
         /\ m_mutex' = [m_mutex EXCEPT ![f] = Nobody]
         /\ Touch(f)
         /\ AfterResize(t)
  BY DEF AssignGrown, File
<1>3. /\ ign' = ign /\ ncells' = ncells
      /\ UNCHANGED <<ncells, data, ign, got, ops, upVars, exposed>>
      /\ content' = [content EXCEPT ![f] = Append(content[f], data[c])]
  BY DEF AssignGrown, File
<1>4. ASSUME Own(t), pc'[t] # "assign"
      PROVE  Assigned(t)
  <2>1. bstatus' = [bstatus EXCEPT ![c] = "Dirty"]
    BY DEF AssignGrown
  <2> QED
    BY <1>1, <1>3, <1>4, <2>1 DEF AssignGrown, Assigned, File
<1>5. /\ content' \in [Files -> Seq(Data)]
      /\ Len(content[f]) \in Nat /\ Len(content'[f]) = Len(content[f]) + 1
      /\ \A g \in Files \ {f} : content'[g] = content[g]
  <2> DEFINE e == Append(content[f], data[c])
  <2>1. /\ content[f] \in Seq(Data) /\ data[c] \in Data
        /\ content \in [Files -> Seq(Data)]
    BY <1>1 DEF IInv, Kept, TypeOK
  <2>2. /\ e \in Seq(Data) /\ Len(e) = Len(content[f]) + 1
        /\ Len(content[f]) \in Nat
    BY <2>1, AppendProperties, LenProperties
  <2> HIDE DEF e
  <2>3. content' = [content EXCEPT ![f] = e]
    BY <1>3 DEF e
  <2> QED
    BY <1>1, <2>1, <2>2, <2>3
<1>6. /\ Len(blocklist[f]) = req[t].hi /\ i - 1 <= Len(content[f])
      /\ blocklist[f][i] = ign[t]
      /\ \A j \in i..req[t].hi : blocklist[f][j] = 0
      /\ ign[t] = 0
      /\ i > filesize[f] /\ filesize[f] \in Nat
      /\ filesize[f] <= Len(content[f])
  <2>1. filesize[f] \in Nat
    BY <1>1, BlockStoreAssumption DEF IInv, Kept, TypeOK
  <2> QED
    BY <2>1, <1>1, ThreadFacts DEF Sized, Waits, FileLengths, Growing, File
<1> HIDE DEF f, i, c
<1>7. CASE i < req[t].hi
  <2>1. /\ idx' = [idx EXCEPT ![t] = i + 1]
        /\ pin' = [pin EXCEPT ![t] = 0]
        /\ Goto(t, "alloc")
        /\ UNCHANGED <<filesize, fstatus, m_mutex, req, upload_queue>>
    BY <1>1, <1>2, <1>7
  <2>2. i + 1 \in 1..req[t].hi /\ i + 1 \in 0..MaxBlocks
    BY <1>1, <1>7, BlockStoreAssumption
  <2>3. /\ Own(t) /\ pc'[t] = "alloc" /\ req' = req /\ idx'[t] = i + 1
        /\ Holding(t)'
    BY <2>1, <2>2, GotoOwn DEF Own, IInv, Kept, TypeOK, Calls, Places, Holding
  <2>4. /\ basefile' \in [Cells -> Files \cup {Nobody}]
        /\ block_index' \in [Cells -> 0..MaxBlocks]
        /\ bstatus' \in [Cells -> States]
        /\ blocklist' \in [Files -> Seq({0} \cup Cells)]
        /\ \A g \in Files : Len(blocklist'[g]) = Len(blocklist[g])
        /\ \A g \in Files \ {f} : blocklist'[g] = blocklist[g]
        /\ \A j \in 1..Len(blocklist[f]) :
             blocklist'[f][j] = IF j = i THEN c ELSE blocklist[f][j]
        /\ \A u \in Threads \ {t} : Holding(u) => File(u) \in Files \ {f}
        /\ \A u \in Threads \ {t} : ign[u] # 0 /\ Holding(u) => Copied(u)'
        /\ MapsBack' /\ Unmade' /\ ReadyTaken' /\ Snapped' /\ Uploads'
    BY <1>4, <2>3, AssignedFacts DEF f, i, c
  <2>5. Request(t)' /\ AtIndex(t)'
    BY <1>1, <2>2, <2>3 DEF Request, AtIndex, Holding
  <2>6. TypeOK'
    BY <1>3, <1>5, <2>1, <2>3, <2>4, <2>5, TypedNow, TypedNext DEF Typed
  <2>7. Others(t)
    BY <1>3, <1>5, <2>1, <2>4 DEF Others, IInv, NewBound
  <2>8. Growing(t)' /\ File(t)' = f
    <3>1. filesize'[f] < i + 1
      BY <1>1, <1>6, <2>1
    <3> QED
      BY <1>6, <3>1, <1>1, <2>1, <2>3 DEF Growing, File, f
  <2>9. Owner(t)' /\ Sized(t)'
    BY <1>1, <1>3, <1>5, <1>6, <2>1, <2>3, <2>4, <2>8, ThreadFacts DEF Owner,
       Sized, f
  <2>10. Waits(t)'
    <3>1. \A j \in i+1..req[t].hi : blocklist'[f][j] = 0
      <4> SUFFICES ASSUME NEW j \in i+1..req[t].hi PROVE blocklist'[f][j] = 0
        OBVIOUS
      <4>1. j \in i..req[t].hi /\ j \in 1..req[t].hi /\ j # i
        BY <1>1, BlockStoreAssumption
      <4> QED
        BY <4>1, <1>6, <2>4
    <3> QED
      BY <3>1, <1>3, <1>6, <2>2, <2>3, <2>8 DEF Waits, Copied
  <2>11. FileLengths'
    <3>1. filesize[f] <= Len(content'[f])
      BY <1>5, <1>6
    <3> QED
      BY <1>1, <1>5, <2>1, <2>4, <3>1, ThreadFacts DEF FileLengths, Free
  <2> QED
    BY <2>3, <2>4, <2>5, <2>6, <2>7, <2>9, <2>10, <2>11, StepKept
<1>8. CASE i = req[t].hi
  <2>1. /\ filesize' = [filesize EXCEPT ![f] = i]
        /\ m_mutex' = [m_mutex EXCEPT ![f] = Nobody]
        /\ Touch(f)
        /\ AfterResize(t)
    BY <1>1, <1>2, <1>8
  <2>2. /\ Own(t) /\ pc'[t] \in {"lock", "idle"} /\ ~Holding(t)'
        /\ pc'[t] # "idle" => Request(t)' /\ AtIndex(t)'
    <3>1. CASE req[t].op = "write"
      <4>1. /\ ToBlock(t, req[t].lo) /\ req[t].lo \in 1..req[t].hi
            /\ req[t].lo \in 0..MaxBlocks
        BY <1>1, <2>1, <3>1, BlockStoreAssumption DEF AfterResize, Request
      <4>2. Own(t) /\ pc'[t] = "lock" /\ idx'[t] = req[t].lo /\ req' = req
        BY <4>1, ToBlockOwn
      <4> QED
        BY <1>1, <3>1, <4>1, <4>2 DEF Request, AtIndex, Holding
    <3>2. CASE req[t].op # "write"
      BY <2>1, <3>2, ReturnOwn DEF AfterResize, Holding
    <3> QED
      BY <3>1, <3>2
  <2>4. /\ basefile' \in [Cells -> Files \cup {Nobody}]
        /\ block_index' \in [Cells -> 0..MaxBlocks]
        /\ bstatus' \in [Cells -> States]
        /\ blocklist' \in [Files -> Seq({0} \cup Cells)]
        /\ \A g \in Files : Len(blocklist'[g]) = Len(blocklist[g])
        /\ \A g \in Files \ {f} : blocklist'[g] = blocklist[g]
        /\ \A u \in Threads \ {t} : Holding(u) => File(u) \in Files \ {f}
        /\ \A u \in Threads \ {t} : ign[u] # 0 /\ Holding(u) => Copied(u)'
        /\ MapsBack' /\ Unmade' /\ ReadyTaken' /\ Snapped' /\ Uploads'
    BY <1>4, <2>2, AssignedFacts DEF f
  <2>5. /\ filesize' \in [Files -> 0..MaxBlocks] /\ filesize'[f] = i
        /\ \A g \in Files \ {f} :
             filesize'[g] = filesize[g] /\ m_mutex'[g] = m_mutex[g]
        /\ m_mutex' \in [Files -> Threads \cup {Nobody}]
    BY <1>1, <2>1 DEF IInv, Kept, TypeOK
  <2>6. /\ fstatus' \in [Files -> {"Clean", "Dirty", "Uploading"}]
        /\ upload_queue' \in Seq(Files)
    <3>1. upload_queue \in Seq(Files) /\ Append(upload_queue, f) \in Seq(Files)
      BY <1>1, AppendProperties DEF IInv, Kept, TypeOK
    <3> QED
      BY <2>1, <3>1 DEF Touch, IInv, Kept, TypeOK
  <2>7. TypeOK'
    BY <1>3, <1>5, <2>2, <2>4, <2>5, <2>6, TypedNow, TypedNext DEF Typed
  <2>8. Others(t)
    BY <1>3, <1>5, <2>4, <2>5 DEF Others, IInv, NewBound
  <2>9. Owner(t)' /\ Sized(t)' /\ Waits(t)'
    BY <1>3, <1>6, <2>2 DEF Owner, Sized, Waits
  <2>10. FileLengths'
    <3>1. filesize'[f] = Len(blocklist'[f]) /\ filesize'[f] <= Len(content'[f])
      BY <1>1, <1>5, <1>6, <1>8, <2>4, <2>5
    <3>2. Len(blocklist'[f]) \in Nat /\ filesize'[f] \in Nat
      BY <1>1, <1>6, <2>4, <2>5, BlockStoreAssumption
    <3>3. ASSUME NEW g \in Files \ {f}
          PROVE  /\ filesize'[g] <= Len(blocklist'[g])
                 /\ filesize'[g] <= Len(content'[g])
                 /\ Free(g)' => filesize'[g] = Len(blocklist'[g])
      BY <1>5, <2>4, <2>5, ThreadFacts DEF FileLengths, Free
    <3> QED
      BY <3>1, <3>2, <3>3 DEF FileLengths
  <2> QED
    BY <2>2, <2>4, <2>7, <2>8, <2>9, <2>10, StepKept
<1> QED
  BY <1>2, <1>7, <1>8

\* truncate to a longer file, or a write beyond the end, makes room in the
\* list.
Grew(t) ==
  /\ pc[t] = "resize" /\ ~Holding(t) /\ Free(File(t)) /\ Request(t)
  /\ File(t) \in Files
  /\ req[t].hi \in 0..MaxBlocks /\ req[t].hi > filesize[File(t)]
  /\ filesize[File(t)] \in Nat
  /\ req[t].hi \in Nat
  /\ Len(blocklist[File(t)]) = filesize[File(t)]
  /\ Len(blocklist[File(t)]) <= Len(content[File(t)]) /\ ign[t] = 0
  /\ filesize[File(t)] + 1 \in 1..req[t].hi
  /\ filesize[File(t)] + 1 \in 0..MaxBlocks
  /\ Own(t) /\ pc'[t] = "alloc" /\ req' = req
  /\ idx'[t] = filesize[File(t)] + 1
  /\ Holding(t)'
  /\ Request(t)' /\ AtIndex(t)'
  /\ \A u \in Threads \ {t} : Holding(u) => File(u) \in Files \ {File(t)}
  /\ blocklist' \in [Files -> Seq({0} \cup Cells)]
  /\ Len(blocklist'[File(t)]) = req[t].hi
  /\ \A g \in Files \ {File(t)} : blocklist'[g] = blocklist[g]
  /\ \A j \in 1..Len(blocklist[File(t)]) :
       blocklist'[File(t)][j] = blocklist[File(t)][j]
  /\ \A j \in Len(blocklist[File(t)])+1..req[t].hi : blocklist'[File(t)][j] = 0
  /\ m_mutex' = [m_mutex EXCEPT ![File(t)] = t]
  /\ m_mutex' \in [Files -> Threads \cup {Nobody}]
  /\ m_mutex'[File(t)] = t
  /\ \A g \in Files \ {File(t)} : m_mutex'[g] = m_mutex[g]
  /\ UNCHANGED <<ncells, bstatus, basefile, block_index, data, filesize,
                 fstatus, req, pin, ign, got, ops, upload_queue, upVars,
                 content, exposed>>

LEMMA GrowFacts ==
  ASSUME IInv, NEW t \in Threads, Grow(t)
  PROVE  Grew(t)
<1> USE DEF cacheVars, upVars, history
<1> DEFINE f == File(t)
           n == req[t].hi
           l == Len(blocklist[f])
<1>1. /\ pc[t] = "resize" /\ ~Holding(t) /\ Free(f) /\ Request(t)
      /\ f \in Files
      /\ n \in 0..MaxBlocks /\ n > filesize[f] /\ filesize[f] \in Nat
      /\ n \in Nat
      /\ l = filesize[f] /\ l <= Len(content[f]) /\ ign[t] = 0
  <2>1. /\ pc[t] = "resize" /\ ~Holding(t) /\ Free(f) /\ Request(t)
        /\ f \in Files /\ n > filesize[f]
    BY RequestOf DEF Grow, Holding, Request, File
  <2>2. n \in 0..MaxBlocks /\ filesize[f] \in 0..MaxBlocks
    BY <2>1 DEF Request, IInv, Kept, TypeOK
  <2>3. ign[t] = 0 /\ l = filesize[f] /\ l <= Len(content[f])
    BY <2>1, ThreadFacts DEF Waits, FileLengths
  <2> QED
    BY <2>1, <2>2, <2>3, BlockStoreAssumption
<1>2. filesize[f] + 1 \in 1..n /\ filesize[f] + 1 \in 0..MaxBlocks
  BY <1>1, BlockStoreAssumption
<1>3. /\ Own(t) /\ pc'[t] = "alloc" /\ req' = req /\ idx'[t] = filesize[f] + 1
      /\ Holding(t)'
  BY <1>2, GotoOwn DEF Grow, Own, IInv, Kept, TypeOK, Calls, Places, Holding,
     File
<1>4. Request(t)' /\ AtIndex(t)'
  BY <1>1, <1>2, <1>3 DEF Request, AtIndex, Holding
<1>5. \A u \in Threads \ {t} : Holding(u) => File(u) \in Files \ {f}
  BY <1>1, OtherFile
<1>6. /\ blocklist' \in [Files -> Seq({0} \cup Cells)]
      /\ Len(blocklist'[f]) = n
      /\ \A g \in Files \ {f} : blocklist'[g] = blocklist[g]
      /\ \A j \in 1..l : blocklist'[f][j] = blocklist[f][j]
      /\ \A j \in l+1..n : blocklist'[f][j] = 0
  <2> DEFINE e == [j \in 1..n |-> IF j <= l THEN blocklist[f][j] ELSE 0]
  <2>1. \A j \in 1..n : e[j] \in {0} \cup Cells
    BY <1>1, ListTyped
  <2>2. e \in Seq({0} \cup Cells) /\ Len(e) = n
    <3>1. e = [j \in 1..n |-> e[j]]
      OBVIOUS
    <3> HIDE DEF e, f, n, l
    <3> QED
      BY <1>1, <2>1, <3>1, SeqOfFunction
  <2>3. /\ (\A j \in 1..l : e[j] = blocklist[f][j])
        /\ (\A j \in l+1..n : e[j] = 0)
    BY <1>1
  <2>4. blocklist' = [blocklist EXCEPT ![f] = e]
    BY DEF Grow, File
  <2>5. blocklist \in [Files -> Seq({0} \cup Cells)]
    BY DEF IInv, Kept, TypeOK
  <2> HIDE DEF e, f, n
  <2> QED
    BY <1>1, <2>2, <2>3, <2>4, <2>5
<1>7. /\ m_mutex' = [m_mutex EXCEPT ![f] = t]
      /\ m_mutex' \in [Files -> Threads \cup {Nobody}]
      /\ m_mutex'[f] = t /\ \A g \in Files \ {f} : m_mutex'[g] = m_mutex[g]
  BY <1>1 DEF Grow, IInv, Kept, TypeOK, File
<1>8. UNCHANGED <<ncells, bstatus, basefile, block_index, data, filesize,
                  fstatus, req, pin, ign, got, ops, upload_queue, upVars,
                  content, exposed>>
  BY DEF Grow
<1> QED
  BY <1>1, <1>2, <1>3, <1>4, <1>5, <1>6, <1>7, <1>8 DEF Grew

LEMMA GrowKept ==
  ASSUME IInv, NEW t \in Threads, Grow(t)
  PROVE  Kept'
<1> USE DEF cacheVars, upVars, history, Grew
<1>1. Grew(t)
  BY GrowFacts
<1>2. TypeOK'
  BY <1>1, TypedNow, TypedNext DEF Typed
<1>3. Others(t)
  BY <1>1, ThreadFacts DEF Others, IInv, NewBound,
     Waits, Copied, File
<1>4. Growing(t)' /\ File(t)' = File(t)
  BY <1>1 DEF Growing, File
<1>5. Owner(t)' /\ Sized(t)' /\ Waits(t)'
  BY <1>1, <1>4 DEF Owner, Sized, Waits, Copied
<1>6. FileLengths'
  <2>1. ASSUME NEW g \in Files \ {File(t)}
        PROVE  /\ filesize'[g] <= Len(blocklist'[g])
               /\ filesize'[g] <= Len(content'[g])
               /\ Free(g)' => filesize'[g] = Len(blocklist'[g])
    BY <1>1, ThreadFacts DEF FileLengths, Free
  <2>2. m_mutex'[File(t)] # Nobody
    BY <1>1, BlockStoreAssumption
  <2>3. /\ filesize'[File(t)] <= Len(blocklist'[File(t)])
        /\ filesize'[File(t)] <= Len(content'[File(t)])
    BY <1>1
  <2> QED
    BY <2>1, <2>2, <2>3 DEF FileLengths, Free
<1>7. MapsBack'
  <2> SUFFICES ASSUME NEW d \in Cells, bstatus[d] \in Live PROVE InList(d)'
    BY <1>1 DEF MapsBack
  <2>1. InList(d)
    BY DEF IInv, Kept, MapsBack
  <2> QED
    BY <2>1, <1>1 DEF InList
<1>8. Unmade' /\ Snapped' /\ Uploads'
  BY <1>1 DEF Unmade, Snapped, Uploads, IInv, Kept
<1>9. ReadyTaken'
  <2>1. pc[t] = "resize" /\ Own(t) /\ bstatus' = bstatus
    BY <1>1
  <2> HIDE DEF Grew
  <2> QED
    BY <2>1 DEF ReadyTaken, IInv, Kept, Own
<1> QED
  BY <1>1, <1>2, <1>3, <1>5, <1>6, <1>7, <1>8, <1>9, StepKept

\* truncate to a shorter file gives up the cells behind its end.
Gone(t) ==
  {blocklist[File(t)][i] : i \in req[t].hi+1..Len(blocklist[File(t)])} \ {0}
Shrunk(t) ==
  /\ pc[t] = "resize" /\ ~Holding(t) /\ Free(File(t)) /\ Request(t)
  /\ File(t) \in Files
  /\ req[t].hi \in 0..MaxBlocks /\ req[t].hi <= filesize[File(t)]
  /\ filesize[File(t)] \in Nat
  /\ req[t].hi \in Nat
  /\ Len(blocklist[File(t)]) = filesize[File(t)]
  /\ filesize[File(t)] <= Len(content[File(t)])
  /\ ign[t] = 0
  /\ Own(t) /\ pc'[t] \in {"lock", "idle"} /\ ~Holding(t)'
  /\ pc'[t] # "idle" => Request(t)' /\ AtIndex(t)'
  /\ \A c \in Gone(t) :
       StatusFree(c) /\ bstatus[c] \notin {"Expired", "Ready"}
  /\ bstatus' =
       [c \in Cells |->
          IF c \in Gone(t) THEN GivenUp(bstatus[c]) ELSE bstatus[c]]
  /\ blocklist' =
       [blocklist EXCEPT ![File(t)] = SubSeq(blocklist[File(t)], 1, req[t].hi)]
  /\ filesize' = [filesize EXCEPT ![File(t)] = req[t].hi]
  /\ content' =
       [content EXCEPT ![File(t)] = SubSeq(content[File(t)], 1, req[t].hi)]
  /\ exposed' = exposed \ ({File(t)} \X (req[t].hi+1..MaxBlocks))
  /\ Touch(File(t))
  /\ UNCHANGED <<ncells, basefile, block_index, data, m_mutex, ign, got,
                 ops, upVars>>
  /\ blocklist' \in [Files -> Seq({0} \cup Cells)]
  /\ Len(blocklist'[File(t)]) = req[t].hi
  /\ \A g \in Files \ {File(t)} : blocklist'[g] = blocklist[g]
  /\ \A j \in 1..req[t].hi : blocklist'[File(t)][j] = blocklist[File(t)][j]
  /\ content' \in [Files -> Seq(Data)] /\ Len(content'[File(t)]) = req[t].hi
  /\ \A g \in Files \ {File(t)} : content'[g] = content[g]
  /\ filesize' \in [Files -> 0..MaxBlocks] /\ filesize'[File(t)] = req[t].hi
  /\ \A g \in Files \ {File(t)} : filesize'[g] = filesize[g]
  /\ fstatus' \in [Files -> {"Clean", "Dirty", "Uploading"}]
  /\ upload_queue' \in Seq(Files)
  /\ exposed' \subseteq Files \X Index
  /\ \A u \in Threads \ {t} : Holding(u) => File(u) \in Files \ {File(t)}
  /\ bstatus' \in [Cells -> States]
  /\ \A c \in Cells \ Gone(t) : bstatus'[c] = bstatus[c]
  /\ \A c \in Cells \cap Gone(t) :
       /\ bstatus[c] = "Uploading" => bstatus'[c] = "Up_Expired"
       /\ bstatus[c] # "Uploading" => bstatus'[c] = "Expired"
       /\ bstatus[c] \notin {"Expired", "Ready"}
       /\ StatusFree(c)

LEMMA ShrinkFacts ==
  ASSUME IInv, NEW t \in Threads, Shrink(t)
  PROVE  Shrunk(t)
<1> USE DEF upVars
<1> DEFINE f == File(t)
           n == req[t].hi
           gone == Gone(t)
<1>1. /\ pc[t] = "resize" /\ ~Holding(t) /\ Free(f) /\ Request(t)
      /\ f \in Files
      /\ n \in 0..MaxBlocks /\ n <= filesize[f] /\ filesize[f] \in Nat
      /\ n \in Nat
      /\ Len(blocklist[f]) = filesize[f] /\ filesize[f] <= Len(content[f])
      /\ ign[t] = 0
  <2>1. /\ pc[t] = "resize" /\ ~Holding(t) /\ Free(f) /\ Request(t)
        /\ f \in Files /\ n <= filesize[f]
    BY RequestOf DEF Shrink, Holding, Request, File
  <2>2. n \in 0..MaxBlocks /\ filesize[f] \in 0..MaxBlocks
    BY <2>1 DEF Request, IInv, Kept, TypeOK
  <2>3. /\ ign[t] = 0 /\ Len(blocklist[f]) = filesize[f]
        /\ filesize[f] <= Len(content[f])
    BY <2>1, ThreadFacts DEF Waits, FileLengths
  <2> QED
    BY <2>1, <2>2, <2>3, BlockStoreAssumption
<1>2. /\ Own(t) /\ pc'[t] \in {"lock", "idle"} /\ ~Holding(t)'
      /\ pc'[t] # "idle" => Request(t)' /\ AtIndex(t)'
  <2>1. AfterResize(t)
    BY DEF Shrink
  <2>2. CASE req[t].op = "write"
    <3>1. /\ ToBlock(t, req[t].lo) /\ req[t].lo \in 1..req[t].hi
          /\ req[t].lo \in 0..MaxBlocks
      BY <1>1, <2>1, <2>2, BlockStoreAssumption DEF AfterResize, Request
    <3>2. Own(t) /\ pc'[t] = "lock" /\ idx'[t] = req[t].lo /\ req' = req
      BY <3>1, ToBlockOwn
    <3> QED
      BY <1>1, <2>2, <3>1, <3>2 DEF Request, AtIndex, Holding
  <2>3. CASE req[t].op # "write"
    BY <2>1, <2>3, ReturnOwn DEF AfterResize, Holding
  <2> QED
    BY <2>2, <2>3
<1>3. /\ \A c \in gone :
           StatusFree(c) /\ bstatus[c] \notin {"Expired", "Ready"}
      /\ bstatus' =
           [c \in Cells |->
              IF c \in gone THEN GivenUp(bstatus[c]) ELSE bstatus[c]]
      /\ blocklist' = [blocklist EXCEPT ![f] = SubSeq(blocklist[f], 1, n)]
      /\ filesize' = [filesize EXCEPT ![f] = n]
      /\ content' = [content EXCEPT ![f] = SubSeq(content[f], 1, n)]
      /\ exposed' = exposed \ ({f} \X (n+1..MaxBlocks))
      /\ Touch(f)
      /\ UNCHANGED <<ncells, basefile, block_index, data, m_mutex, ign, got,
                     ops, upVars>>
  BY DEF Shrink, File, Gone
<1>4. /\ blocklist' \in [Files -> Seq({0} \cup Cells)]
      /\ Len(blocklist'[f]) = n
      /\ \A g \in Files \ {f} : blocklist'[g] = blocklist[g]
      /\ \A j \in 1..n : blocklist'[f][j] = blocklist[f][j]
  <2> DEFINE e == SubSeq(blocklist[f], 1, n)
  <2>1. \A j \in 1..n : blocklist[f][j] \in {0} \cup Cells
    BY <1>1, ListTyped
  <2>2. /\ e \in Seq({0} \cup Cells) /\ Len(e) = n
        /\ \A j \in 1..n : e[j] = blocklist[f][j]
    BY <1>1, <2>1, SubSeqProperties
  <2>3. /\ blocklist' = [blocklist EXCEPT ![f] = e]
        /\ blocklist \in [Files -> Seq({0} \cup Cells)]
    BY <1>3 DEF IInv, Kept, TypeOK
  <2> HIDE DEF e, f, n, gone
  <2> QED
    BY <1>1, <2>2, <2>3
<1>5. /\ content' \in [Files -> Seq(Data)] /\ Len(content'[f]) = n
      /\ \A g \in Files \ {f} : content'[g] = content[g]
  <2> DEFINE e == SubSeq(content[f], 1, n)
  <2>1. content[f] \in Seq(Data) /\ content \in [Files -> Seq(Data)]
    BY <1>1 DEF IInv, Kept, TypeOK
  <2>2. \A j \in 1..n : content[f][j] \in Data
    BY <1>1, <2>1, ElementOfSeq, LenProperties
  <2>3. e \in Seq(Data) /\ Len(e) = n
    BY <1>1, <2>2, SubSeqProperties
  <2>4. content' = [content EXCEPT ![f] = e]
    BY <1>3
  <2> HIDE DEF e, f, n, gone
  <2> QED
    BY <1>1, <2>1, <2>3, <2>4
<1>6. /\ filesize' \in [Files -> 0..MaxBlocks] /\ filesize'[f] = n
      /\ \A g \in Files \ {f} : filesize'[g] = filesize[g]
  BY <1>1, <1>3 DEF IInv, Kept, TypeOK
<1>7. /\ fstatus' \in [Files -> {"Clean", "Dirty", "Uploading"}]
      /\ upload_queue' \in Seq(Files)
  <2>1. upload_queue \in Seq(Files) /\ Append(upload_queue, f) \in Seq(Files)
    BY <1>1, AppendProperties DEF IInv, Kept, TypeOK
  <2> QED
    BY <1>3, <2>1 DEF Touch, IInv, Kept, TypeOK
<1>8. exposed' \subseteq Files \X Index
  BY <1>3 DEF IInv, Kept, TypeOK
<1>9. \A u \in Threads \ {t} : Holding(u) => File(u) \in Files \ {f}
  BY <1>1, OtherFile
<1>10. /\ bstatus' \in [Cells -> States]
       /\ \A c \in Cells \ gone : bstatus'[c] = bstatus[c]
       /\ \A c \in Cells \cap gone :
            /\ bstatus[c] = "Uploading" => bstatus'[c] = "Up_Expired"
            /\ bstatus[c] # "Uploading" => bstatus'[c] = "Expired"
            /\ bstatus[c] \notin {"Expired", "Ready"}
            /\ StatusFree(c)
  <2> HIDE DEF gone
  <2> QED
    BY <1>3 DEF GivenUp, IInv, Kept, TypeOK, States
<1> QED
  BY <1>1, <1>2, <1>3, <1>4, <1>5, <1>6, <1>7, <1>8, <1>9, <1>10 DEF Shrunk

LEMMA ShrinkKept ==
  ASSUME IInv, NEW t \in Threads, Shrink(t)
  PROVE  Kept'
<1> USE DEF upVars, Shrunk
<1>1. Shrunk(t)
  BY ShrinkFacts
<1>2. TypeOK'
  <2> QED
    BY <1>1, TypedNow, TypedNext
       DEF Typed
<1>3. Others(t)
  <2>1. ASSUME NEW u \in Threads \ {t}, ign[u] # 0, Holding(u)
        PROVE  Copied(u)'
    <3>1. ign[u] \in Cells /\ Copied(u) /\ File(u)' = File(u)
      <4>1. ign[u] \in Cells
        BY <2>1 DEF IInv, Kept, TypeOK
      <4>2. Copied(u)
        BY <2>1, ThreadFacts DEF Waits
      <4>3. File(u)' = File(u)
        BY <2>1, <1>1 DEF Own, File
      <4> QED
        BY <4>1, <4>2, <4>3
    <3>2. ign[u] \notin Gone(t)
      BY <1>1 DEF StatusFree
    <3>3. bstatus'[ign[u]] = bstatus[ign[u]]
      BY <3>1, <3>2, <1>1
    <3> QED
      BY <3>1, <3>3, <1>1 DEF Copied
  <2> QED
    BY <2>1, <1>1 DEF Others, IInv, NewBound
<1>4. Owner(t)' /\ Sized(t)' /\ Waits(t)'
  BY <1>1 DEF Owner, Sized, Waits
<1>5. FileLengths'
  <2>1. ASSUME NEW g \in Files \ {File(t)}
        PROVE  /\ filesize'[g] <= Len(blocklist'[g])
               /\ filesize'[g] <= Len(content'[g])
               /\ Free(g)' => filesize'[g] = Len(blocklist'[g])
    BY <1>1, ThreadFacts DEF FileLengths, Free
  <2> QED
    BY <2>1, <1>1 DEF FileLengths
<1>6. MapsBack'
  <2> SUFFICES ASSUME NEW d \in Cells, bstatus'[d] \in Live PROVE InList(d)'
    BY DEF MapsBack
  <2>1. d \notin Gone(t) /\ bstatus[d] \in Live
    <3> QED
      BY <1>1 DEF Live
  <2>2. InList(d) /\ d # 0
    BY <2>1, CellsFacts DEF IInv, Kept, MapsBack, Cells
  <2>3. basefile[d] = File(t) => block_index[d] \in 1..req[t].hi
    <3> SUFFICES ASSUME basefile[d] = File(t),
                        block_index[d] \notin 1..req[t].hi
                 PROVE  FALSE
      OBVIOUS
    <3>1. /\ block_index[d] \in 1..Len(blocklist[File(t)])
          /\ blocklist[File(t)][block_index[d]] = d
      BY <2>2 DEF InList
    <3>2. block_index[d] \in req[t].hi+1..Len(blocklist[File(t)])
      BY <3>1, <1>1
    <3> QED
      BY <3>1, <3>2, <2>1, <2>2 DEF Gone
  <2> QED
    BY <2>2, <2>3, <1>1 DEF InList
<1>7. Unmade' /\ Snapped' /\ Uploads'
  BY <1>1 DEF Unmade, Snapped, Uploads, IInv, Kept
<1>8. ReadyTaken'
  <2> SUFFICES ASSUME NEW d \in Cells, bstatus'[d] = "Ready"
               PROVE  \E u \in Threads : pc'[u] = "assign" /\ pin'[u] = d
    BY DEF ReadyTaken
  <2>1. bstatus[d] = "Ready"
    BY <1>1
  <2>2. PICK u \in Threads : pc[u] = "assign" /\ pin[u] = d
    BY <2>1 DEF ReadyTaken, IInv, Kept
  <2> QED
    BY <2>2, <1>1 DEF Own
<1> QED
  BY <1>1, <1>2, <1>3, <1>4, <1>5, <1>6, <1>7, <1>8, StepKept

-----------------------------------------------------------------------------
\* The steps of the upload task.

\* A step of the upload task that holds no mutex between two steps.
UpStep ==
  /\ UNCHANGED <<ncells, basefile, block_index, blocklist, filesize, m_mutex,
                 threadVars, content>>
  /\ bstatus' \in [Cells -> States]
  /\ \A c \in Cells : bstatus'[c] # bstatus[c] =>
       /\ StatusFree(c)
       /\ bstatus[c] \notin {"Expired", "Ready"}
       /\ bstatus'[c] # "Ready"
       /\ bstatus'[c] \in Live => bstatus[c] \in Live

\* Such a step keeps the invariant.
LEMMA UpKept ==
  ASSUME IInv, UpStep, Typed', Snapped', Uploads'
  PROVE  Kept'
<1> USE DEF threadVars
<1>1. TypeOK'
  BY DEF UpStep, IInv, Kept, TypeOK, Typed, States
<1>2. HasMutex' /\ Lengths'
  BY DEF UpStep, IInv, Kept, HasMutex, Owner, Lengths, FileLengths, Sized,
     Holding, File, Growing, Free
<1>3. Calls'
  BY DEF UpStep, IInv, Kept, Calls, Request, AtIndex, Holding
<1>4. Waiting'
  <2>1. ASSUME NEW u \in Threads, Holding(u) PROVE Copied(u)'
    <3>1. Copied(u) /\ (ign[u] = 0 \/ ign[u] \in Cells)
      BY <2>1 DEF IInv, Kept, Waiting, Waits, TypeOK
    <3>2. CASE ign[u] = 0
      BY <3>2 DEF UpStep, Copied
    <3>3. CASE ign[u] \in Cells
      <4>1. bstatus'[ign[u]] = bstatus[ign[u]]
        BY <3>3 DEF UpStep, StatusFree
      <4> QED
        BY <3>1, <4>1 DEF UpStep, Copied, File
    <3> QED
      BY <3>1, <3>2, <3>3
  <2>2. \A u \in Threads :
          /\ Holding(u)' = Holding(u) /\ File(u)' = File(u)
          /\ Growing(u)' = Growing(u)
    BY DEF UpStep, Holding, File, Growing
  <2> QED
    BY <2>1, <2>2 DEF UpStep, IInv, Kept, Waiting, Waits
<1>5. MapsBack'
  BY DEF UpStep, IInv, Kept, MapsBack, InList
<1>6. Unmade' /\ ReadyTaken'
  BY DEF UpStep, IInv, Kept, Unmade, ReadyTaken
<1> QED
  BY <1>1, <1>2, <1>3, <1>4, <1>5, <1>6 DEF Kept

\* What is in the snapshot.
LEMMA SnapTyped ==
  ASSUME IInv
  PROVE  /\ snap \in Seq({0} \cup Cells) /\ sent \in Seq(Data \cup {Nobody})
         /\ Len(snap) \in Nat /\ DOMAIN snap = 1..Len(snap)
         /\ DOMAIN sent = DOMAIN snap
         /\ Len(sent) = Len(snap)
         /\ \A i \in DOMAIN snap : /\ snap[i] \in {0} \cup Cells
                                   /\ sent[i] \in Data \cup {Nobody}
<1>1. /\ snap \in Seq({0} \cup Cells) /\ sent \in Seq(Data \cup {Nobody})
      /\ DOMAIN sent = DOMAIN snap
  BY DEF IInv, Kept, TypeOK, Uploads
<1>2. /\ Len(snap) \in Nat /\ DOMAIN snap = 1..Len(snap)
      /\ Len(sent) \in Nat /\ DOMAIN sent = 1..Len(sent)
  BY <1>1, LenProperties
<1> QED
  BY <1>1, <1>2, ElementOfSeq

\* create_snapshot.
LEMMA TakeSnapshotKept ==
  ASSUME IInv, TakeSnapshot
  PROVE  Kept'
<1> DEFINE f == Head(upload_queue)
           list == blocklist[f]
           dirty == {i \in DOMAIN list :
                       list[i] > 0 /\ bstatus[list[i]] = "Dirty"}
<1>1. /\ upc = "idle" /\ upload_queue # <<>>
      /\ \A i \in DOMAIN list : list[i] > 0 => StatusFree(list[i])
      /\ item' = f
      /\ fstatus' = [fstatus EXCEPT ![f] = "Uploading"]
      /\ snap' = [i \in DOMAIN list |-> IF i \in dirty THEN list[i] ELSE 0]
      /\ sent' = [i \in DOMAIN list |-> Nobody]
      /\ bstatus' = [c \in Cells |-> IF \E i \in dirty : list[i] = c
                                     THEN "Uploading" ELSE bstatus[c]]
      /\ upload_queue' = Tail(upload_queue)
      /\ upc' = "send"
      /\ UNCHANGED <<ncells, basefile, block_index, data, blocklist, filesize,
                     m_mutex, threadVars, result, blob, fails, history>>
  BY DEF TakeSnapshot
<1>2. f \in Files /\ upload_queue' \in Seq(Files)
  BY <1>1, HeadTailProperties DEF IInv, Kept, TypeOK
<1>3. /\ Len(list) \in Nat /\ DOMAIN list = 1..Len(list)
      /\ \A i \in 1..Len(list) : list[i] \in {0} \cup Cells
  BY <1>2, ListTyped
<1>4. bstatus' \in [Cells -> States]
  BY <1>1 DEF IInv, Kept, TypeOK, States
<1>5. snap' \in Seq({0} \cup Cells) /\ Len(snap') = Len(list)
  <2>1. \A i \in 1..Len(list) : snap'[i] \in {0} \cup Cells
    BY <1>1, <1>3
  <2>2. snap' = [i \in 1..Len(list) |-> snap'[i]]
    BY <1>1, <1>3
  <2> QED
    BY <2>1, <2>2, <1>3, SeqOfFunction
<1>6. sent' \in Seq(Data \cup {Nobody}) /\ Len(sent') = Len(list)
  <2>1. \A i \in 1..Len(list) : sent'[i] \in Data \cup {Nobody}
    BY <1>1, <1>3
  <2>2. sent' = [i \in 1..Len(list) |-> sent'[i]]
    BY <1>1, <1>3
  <2> QED
    BY <2>1, <2>2, <1>3, SeqOfFunction
<1>7. Typed'
  <2> HIDE DEF f, list, dirty
  <2>1. fstatus' \in [Files -> {"Clean", "Dirty", "Uploading"}]
    BY <1>1 DEF IInv, Kept, TypeOK
  <2> QED
    BY <1>1, <1>2, <1>4, <1>5, <1>6, <2>1, TypedNow DEF Typed, threadVars,
       history
<1>8. UpStep
  <2>1. ASSUME NEW c \in Cells, bstatus'[c] # bstatus[c]
        PROVE  /\ StatusFree(c) /\ bstatus[c] = "Dirty"
               /\ bstatus'[c] = "Uploading"
    <3>1. PICK i \in dirty : list[i] = c
      BY <2>1, <1>1
    <3> QED
      BY <2>1, <3>1, <1>1
  <2> HIDE DEF f, list, dirty
  <2> QED
    BY <2>1, <1>1, <1>4 DEF UpStep, threadVars, history, Live
<1>9. Snapped'
  <2> SUFFICES ASSUME NEW c \in Cells,
                      bstatus'[c] \in {"Uploading", "Up_Expired"}
               PROVE  \E i \in DOMAIN snap' : snap'[i] = c
    BY DEF Snapped
  <2>1. snap = <<>>
    BY <1>1 DEF IInv, Kept, Uploads
  <2>2. bstatus[c] \notin {"Uploading", "Up_Expired"}
    BY <2>1 DEF IInv, Kept, Snapped
  <2>3. PICK i \in dirty : list[i] = c
    BY <1>1, <2>2
  <2>4. i \in DOMAIN snap' /\ snap'[i] = c
    BY <1>1, <2>3
  <2> QED
    BY <2>4
<1>10. Uploads'
  <2>1. DOMAIN sent' = DOMAIN snap'
    BY <1>1
  <2> HIDE DEF f
  <2> QED
    BY <1>1, <1>2, <2>1 DEF Uploads
<1> QED
  BY <1>7, <1>8, <1>9, <1>10, UpKept

\* One block is sent.
LEMMA SendBlockKept ==
  ASSUME IInv, SendBlock
  PROVE  Kept'
<1> USE DEF cacheVars, fileVars, history
<1> DEFINE i == CHOOSE j \in Unsent : \A k \in Unsent : j <= k
<1>1. i \in Unsent /\ i \in DOMAIN snap /\ snap[i] \in Cells
  <2>1. Unsent \subseteq Nat /\ Unsent # {}
    BY SnapTyped DEF SendBlock, Unsent
  <2>2. \E j \in Unsent : \A k \in Unsent : j <= k
    BY <2>1, Least
  <2>3. i \in Unsent
    BY <2>2
  <2> HIDE DEF i
  <2> QED
    BY <2>3, SnapTyped DEF Unsent
<1>2. sent' = [sent EXCEPT ![i] = data[snap[i]]] /\ data[snap[i]] \in Data
  BY <1>1 DEF SendBlock, IInv, Kept, TypeOK
<1> HIDE DEF i
<1>3. sent' \in Seq(Data \cup {Nobody}) /\ DOMAIN sent' = DOMAIN sent
  BY <1>1, <1>2, SnapTyped, ExceptSeq
<1>4. Typed'
  BY <1>3, TypedNow DEF Typed, SendBlock, threadVars
<1>5. UpStep
  BY DEF UpStep, SendBlock, IInv, Kept, TypeOK, States
<1>6. Snapped' /\ Uploads'
  BY <1>3 DEF Snapped, Uploads, SendBlock, IInv, Kept
<1> QED
  BY <1>4, <1>5, <1>6, UpKept

\* What upload_block_list makes of the blob of the file.
LEMMA NewBlobTyped ==
  ASSUME IInv, Unsent = {}, ListAccepted, upc = "send"
  PROVE  [blob EXCEPT ![item] = NewBlob] \in [Files -> Seq(Data)]
<1>1. item \in Files /\ blob[item] \in Seq(Data)
  BY DEF IInv, Kept, TypeOK, Uploads
<1>2. ASSUME NEW i \in DOMAIN snap PROVE NewBlob[i] \in Data
  <2>1. CASE snap[i] > 0
    BY <1>2, <2>1, SnapTyped DEF NewBlob, Unsent
  <2>2. CASE ~(snap[i] > 0)
    <3>1. snap[i] = 0
      BY <2>2, SnapTyped, CellsFacts DEF Cells
    <3>2. i \in 1..Len(blob[item])
      BY <1>1, <3>1, SnapTyped, LenProperties DEF ListAccepted
    <3>3. blob[item][i] \in Data
      BY <3>2, <1>1, ElementOfSeq
    <3> QED
      BY <2>2, <3>3 DEF NewBlob
  <2> QED
    BY <2>1, <2>2
<1>3. NewBlob = [i \in 1..Len(snap) |-> NewBlob[i]]
  BY SnapTyped DEF NewBlob
<1>4. NewBlob \in Seq(Data)
  BY <1>2, <1>3, SnapTyped, SeqOfFunction
<1> QED
  BY <1>1, <1>4 DEF IInv, Kept, TypeOK

\* The list of blocks is committed, or a request fails.
LEMMA RequestKept ==
  ASSUME IInv, Commit \/ RequestFails
  PROVE  Kept'
<1> USE DEF cacheVars, fileVars, history
<1>1. blob' \in [Files -> Seq(Data)]
  BY NewBlobTyped DEF Commit, RequestFails, IInv, Kept, TypeOK
<1>2. result' \in {-1, 0, 1} /\ fails' \in 0..MaxFails
  <2>1. fails \in 0..MaxFails
    BY DEF IInv, Kept, TypeOK
  <2>2. CASE Commit
    BY <2>1, <2>2 DEF Commit
  <2>3. CASE RequestFails
    <3>1. result' \in Results /\ fails' = fails + 1 /\ fails < MaxFails
      BY <2>3 DEF RequestFails
    <3>2. fails' \in 0..MaxFails
      BY <2>1, <3>1, BlockStoreAssumption
    <3>3. result' \in {-1, 0, 1}
      BY <3>1, BlockStoreAssumption
    <3> QED
      BY <3>2, <3>3
  <2> QED
    BY <2>2, <2>3
<1>3. /\ upc' = "restore" /\ upc = "send"
      /\ UNCHANGED <<cacheVars, fileVars, threadVars, upload_queue, item, snap,
                     sent, history>>
  BY DEF Commit, RequestFails
<1>4. Typed'
  BY <1>1, <1>2, <1>3, TypedNow DEF Typed, threadVars
<1>5. UpStep
  BY <1>3 DEF UpStep, IInv, Kept, TypeOK, States
<1>6. Snapped' /\ Uploads'
  BY <1>3 DEF Snapped, Uploads, IInv, Kept
<1> QED
  BY <1>4, <1>5, <1>6, UpKept

\* ~Snapshot gives one cell back.
LEMMA RestoreBlockKept ==
  ASSUME IInv, NEW i \in Index, i \in DOMAIN snap, RestoreBlock(i)
  PROVE  Kept'
<1> USE DEF fileVars
<1> DEFINE c == snap[i]
<1>1. c \in Cells /\ StatusFree(c) /\ upc = "restore" /\ item \in Files
  BY SnapTyped DEF RestoreBlock, IInv, Kept, Uploads
<1>2. bstatus' = [bstatus EXCEPT ![c] = Restored(bstatus[c])]
  BY DEF RestoreBlock
<1>3. snap' = [snap EXCEPT ![i] = 0]
  BY DEF RestoreBlock
<1>4. UNCHANGED <<ncells, basefile, block_index, data, fileVars, threadVars,
                  upload_queue, upc, item, sent, result, blob, fails, content>>
  BY DEF RestoreBlock
<1>5. exposed' \subseteq Files \X Index
  BY <1>1 DEF RestoreBlock, IInv, Kept, TypeOK
<1>6. bstatus' \in [Cells -> States] /\ bstatus'[c] = Restored(bstatus[c])
      /\ \A d \in Cells \ {c} : bstatus'[d] = bstatus[d]
  BY <1>1, <1>2 DEF Restored, IInv, Kept, TypeOK, States
<1>7. snap' \in Seq({0} \cup Cells) /\ DOMAIN snap' = DOMAIN snap
      /\ \A j \in DOMAIN snap : j # i => snap'[j] = snap[j]
  BY <1>3, SnapTyped, ExceptSeq
<1> HIDE DEF c
<1>8. Typed'
  BY <1>4, <1>5, <1>6, <1>7, TypedNow DEF Typed, threadVars
<1>9. UpStep
  BY <1>1, <1>4, <1>6 DEF UpStep, Restored, Live
<1>10. Snapped'
  <2> SUFFICES ASSUME NEW d \in Cells,
                      bstatus'[d] \in {"Uploading", "Up_Expired"}
               PROVE  \E j \in DOMAIN snap' : snap'[j] = d
    BY DEF Snapped
  <2>1. d # c /\ bstatus[d] = bstatus'[d]
    BY <1>6 DEF Restored
  <2>2. PICK j \in DOMAIN snap : snap[j] = d
    BY <2>1 DEF IInv, Kept, Snapped
  <2> QED
    BY <2>1, <2>2, <1>7 DEF c
<1>11. Uploads'
  BY <1>1, <1>4, <1>7 DEF Uploads, IInv, Kept
<1> QED
  BY <1>8, <1>9, <1>10, <1>11, UpKept

\* The end of the task: the file is queued again, or clean.
LEMMA EndUploadKept ==
  ASSUME IInv, EndUpload
  PROVE  Kept'
<1> USE DEF cacheVars, history
<1>1. upload_queue' \in Seq(Files)
  <2>1. item \in Files
    BY DEF EndUpload, IInv, Kept, Uploads
  <2>2. /\ upload_queue \in Seq(Files)
        /\ Append(upload_queue, item) \in Seq(Files)
    BY <2>1, AppendProperties DEF IInv, Kept, TypeOK
  <2> QED
    BY <2>2 DEF EndUpload
<1>2. /\ snap' = <<>> /\ sent' = <<>> /\ snap' \in Seq({0} \cup Cells)
      /\ sent' \in Seq(Data \cup {Nobody})
  BY EmptySeq DEF EndUpload
<1>3. fstatus' \in [Files -> {"Clean", "Dirty", "Uploading"}]
  BY DEF EndUpload, IInv, Kept, TypeOK
<1>4. Typed'
  BY <1>1, <1>2, <1>3, TypedNow DEF Typed, EndUpload, threadVars
<1>5. UpStep
  BY DEF UpStep, EndUpload, IInv, Kept, TypeOK, States
<1>6. Snapped'
  <2> SUFFICES ASSUME NEW d \in Cells,
                      bstatus[d] \in {"Uploading", "Up_Expired"}
               PROVE  FALSE
    BY DEF Snapped, EndUpload
  <2>1. PICK j \in DOMAIN snap : snap[j] = d
    BY DEF IInv, Kept, Snapped
  <2>2. d = 0
    BY <2>1 DEF EndUpload
  <2> QED
    BY <2>2, CellsFacts DEF Cells
<1>7. Uploads'
  BY <1>2 DEF Uploads, EndUpload
<1> QED
  BY <1>4, <1>5, <1>6, <1>7, UpKept

\* get_free asks whether the cache is full.
LEMMA IsFullKept ==
  ASSUME IInv, NEW t \in Threads, IsFull(t)
  PROVE  Kept'
<1> USE DEF IInv, Kept, IsFull, Goto, cacheVars, fileVars, upVars, history
<1>1. TypeOK'
  BY DEF TypeOK
<1>2. HasMutex'
  BY DEF HasMutex, Owner, Holding, File, TypeOK
<1>3. Calls'
  BY DEF Calls, Request, AtIndex, Holding, TypeOK
<1>4. Lengths'
  BY DEF Lengths, FileLengths, Sized, Holding, Growing, Free, File, TypeOK
<1>5. Waiting'
  BY DEF Waiting, Waits, Holding, Growing, Copied, File, TypeOK
<1>6. MapsBack'
  BY DEF MapsBack, InList
<1>7. Unmade'
  BY DEF Unmade
<1>8. ReadyTaken'
  BY DEF ReadyTaken, TypeOK
<1>9. Snapped' /\ Uploads'
  BY DEF Snapped, Uploads
<1> QED
  BY <1>1, <1>2, <1>3, <1>4, <1>5, <1>6, <1>7, <1>8, <1>9

-----------------------------------------------------------------------------
\* The theorems.

\* A step that changes nothing keeps the invariant: it only reads variables.
LEMMA Unchanged ==
  ASSUME IInv, UNCHANGED vars
  PROVE  Kept'
<1> USE DEF IInv, Kept, vars, cacheVars, fileVars, threadVars, upVars, history
<1>1. TypeOK'
  BY DEF TypeOK
<1>2. HasMutex' /\ Calls' /\ Lengths'
  BY DEF HasMutex, Owner, Calls, Request, AtIndex, Lengths, FileLengths, Sized,
     Holding, Growing, Free, File
<1>3. Waiting'
  BY DEF Waiting, Waits, Holding, Growing, Copied, File
<1>4. MapsBack' /\ Unmade' /\ ReadyTaken' /\ Snapped' /\ Uploads'
  BY DEF MapsBack, InList, Unmade, ReadyTaken, Snapped, Uploads
<1> QED
  BY <1>1, <1>2, <1>3, <1>4

\* The files at the start are in their blobs, and the cache is empty.
LEMMA InitKept ==
  ASSUME Init
  PROVE  IInv
<1>1. NewBound
  <2>1. News = {}
    BY DEF Init, News
  <2>2. Cardinality(News) = 0
    BY <2>1, FS_EmptySet
  <2>3. pc \in [Threads -> Places] /\ ncells = 0
    BY DEF Init, Places
  <2>4. Cardinality(Threads) \in Nat /\ CacheSize \in Nat \ {0}
    BY NewsFacts, BlockStoreAssumption
  <2>5. 0 < CacheSize + Cardinality(Threads)
    <3>1. Cardinality(Threads) # 0
      BY BlockStoreAssumption, FS_EmptySet
    <3> QED
      BY <2>4, <3>1
  <2> QED
    BY <2>2, <2>3, <2>4, <2>5 DEF NewBound
<1>2. ASSUME NEW f \in Files, NEW S, NEW v \in S
      PROVE  Fill(f, v) \in Seq(S) /\ Len(Fill(f, v)) = InitBlocks[f]
  <2>1. InitBlocks[f] \in Nat
    BY BlockStoreAssumption
  <2>2. /\ \A i \in 1..InitBlocks[f] : Fill(f, v)[i] \in S
        /\ Fill(f, v) = [i \in 1..InitBlocks[f] |-> Fill(f, v)[i]]
    BY DEF Fill
  <2> QED
    BY <2>1, <2>2, SeqOfFunction
<1>3. /\ blocklist \in [Files -> Seq({0} \cup Cells)]
      /\ blob \in [Files -> Seq(Data)] /\ content \in [Files -> Seq(Data)]
      /\ \A f \in Files :
           Len(blocklist[f]) = InitBlocks[f] /\ Len(content[f]) = InitBlocks[f]
  BY <1>2 DEF Init, Data
<1>4. TypeOK
  BY <1>3, CellsFacts, EmptySeq, BlockStoreAssumption DEF Init, TypeOK, Data
<1>5. FileLengths
  BY <1>3, BlockStoreAssumption DEF FileLengths, Init
<1>6. \A t \in Threads : ~Holding(t)
  BY DEF Init, Holding
<1>7. HasMutex /\ Calls /\ Lengths /\ Waiting
  BY <1>5, <1>6 DEF HasMutex, Owner, Calls, Lengths, FileLengths, Sized,
     Waiting, Waits, Init
<1>8. MapsBack /\ Unmade /\ ReadyTaken /\ Snapped /\ Uploads
  BY DEF Init, MapsBack, Live, Unmade, ReadyTaken, Snapped, Uploads
<1> QED
  BY <1>1, <1>4, <1>7, <1>8 DEF IInv, Kept

\* Every step keeps the invariant.
LEMMA Inductive ==
  ASSUME IInv, [Next]_vars
  PROVE  IInv'
<1>1. NewBound'
  BY QuietStep, IsFullStep, PutNewItemStep, OtherSteps DEF IInv
<1>2. Kept'
  <2>1. ASSUME NEW t \in Threads, Begin(t) PROVE Kept'
    BY <2>1, BeginKept
  <2>2. ASSUME NEW t \in Threads, Proceed(t) PROVE Kept'
    BY <2>2, IsFullKept, PutNewItemKept, TakeExpiredKept, EvictKept, GrowKept,
       ShrinkKept, ThrowsKept, AssignGrownKept, GetCachedKept,
       BeginCopyOnWriteKept, BeginLoadKept, AssignBlockKept, CopyOutKept,
       CopyInKept, EndWriteKept DEF Proceed
  <2>3. ASSUME Upload PROVE Kept'
    BY <2>3, TakeSnapshotKept, SendBlockKept, RequestKept, RestoreBlockKept,
       EndUploadKept DEF Upload
  <2>4. CASE UNCHANGED vars
    BY <2>4, Unchanged
  <2> QED
    BY <2>1, <2>2, <2>3, <2>4 DEF Next
<1> QED
  BY <1>1, <1>2 DEF IInv

\* However many threads read, write and truncate, and whatever requests fail,
\* the variables have their types: no operation indexes a blocklist beyond its
\* end (except where at() throws, which is a state of its own), and the cache
\* has no more cells than the model has names for.
THEOREM TypeCorrect == Spec => []TypeOK
<1>1. IInv => TypeOK
  BY DEF IInv, Kept
<1> QED
  BY <1>1, InitKept, Inductive, PTL DEF Spec

\* A cell that get_free may not take is never forgotten: one with a block is in
\* its file's list, at the index that gc_notify will use; one that get_free has
\* just given out is with the thread that assigns it; one that truncation or
\* copy on write gave up while it was being uploaded is in the snapshot, and
\* ~Snapshot will free it.
THEOREM NoCellEverLost == Spec => []NoCellLost
<1>1. IInv => NoCellLost
  <2> SUFFICES ASSUME IInv, NEW c \in 1..ncells
               PROVE  /\ bstatus[c] \in Live =>
                           /\ block_index[c] <= Len(blocklist[basefile[c]])
                           /\ blocklist[basefile[c]][block_index[c]] = c
                      /\ bstatus[c] = "Ready" =>
                           \E t \in Threads : pc[t] = "assign" /\ pin[t] = c
                      /\ bstatus[c] = "Up_Expired" =>
                           \E i \in DOMAIN snap : snap[i] = c
    BY DEF NoCellLost
  <2>1. c \in Cells
    BY CellsFacts DEF IInv, Kept, TypeOK, Cells
  <2>2. bstatus[c] \in Live => InList(c)
    BY <2>1 DEF IInv, Kept, MapsBack
  <2>3. basefile[c] \in Files => Len(blocklist[basefile[c]]) \in Nat
    BY ListTyped
  <2> QED
    BY <2>1, <2>2, <2>3 DEF InList, IInv, Kept, ReadyTaken, Snapped
<1> QED
  BY <1>1, InitKept, Inductive, PTL DEF Spec

\* blocklist.at(block_index) never throws in gc_notify: the index of a cell
\* that may be evicted is always within its file's list, although truncation
\* shortens lists while uploads and evictions go on.
THEOREM EvictionsInRange == Spec => []EvictInRange
<1>1. IInv => EvictInRange
  <2> SUFFICES ASSUME IInv, NEW c \in 1..ncells, bstatus[c] = "Clean"
               PROVE  block_index[c] <= Len(blocklist[basefile[c]])
    BY DEF EvictInRange
  <2>1. c \in Cells
    BY CellsFacts DEF IInv, Kept, TypeOK, Cells
  <2>2. InList(c)
    BY <2>1 DEF IInv, Kept, MapsBack, Live
  <2>3. Len(blocklist[basefile[c]]) \in Nat
    BY <2>2, ListTyped DEF InList
  <2> QED
    BY <2>2, <2>3 DEF InList
<1> QED
  BY <1>1, InitKept, Inductive, PTL DEF Spec

-----------------------------------------------------------------------------
\* What lists, cells, snapshot and queue have to do with each other.

\* get_free hands a cell to one thread at a time, ...
OneClaim ==
  \A t, u \in Threads :
    pc[t] = "assign" /\ pc[u] = "assign" /\ pin[t] = pin[u] => t = u

\* A cell that is handed out holds no block.
ClaimFree ==
  \A t \in Threads :
    pc[t] = "assign" => bstatus[pin[t]] \in {"Ready", "Expired"}

\* A cell in a list holds that block, unless a write has given it up and is
\* getting another one for the block.
Copying(f, i, c) ==
  /\ bstatus[c] = "Up_Expired"
  /\ \E t \in Threads :
       Holding(t) /\ File(t) = f /\ idx[t] = i /\ ign[t] = c
Belongs(f, i, c) ==
  /\ basefile[c] = f /\ block_index[c] = i
  /\ bstatus[c] \in Live \/ Copying(f, i, c)
Owned ==
  \A f \in Files : \A i \in 1..Len(blocklist[f]) :
    blocklist[f][i] # 0 => Belongs(f, i, blocklist[f][i])

DirtyQueued ==
  \A f \in Files : fstatus[f] = "Dirty" =>
                     \E i \in DOMAIN upload_queue : upload_queue[i] = f

\* Only a write copies a block, and no read makes a file longer.
Writers ==
  \A t \in Threads :
    /\ ign[t] # 0 => req[t].op = "write"
    /\ pc[t] = "resize" \/ (Holding(t) /\ Growing(t)) => req[t].op # "read"

\* A block that only the cache has; those of the file that is uploaded which
\* the snapshot has or which the file has got since.
Unsaved(f, i) ==
  /\ blocklist[f][i] # 0
  /\ bstatus[blocklist[f][i]] \in {"Dirty", "Uploading", "Up_Expired"}
Pending ==
  upc # "idle" =>
    \A i \in 1..filesize[item] :
      i > Len(snap) \/ snap[i] # 0 => Unsaved(item, i)

\* The blocks that a file has got while it becomes longer.
GrownDirty ==
  \A t \in Threads : Holding(t) /\ Growing(t) =>
    \A i \in filesize[File(t)]+1..idx[t]-1 :
      /\ blocklist[File(t)][i] # 0
      /\ bstatus[blocklist[File(t)][i]] = "Dirty"

ListInv == /\ ClaimFree /\ Owned /\ SnapshotPinned /\ DirtyQueued
           /\ DirtyCovered /\ Writers /\ Pending /\ GrownDirty

\* No two places have the same cell.
LEMMA OnePlace ==
  ASSUME ListInv, NEW f \in Files, NEW g \in Files,
         NEW i \in 1..Len(blocklist[f]), NEW j \in 1..Len(blocklist[g]),
         blocklist[f][i] = blocklist[g][j], blocklist[f][i] # 0
  PROVE  f = g /\ i = j
BY DEF ListInv, Owned, Belongs

\* Nobody copies a block of a file whose m_mutex is free.
LEMMA FreeIsLive ==
  ASSUME IInv, ListInv, NEW f \in Files, Free(f),
         NEW i \in 1..Len(blocklist[f]), blocklist[f][i] # 0
  PROVE  /\ blocklist[f][i] \in Cells
         /\ bstatus[blocklist[f][i]] \in Live
         /\ basefile[blocklist[f][i]] = f
         /\ block_index[blocklist[f][i]] = i
<1>1. \A t \in Threads : Holding(t) => File(t) # f
  BY BlockStoreAssumption DEF IInv, Kept, HasMutex, Owner, Free
<1> QED
  BY <1>1, ListTyped DEF ListInv, Owned, Belongs, Copying

\* The file of a Dirty block is Dirty, or a call is going to make it so.
Covered(f) ==
  \/ fstatus[f] = "Dirty"
  \/ \E t \in Threads : pc[t] # "idle" /\ req[t].op # "read" /\ req[t].f = f

LEMMA CoveredNow ==
  ASSUME IInv, ListInv, NEW c \in Cells, bstatus[c] = "Dirty"
  PROVE  basefile[c] \in Files /\ Covered(basefile[c])
<1>1. basefile[c] \in Files
  BY DEF IInv, Kept, MapsBack, InList, Live
<1>2. c \in 1..ncells
  BY CellsFacts DEF IInv, Kept, Unmade, NewBound, Cells
<1> QED
  BY <1>1, <1>2 DEF ListInv, DirtyCovered, Covered

LEMMA CoveredNext ==
  ASSUME IInv', DirtyQueued',
         \A c \in Cells : bstatus'[c] = "Dirty" => Covered(basefile[c])'
  PROVE  DirtyCovered'
<1> SUFFICES ASSUME NEW c \in 1..ncells', bstatus'[c] = "Dirty"
             PROVE  \/ /\ fstatus'[basefile'[c]] = "Dirty"
                       /\ \E i \in DOMAIN upload_queue' :
                            upload_queue'[i] = basefile'[c]
                    \/ \E t \in Threads : /\ pc'[t] # "idle"
                                          /\ req'[t].op # "read"
                                          /\ req'[t].f = basefile'[c]
  BY DEF DirtyCovered
<1>1. c \in Cells
  BY CellsFacts DEF IInv, Kept, TypeOK, Cells
<1>2. basefile'[c] \in Files
  BY <1>1 DEF IInv, Kept, MapsBack, InList, Live
<1> QED
  BY <1>1, <1>2 DEF Covered, DirtyQueued

\* A step that changes neither cells nor lists nor the snapshot.
Plain ==
  /\ UNCHANGED <<bstatus, basefile, block_index, blocklist, filesize, item,
                 snap>>
  /\ upc' # "idle" => upc # "idle"
  /\ \A u \in Threads :
       /\ pc'[u] = "assign" => \/ pc[u] = "assign" /\ pin'[u] = pin[u]
                               \/ bstatus[pin'[u]] = "Expired"
       /\ Holding(u) /\ ign[u] # 0 =>
            /\ Holding(u)' /\ File(u)' = File(u)
            /\ idx'[u] = idx[u] /\ ign'[u] = ign[u]
       /\ ign'[u] # 0 => ign'[u] = ign[u] /\ req'[u] = req[u]
       /\ Holding(u)' /\ Growing(u)' =>
            /\ Holding(u) /\ Growing(u)
            /\ idx'[u] = idx[u] /\ req'[u] = req[u]
       /\ pc'[u] = "resize" => req'[u].op # "read"
       /\ pc[u] # "idle" /\ req[u].op # "read" =>
            \/ fstatus'[req[u].f] = "Dirty"
            \/ pc'[u] # "idle" /\ req'[u] = req[u]
  /\ \A f \in Files : fstatus[f] = "Dirty" => fstatus'[f] = "Dirty"
  /\ DirtyQueued'

LEMMA PlainLinked ==
  ASSUME IInv, ListInv, IInv', Plain
  PROVE  ListInv'
<1>1. ClaimFree'
  BY DEF ListInv, ClaimFree, Plain
<1>2. Owned'
  <2> SUFFICES ASSUME NEW f \in Files, NEW i \in 1..Len(blocklist[f]),
                      blocklist[f][i] # 0
               PROVE  Belongs(f, i, blocklist[f][i])'
    BY DEF Owned, Plain
  <2>1. Belongs(f, i, blocklist[f][i])
    BY DEF ListInv, Owned
  <2> QED
    BY <2>1 DEF Belongs, Copying, Plain
<1>3. SnapshotPinned' /\ DirtyQueued'
  BY DEF ListInv, SnapshotPinned, Plain
<1>4. DirtyCovered'
  <2>1. ASSUME NEW c \in Cells, bstatus'[c] = "Dirty"
        PROVE  Covered(basefile[c])'
    <3>1. basefile[c] \in Files /\ Covered(basefile[c]) /\ basefile' = basefile
      BY <2>1, CoveredNow DEF Plain
    <3> QED
      BY <3>1 DEF Covered, Plain
  <2> QED
    BY <1>3, <2>1, CoveredNext
<1>5. Writers'
  BY DEF ListInv, Writers, Plain
<1>6. Pending'
  BY DEF ListInv, Pending, Unsaved, Plain
<1>7. GrownDirty'
  BY DEF ListInv, GrownDirty, Plain, File
<1> QED
  BY <1>1, <1>2, <1>3, <1>4, <1>5, <1>6, <1>7 DEF ListInv

\* The same for a step of one thread.
LEMMA PlainThread ==
  ASSUME IInv, ListInv, IInv', NEW t \in Threads, Own(t),
         UNCHANGED <<bstatus, basefile, block_index, blocklist, filesize, ign,
                     upVars>>,
         pc'[t] = "assign" => bstatus[pin'[t]] = "Expired",
         Holding(t) => Holding(t)' /\ req'[t] = req[t] /\ idx'[t] = idx[t],
         Holding(t)' => Holding(t) \/ ~Growing(t)',
         pc'[t] = "resize" => req'[t].op # "read",
         pc[t] # "idle" /\ req[t].op # "read" =>
           \/ fstatus'[req[t].f] = "Dirty"
           \/ pc'[t] # "idle" /\ req'[t] = req[t],
         \A f \in Files : fstatus[f] = "Dirty" => fstatus'[f] = "Dirty",
         DirtyQueued'
  PROVE  ListInv'
<1>1. ASSUME NEW u \in Threads
      PROVE  /\ pc'[u] = "assign" => \/ pc[u] = "assign" /\ pin'[u] = pin[u]
                                     \/ bstatus[pin'[u]] = "Expired"
             /\ Holding(u) /\ ign[u] # 0 =>
                  /\ Holding(u)' /\ File(u)' = File(u)
                  /\ idx'[u] = idx[u] /\ ign'[u] = ign[u]
             /\ ign'[u] # 0 => ign'[u] = ign[u] /\ req'[u] = req[u]
             /\ Holding(u)' /\ Growing(u)' =>
                  /\ Holding(u) /\ Growing(u)
                  /\ idx'[u] = idx[u] /\ req'[u] = req[u]
             /\ pc'[u] = "resize" => req'[u].op # "read"
             /\ pc[u] # "idle" /\ req[u].op # "read" =>
                  \/ fstatus'[req[u].f] = "Dirty"
                  \/ pc'[u] # "idle" /\ req'[u] = req[u]
  <2>1. CASE u = t
    <3>1. ign[t] # 0 => Holding(t)
      BY ThreadFacts DEF Waits
    <3> QED
      BY <2>1, <3>1 DEF File, Growing
  <2>2. CASE u # t
    BY <2>2 DEF Own, Holding, File, Growing, ListInv, Writers
  <2> QED
    BY <2>1, <2>2
<1>2. Plain
  BY <1>1 DEF Plain, upVars
<1> QED
  BY <1>2, PlainLinked

\* A call begins.
LEMMA BeginFacts ==
  ASSUME IInv, NEW t \in Threads, Begin(t)
  PROVE  /\ Own(t) /\ pc[t] = "idle" /\ pc'[t] \in {"resize", "lock"}
         /\ pc'[t] = "resize" => req'[t].op # "read"
         /\ UNCHANGED <<cacheVars, fileVars, pin, ign, got, upload_queue,
                        upVars, history>>
<1> DEFINE Begun ==
             /\ Own(t) /\ pc[t] = "idle" /\ pc'[t] \in {"resize", "lock"}
             /\ pc'[t] = "resize" => req'[t].op # "read"
             /\ UNCHANGED <<cacheVars, fileVars, pin, ign, got, upload_queue,
                            upVars, history>>
<1>1. ASSUME NEW r, NEW where, Call(t, where, r), Sound(r, where)
      PROVE  Begun
  <2>1. /\ pc[t] = "idle" /\ pc' = [pc EXCEPT ![t] = where]
        /\ req' = [req EXCEPT ![t] = r] /\ idx' = [idx EXCEPT ![t] = r.lo]
        /\ UNCHANGED <<cacheVars, fileVars, pin, ign, got, upload_queue,
                       upVars, history>>
    BY <1>1 DEF Call, Goto
  <2>2. pc'[t] = where /\ where \in {"resize", "lock"}
    BY <2>1, <1>1 DEF Sound, IInv, Kept, TypeOK
  <2>3. Own(t)
    BY <2>1, <2>2, <1>1 DEF Own, IInv, Kept, TypeOK, Calls, Sound, Places
  <2>4. req'[t] = r /\ (where = "resize" => r.op # "read")
    BY <2>1, <1>1 DEF Sound, IInv, Kept, Calls
  <2> QED
    BY <2>1, <2>2, <2>3, <2>4
<1>2. PICK f \in Files :
        \/ \E lo, hi \in Index : Read(t, f, lo, hi)
        \/ \E lo, hi \in Index, v \in Values : Write(t, f, lo, hi, v)
        \/ \E n \in 0..MaxBlocks : Truncate(t, f, n)
  BY DEF Begin
<1> HIDE DEF Begun
<1> USE BlockStoreAssumption DEF Index, Data, Sound
<1>3. ASSUME NEW lo \in Index, NEW hi \in Index, Read(t, f, lo, hi)
      PROVE  Begun
  <2> DEFINE r == [op |-> "read", f |-> f, lo |-> lo, hi |-> hi, v |-> Fresh]
  <2>1. Call(t, "lock", r) /\ Sound(r, "lock")
    BY <1>3 DEF Read
  <2> QED
    BY <2>1, <1>1
<1>4. ASSUME NEW lo \in Index, NEW hi \in Index, NEW v \in Values,
             Write(t, f, lo, hi, v)
      PROVE  Begun
  <2> DEFINE r == [op |-> "write", f |-> f, lo |-> lo, hi |-> hi, v |-> v]
             w == IF hi > filesize[f] THEN "resize" ELSE "lock"
  <2>1. Call(t, w, r) /\ Sound(r, w)
    BY <1>4 DEF Write
  <2> QED
    BY <2>1, <1>1
<1>5. ASSUME NEW n \in 0..MaxBlocks, Truncate(t, f, n)
      PROVE  Begun
  <2> DEFINE r == [op |-> "trunc", f |-> f, lo |-> 0, hi |-> n, v |-> Fresh]
  <2>1. Call(t, "resize", r) /\ Sound(r, "resize")
    BY <1>5 DEF Truncate
  <2> QED
    BY <2>1, <1>1
<1>6. Begun
  BY <1>2, <1>3, <1>4, <1>5
<1> QED
  BY <1>6 DEF Begun

LEMMA BeginLinked ==
  ASSUME IInv, ListInv, IInv', NEW t \in Threads, Begin(t)
  PROVE  ListInv'
<1> USE DEF cacheVars, fileVars, history
<1>1. /\ Own(t) /\ pc[t] = "idle" /\ pc'[t] \in {"resize", "lock"}
      /\ pc'[t] = "resize" => req'[t].op # "read"
      /\ UNCHANGED <<cacheVars, fileVars, pin, ign, got, upload_queue,
                     upVars, history>>
  BY BeginFacts
<1>2. ~Holding(t) /\ ~Holding(t)'
  BY <1>1 DEF Holding
<1>3. DirtyQueued'
  BY <1>1 DEF ListInv, DirtyQueued
<1> QED
  BY <1>1, <1>2, <1>3, PlainThread

\* A call throws or asserts, or asks whether the cache is full.
LEMMA GoneLinked ==
  ASSUME IInv, ListInv, IInv', NEW t \in Threads,
         GetThrows(t) \/ ShrinkAsserts(t) \/ IsFull(t)
  PROVE  ListInv'
<1> USE DEF cacheVars, fileVars, history
<1>1. PICK w \in {"threw", "asserted", "scan", "new"} :
        /\ Goto(t, w)
        /\ w \in {"scan", "new"} => Holding(t)
        /\ w \in {"threw", "asserted"} => ~Holding(t)
  BY DEF GetThrows, ShrinkAsserts, IsFull, AtBlock, Holding
<1>2. UNCHANGED <<cacheVars, fileVars, req, idx, pin, ign, got, ops,
                  upload_queue, upVars, history>>
  BY DEF GetThrows, ShrinkAsserts, IsFull
<1>3. Own(t) /\ pc'[t] = w
  <2>1. w \in Places
    BY DEF Places
  <2>2. pc' \in [Threads -> Places] /\ pc'[t] = w
        /\ \A u \in Threads \ {t} : pc'[u] = pc[u]
    BY <1>1, <2>1, GotoOwn
  <2> QED
    BY <1>2, <2>2 DEF Own, IInv, Kept, TypeOK, Calls
<1>4. Holding(t)' = Holding(t)
  BY <1>1, <1>3 DEF Holding
<1>5. DirtyQueued'
  BY <1>2 DEF ListInv, DirtyQueued
<1> QED
  BY <1>1, <1>2, <1>3, <1>4, <1>5, PlainThread

\* A new cell holds no block.
LEMMA PutNewItemLinked ==
  ASSUME IInv, ListInv, IInv', NEW t \in Threads, PutNewItem(t)
  PROVE  ListInv'
<1> USE DEF fileVars, history
<1>1. /\ Holding(t) /\ Goto(t, "assign")
      /\ pin' = [pin EXCEPT ![t] = ncells + 1]
      /\ ncells' = ncells + 1
      /\ UNCHANGED <<bstatus, basefile, block_index, data, fileVars, req, idx,
                     ign, got, ops, upload_queue, upVars, history>>
  BY DEF PutNewItem, Holding
<1>2. ncells + 1 \in Cells /\ bstatus[ncells + 1] = "Expired"
  <2>1. ncells \in Nat /\ ncells + 1 \in 1..Cardinality(Cells)
    BY <1>1, CellsFacts DEF IInv, Kept, TypeOK, NewBound
  <2>2. ncells + 1 \in Cells
    BY <2>1, CellsFacts DEF Cells
  <2> QED
    BY <2>1, <2>2 DEF IInv, Kept, Unmade
<1>3. Own(t) /\ pc'[t] = "assign" /\ pin'[t] = ncells + 1
  BY <1>1, <1>2, GotoOwn DEF Own, IInv, Kept, TypeOK, Calls, Places
<1>4. Holding(t)'
  BY <1>3 DEF Holding
<1>5. DirtyQueued'
  BY <1>1 DEF ListInv, DirtyQueued
<1> QED
  BY <1>1, <1>2, <1>3, <1>4, <1>5, PlainThread

\* A block is not in the cache: the thread asks for a cell.
LEMMA BeginLoadLinked ==
  ASSUME IInv, ListInv, IInv', NEW t \in Threads, BeginLoad(t)
  PROVE  ListInv'
<1> USE DEF cacheVars, history
<1>1. /\ pc[t] = "lock" /\ ~Holding(t) /\ Goto(t, "alloc")
      /\ Free(File(t)) /\ InRange(t)
      /\ UNCHANGED <<cacheVars, blocklist, filesize, fstatus, req, idx, pin,
                     ign, ops, upload_queue, upVars, history>>
  BY DEF BeginLoad, AtBlock, Holding
<1>2. Own(t) /\ pc'[t] = "alloc"
  BY <1>1, GotoOwn DEF Own, IInv, Kept, TypeOK, Calls, Places
<1>3. ~Growing(t)'
  <2>1. File(t) \in Files
    BY <1>1, RequestOf DEF Request, File
  <2>2. /\ idx[t] <= filesize[File(t)] /\ idx[t] \in Nat
        /\ filesize[File(t)] \in Nat
    <3>1. idx[t] \in 0..MaxBlocks /\ filesize[File(t)] \in 0..MaxBlocks
      BY <2>1 DEF IInv, Kept, TypeOK
    <3>2. filesize[File(t)] = Len(blocklist[File(t)])
      BY <1>1, <2>1, ThreadFacts DEF FileLengths
    <3> QED
      BY <1>1, <3>1, <3>2, BlockStoreAssumption DEF InRange
  <2> QED
    BY <1>1, <2>2 DEF Growing, File
<1>4. DirtyQueued'
  BY <1>1 DEF ListInv, DirtyQueued
<1> QED
  BY <1>1, <1>2, <1>3, <1>4, PlainThread

\* The copies from and to a cell.
LEMMA CopyLinked ==
  ASSUME IInv, ListInv, IInv', NEW t \in Threads, CopyOut(t) \/ CopyIn(t)
  PROVE  ListInv'
<1> USE DEF cacheVars, fileVars, history
<1>1. /\ pc[t] = "copy" /\ ~Holding(t) /\ Request(t) /\ AtIndex(t)
      /\ req[t].op = "read" \/ CopyIn(t)
      /\ UNCHANGED <<bstatus, basefile, block_index, blocklist, filesize,
                     fstatus, ign, upload_queue, upVars>>
  BY RequestOf DEF CopyOut, CopyIn, Holding
<1>2. DirtyQueued'
  BY <1>1 DEF ListInv, DirtyQueued
<1>3. ASSUME ToBlock(t, idx[t] + 1), idx[t] < req[t].hi PROVE ListInv'
  <2>1. idx[t] + 1 \in 0..MaxBlocks
    BY <1>1, <1>3, BlockStoreAssumption DEF Request, AtIndex
  <2>2. Own(t) /\ pc'[t] = "lock" /\ req' = req
    BY <1>3, <2>1, ToBlockOwn
  <2>3. ~Holding(t)'
    BY <2>2 DEF Holding
  <2> QED
    BY <1>1, <1>2, <2>2, <2>3, PlainThread
<1>4. ASSUME Return(t), req[t].op = "read" PROVE ListInv'
  <2>1. Own(t) /\ pc'[t] = "idle"
    BY <1>4, ReturnOwn
  <2>2. ~Holding(t)'
    BY <2>1 DEF Holding
  <2> QED
    BY <1>1, <1>2, <1>4, <2>1, <2>2, PlainThread
<1>5. ASSUME Goto(t, "touch"), pin' = [pin EXCEPT ![t] = 0],
             UNCHANGED <<req, idx>>
      PROVE  ListInv'
  <2>1. Own(t) /\ pc'[t] = "touch"
    BY <1>5, GotoOwn DEF Own, IInv, Kept, TypeOK, Calls, Places
  <2>2. ~Holding(t)'
    BY <2>1 DEF Holding
  <2> QED
    BY <1>1, <1>2, <1>5, <2>1, <2>2, PlainThread
<1> QED
  BY <1>1, <1>3, <1>4, <1>5 DEF CopyOut, CopyIn

\* What Touch does to the queue.
LEMMA TouchQueues ==
  ASSUME IInv, ListInv, NEW f \in Files, Touch(f)
  PROVE  /\ DirtyQueued' /\ fstatus'[f] = "Dirty"
         /\ \A g \in Files : fstatus[g] = "Dirty" => fstatus'[g] = "Dirty"
<1>1. /\ fstatus' = [fstatus EXCEPT ![f] = "Dirty"]
      /\ fstatus \in [Files -> {"Clean", "Dirty", "Uploading"}]
      /\ upload_queue \in Seq(Files)
      /\ upload_queue' = IF fstatus[f] = "Dirty" THEN upload_queue
                         ELSE Append(upload_queue, f)
  BY DEF Touch, IInv, Kept, TypeOK
<1>2. \A g \in Files : fstatus[g] = "Dirty" =>
                         \E i \in DOMAIN upload_queue : upload_queue[i] = g
  BY DEF ListInv, DirtyQueued
<1>3. CASE fstatus[f] = "Dirty"
  BY <1>1, <1>2, <1>3 DEF DirtyQueued
<1>4. CASE fstatus[f] # "Dirty"
  <2>1. /\ Len(upload_queue) \in Nat
        /\ DOMAIN upload_queue = 1..Len(upload_queue)
        /\ DOMAIN upload_queue' = 1..Len(upload_queue)+1
        /\ \A i \in 1..Len(upload_queue) : upload_queue'[i] = upload_queue[i]
        /\ upload_queue'[Len(upload_queue)+1] = f
    BY <1>1, <1>4, AppendProperties, LenProperties
  <2>2. \A g \in Files : fstatus[g] = "Dirty" =>
                          \E i \in DOMAIN upload_queue' : upload_queue'[i] = g
    BY <1>2, <2>1
  <2>3. \E i \in DOMAIN upload_queue' : upload_queue'[i] = f
    BY <2>1
  <2> QED
    BY <1>1, <2>2, <2>3 DEF DirtyQueued
<1> QED
  BY <1>3, <1>4

\* The end of write_bytes.
LEMMA EndWriteLinked ==
  ASSUME IInv, ListInv, IInv', NEW t \in Threads, EndWrite(t)
  PROVE  ListInv'
<1> USE DEF cacheVars, history
<1>1. /\ ~Holding(t) /\ Request(t) /\ File(t) \in Files
  BY RequestOf DEF EndWrite, Holding, Request, File
<1>2. Own(t) /\ pc'[t] = "idle"
  BY ReturnOwn DEF EndWrite
<1>3. ~Holding(t)'
  BY <1>2 DEF Holding
<1>4. /\ DirtyQueued' /\ fstatus'[File(t)] = "Dirty"
      /\ \A g \in Files : fstatus[g] = "Dirty" => fstatus'[g] = "Dirty"
  BY <1>1, TouchQueues DEF EndWrite
<1> QED
  BY <1>1, <1>2, <1>3, <1>4, PlainThread DEF EndWrite, File

\* The steps of the upload that give nothing back, and no step.
LEMMA SendLinked ==
  ASSUME IInv, ListInv, IInv',
         SendBlock \/ Commit \/ RequestFails \/ UNCHANGED vars
  PROVE  ListInv'
<1>1. /\ UNCHANGED <<cacheVars, fileVars, threadVars, upload_queue, item,
                     snap>>
      /\ upc' # "idle" => upc # "idle"
  BY DEF SendBlock, Commit, RequestFails, vars, upVars
<1>2. Plain
  BY <1>1 DEF Plain, cacheVars, fileVars, threadVars, ListInv, DirtyQueued,
     Holding, Growing, File, Writers
<1> QED
  BY <1>2, PlainLinked

\* What the lists have in the places that Pending and GrownDirty speak of, and
\* what is at hand.
LEMMA PinTyped ==
  ASSUME IInv, NEW u \in Threads, pc[u] = "assign"
  PROVE  pin[u] \in Cells
<1>1. pin[u] \in 1..ncells
  BY RequestOf DEF AtIndex
<1> QED
  BY <1>1, CellsFacts DEF IInv, Kept, TypeOK, Cells

LEMMA PendingTyped ==
  ASSUME IInv, upc # "idle", NEW i \in 1..filesize[item]
  PROVE  /\ item \in Files /\ i \in 1..Len(blocklist[item])
         /\ blocklist[item][i] \in {0} \cup Cells
<1>1. item \in Files
  BY DEF IInv, Kept, Uploads
<1>2. filesize[item] \in Nat /\ filesize[item] <= Len(blocklist[item])
  <2>1. filesize[item] \in 0..MaxBlocks
    BY <1>1 DEF IInv, Kept, TypeOK
  <2> QED
    BY <1>1, <2>1, ThreadFacts, BlockStoreAssumption DEF FileLengths
<1> QED
  BY <1>1, <1>2, ListTyped

LEMMA GrownTyped ==
  ASSUME IInv, NEW u \in Threads, Holding(u), Growing(u),
         NEW i \in filesize[File(u)]+1..idx[u]-1
  PROVE  /\ File(u) \in Files /\ i \in 1..Len(blocklist[File(u)])
         /\ blocklist[File(u)][i] \in {0} \cup Cells
<1>1. File(u) \in Files /\ AtIndex(u) /\ req[u].hi \in 0..MaxBlocks
  BY RequestOf DEF Request, File, Holding
<1>2. filesize[File(u)] \in Nat /\ idx[u] \in 1..req[u].hi
  BY <1>1, BlockStoreAssumption DEF AtIndex, IInv, Kept, TypeOK
<1>3. Len(blocklist[File(u)]) = req[u].hi
  BY ThreadFacts DEF Sized
<1>4. i \in 1..Len(blocklist[File(u)])
  BY <1>1, <1>2, <1>3, BlockStoreAssumption
<1> QED
  BY <1>1, <1>4, ListTyped

\* The other threads do not notice what is t's own.
LEMMA OwnLeaves ==
  ASSUME NEW t \in Threads, Own(t), NEW u \in Threads, u # t
  PROVE  /\ Holding(u)' = Holding(u) /\ File(u)' = File(u)
         /\ pc'[u] = pc[u] /\ req'[u] = req[u] /\ idx'[u] = idx[u]
         /\ pin'[u] = pin[u]
BY DEF Own, Holding, File

\* A block that get_blocks finds: a write makes it Dirty, and will queue it.
LEMMA GetCachedLinked ==
  ASSUME IInv, ListInv, IInv', NEW t \in Threads, GetCached(t)
  PROVE  ListInv'
<1> USE DEF fileVars, upVars, history
<1> DEFINE c == Mapped(t)
<1>1. /\ pc[t] = "lock" /\ ~Holding(t) /\ Free(File(t)) /\ InRange(t)
      /\ File(t) \in Files
      /\ UNCHANGED <<ncells, basefile, block_index, data, fileVars, req,
                     idx, ign, got, ops, upload_queue, upVars, history>>
  BY RequestOf DEF GetCached, AtBlock, Holding, Request, File
<1>2. c \in Cells /\ c # 0 /\ idx[t] \in 1..Len(blocklist[File(t)])
  BY <1>1, MappedTyped, CellsFacts DEF GetCached, Cells
<1>3. Own(t) /\ pc'[t] = "copy"
  BY <1>1, <1>2, GotoOwn DEF GetCached, Own, IInv, Kept, TypeOK, Calls, Places
<1>4. /\ \A d \in Cells : bstatus'[d] # bstatus[d] =>
           /\ bstatus[d] = "Clean" /\ bstatus'[d] = "Dirty"
           /\ d = c /\ req[t].op = "write"
      /\ bstatus' \in [Cells -> States]
  BY <1>2 DEF GetCached, IInv, Kept, TypeOK, States
<1>5. basefile[c] = File(t)
  BY <1>1, <1>2, FreeIsLive DEF Mapped
<1> HIDE DEF c
<1>6. \A u \in Threads : Holding(u)' => u # t
  BY <1>3 DEF Holding
<1>7. ClaimFree'
  <2> SUFFICES ASSUME NEW u \in Threads, pc'[u] = "assign"
               PROVE  bstatus'[pin'[u]] \in {"Ready", "Expired"}
    BY DEF ClaimFree
  <2>1. /\ pc[u] = "assign" /\ pin'[u] = pin[u]
        /\ bstatus[pin[u]] \in {"Ready", "Expired"}
    BY <1>3, OwnLeaves DEF ListInv, ClaimFree
  <2>2. pin[u] \in Cells
    BY <2>1, PinTyped
  <2> QED
    BY <2>1, <2>2, <1>4
<1>8. Owned'
  <2> SUFFICES ASSUME NEW f \in Files, NEW i \in 1..Len(blocklist[f]),
                      blocklist[f][i] # 0
               PROVE  Belongs(f, i, blocklist[f][i])'
    BY <1>1 DEF Owned
  <2>1. Belongs(f, i, blocklist[f][i]) /\ blocklist[f][i] \in Cells
    BY ListTyped DEF ListInv, Owned
  <2>2. ASSUME NEW u \in Threads, Holding(u), ign[u] = blocklist[f][i],
               File(u) = f, idx[u] = i, bstatus[ign[u]] = "Up_Expired"
        PROVE  Copying(f, i, blocklist[f][i])'
    BY <2>1, <2>2, <1>1, <1>3, <1>4, OwnLeaves DEF Copying
  <2> QED
    BY <2>1, <2>2, <1>1, <1>4 DEF Belongs, Copying, Live
<1>9. SnapshotPinned' /\ DirtyQueued' /\ Writers'
  <2>1. \A i \in DOMAIN snap : snap[i] \in {0} \cup Cells
    BY SnapTyped
  <2> QED
    BY <2>1, <1>1, <1>4, <1>6, OwnLeaves, <1>3
       DEF ListInv, SnapshotPinned, DirtyQueued, Writers, Growing, File
<1>10. DirtyCovered'
  <2>1. ASSUME NEW d \in Cells, bstatus'[d] = "Dirty"
        PROVE  Covered(basefile[d])'
    <3>1. CASE bstatus'[d] = bstatus[d]
      <4>1. Covered(basefile[d])
        BY <2>1, <3>1, CoveredNow
      <4> QED
        BY <4>1, <1>1, <1>3, OwnLeaves DEF Covered
    <3>2. CASE bstatus'[d] # bstatus[d]
      BY <3>2, <1>1, <1>3, <1>4, <1>5 DEF Covered, File
    <3> QED
      BY <3>1, <3>2
  <2> QED
    BY <2>1, <1>9, CoveredNext
<1>11. Pending'
  <2> SUFFICES ASSUME upc # "idle", NEW i \in 1..filesize[item],
                      i > Len(snap) \/ snap[i] # 0
               PROVE  Unsaved(item, i)'
    BY <1>1 DEF Pending
  <2>1. Unsaved(item, i)
    BY DEF ListInv, Pending
  <2>2. blocklist[item][i] \in Cells
    BY <2>1, PendingTyped DEF Unsaved
  <2> QED
    BY <2>1, <2>2, <1>1, <1>4 DEF Unsaved
<1>12. GrownDirty'
  <2> SUFFICES ASSUME NEW u \in Threads, Holding(u)', Growing(u)',
                      NEW i \in filesize'[File(u)']+1..idx'[u]-1
               PROVE  /\ blocklist'[File(u)'][i] # 0
                      /\ bstatus'[blocklist'[File(u)'][i]] = "Dirty"
    BY DEF GrownDirty
  <2>1. /\ Holding(u) /\ Growing(u) /\ File(u)' = File(u) /\ idx'[u] = idx[u]
    BY <1>1, <1>3, <1>6, OwnLeaves DEF Growing
  <2>2. /\ blocklist[File(u)][i] # 0
        /\ bstatus[blocklist[File(u)][i]] = "Dirty"
    BY <2>1, <1>1 DEF ListInv, GrownDirty
  <2>3. blocklist[File(u)][i] \in Cells
    BY <2>1, <2>2, <1>1, GrownTyped
  <2> QED
    BY <2>1, <2>2, <2>3, <1>1, <1>4
<1> QED
  BY <1>7, <1>8, <1>9, <1>10, <1>11, <1>12 DEF ListInv

\* Copy on write: the cell that is being uploaded is given up, and stays in the
\* list for as long as the thread looks for another one.
LEMMA BeginCopyOnWriteLinked ==
  ASSUME IInv, ListInv, IInv', NEW t \in Threads, BeginCopyOnWrite(t)
  PROVE  ListInv'
<1> USE DEF upVars, history
<1> DEFINE c == Mapped(t)
<1>1. /\ pc[t] = "lock" /\ ~Holding(t) /\ Free(File(t)) /\ InRange(t)
      /\ File(t) \in Files /\ req[t].op = "write" /\ c > 0
      /\ bstatus[c] = "Uploading"
      /\ bstatus' = [bstatus EXCEPT ![c] = "Up_Expired"]
      /\ ign' = [ign EXCEPT ![t] = c]
      /\ Goto(t, "alloc")
      /\ UNCHANGED <<ncells, basefile, block_index, data, blocklist, filesize,
                     fstatus, req, idx, pin, got, ops, upload_queue,
                     upVars, history>>
  BY RequestOf DEF BeginCopyOnWrite, AtBlock, Holding, Request, File
<1>2. c \in Cells /\ c # 0 /\ idx[t] \in 1..Len(blocklist[File(t)])
  BY <1>1, MappedTyped, CellsFacts DEF Cells
<1>3. Own(t) /\ pc'[t] = "alloc"
  BY <1>1, GotoOwn DEF Own, IInv, Kept, TypeOK, Calls, Places
<1>4. /\ bstatus'[c] = "Up_Expired" /\ bstatus[c] = "Uploading"
      /\ \A d \in Cells \ {c} : bstatus'[d] = bstatus[d]
      /\ ign'[t] = c /\ \A u \in Threads \ {t} : ign'[u] = ign[u]
  BY <1>1, <1>2 DEF IInv, Kept, TypeOK
<1>5. blocklist[File(t)][idx[t]] = c
  BY DEF Mapped
<1>6. ~Growing(t)' /\ Holding(t)' /\ File(t)' = File(t)
  <2>1. idx[t] \in 0..MaxBlocks /\ filesize[File(t)] \in 0..MaxBlocks
    BY <1>1 DEF IInv, Kept, TypeOK
  <2>2. filesize[File(t)] = Len(blocklist[File(t)])
    BY <1>1, ThreadFacts DEF FileLengths
  <2> QED
    BY <1>1, <1>3, <2>1, <2>2, BlockStoreAssumption
       DEF InRange, Growing, File, Holding
<1> HIDE DEF c
<1>7. ClaimFree'
  <2> SUFFICES ASSUME NEW u \in Threads, pc'[u] = "assign"
               PROVE  bstatus'[pin'[u]] \in {"Ready", "Expired"}
    BY DEF ClaimFree
  <2>1. /\ pc[u] = "assign" /\ pin'[u] = pin[u]
        /\ bstatus[pin[u]] \in {"Ready", "Expired"}
    BY <1>3, OwnLeaves DEF ListInv, ClaimFree
  <2> QED
    BY <2>1, <1>4, PinTyped
<1>8. Owned'
  <2> SUFFICES ASSUME NEW f \in Files, NEW i \in 1..Len(blocklist[f]),
                      blocklist[f][i] # 0
               PROVE  Belongs(f, i, blocklist[f][i])'
    BY <1>1 DEF Owned
  <2>1. Belongs(f, i, blocklist[f][i]) /\ blocklist[f][i] \in Cells
    BY ListTyped DEF ListInv, Owned
  <2>2. CASE blocklist[f][i] = c
    <3>1. f = File(t) /\ i = idx[t]
      BY <2>2, <1>1, <1>2, <1>5, OnePlace
    <3> QED
      BY <2>1, <2>2, <3>1, <1>1, <1>4, <1>6 DEF Belongs, Copying
  <2>3. CASE blocklist[f][i] # c
    <3>1. ASSUME NEW u \in Threads, Holding(u), ign[u] = blocklist[f][i],
                 File(u) = f, idx[u] = i, bstatus[ign[u]] = "Up_Expired"
          PROVE  Copying(f, i, blocklist[f][i])'
      BY <2>1, <2>3, <3>1, <1>1, <1>3, <1>4, OwnLeaves DEF Copying
    <3> QED
      BY <2>1, <2>3, <3>1, <1>1, <1>4 DEF Belongs, Copying
  <2> QED
    BY <2>2, <2>3
<1>9. SnapshotPinned' /\ DirtyQueued'
  <2>1. \A i \in DOMAIN snap : snap[i] \in {0} \cup Cells
    BY SnapTyped
  <2> QED
    BY <2>1, <1>1, <1>4 DEF ListInv, SnapshotPinned, DirtyQueued
<1>10. Writers'
  BY <1>1, <1>3, <1>4, OwnLeaves DEF ListInv, Writers, Growing, File
<1>11. DirtyCovered'
  <2>1. ASSUME NEW d \in Cells, bstatus'[d] = "Dirty"
        PROVE  Covered(basefile[d])'
    <3>1. bstatus[d] = "Dirty"
      BY <2>1, <1>4
    <3>2. Covered(basefile[d])
      BY <3>1, CoveredNow
    <3> QED
      BY <3>2, <1>1, <1>3, OwnLeaves DEF Covered
  <2> QED
    BY <2>1, <1>9, CoveredNext
<1>12. Pending'
  <2> SUFFICES ASSUME upc # "idle", NEW i \in 1..filesize[item],
                      i > Len(snap) \/ snap[i] # 0
               PROVE  Unsaved(item, i)'
    BY <1>1 DEF Pending
  <2>1. Unsaved(item, i)
    BY DEF ListInv, Pending
  <2>2. blocklist[item][i] \in Cells
    BY <2>1, PendingTyped DEF Unsaved
  <2> QED
    BY <2>1, <2>2, <1>1, <1>4 DEF Unsaved
<1>13. GrownDirty'
  <2> SUFFICES ASSUME NEW u \in Threads, Holding(u)', Growing(u)',
                      NEW i \in filesize'[File(u)']+1..idx'[u]-1
               PROVE  /\ blocklist'[File(u)'][i] # 0
                      /\ bstatus'[blocklist'[File(u)'][i]] = "Dirty"
    BY DEF GrownDirty
  <2>1. /\ Holding(u) /\ Growing(u) /\ File(u)' = File(u) /\ idx'[u] = idx[u]
    BY <1>1, <1>3, <1>6, OwnLeaves DEF Growing
  <2>2. /\ blocklist[File(u)][i] # 0
        /\ bstatus[blocklist[File(u)][i]] = "Dirty"
    BY <2>1, <1>1 DEF ListInv, GrownDirty
  <2>3. blocklist[File(u)][i] \in Cells
    BY <2>1, <2>2, <1>1, GrownTyped
  <2> QED
    BY <2>1, <2>2, <2>3, <1>1, <1>4
<1> QED
  BY <1>7, <1>8, <1>9, <1>10, <1>11, <1>12, <1>13 DEF ListInv

\* get_free_from_list takes a cell that is in no list, or, Clean, takes it out
\* of the one list that has it.
LEMMA TakenFacts ==
  ASSUME IInv, ListInv, NEW t \in Threads, NEW c \in Cells,
         TakeExpired(t, c) \/ Evict(t, c)
  PROVE  /\ Own(t) /\ Holding(t) /\ Holding(t)' /\ pc'[t] = "assign"
         /\ pin'[t] = c /\ req' = req /\ idx' = idx
         /\ bstatus[c] \in {"Expired", "Clean"} /\ bstatus'[c] = "Ready"
         /\ \A d \in Cells \ {c} : bstatus'[d] = bstatus[d]
         /\ \A f \in Files : Len(blocklist'[f]) = Len(blocklist[f])
         /\ \A f \in Files : \A i \in 1..Len(blocklist[f]) :
              blocklist'[f][i] = IF blocklist[f][i] = c THEN 0
                                 ELSE blocklist[f][i]
         /\ UNCHANGED <<ncells, basefile, block_index, data, filesize, fstatus,
                        m_mutex, ign, got, ops, upload_queue, upVars, history>>
<1>1. Take(t, c) /\ bstatus[c] \in {"Expired", "Clean"}
  BY DEF TakeExpired, Evict, Evictable
<1>2. /\ Own(t) /\ Holding(t) /\ Holding(t)' /\ pc'[t] = "assign"
      /\ pin'[t] = c /\ req' = req /\ idx' = idx
      /\ bstatus' = [bstatus EXCEPT ![c] = "Ready"]
  BY <1>1, TakeFacts
<1>3. bstatus'[c] = "Ready" /\ \A d \in Cells \ {c} : bstatus'[d] = bstatus[d]
  BY <1>2 DEF IInv, Kept, TypeOK
<1>4. UNCHANGED <<ncells, basefile, block_index, data, filesize, fstatus,
                  m_mutex, ign, got, ops, upload_queue, upVars, history>>
  BY <1>1 DEF Take
<1>5. CASE TakeExpired(t, c)
  <2>1. blocklist' = blocklist /\ bstatus[c] = "Expired" /\ c # 0
    BY <1>5, CellsFacts DEF TakeExpired, Cells
  <2>2. \A f \in Files : \A i \in 1..Len(blocklist[f]) : blocklist[f][i] # c
    BY <2>1 DEF ListInv, Owned, Belongs, Copying, Live
  <2> QED
    BY <1>1, <1>2, <1>3, <1>4, <2>1, <2>2
<1>6. CASE Evict(t, c)
  <2>1. PICK f \in Files, i \in 1..Len(blocklist[basefile[c]]) :
          f = basefile[c] /\ i = block_index[c] /\ blocklist[f][i] = c
    BY <1>6 DEF Evict, Evictable, IInv, Kept, MapsBack, InList, Live
  <2>2. blocklist' = [blocklist EXCEPT ![f][i] = 0] /\ c # 0
    BY <1>6, <2>1, CellsFacts DEF Evict, Cells
  <2>3. ASSUME NEW g \in Files
        PROVE  /\ Len(blocklist'[g]) = Len(blocklist[g])
               /\ \A j \in 1..Len(blocklist[g]) :
                    blocklist'[g][j] = IF g = f /\ j = i THEN 0
                                       ELSE blocklist[g][j]
    <3> DEFINE e == [blocklist[f] EXCEPT ![i] = 0]
    <3>1. /\ blocklist[f] \in Seq({0} \cup Cells)
          /\ blocklist \in [Files -> Seq({0} \cup Cells)]
      BY DEF IInv, Kept, TypeOK
    <3>2. /\ Len(e) = Len(blocklist[f])
          /\ \A j \in 1..Len(blocklist[f]) :
               e[j] = IF j = i THEN 0 ELSE blocklist[f][j]
      BY <3>1, <2>1, ExceptSeq
    <3>3. blocklist' = [blocklist EXCEPT ![f] = e]
      BY <2>2
    <3> HIDE DEF e
    <3> QED
      BY <3>1, <3>2, <3>3
  <2>4. ASSUME NEW g \in Files, NEW j \in 1..Len(blocklist[g]),
               blocklist[g][j] = c
        PROVE  g = f /\ j = i
    BY <2>1, <2>2, <2>4, OnePlace
  <2> QED
    BY <1>1, <1>2, <1>3, <1>4, <2>1, <2>3, <2>4
<1> QED
  BY <1>5, <1>6

LEMMA TakeLinked ==
  ASSUME IInv, ListInv, IInv', NEW t \in Threads, NEW c \in Cells,
         TakeExpired(t, c) \/ Evict(t, c)
  PROVE  ListInv'
<1> USE DEF upVars, history
<1>1. /\ Own(t) /\ Holding(t) /\ Holding(t)' /\ pc'[t] = "assign"
      /\ pin'[t] = c /\ req' = req /\ idx' = idx
      /\ bstatus[c] \in {"Expired", "Clean"} /\ bstatus'[c] = "Ready"
      /\ \A d \in Cells \ {c} : bstatus'[d] = bstatus[d]
      /\ \A f \in Files : Len(blocklist'[f]) = Len(blocklist[f])
      /\ \A f \in Files : \A i \in 1..Len(blocklist[f]) :
           blocklist'[f][i] = IF blocklist[f][i] = c THEN 0
                              ELSE blocklist[f][i]
      /\ UNCHANGED <<ncells, basefile, block_index, data, filesize, fstatus,
                     m_mutex, ign, got, ops, upload_queue, upVars, history>>
  BY TakenFacts
<1>2. \A u \in Threads : /\ Holding(u)' = Holding(u) /\ File(u)' = File(u)
                         /\ Growing(u)' = Growing(u)
  BY <1>1, OwnLeaves DEF Growing, File, Holding
<1>3. ClaimFree'
  <2> SUFFICES ASSUME NEW u \in Threads, pc'[u] = "assign"
               PROVE  bstatus'[pin'[u]] \in {"Ready", "Expired"}
    BY DEF ClaimFree
  <2>1. CASE u # t
    <3>1. /\ pc[u] = "assign" /\ pin'[u] = pin[u]
          /\ bstatus[pin[u]] \in {"Ready", "Expired"}
      BY <2>1, <1>1, OwnLeaves DEF ListInv, ClaimFree
    <3> QED
      BY <3>1, <1>1, PinTyped
  <2> QED
    BY <2>1, <1>1
<1>4. Owned'
  <2> SUFFICES ASSUME NEW f \in Files, NEW i \in 1..Len(blocklist[f]),
                      blocklist'[f][i] # 0
               PROVE  Belongs(f, i, blocklist[f][i])'
    BY <1>1 DEF Owned
  <2>1. /\ Belongs(f, i, blocklist[f][i]) /\ blocklist[f][i] \in Cells
        /\ blocklist[f][i] # c /\ blocklist'[f][i] = blocklist[f][i]
    BY <1>1, ListTyped DEF ListInv, Owned
  <2> QED
    BY <2>1, <1>1, <1>2 DEF Belongs, Copying
<1>5. SnapshotPinned' /\ DirtyQueued' /\ Writers'
  <2>1. \A i \in DOMAIN snap : snap[i] \in {0} \cup Cells
    BY SnapTyped
  <2>2. Writers'
    BY <1>1, <1>2, OwnLeaves DEF ListInv, Writers
  <2> QED
    BY <2>1, <2>2, <1>1 DEF ListInv, SnapshotPinned, DirtyQueued
<1>6. DirtyCovered'
  <2>1. ASSUME NEW d \in Cells, bstatus'[d] = "Dirty"
        PROVE  Covered(basefile[d])'
    <3>1. bstatus[d] = "Dirty"
      BY <2>1, <1>1
    <3>2. Covered(basefile[d])
      BY <3>1, CoveredNow
    <3> QED
      BY <3>2, <1>1, OwnLeaves DEF Covered
  <2> QED
    BY <2>1, <1>5, CoveredNext
<1>7. Pending'
  <2> SUFFICES ASSUME upc # "idle", NEW i \in 1..filesize[item],
                      i > Len(snap) \/ snap[i] # 0
               PROVE  Unsaved(item, i)'
    BY <1>1 DEF Pending
  <2>1. Unsaved(item, i)
    BY DEF ListInv, Pending
  <2>2. /\ item \in Files /\ i \in 1..Len(blocklist[item])
        /\ blocklist[item][i] \in Cells
    BY <2>1, PendingTyped DEF Unsaved
  <2> QED
    BY <2>1, <2>2, <1>1 DEF Unsaved
<1>8. GrownDirty'
  <2> SUFFICES ASSUME NEW u \in Threads, Holding(u)', Growing(u)',
                      NEW i \in filesize'[File(u)']+1..idx'[u]-1
               PROVE  /\ blocklist'[File(u)'][i] # 0
                      /\ bstatus'[blocklist'[File(u)'][i]] = "Dirty"
    BY DEF GrownDirty
  <2>1. /\ Holding(u) /\ Growing(u) /\ File(u)' = File(u) /\ idx'[u] = idx[u]
    BY <1>1, <1>2
  <2>2. /\ blocklist[File(u)][i] # 0
        /\ bstatus[blocklist[File(u)][i]] = "Dirty"
    BY <2>1, <1>1 DEF ListInv, GrownDirty
  <2>3. /\ blocklist[File(u)][i] \in Cells /\ File(u) \in Files
        /\ i \in 1..Len(blocklist[File(u)])
    BY <2>1, <2>2, <1>1, GrownTyped
  <2> QED
    BY <2>1, <2>2, <2>3, <1>1
<1> QED
  BY <1>3, <1>4, <1>5, <1>6, <1>7, <1>8 DEF ListInv

\* truncate to a longer file, or a write beyond the end: the new places are
\* empty.
LEMMA GrowLinked ==
  ASSUME IInv, ListInv, IInv', NEW t \in Threads, Grow(t)
  PROVE  ListInv'
<1> USE DEF upVars
<1> DEFINE f == File(t)
           n == Len(blocklist[f])
<1>1. /\ pc[t] = "resize" /\ ~Holding(t) /\ f \in Files /\ ign[t] = 0
      /\ Own(t) /\ pc'[t] = "alloc" /\ req' = req /\ Holding(t)'
      /\ idx'[t] = filesize[f] + 1 /\ filesize[f] = n /\ n \in Nat
      /\ \A u \in Threads \ {t} : Holding(u) => File(u) # f
      /\ \A g \in Files \ {f} : blocklist'[g] = blocklist[g]
      /\ \A j \in 1..n : blocklist'[f][j] = blocklist[f][j]
      /\ \A j \in n+1..Len(blocklist'[f]) : blocklist'[f][j] = 0
      /\ Len(blocklist'[f]) \in Nat
      /\ UNCHANGED <<ncells, bstatus, basefile, block_index, data, filesize,
                     fstatus, req, pin, ign, got, ops, upload_queue, upVars,
                     content, exposed>>
  BY GrowFacts DEF Grew
<1> HIDE DEF f, n
<1>2. ASSUME NEW g \in Files, NEW i \in 1..Len(blocklist'[g]),
             blocklist'[g][i] # 0
      PROVE  i \in 1..Len(blocklist[g]) /\ blocklist'[g][i] = blocklist[g][i]
  <2>1. CASE g = f
    <3>1. i \in 1..n
      BY <1>1, <1>2, <2>1
    <3> QED
      BY <1>1, <2>1, <3>1 DEF n
  <2>2. CASE g # f
    BY <1>1, <2>2
  <2> QED
    BY <2>1, <2>2
<1>3. ASSUME NEW u \in Threads, Holding(u)
      PROVE  /\ u # t /\ Holding(u)' /\ File(u)' = File(u)
             /\ Growing(u)' = Growing(u)
  BY <1>1, <1>3, OwnLeaves DEF Growing, File
<1>4. ClaimFree'
  <2> SUFFICES ASSUME NEW u \in Threads, pc'[u] = "assign"
               PROVE  bstatus'[pin'[u]] \in {"Ready", "Expired"}
    BY DEF ClaimFree
  <2>1. u # t
    BY <1>1
  <2>2. pc[u] = "assign" /\ pin'[u] = pin[u]
    BY <1>1, <2>1, OwnLeaves
  <2> QED
    BY <2>2, <1>1 DEF ListInv, ClaimFree
<1>5. Owned'
  <2> SUFFICES ASSUME NEW g \in Files, NEW i \in 1..Len(blocklist'[g]),
                      blocklist'[g][i] # 0
               PROVE  Belongs(g, i, blocklist[g][i])'
    BY DEF Owned
  <2>1. Belongs(g, i, blocklist[g][i]) /\ blocklist'[g][i] = blocklist[g][i]
    BY <1>2 DEF ListInv, Owned
  <2>2. ASSUME NEW u \in Threads, Holding(u)
        PROVE  Holding(u)' /\ File(u)' = File(u) /\ idx'[u] = idx[u]
    BY <1>1, <1>3, <2>2, OwnLeaves
  <2> QED
    BY <2>1, <2>2, <1>1 DEF Belongs, Copying
<1>6. SnapshotPinned' /\ DirtyQueued'
  BY <1>1 DEF ListInv, SnapshotPinned, DirtyQueued
<1>7. Writers'
  <2> SUFFICES ASSUME NEW u \in Threads
               PROVE  /\ ign'[u] # 0 => req'[u].op = "write"
                      /\ pc'[u] = "resize" \/ (Holding(u)' /\ Growing(u)')
                           => req'[u].op # "read"
    BY DEF Writers
  <2>1. CASE u = t
    BY <2>1, <1>1 DEF ListInv, Writers
  <2>2. CASE u # t
    <3>1. /\ Holding(u)' = Holding(u) /\ pc'[u] = pc[u]
          /\ Growing(u)' = Growing(u)
      BY <2>2, <1>1, OwnLeaves DEF Growing
    <3> QED
      BY <3>1, <1>1 DEF ListInv, Writers
  <2> QED
    BY <2>1, <2>2
<1>8. DirtyCovered'
  <2>1. ASSUME NEW d \in Cells, bstatus'[d] = "Dirty"
        PROVE  Covered(basefile[d])'
    <3>1. Covered(basefile[d])
      BY <2>1, <1>1, CoveredNow
    <3> QED
      BY <3>1, <1>1, OwnLeaves DEF Covered
  <2> QED
    BY <2>1, <1>6, CoveredNext
<1>9. Pending'
  <2> SUFFICES ASSUME upc # "idle", NEW i \in 1..filesize[item],
                      i > Len(snap) \/ snap[i] # 0
               PROVE  Unsaved(item, i)'
    BY <1>1 DEF Pending
  <2>1. Unsaved(item, i)
    BY DEF ListInv, Pending
  <2>2. item \in Files /\ i \in 1..Len(blocklist[item])
    BY PendingTyped
  <2>3. blocklist'[item][i] = blocklist[item][i]
    BY <2>2, <1>1 DEF n
  <2> QED
    BY <2>1, <2>3, <1>1 DEF Unsaved
<1>10. GrownDirty'
  <2> SUFFICES ASSUME NEW u \in Threads, Holding(u)', Growing(u)',
                      NEW i \in filesize'[File(u)']+1..idx'[u]-1
               PROVE  /\ blocklist'[File(u)'][i] # 0
                      /\ bstatus'[blocklist'[File(u)'][i]] = "Dirty"
    BY DEF GrownDirty
  <2>1. CASE u = t
    <3>1. File(u)' = f
      BY <2>1, <1>1 DEF File, f
    <3> QED
      BY <2>1, <3>1, <1>1
  <2>2. CASE u # t
    <3>1. Holding(u) /\ Growing(u) /\ File(u)' = File(u) /\ idx'[u] = idx[u]
      BY <2>2, <1>1, OwnLeaves DEF Growing
    <3>2. File(u) \in Files \ {f}
      BY <2>2, <3>1, <1>1, RequestOf DEF Request, File, Holding
    <3> QED
      BY <3>1, <3>2, <1>1 DEF ListInv, GrownDirty
  <2> QED
    BY <2>1, <2>2
<1> QED
  BY <1>4, <1>5, <1>6, <1>7, <1>8, <1>9, <1>10 DEF ListInv

\* truncate to a shorter file: no other place has a cell that is given up, and
\* one that is being uploaded stays with the snapshot.
LEMMA ShrunkFacts ==
  ASSUME IInv, ListInv, NEW t \in Threads, Shrink(t)
  PROVE  /\ \A c \in Gone(t) : c \in Cells /\ bstatus[c] \in Live
                                           /\ basefile[c] = File(t)
         /\ \A g \in Files : \A i \in 1..Len(blocklist'[g]) :
              /\ i \in 1..Len(blocklist[g])
              /\ blocklist'[g][i] = blocklist[g][i]
              /\ blocklist[g][i] # 0 =>
                   bstatus'[blocklist[g][i]] = bstatus[blocklist[g][i]]
<1> DEFINE f == File(t)
           n == req[t].hi
<1>1. /\ f \in Files /\ Free(f) /\ n \in Nat /\ n <= Len(blocklist[f])
      /\ Len(blocklist[f]) \in Nat /\ Len(blocklist'[f]) = n
      /\ \A g \in Files \ {f} : blocklist'[g] = blocklist[g]
      /\ \A j \in 1..n : blocklist'[f][j] = blocklist[f][j]
      /\ \A c \in Cells \ Gone(t) : bstatus'[c] = bstatus[c]
  BY ShrinkFacts DEF Shrunk
<1>2. \A c \in Gone(t) :
        /\ c # 0
        /\ \E j \in 1..Len(blocklist[f]) : j > n /\ blocklist[f][j] = c
  BY <1>1 DEF Gone
<1> HIDE DEF f, n
<1>3. ASSUME NEW c \in Gone(t)
      PROVE  c \in Cells /\ bstatus[c] \in Live /\ basefile[c] = f
  BY <1>1, <1>2, FreeIsLive
<1>4. ASSUME NEW g \in Files, NEW i \in 1..Len(blocklist'[g])
      PROVE  /\ i \in 1..Len(blocklist[g])
             /\ blocklist'[g][i] = blocklist[g][i]
             /\ blocklist[g][i] # 0 =>
                  bstatus'[blocklist[g][i]] = bstatus[blocklist[g][i]]
  <2>1. /\ i \in 1..Len(blocklist[g]) /\ blocklist'[g][i] = blocklist[g][i]
        /\ g = f => i <= n
    BY <1>1
  <2>2. ASSUME blocklist[g][i] # 0 PROVE blocklist[g][i] \in Cells \ Gone(t)
    <3>1. blocklist[g][i] \in Cells
      BY <2>1, <2>2, ListTyped
    <3>2. ASSUME blocklist[g][i] \in Gone(t) PROVE FALSE
      <4>1. PICK j \in 1..Len(blocklist[f]) :
              j > n /\ blocklist[f][j] = blocklist[g][i]
        BY <3>2, <1>2
      <4>2. g = f /\ i = j
        BY <4>1, <2>1, <2>2, <1>1, OnePlace
      <4> QED
        BY <4>1, <4>2, <2>1, <1>1
    <3> QED
      BY <3>1, <3>2
  <2> QED
    BY <2>1, <2>2, <1>1
<1> QED
  BY <1>3, <1>4 DEF f

LEMMA ShrinkLinked ==
  ASSUME IInv, ListInv, IInv', NEW t \in Threads, Shrink(t)
  PROVE  ListInv'
<1> USE DEF upVars
<1> DEFINE f == File(t)
<1>1. /\ ~Holding(t) /\ f \in Files /\ ign[t] = 0 /\ ~Holding(t)'
      /\ Own(t) /\ pc'[t] \in {"lock", "idle"} /\ Touch(f)
      /\ \A u \in Threads \ {t} : Holding(u) => File(u) \in Files \ {f}
      /\ \A g \in Files \ {f} : /\ blocklist'[g] = blocklist[g]
                                /\ filesize'[g] = filesize[g]
      /\ filesize'[f] = Len(blocklist'[f])
      /\ \A c \in Cells \ Gone(t) : bstatus'[c] = bstatus[c]
      /\ \A c \in Cells \cap Gone(t) :
           /\ bstatus[c] = "Uploading" => bstatus'[c] = "Up_Expired"
           /\ bstatus[c] # "Uploading" => bstatus'[c] = "Expired"
           /\ bstatus[c] \notin {"Expired", "Ready"}
      /\ UNCHANGED <<ncells, basefile, block_index, data, m_mutex, ign, got,
                     ops, upVars>>
  BY ShrinkFacts DEF Shrunk
<1>2. /\ \A c \in Gone(t) : c \in Cells /\ bstatus[c] \in Live
      /\ \A g \in Files : \A i \in 1..Len(blocklist'[g]) :
           /\ i \in 1..Len(blocklist[g])
           /\ blocklist'[g][i] = blocklist[g][i]
           /\ blocklist[g][i] # 0 =>
                bstatus'[blocklist[g][i]] = bstatus[blocklist[g][i]]
  BY ShrunkFacts
<1>3. /\ DirtyQueued' /\ fstatus'[f] = "Dirty"
      /\ \A g \in Files : fstatus[g] = "Dirty" => fstatus'[g] = "Dirty"
  BY <1>1, TouchQueues
<1> HIDE DEF f
<1>4. ASSUME NEW u \in Threads, Holding(u) \/ Holding(u)'
      PROVE  /\ u # t /\ Holding(u) /\ Holding(u)' /\ File(u)' = File(u)
             /\ Growing(u)' = Growing(u) /\ idx'[u] = idx[u]
  BY <1>1, <1>4, OwnLeaves DEF Growing, File
<1>5. ClaimFree'
  <2> SUFFICES ASSUME NEW u \in Threads, pc'[u] = "assign"
               PROVE  bstatus'[pin'[u]] \in {"Ready", "Expired"}
    BY DEF ClaimFree
  <2>1. /\ pc[u] = "assign" /\ pin'[u] = pin[u]
        /\ bstatus[pin[u]] \in {"Ready", "Expired"}
    BY <1>1, OwnLeaves DEF ListInv, ClaimFree
  <2> QED
    BY <2>1, <1>1, PinTyped
<1>6. Owned'
  <2> SUFFICES ASSUME NEW g \in Files, NEW i \in 1..Len(blocklist'[g]),
                      blocklist'[g][i] # 0
               PROVE  Belongs(g, i, blocklist[g][i])'
    BY DEF Owned
  <2>1. /\ Belongs(g, i, blocklist[g][i]) /\ blocklist'[g][i] = blocklist[g][i]
        /\ bstatus'[blocklist[g][i]] = bstatus[blocklist[g][i]]
    BY <1>2 DEF ListInv, Owned
  <2> QED
    BY <2>1, <1>1, <1>4 DEF Belongs, Copying
<1>7. SnapshotPinned'
  <2> SUFFICES ASSUME NEW i \in DOMAIN snap, snap[i] > 0
               PROVE  /\ bstatus'[snap[i]] \in {"Uploading", "Up_Expired"}
                      /\ basefile[snap[i]] = item
                      /\ block_index[snap[i]] = i
    BY <1>1 DEF SnapshotPinned
  <2>1. /\ bstatus[snap[i]] \in {"Uploading", "Up_Expired"}
        /\ basefile[snap[i]] = item
        /\ block_index[snap[i]] = i
    BY DEF ListInv, SnapshotPinned
  <2>2. snap[i] \in Cells
    BY SnapTyped
  <2> QED
    BY <2>1, <2>2, <1>1, <1>2 DEF Live
<1>8. Writers'
  <2> SUFFICES ASSUME NEW u \in Threads
               PROVE  /\ ign'[u] # 0 => req'[u].op = "write"
                      /\ pc'[u] = "resize" \/ (Holding(u)' /\ Growing(u)')
                           => req'[u].op # "read"
    BY DEF Writers
  <2>1. CASE u = t
    BY <2>1, <1>1
  <2>2. CASE u # t
    BY <2>2, <1>1, <1>4, OwnLeaves DEF ListInv, Writers
  <2> QED
    BY <2>1, <2>2
<1>9. DirtyCovered'
  <2>1. ASSUME NEW d \in Cells, bstatus'[d] = "Dirty"
        PROVE  Covered(basefile[d])'
    <3>1. bstatus[d] = "Dirty"
      BY <2>1, <1>1
    <3>2. Covered(basefile[d]) /\ basefile'[d] = basefile[d]
          /\ basefile[d] \in Files
      BY <3>1, <1>1, CoveredNow
    <3> QED
      BY <3>2, <1>1, <1>3, OwnLeaves DEF Covered, f, File
  <2> QED
    BY <2>1, <1>3, CoveredNext
<1>10. Pending'
  <2> SUFFICES ASSUME upc # "idle", NEW i \in 1..filesize'[item],
                      i > Len(snap) \/ snap[i] # 0
               PROVE  Unsaved(item, i)'
    BY <1>1 DEF Pending
  <2>1. item \in Files
    BY DEF IInv, Kept, Uploads
  <2>2. i \in 1..Len(blocklist'[item]) /\ i \in 1..filesize[item]
    <3>1. CASE item = f
      <4>1. f \in Files /\ Len(blocklist[f]) = filesize[f]
        BY ShrinkFacts DEF Shrunk, f
      <4> QED
        BY <4>1, <3>1, <1>1, <1>2
    <3>2. CASE item # f
      <4>1. /\ filesize'[item] = filesize[item]
            /\ blocklist'[item] = blocklist[item]
        BY <3>2, <2>1, <1>1
      <4>2. i \in 1..Len(blocklist[item])
        BY <4>1, PendingTyped
      <4> QED
        BY <4>1, <4>2
    <3> QED
      BY <3>1, <3>2
  <2>3. Unsaved(item, i)
    BY <2>2 DEF ListInv, Pending
  <2> QED
    BY <2>1, <2>2, <2>3, <1>1, <1>2 DEF Unsaved
<1>11. GrownDirty'
  <2> SUFFICES ASSUME NEW u \in Threads, Holding(u)', Growing(u)',
                      NEW i \in filesize'[File(u)']+1..idx'[u]-1
               PROVE  /\ blocklist'[File(u)'][i] # 0
                      /\ bstatus'[blocklist'[File(u)'][i]] = "Dirty"
    BY DEF GrownDirty
  <2>1. /\ Holding(u) /\ Growing(u) /\ File(u)' = File(u) /\ idx'[u] = idx[u]
        /\ File(u) \in Files \ {f}
    BY <1>1, <1>4
  <2>2. /\ blocklist[File(u)][i] # 0
        /\ bstatus[blocklist[File(u)][i]] = "Dirty"
    BY <2>1, <1>1 DEF ListInv, GrownDirty
  <2>3. i \in 1..Len(blocklist[File(u)])
    BY <2>1, <1>1, GrownTyped
  <2> QED
    BY <2>1, <2>2, <2>3, <1>1, <1>2
<1> QED
  BY <1>3, <1>5, <1>6, <1>7, <1>8, <1>9, <1>10, <1>11 DEF ListInv

\* The cell that is handed out is in no list, not in the snapshot and at no
\* other thread; what the step changes is its own place.
Placed(t) ==
  /\ pin[t] \in Cells /\ pin[t] # 0
  /\ bstatus[pin[t]] \in {"Ready", "Expired"}
  /\ bstatus'[pin[t]] \in {"Clean", "Dirty"}
  /\ basefile'[pin[t]] = File(t) /\ block_index'[pin[t]] = idx[t]
  /\ File(t) \in Files /\ idx[t] \in 1..Len(blocklist[File(t)])
  /\ blocklist'[File(t)][idx[t]] = pin[t]
  /\ blocklist[File(t)][idx[t]] = ign[t]
  /\ \A d \in Cells \ {pin[t]} :
       /\ bstatus'[d] = bstatus[d] /\ basefile'[d] = basefile[d]
       /\ block_index'[d] = block_index[d]
  /\ \A g \in Files : /\ Len(blocklist'[g]) = Len(blocklist[g])
                      /\ Len(blocklist[g]) \in Nat
  /\ \A g \in Files : \A i \in 1..Len(blocklist[g]) :
       /\ blocklist[g][i] # pin[t]
       /\ g # File(t) \/ i # idx[t] => blocklist'[g][i] = blocklist[g][i]
  /\ \A i \in DOMAIN snap : snap[i] # pin[t]
  /\ \A u \in Threads \ {t} : pc[u] = "assign" => pin[u] # pin[t]
  /\ \A u \in Threads \ {t} : Holding(u) => File(u) \in Files \ {File(t)}

LEMMA PlacedFacts ==
  ASSUME IInv, ListInv, OneClaim, NEW t \in Threads, Assigned(t), Own(t)
  PROVE  Placed(t)
<1> DEFINE f == File(t)
           c == pin[t]
<1>1. /\ Holding(t) /\ f \in Files /\ idx[t] \in 1..Len(blocklist[f])
      /\ \A g \in Files : Len(blocklist'[g]) = Len(blocklist[g])
      /\ \A g \in Files \ {f} : blocklist'[g] = blocklist[g]
      /\ \A j \in 1..Len(blocklist[f]) :
           blocklist'[f][j] = IF j = idx[t] THEN c ELSE blocklist[f][j]
      /\ \A u \in Threads \ {t} : Holding(u) => File(u) \in Files \ {f}
  BY AssignedFacts
<1>2. c \in Cells /\ c # 0 /\ bstatus[c] \in {"Ready", "Expired"}
  BY PinTyped, CellsFacts DEF Assigned, ListInv, ClaimFree, Cells
<1>3. /\ bstatus'[c] \in {"Clean", "Dirty"}
      /\ basefile'[c] = f /\ block_index'[c] = idx[t]
      /\ \A d \in Cells \ {c} :
           /\ bstatus'[d] = bstatus[d] /\ basefile'[d] = basefile[d]
           /\ block_index'[d] = block_index[d]
  BY <1>2 DEF Assigned, IInv, Kept, TypeOK
<1>4. \A g \in Files : \A i \in 1..Len(blocklist[g]) : blocklist[g][i] # c
  BY <1>2 DEF ListInv, Owned, Belongs, Copying, Live
<1>5. \A i \in DOMAIN snap : snap[i] # c
  <2> SUFFICES ASSUME NEW i \in DOMAIN snap, snap[i] = c PROVE FALSE
    OBVIOUS
  <2>1. snap[i] > 0
    BY <1>2, CellsFacts DEF Cells
  <2> QED
    BY <2>1, <1>2 DEF ListInv, SnapshotPinned
<1>6. \A u \in Threads \ {t} : pc[u] = "assign" => pin[u] # c
  BY DEF OneClaim, Assigned
<1>7. blocklist[f][idx[t]] = ign[t]
  BY <1>1, ThreadFacts DEF Waits
<1>8. \A g \in Files : Len(blocklist[g]) \in Nat
  BY ListTyped
<1> HIDE DEF f, c
<1>9. /\ blocklist'[f][idx[t]] = c
      /\ \A g \in Files : \A i \in 1..Len(blocklist[g]) :
           g # f \/ i # idx[t] => blocklist'[g][i] = blocklist[g][i]
  BY <1>1
<1> QED
  BY <1>1, <1>2, <1>3, <1>4, <1>5, <1>6, <1>7, <1>8, <1>9 DEF Placed, f, c

\* What holds of lists, cells and snapshot after it.
LEMMA AssignedLinked ==
  ASSUME IInv, ListInv, OneClaim, IInv', NEW t \in Threads, Assigned(t),
         Own(t), DirtyQueued',
         \A g \in Files : fstatus[g] = "Dirty" => fstatus'[g] = "Dirty",
         bstatus'[pin[t]] = "Dirty" => req[t].op # "read",
         req[t].op # "read" => \/ fstatus'[File(t)] = "Dirty"
                               \/ pc'[t] # "idle" /\ req'[t] = req[t]
  PROVE  ClaimFree' /\ Owned' /\ SnapshotPinned' /\ DirtyCovered'
<1> USE DEF upVars
<1> DEFINE f == File(t)
           c == pin[t]
<1>1. Placed(t)
  BY PlacedFacts
<1>2. /\ pc[t] = "assign" /\ pc'[t] # "assign"
      /\ \A u \in Threads \ {t} : ign'[u] = ign[u]
      /\ item' = item /\ snap' = snap
  BY DEF Assigned
<1>3. ClaimFree'
  <2> SUFFICES ASSUME NEW u \in Threads, pc'[u] = "assign"
               PROVE  bstatus'[pin'[u]] \in {"Ready", "Expired"}
    BY DEF ClaimFree
  <2>1. /\ pc[u] = "assign" /\ pin'[u] = pin[u] /\ u # t
        /\ bstatus[pin[u]] \in {"Ready", "Expired"}
    BY <1>2, OwnLeaves DEF ListInv, ClaimFree
  <2>2. pin[u] \in Cells \ {c}
    BY <2>1, <1>1, PinTyped DEF Placed
  <2> QED
    BY <2>1, <2>2, <1>1 DEF Placed
<1>4. Owned'
  <2> SUFFICES ASSUME NEW g \in Files, NEW i \in 1..Len(blocklist'[g]),
                      blocklist'[g][i] # 0
               PROVE  Belongs(g, i, blocklist[g][i])'
    BY DEF Owned
  <2>1. i \in 1..Len(blocklist[g])
    BY <1>1 DEF Placed
  <2>2. CASE g = f /\ i = idx[t]
    BY <2>2, <1>1 DEF Belongs, Live, Placed
  <2>3. CASE ~(g = f /\ i = idx[t])
    <3>1. blocklist'[g][i] = blocklist[g][i] /\ blocklist[g][i] # c
      BY <2>1, <2>3, <1>1 DEF Placed
    <3>2. blocklist[g][i] \in Cells \ {c} /\ Belongs(g, i, blocklist[g][i])
      BY <2>1, <3>1, ListTyped DEF ListInv, Owned
    <3>3. /\ basefile'[blocklist[g][i]] = g
          /\ block_index'[blocklist[g][i]] = i
          /\ bstatus'[blocklist[g][i]] = bstatus[blocklist[g][i]]
      BY <3>2, <1>1 DEF Belongs, Placed
    <3>4. ASSUME Copying(g, i, blocklist[g][i])
          PROVE  Copying(g, i, blocklist[g][i])'
      <4>1. PICK u \in Threads : /\ Holding(u) /\ File(u) = g /\ idx[u] = i
                                 /\ ign[u] = blocklist[g][i]
        BY <3>4 DEF Copying
      <4>2. u # t
        BY <4>1, <2>3
      <4> QED
        BY <4>1, <4>2, <3>1, <3>3, <3>4, <1>2, OwnLeaves DEF Copying
    <3> QED
      BY <3>1, <3>2, <3>3, <3>4 DEF Belongs
  <2> QED
    BY <2>2, <2>3
<1>5. SnapshotPinned'
  <2> SUFFICES ASSUME NEW i \in DOMAIN snap, snap[i] > 0
               PROVE  /\ bstatus'[snap[i]] \in {"Uploading", "Up_Expired"}
                      /\ basefile'[snap[i]] = item
                      /\ block_index'[snap[i]] = i
    BY <1>2 DEF SnapshotPinned
  <2>1. snap[i] \in Cells \ {c}
    BY <1>1, SnapTyped DEF Placed
  <2> QED
    BY <2>1, <1>1 DEF ListInv, SnapshotPinned, Placed
<1>6. DirtyCovered'
  <2>1. ASSUME NEW d \in Cells, bstatus'[d] = "Dirty"
        PROVE  Covered(basefile[d])'
    <3>1. CASE d = c
      <4>1. basefile'[d] = f /\ req[t].op # "read"
        BY <2>1, <3>1, <1>1 DEF Placed
      <4> QED
        BY <4>1 DEF Covered, File
    <3>2. CASE d # c
      <4>1. bstatus[d] = "Dirty" /\ basefile'[d] = basefile[d]
        BY <2>1, <3>2, <1>1 DEF Placed
      <4>2. Covered(basefile[d]) /\ basefile[d] \in Files
        BY <4>1, CoveredNow
      <4>3. CASE fstatus[basefile[d]] = "Dirty"
        BY <4>1, <4>2, <4>3 DEF Covered
      <4>4. ASSUME NEW u \in Threads, pc[u] # "idle", req[u].op # "read",
                   req[u].f = basefile[d]
            PROVE  Covered(basefile[d])'
        <5>1. CASE u = t
          BY <4>1, <4>4, <5>1 DEF Covered, File
        <5>2. CASE u # t
          BY <4>1, <4>4, <5>2, OwnLeaves DEF Covered
        <5> QED
          BY <5>1, <5>2
      <4> QED
        BY <4>2, <4>3, <4>4 DEF Covered
    <3> QED
      BY <3>1, <3>2
  <2> QED
    BY <2>1, CoveredNext
<1> QED
  BY <1>3, <1>4, <1>5, <1>6

\* The cell is the block that was loaded or copied.
LEMMA AssignBlockLinked ==
  ASSUME IInv, ListInv, OneClaim, IInv', NEW t \in Threads, AssignBlock(t)
  PROVE  ListInv'
<1> USE DEF upVars, history
<1> DEFINE f == File(t)
           c == pin[t]
<1>1. /\ pc[t] = "assign" /\ ~Growing(t) /\ Holding(t)
      /\ Own(t) /\ pc'[t] = "copy" /\ req' = req /\ idx' = idx
      /\ ign'[t] = 0 /\ \A u \in Threads \ {t} : ign'[u] = ign[u]
      /\ UNCHANGED <<ncells, filesize, fstatus, req, idx, pin, ops,
                     upload_queue, upVars, history>>
  BY GotoOwn DEF AssignBlock, Own, IInv, Kept, TypeOK, Calls, Places, Holding
<1>2. Assigned(t)
  BY <1>1 DEF AssignBlock, Assigned, NotedIndex, File
<1>3. Placed(t)
  BY <1>1, <1>2, PlacedFacts
<1>4. bstatus'[c] = IF req[t].op = "read" THEN "Clean" ELSE "Dirty"
  BY <1>3 DEF AssignBlock, IInv, Kept, TypeOK, Placed
<1>5. DirtyQueued'
  BY <1>1 DEF ListInv, DirtyQueued
<1>6. ClaimFree' /\ Owned' /\ SnapshotPinned' /\ DirtyCovered'
  BY <1>1, <1>2, <1>4, <1>5, AssignedLinked
<1> HIDE DEF f, c
<1>7. ASSUME NEW u \in Threads, Holding(u)'
      PROVE  /\ u # t /\ Holding(u) /\ File(u)' = File(u)
             /\ Growing(u)' = Growing(u) /\ idx'[u] = idx[u]
  BY <1>1, <1>7, OwnLeaves DEF Growing, Holding
<1>8. Writers'
  BY <1>1, <1>7, OwnLeaves DEF ListInv, Writers
<1>9. Pending'
  <2> SUFFICES ASSUME upc # "idle", NEW i \in 1..filesize[item],
                      i > Len(snap) \/ snap[i] # 0
               PROVE  Unsaved(item, i)'
    BY <1>1 DEF Pending
  <2>1. Unsaved(item, i)
    BY DEF ListInv, Pending
  <2>2. /\ item \in Files /\ i \in 1..Len(blocklist[item])
        /\ blocklist[item][i] \in Cells
    BY <2>1, PendingTyped DEF Unsaved
  <2>3. CASE item = File(t) /\ i = idx[t]
    <3>1. ign[t] # 0
      BY <2>1, <2>3, <1>3 DEF Unsaved, Placed
    <3>2. req[t].op = "write"
      BY <3>1 DEF ListInv, Writers
    <3> QED
      BY <2>3, <3>2, <1>1, <1>3, <1>4 DEF Unsaved, Placed, c
  <2>4. CASE ~(item = File(t) /\ i = idx[t])
    BY <2>1, <2>2, <2>4, <1>1, <1>3 DEF Unsaved, Placed
  <2> QED
    BY <2>3, <2>4
<1>10. GrownDirty'
  <2> SUFFICES ASSUME NEW u \in Threads, Holding(u)', Growing(u)',
                      NEW i \in filesize'[File(u)']+1..idx'[u]-1
               PROVE  /\ blocklist'[File(u)'][i] # 0
                      /\ bstatus'[blocklist'[File(u)'][i]] = "Dirty"
    BY DEF GrownDirty
  <2>1. /\ Holding(u) /\ Growing(u) /\ File(u)' = File(u) /\ idx'[u] = idx[u]
        /\ File(u) \in Files \ {File(t)}
    BY <1>3, <1>7 DEF Placed
  <2>2. /\ blocklist[File(u)][i] # 0
        /\ bstatus[blocklist[File(u)][i]] = "Dirty"
    BY <2>1, <1>1 DEF ListInv, GrownDirty
  <2>3. i \in 1..Len(blocklist[File(u)]) /\ blocklist[File(u)][i] \in Cells
    BY <2>1, <2>2, <1>1, GrownTyped
  <2> QED
    BY <2>1, <2>2, <2>3, <1>3 DEF Placed
<1> QED
  BY <1>5, <1>6, <1>8, <1>9, <1>10 DEF ListInv

\* The cell is the next of the blocks that make the file longer.
Longer(t) ==
  /\ pc[t] = "assign" /\ Growing(t) /\ Holding(t) /\ File(t) \in Files
  /\ Request(t) /\ AtIndex(t) /\ Own(t) /\ Assigned(t) /\ Placed(t)
  /\ ign[t] = 0 /\ ign' = ign
  /\ item' = item /\ snap' = snap /\ upc' = upc
  /\ idx[t] \in 1..req[t].hi /\ req[t].hi \in 0..MaxBlocks
  /\ filesize[File(t)] \in Nat /\ idx[t] \in Nat
  /\ filesize[File(t)] < idx[t]
  /\ req[t].op # "read" /\ req[t].f = File(t)
  /\ \/ /\ idx[t] < req[t].hi /\ pc'[t] = "alloc" /\ idx'[t] = idx[t] + 1
        /\ UNCHANGED <<filesize, fstatus, m_mutex, req, upload_queue>>
     \/ /\ idx[t] = req[t].hi /\ pc'[t] \in {"lock", "idle"}
        /\ filesize'[File(t)] = idx[t]
        /\ m_mutex' = [m_mutex EXCEPT ![File(t)] = Nobody]
        /\ Touch(File(t))
        /\ req[t].op = "write" => req' = req /\ idx'[t] = req[t].lo
  /\ bstatus'[pin[t]] = "Dirty"
  /\ \A g \in Files \ {File(t)} : filesize'[g] = filesize[g]
  /\ \A u \in Threads \ {t} :
       /\ Holding(u)' = Holding(u) /\ File(u)' = File(u) /\ idx'[u] = idx[u]
       /\ Holding(u) => File(u) \in Files \ {File(t)}
                        /\ Growing(u)' = Growing(u)
  /\ \A g \in Files : \A j \in 1..Len(blocklist[g]) :
       blocklist[g][j] # 0 /\ ~(g = File(t) /\ j = idx[t]) =>
         /\ blocklist'[g][j] = blocklist[g][j]
         /\ bstatus'[blocklist[g][j]] = bstatus[blocklist[g][j]]
  /\ \A j \in filesize[File(t)]+1..idx[t] :
       /\ blocklist'[File(t)][j] # 0
       /\ bstatus'[blocklist'[File(t)][j]] = "Dirty"

LEMMA LongerFacts ==
  ASSUME IInv, ListInv, OneClaim, NEW t \in Threads, AssignGrown(t)
  PROVE  Longer(t)
<1> USE DEF upVars
<1> DEFINE f == File(t)
           c == pin[t]
           i == idx[t]
<1>1. /\ pc[t] = "assign" /\ Growing(t) /\ Holding(t) /\ f \in Files
      /\ Request(t) /\ AtIndex(t)
      /\ ign' = ign /\ item' = item /\ snap' = snap /\ upc' = upc
      /\ i \in 1..req[t].hi /\ req[t].hi \in 0..MaxBlocks
      /\ filesize[f] \in Nat /\ i \in Nat /\ filesize[f] < i
      /\ req[t].op # "read" /\ req[t].f = f
  <2>1. /\ pc[t] = "assign" /\ Growing(t) /\ Holding(t) /\ f \in Files
        /\ Request(t) /\ AtIndex(t)
        /\ ign' = ign /\ item' = item /\ snap' = snap /\ upc' = upc
    BY RequestOf DEF AssignGrown, Holding, Request, File
  <2>2. i \in 1..req[t].hi /\ req[t].hi \in 0..MaxBlocks
        /\ filesize[f] \in 0..MaxBlocks
    BY <2>1 DEF AtIndex, Request, IInv, Kept, TypeOK
  <2>3. req[t].op # "read"
    BY <2>1 DEF ListInv, Writers
  <2> QED
    BY <2>1, <2>2, <2>3, BlockStoreAssumption DEF Growing, File
<1>2. \/ /\ i < req[t].hi
         /\ idx' = [idx EXCEPT ![t] = i + 1]
         /\ pin' = [pin EXCEPT ![t] = 0]
         /\ Goto(t, "alloc")
         /\ UNCHANGED <<filesize, fstatus, m_mutex, req, upload_queue>>
      \/ /\ i = req[t].hi
         /\ filesize' = [filesize EXCEPT ![f] = i]
         /\ m_mutex' = [m_mutex EXCEPT ![f] = Nobody]
         /\ Touch(f)
         /\ AfterResize(t)
  BY DEF AssignGrown, File
<1>3. /\ Own(t) /\ pc'[t] \in {"alloc", "lock", "idle"}
      /\ i < req[t].hi => pc'[t] = "alloc" /\ req' = req /\ idx'[t] = i + 1
      /\ i = req[t].hi =>
           /\ pc'[t] \in {"lock", "idle"}
           /\ req[t].op = "write" => req' = req /\ idx'[t] = req[t].lo
  <2>1. CASE i < req[t].hi
    <3>1. i + 1 \in 0..MaxBlocks
      BY <2>1, <1>1, BlockStoreAssumption
    <3>2. /\ idx' = [idx EXCEPT ![t] = i + 1]
          /\ pin' = [pin EXCEPT ![t] = 0]
          /\ Goto(t, "alloc") /\ req' = req
      BY <2>1, <1>1, <1>2
    <3>3. /\ pc' \in [Threads -> Places] /\ pc'[t] = "alloc"
          /\ \A u \in Threads \ {t} : pc'[u] = pc[u]
      BY <3>2, GotoOwn DEF Places
    <3> HIDE DEF i, f
    <3>4. Own(t) /\ idx'[t] = i + 1
      BY <3>1, <3>2, <3>3 DEF Own, IInv, Kept, TypeOK, Calls
    <3> QED
      BY <2>1, <3>2, <3>3, <3>4, <1>1
  <2>2. CASE i = req[t].hi
    <3>1. AfterResize(t)
      BY <2>2, <1>1, <1>2
    <3>2. CASE req[t].op = "write"
      <4>1. ToBlock(t, req[t].lo) /\ req[t].lo \in 0..MaxBlocks
        BY <1>1, <3>1, <3>2, BlockStoreAssumption DEF AfterResize, Request
      <4> QED
        BY <2>2, <1>1, <4>1, ToBlockOwn
    <3>3. CASE req[t].op # "write"
      BY <2>2, <1>1, <3>1, <3>3, ReturnOwn DEF AfterResize
    <3> QED
      BY <3>2, <3>3
  <2> QED
    BY <1>2, <2>1, <2>2
<1>4. Assigned(t)
  <2>1. bstatus' = [bstatus EXCEPT ![c] = "Dirty"]
    BY DEF AssignGrown
  <2> QED
    BY <2>1, <1>1, <1>3 DEF AssignGrown, Assigned, File
<1>5. Placed(t)
  BY <1>3, <1>4, PlacedFacts
<1>6. bstatus'[c] = "Dirty"
  BY <1>5 DEF AssignGrown, IInv, Kept, TypeOK, Placed
<1>7. \A g \in Files \ {f} : filesize'[g] = filesize[g]
  BY <1>1, <1>2 DEF IInv, Kept, TypeOK
<1>8. ASSUME NEW u \in Threads \ {t}
      PROVE  /\ Holding(u)' = Holding(u) /\ File(u)' = File(u)
             /\ idx'[u] = idx[u]
             /\ Holding(u) =>
                  File(u) \in Files \ {f} /\ Growing(u)' = Growing(u)
  <2>1. /\ Holding(u)' = Holding(u) /\ File(u)' = File(u) /\ idx'[u] = idx[u]
        /\ Holding(u) => File(u) \in Files \ {f}
    BY <1>3, <1>5, OwnLeaves DEF Placed
  <2> QED
    BY <2>1, <1>7 DEF Growing, File
<1> HIDE DEF f, c, i
<1>9. ASSUME NEW g \in Files, NEW j \in 1..Len(blocklist[g]),
             blocklist[g][j] # 0, ~(g = f /\ j = i)
      PROVE  /\ blocklist'[g][j] = blocklist[g][j]
             /\ bstatus'[blocklist[g][j]] = bstatus[blocklist[g][j]]
  <2>1. blocklist[g][j] \in Cells \ {c}
    BY <1>5, <1>9, ListTyped DEF Placed, c
  <2> QED
    BY <2>1, <1>5, <1>9 DEF Placed, c, f, i
<1>10. \A j \in filesize[f]+1..i :
         blocklist'[f][j] # 0 /\ bstatus'[blocklist'[f][j]] = "Dirty"
  <2> SUFFICES ASSUME NEW j \in filesize[f]+1..i
               PROVE  /\ blocklist'[f][j] # 0
                      /\ bstatus'[blocklist'[f][j]] = "Dirty"
    OBVIOUS
  <2>1. CASE j = i
    BY <2>1, <1>5, <1>6 DEF Placed, f, c, i
  <2>2. CASE j # i
    <3>1. j \in filesize[f]+1..i-1
      BY <2>2, <1>1
    <3>2. /\ blocklist[f][j] # 0 /\ bstatus[blocklist[f][j]] = "Dirty"
          /\ j \in 1..Len(blocklist[f])
      BY <3>1, <1>1, GrownTyped DEF ListInv, GrownDirty, f, i
    <3> QED
      BY <2>2, <3>2, <1>1, <1>9
  <2> QED
    BY <2>1, <2>2
<1>11. ign[t] = 0
  <2>1. blocklist[f][i] = 0
    BY <1>1, ThreadFacts DEF Waits, f, i
  <2> QED
    BY <2>1, <1>5 DEF Placed, f, i
<1>12. \/ /\ i < req[t].hi /\ pc'[t] = "alloc" /\ idx'[t] = i + 1
          /\ UNCHANGED <<filesize, fstatus, m_mutex, req, upload_queue>>
       \/ /\ i = req[t].hi /\ pc'[t] \in {"lock", "idle"}
          /\ filesize'[f] = i
          /\ m_mutex' = [m_mutex EXCEPT ![f] = Nobody]
          /\ Touch(f)
          /\ req[t].op = "write" => req' = req /\ idx'[t] = req[t].lo
  BY <1>1, <1>2, <1>3 DEF IInv, Kept, TypeOK
<1> QED
  BY <1>1, <1>3, <1>4, <1>5, <1>6, <1>7, <1>8, <1>9, <1>10, <1>11, <1>12
     DEF Longer, f, c, i

LEMMA AssignGrownLinked ==
  ASSUME IInv, ListInv, OneClaim, IInv', NEW t \in Threads, AssignGrown(t)
  PROVE  ListInv'
<1> USE DEF Longer
<1> DEFINE f == File(t)
           i == idx[t]
<1>1. Longer(t)
  BY LongerFacts
<1>2. /\ DirtyQueued'
      /\ \A g \in Files : fstatus[g] = "Dirty" => fstatus'[g] = "Dirty"
      /\ \/ fstatus'[f] = "Dirty"
         \/ pc'[t] # "idle" /\ req'[t] = req[t]
  <2>1. CASE idx[t] < req[t].hi
    BY <2>1, <1>1 DEF ListInv, DirtyQueued
  <2>2. CASE idx[t] = req[t].hi
    <3>1. Touch(f) /\ f \in Files
      BY <2>2, <1>1
    <3> QED
      BY <3>1, TouchQueues
  <2> QED
    BY <1>1, <2>1, <2>2
<1>3. ClaimFree' /\ Owned' /\ SnapshotPinned' /\ DirtyCovered'
  <2>1. Assigned(t) /\ Own(t) /\ req[t].op # "read"
    BY <1>1
  <2> HIDE DEF Longer
  <2> QED
    BY <2>1, <1>2, AssignedLinked
<1>4. Writers'
  <2> SUFFICES ASSUME NEW u \in Threads
               PROVE  /\ ign'[u] # 0 => req'[u].op = "write"
                      /\ pc'[u] = "resize" \/ (Holding(u)' /\ Growing(u)')
                           => req'[u].op # "read"
    BY DEF Writers
  <2>1. CASE u = t
    <3>1. /\ ign'[t] = 0 /\ pc'[t] # "resize"
          /\ Holding(t)' => req' = req
          /\ req[t].op # "read"
      BY <1>1 DEF Holding
    <3> QED
      BY <2>1, <3>1
  <2>2. CASE u # t
    <3>1. /\ Holding(u)' = Holding(u) /\ ign' = ign
          /\ Holding(u) => Growing(u)' = Growing(u)
          /\ req'[u] = req[u] /\ pc'[u] = pc[u]
      BY <2>2, <1>1, OwnLeaves
    <3> HIDE DEF Longer
    <3> QED
      BY <3>1 DEF ListInv, Writers
  <2> QED
    BY <2>1, <2>2
<1>5. Pending'
  <2> SUFFICES ASSUME upc # "idle", NEW j \in 1..filesize'[item],
                      j > Len(snap) \/ snap[j] # 0
               PROVE  Unsaved(item, j)'
    BY <1>1 DEF Pending
  <2>1. CASE j \in 1..filesize[item]
    <3>1. Unsaved(item, j)
      BY <2>1 DEF ListInv, Pending
    <3>2. item \in Files /\ j \in 1..Len(blocklist[item])
      BY <2>1, PendingTyped
    <3>3. ~(item = f /\ j = i)
      BY <2>1, <1>1
    <3> QED
      BY <3>1, <3>2, <3>3, <1>1 DEF Unsaved
  <2>2. CASE j \notin 1..filesize[item]
    <3>1. item \in Files
      BY DEF IInv, Kept, Uploads
    <3>2. item = f /\ filesize'[f] = i
      BY <2>2, <3>1, <1>1
    <3>3. j \in filesize[f]+1..i
      BY <2>2, <3>2, <1>1
    <3> QED
      BY <3>2, <3>3, <1>1 DEF Unsaved
  <2> QED
    BY <2>1, <2>2
<1>6. GrownDirty'
  <2> SUFFICES ASSUME NEW u \in Threads, Holding(u)', Growing(u)',
                      NEW j \in filesize'[File(u)']+1..idx'[u]-1
               PROVE  /\ blocklist'[File(u)'][j] # 0
                      /\ bstatus'[blocklist'[File(u)'][j]] = "Dirty"
    BY DEF GrownDirty
  <2>1. CASE u = t
    <3>1. i < req[t].hi
      BY <2>1, <1>1 DEF Holding
    <3>2. filesize' = filesize /\ req' = req /\ idx'[t] = i + 1
      BY <3>1, <1>1
    <3>3. File(t)' = f
      BY <3>2 DEF File
    <3>4. j \in filesize[f]+1..i
      BY <2>1, <3>2, <3>3, <1>1
    <3> QED
      BY <2>1, <3>3, <3>4, <1>1
  <2>2. CASE u # t
    <3>1. /\ Holding(u) /\ Growing(u) /\ File(u)' = File(u) /\ idx'[u] = idx[u]
          /\ File(u) \in Files \ {f}
      BY <2>2, <1>1
    <3>2. j \in filesize[File(u)]+1..idx[u]-1
      BY <3>1, <1>1
    <3>3. /\ blocklist[File(u)][j] # 0
          /\ bstatus[blocklist[File(u)][j]] = "Dirty"
      BY <3>1, <3>2 DEF ListInv, GrownDirty
    <3>4. j \in 1..Len(blocklist[File(u)])
      BY <3>1, <3>2, GrownTyped
    <3> QED
      BY <3>1, <3>3, <3>4, <1>1
  <2> QED
    BY <2>1, <2>2
<1> QED
  BY <1>2, <1>3, <1>4, <1>5, <1>6 DEF ListInv

\* What create_snap does to cells and lists.
LEMMA SnapshotFacts ==
  ASSUME IInv, ListInv, TakeSnapshot, NEW f \in Files, f = Head(upload_queue)
  PROVE  /\ Free(f) /\ upc = "idle" /\ item' = f /\ upc' = "send"
         /\ fstatus' = [fstatus EXCEPT ![f] = "Uploading"]
         /\ upload_queue # <<>> /\ upload_queue' = Tail(upload_queue)
         /\ filesize[f] = Len(blocklist[f]) /\ Len(blocklist[f]) \in Nat
         /\ DOMAIN snap' = 1..Len(blocklist[f])
         /\ Len(snap') = Len(blocklist[f])
         /\ \A i \in 1..Len(blocklist[f]) :
              snap'[i] = IF /\ blocklist[f][i] # 0
                            /\ bstatus[blocklist[f][i]] = "Dirty"
                         THEN blocklist[f][i] ELSE 0
         /\ \A c \in Cells :
              IF bstatus[c] = "Dirty" /\ basefile[c] = f
              THEN /\ bstatus'[c] = "Uploading"
                   /\ \E i \in 1..Len(blocklist[f]) : blocklist[f][i] = c
              ELSE bstatus'[c] = bstatus[c]
         /\ UNCHANGED <<ncells, basefile, block_index, data, blocklist,
                        filesize, m_mutex, threadVars, result, blob, fails,
                        history>>
<1> DEFINE list == blocklist[f]
           dirty == {i \in DOMAIN list :
                       list[i] > 0 /\ bstatus[list[i]] = "Dirty"}
<1>1. /\ Free(f) /\ upc = "idle" /\ item' = f /\ upc' = "send"
      /\ fstatus' = [fstatus EXCEPT ![f] = "Uploading"]
      /\ upload_queue # <<>> /\ upload_queue' = Tail(upload_queue)
      /\ snap' = [i \in DOMAIN list |-> IF i \in dirty THEN list[i] ELSE 0]
      /\ bstatus' = [c \in Cells |-> IF \E i \in dirty : list[i] = c
                                     THEN "Uploading" ELSE bstatus[c]]
      /\ UNCHANGED <<ncells, basefile, block_index, data, blocklist,
                     filesize, m_mutex, threadVars, result, blob, fails,
                     history>>
  BY DEF TakeSnapshot
<1>2. /\ Len(list) \in Nat /\ DOMAIN list = 1..Len(list)
      /\ \A i \in 1..Len(list) : list[i] \in {0} \cup Cells
  BY ListTyped
<1>3. filesize[f] = Len(list)
  BY <1>1, ThreadFacts DEF FileLengths
<1>4. \A n \in {0} \cup Cells : n > 0 <=> n # 0
  BY CellsFacts DEF Cells
<1>5. dirty = {i \in 1..Len(list) : list[i] # 0 /\ bstatus[list[i]] = "Dirty"}
  BY <1>2, <1>4
<1> HIDE DEF list, dirty
<1>6. /\ DOMAIN snap' = 1..Len(list) /\ Len(snap') = Len(list)
      /\ \A i \in 1..Len(list) :
           snap'[i] = IF list[i] # 0 /\ bstatus[list[i]] = "Dirty"
                      THEN list[i] ELSE 0
  BY <1>1, <1>2, <1>5
<1>7. ASSUME NEW c \in Cells
      PROVE  IF bstatus[c] = "Dirty" /\ basefile[c] = f
             THEN /\ bstatus'[c] = "Uploading"
                  /\ \E i \in 1..Len(list) : list[i] = c
             ELSE bstatus'[c] = bstatus[c]
  <2>1. CASE bstatus[c] = "Dirty" /\ basefile[c] = f
    <3>1. InList(c) /\ c # 0
      BY <2>1, CellsFacts DEF IInv, Kept, MapsBack, Live, Cells
    <3>2. block_index[c] \in dirty /\ list[block_index[c]] = c
      BY <2>1, <3>1, <1>5 DEF InList, list
    <3> QED
      BY <2>1, <3>2, <1>1, <1>5
  <2>2. CASE ~(bstatus[c] = "Dirty" /\ basefile[c] = f)
    <3>1. ASSUME NEW i \in dirty, list[i] = c PROVE FALSE
      <4>1. basefile[c] = f
        BY <3>1, <1>1, <1>5, FreeIsLive DEF list
      <4> QED
        BY <2>2, <3>1, <4>1, <1>5
    <3> QED
      BY <2>2, <3>1, <1>1
  <2> QED
    BY <2>1, <2>2
<1> QED
  BY <1>1, <1>2, <1>3, <1>6, <1>7 DEF list

\* The Dirty blocks of the file at the front become those of the snapshot.
LEMMA TakeSnapshotLinked ==
  ASSUME IInv, ListInv, IInv', TakeSnapshot
  PROVE  ListInv'
<1> USE DEF threadVars
<1>1. PICK f \in Files : f = Head(upload_queue)
  BY HeadTailProperties DEF TakeSnapshot, IInv, Kept, TypeOK
<1>2. /\ Free(f) /\ upc = "idle" /\ item' = f /\ upc' = "send"
      /\ fstatus' = [fstatus EXCEPT ![f] = "Uploading"]
      /\ upload_queue # <<>> /\ upload_queue' = Tail(upload_queue)
      /\ filesize[f] = Len(blocklist[f]) /\ Len(blocklist[f]) \in Nat
      /\ DOMAIN snap' = 1..Len(blocklist[f]) /\ Len(snap') = Len(blocklist[f])
      /\ \A i \in 1..Len(blocklist[f]) :
           snap'[i] = IF /\ blocklist[f][i] # 0
                         /\ bstatus[blocklist[f][i]] = "Dirty"
                      THEN blocklist[f][i] ELSE 0
      /\ \A c \in Cells :
           IF bstatus[c] = "Dirty" /\ basefile[c] = f
           THEN bstatus'[c] = "Uploading"
           ELSE bstatus'[c] = bstatus[c]
      /\ UNCHANGED <<ncells, basefile, block_index, data, blocklist,
                     filesize, m_mutex, threadVars, result, blob, fails,
                     history>>
  BY <1>1, SnapshotFacts
<1>3. ClaimFree'
  BY <1>2, PinTyped DEF ListInv, ClaimFree
<1>4. Owned'
  <2> SUFFICES ASSUME NEW g \in Files, NEW i \in 1..Len(blocklist[g]),
                      blocklist[g][i] # 0
               PROVE  Belongs(g, i, blocklist[g][i])'
    BY <1>2 DEF Owned
  <2>1. Belongs(g, i, blocklist[g][i]) /\ blocklist[g][i] \in Cells
    BY ListTyped DEF ListInv, Owned
  <2> QED
    BY <2>1, <1>2 DEF Belongs, Copying, Live, Holding, File
<1>5. SnapshotPinned'
  <2> SUFFICES ASSUME NEW i \in 1..Len(blocklist[f]), snap'[i] > 0
               PROVE  /\ bstatus'[snap'[i]] \in {"Uploading", "Up_Expired"}
                      /\ basefile'[snap'[i]] = item'
                      /\ block_index'[snap'[i]] = i
    BY <1>2 DEF SnapshotPinned
  <2>1. /\ blocklist[f][i] # 0 /\ bstatus[blocklist[f][i]] = "Dirty"
        /\ snap'[i] = blocklist[f][i]
    BY <1>2
  <2>2. /\ blocklist[f][i] \in Cells /\ basefile[blocklist[f][i]] = f
        /\ block_index[blocklist[f][i]] = i
    BY <2>1, <1>2, FreeIsLive
  <2> QED
    BY <2>1, <2>2, <1>2
<1>6. DirtyQueued'
  <2> SUFFICES ASSUME NEW g \in Files, fstatus'[g] = "Dirty"
               PROVE  \E i \in DOMAIN upload_queue' : upload_queue'[i] = g
    BY DEF DirtyQueued
  <2>1. g # f /\ fstatus[g] = "Dirty"
    BY <1>2 DEF IInv, Kept, TypeOK
  <2>2. PICK i \in DOMAIN upload_queue : upload_queue[i] = g
    BY <2>1 DEF ListInv, DirtyQueued
  <2>3. upload_queue \in Seq(Files)
    BY DEF IInv, Kept, TypeOK
  <2>4. i \in 1..Len(upload_queue) /\ Len(upload_queue) \in Nat
    BY <2>3, LenProperties
  <2>5. i # 1
    BY <2>1, <2>2, <2>3, <1>1, <1>2, HeadTailProperties
  <2>6. /\ Len(upload_queue') = Len(upload_queue) - 1
        /\ upload_queue' \in Seq(Files)
        /\ \A j \in 1..Len(upload_queue') :
             upload_queue'[j] = upload_queue[j+1]
    BY <2>3, <1>2, HeadTailProperties
  <2>7. i-1 \in 1..Len(upload_queue') /\ (i-1)+1 = i
    BY <2>4, <2>5, <2>6
  <2>8. i-1 \in DOMAIN upload_queue'
    BY <2>6, <2>7, LenProperties
  <2> QED
    BY <2>2, <2>6, <2>7, <2>8
<1>7. DirtyCovered'
  <2>1. ASSUME NEW c \in Cells, bstatus'[c] = "Dirty"
        PROVE  Covered(basefile[c])'
    <3>1. bstatus[c] = "Dirty" /\ basefile[c] # f
      BY <2>1, <1>2
    <3>2. Covered(basefile[c]) /\ basefile[c] \in Files
      BY <3>1, CoveredNow
    <3> QED
      BY <3>1, <3>2, <1>2 DEF Covered, IInv, Kept, TypeOK
  <2> QED
    BY <2>1, <1>6, CoveredNext
<1>8. Writers'
  BY <1>2 DEF ListInv, Writers, Growing, Holding
<1>9. Pending'
  <2> SUFFICES ASSUME NEW i \in 1..filesize[f], snap'[i] # 0
               PROVE  Unsaved(item, i)'
    BY <1>2 DEF Pending
  <2>1. i \in 1..Len(blocklist[f])
    BY <1>2
  <2>2. blocklist[f][i] # 0 /\ bstatus[blocklist[f][i]] = "Dirty"
    BY <2>1, <1>2
  <2>3. blocklist[f][i] \in Cells /\ basefile[blocklist[f][i]] = f
    BY <2>1, <2>2, <1>2, FreeIsLive
  <2> QED
    BY <2>2, <2>3, <1>2 DEF Unsaved
<1>10. GrownDirty'
  <2> SUFFICES ASSUME NEW u \in Threads, Holding(u), Growing(u),
                      NEW i \in filesize[File(u)]+1..idx[u]-1
               PROVE  /\ blocklist[File(u)][i] # 0
                      /\ bstatus'[blocklist[File(u)][i]] = "Dirty"
    BY <1>2 DEF GrownDirty, Holding, Growing, File
  <2>1. /\ blocklist[File(u)][i] # 0
        /\ bstatus[blocklist[File(u)][i]] = "Dirty"
    BY DEF ListInv, GrownDirty
  <2>2. /\ File(u) \in Files /\ i \in 1..Len(blocklist[File(u)])
        /\ blocklist[File(u)][i] \in Cells
    BY <2>1, GrownTyped
  <2>3. basefile[blocklist[File(u)][i]] = File(u)
    BY <2>1, <2>2 DEF ListInv, Owned, Belongs
  <2>4. File(u) # f
    BY <1>2, ThreadFacts, BlockStoreAssumption DEF Owner, Free
  <2> QED
    BY <2>1, <2>2, <2>3, <2>4, <1>2
<1> QED
  BY <1>3, <1>4, <1>5, <1>6, <1>7, <1>8, <1>9, <1>10 DEF ListInv

\* ~Snapshot gives one block back, which nobody is copying.
LEMMA RestoreBlockLinked ==
  ASSUME IInv, ListInv, IInv', NEW i \in Index, i \in DOMAIN snap,
         RestoreBlock(i)
  PROVE  ListInv'
<1> USE DEF fileVars, threadVars
<1> DEFINE c == snap[i]
<1>1. /\ c > 0 /\ StatusFree(c)
      /\ bstatus' = [bstatus EXCEPT ![c] = Restored(@)]
      /\ upc = "restore"
      /\ snap' = [snap EXCEPT ![i] = 0]
      /\ UNCHANGED <<ncells, basefile, block_index, data, fileVars, threadVars,
                     upload_queue, upc, item, sent, result, blob, fails,
                     content>>
  BY DEF RestoreBlock
<1>2. /\ c \in Cells /\ c # 0 /\ bstatus[c] \in {"Uploading", "Up_Expired"}
      /\ basefile[c] = item /\ block_index[c] = i
  BY <1>1, SnapTyped, CellsFacts DEF ListInv, SnapshotPinned, Cells
<1>3. /\ bstatus'[c] = Restored(bstatus[c])
      /\ \A d \in Cells \ {c} : bstatus'[d] = bstatus[d]
  BY <1>1, <1>2 DEF IInv, Kept, TypeOK
<1>4. /\ DOMAIN snap' = DOMAIN snap /\ Len(snap') = Len(snap)
      /\ snap'[i] = 0
      /\ \A j \in DOMAIN snap \ {i} : snap'[j] = snap[j]
  BY <1>1, SnapTyped, ExceptSeq
<1> HIDE DEF c
<1>5. ClaimFree'
  <2> SUFFICES ASSUME NEW u \in Threads, pc[u] = "assign"
               PROVE  bstatus'[pin[u]] \in {"Ready", "Expired"}
    BY <1>1 DEF ClaimFree
  <2>1. pin[u] \in Cells /\ bstatus[pin[u]] \in {"Ready", "Expired"}
    BY PinTyped DEF ListInv, ClaimFree
  <2> QED
    BY <2>1, <1>2, <1>3
<1>6. Owned'
  <2> SUFFICES ASSUME NEW g \in Files, NEW j \in 1..Len(blocklist[g]),
                      blocklist[g][j] # 0
               PROVE  Belongs(g, j, blocklist[g][j])'
    BY <1>1 DEF Owned
  <2>1. Belongs(g, j, blocklist[g][j]) /\ blocklist[g][j] \in Cells
    BY ListTyped DEF ListInv, Owned
  <2>2. CASE blocklist[g][j] = c
    <3>1. bstatus[c] = "Uploading"
      BY <2>1, <2>2, <1>1, <1>2 DEF Belongs, Copying, StatusFree, Live, c
    <3> QED
      BY <2>1, <2>2, <3>1, <1>1, <1>3 DEF Belongs, Live, Restored
  <2>3. CASE blocklist[g][j] # c
    BY <2>1, <2>3, <1>1, <1>3 DEF Belongs, Copying, Holding, File
  <2> QED
    BY <2>2, <2>3
<1>7. SnapshotPinned'
  <2> SUFFICES ASSUME NEW j \in DOMAIN snap, snap'[j] > 0
               PROVE  /\ bstatus'[snap'[j]] \in {"Uploading", "Up_Expired"}
                      /\ basefile[snap'[j]] = item
                      /\ block_index[snap'[j]] = j
    BY <1>1, <1>4 DEF SnapshotPinned
  <2>1. j # i /\ snap'[j] = snap[j] /\ snap[j] \in Cells
    BY <1>4, SnapTyped
  <2>2. /\ bstatus[snap[j]] \in {"Uploading", "Up_Expired"}
        /\ basefile[snap[j]] = item /\ block_index[snap[j]] = j
    BY <2>1 DEF ListInv, SnapshotPinned
  <2> QED
    BY <2>1, <2>2, <1>2, <1>3
<1>8. DirtyQueued' /\ Writers'
  BY <1>1 DEF ListInv, DirtyQueued, Writers, Growing, Holding
<1>9. DirtyCovered'
  <2>1. ASSUME NEW d \in Cells, bstatus'[d] = "Dirty"
        PROVE  Covered(basefile[d])'
    <3>1. bstatus[d] = "Dirty"
      BY <2>1, <1>2, <1>3 DEF Restored
    <3>2. Covered(basefile[d])
      BY <3>1, CoveredNow
    <3> QED
      BY <3>2, <1>1 DEF Covered
  <2> QED
    BY <2>1, <1>8, CoveredNext
<1>10. Pending'
  <2> SUFFICES ASSUME NEW j \in 1..filesize[item],
                      j > Len(snap) \/ snap'[j] # 0
               PROVE  Unsaved(item, j)'
    BY <1>1, <1>4 DEF Pending
  <2>1. j # i /\ (j > Len(snap) \/ snap[j] # 0)
    <3>1. i <= Len(snap) /\ i \in Nat /\ Len(snap) \in Nat
      BY SnapTyped
    <3>2. j \in Nat
      OBVIOUS
    <3> QED
      BY <3>1, <3>2, <1>4, SnapTyped
  <2>2. Unsaved(item, j)
    BY <2>1, <1>1 DEF ListInv, Pending
  <2>3. /\ item \in Files /\ j \in 1..Len(blocklist[item])
        /\ blocklist[item][j] \in Cells
    BY <2>2, <1>1, PendingTyped DEF Unsaved
  <2>4. block_index[blocklist[item][j]] = j
    BY <2>2, <2>3 DEF ListInv, Owned, Belongs, Unsaved
  <2> QED
    BY <2>1, <2>2, <2>3, <2>4, <1>1, <1>2, <1>3 DEF Unsaved
<1>11. GrownDirty'
  <2> SUFFICES ASSUME NEW u \in Threads, Holding(u), Growing(u),
                      NEW j \in filesize[File(u)]+1..idx[u]-1
               PROVE  /\ blocklist[File(u)][j] # 0
                      /\ bstatus'[blocklist[File(u)][j]] = "Dirty"
    BY <1>1 DEF GrownDirty, Holding, Growing, File
  <2>1. /\ blocklist[File(u)][j] # 0
        /\ bstatus[blocklist[File(u)][j]] = "Dirty"
        /\ blocklist[File(u)][j] \in {0} \cup Cells
    BY GrownTyped DEF ListInv, GrownDirty
  <2> QED
    BY <2>1, <1>2, <1>3
<1> QED
  BY <1>5, <1>6, <1>7, <1>8, <1>9, <1>10, <1>11 DEF ListInv

\* The end of the task.
LEMMA EndUploadLinked ==
  ASSUME IInv, ListInv, IInv', EndUpload
  PROVE  ListInv'
<1> USE DEF cacheVars, threadVars
<1>1. /\ fstatus' = [fstatus EXCEPT ![item] = IF @ = "Uploading" THEN "Clean"
                                              ELSE @]
      /\ upload_queue' = IF result > 0 THEN Append(upload_queue, item)
                                       ELSE upload_queue
      /\ upc' = "idle" /\ snap' = <<>>
      /\ UNCHANGED <<cacheVars, blocklist, filesize, m_mutex, threadVars, blob,
                     fails, history>>
      /\ item \in Files
  BY DEF EndUpload, IInv, Kept, Uploads
<1>2. \A g \in Files : fstatus'[g] = "Dirty" <=> fstatus[g] = "Dirty"
  BY <1>1 DEF IInv, Kept, TypeOK
<1>3. DirtyQueued'
  <2>1. upload_queue \in Seq(Files)
    BY DEF IInv, Kept, TypeOK
  <2>2. \A j \in DOMAIN upload_queue :
          j \in DOMAIN upload_queue' /\ upload_queue'[j] = upload_queue[j]
    BY <2>1, <1>1, AppendProperties, LenProperties
  <2> QED
    BY <2>2, <1>2 DEF ListInv, DirtyQueued
<1>4. DirtyCovered'
  <2>1. ASSUME NEW d \in Cells, bstatus'[d] = "Dirty"
        PROVE  Covered(basefile[d])'
    <3>1. Covered(basefile[d]) /\ basefile[d] \in Files
      BY <2>1, <1>1, CoveredNow
    <3> QED
      BY <3>1, <1>1, <1>2 DEF Covered
  <2> QED
    BY <2>1, <1>3, CoveredNext
<1>5. ClaimFree' /\ Owned' /\ Writers' /\ GrownDirty'
  BY <1>1 DEF ListInv, ClaimFree, Owned, Belongs, Copying, Writers, GrownDirty,
     Holding, Growing, File
<1>6. SnapshotPinned' /\ Pending'
  BY <1>1 DEF SnapshotPinned, Pending
<1> QED
  BY <1>3, <1>4, <1>5, <1>6 DEF ListInv

LEMMA ListInit ==
  ASSUME Init
  PROVE  ListInv
<1>1. IInv
  BY InitKept
<1>2. \A f \in Files : \A i \in 1..Len(blocklist[f]) : blocklist[f][i] = 0
  <2> SUFFICES ASSUME NEW f \in Files, NEW i \in 1..Len(blocklist[f])
               PROVE  blocklist[f][i] = 0
    OBVIOUS
  <2>1. blocklist[f] = [j \in 1..InitBlocks[f] |-> 0]
    BY DEF Init, Fill
  <2>2. i \in DOMAIN blocklist[f]
    BY <1>1, ListTyped
  <2> QED
    BY <2>1, <2>2
<1>3. /\ \A t \in Threads : ~Holding(t) /\ ign[t] = 0 /\ pc[t] = "idle"
      /\ \A c \in Cells : bstatus[c] = "Expired"
      /\ \A f \in Files : fstatus[f] = "Clean"
      /\ snap = <<>> /\ upc = "idle" /\ ncells = 0
  BY DEF Init, Holding
<1>4. ClaimFree /\ Owned /\ Writers /\ Pending /\ GrownDirty /\ DirtyQueued
  BY <1>2, <1>3 DEF ClaimFree, Owned, Writers, Pending, GrownDirty, DirtyQueued
<1>5. SnapshotPinned /\ DirtyCovered
  BY <1>3 DEF SnapshotPinned, DirtyCovered
<1> QED
  BY <1>4, <1>5 DEF ListInv

\* Every step keeps them, if no two threads have been given the same cell.
LEMMA ListInductive ==
  ASSUME IInv, ListInv, OneClaim, [Next]_vars
  PROVE  ListInv'
<1>1. IInv'
  BY Inductive
<1>2. ASSUME NEW t \in Threads, Begin(t) PROVE ListInv'
  BY <1>1, <1>2, BeginLinked
<1>3. ASSUME NEW t \in Threads, Proceed(t) PROVE ListInv'
  BY <1>1, <1>3, GoneLinked, PutNewItemLinked, TakeLinked, GrowLinked,
     ShrinkLinked, AssignGrownLinked, GetCachedLinked, BeginCopyOnWriteLinked,
     BeginLoadLinked, AssignBlockLinked, CopyLinked, EndWriteLinked
     DEF Proceed
<1>4. ASSUME Upload PROVE ListInv'
  BY <1>1, <1>4, TakeSnapshotLinked, SendLinked, RestoreBlockLinked,
     EndUploadLinked DEF Upload
<1>5. CASE UNCHANGED vars
  BY <1>1, <1>5, SendLinked
<1> QED
  BY <1>2, <1>3, <1>4, <1>5 DEF Next

-----------------------------------------------------------------------------
\* What storage holds, while no request fails.

\* A block that can be thrown away is in storage.
Stored ==
  \A f \in Files : \A i \in 1..filesize[f] :
    Disposable(f, i) => i <= Len(blob[f])

\* The block list that is sent names no block that storage does not have.
Accepted ==
  /\ upc = "send" => ListAccepted
  /\ upc = "restore" => Len(blob[item]) = Len(snap)

StoreInv == Stored /\ Accepted /\ ThrowsOnlyBeyond

\* The end of a step that does not throw.
LEMMA NotThrown ==
  ASSUME IInv, NEW t \in Threads, Up, NEW w \in Places \ {"threw"}, Goto(t, w)
  PROVE  \A u \in Threads : pc'[u] # "threw"
BY DEF Up, Goto, IInv, Kept, TypeOK

LEMMA AfterResizeEnds ==
  ASSUME IInv, NEW t \in Threads, Up, AfterResize(t)
  PROVE  \A u \in Threads : pc'[u] # "threw"
<1>1. \E w \in Places \ {"threw"} : Goto(t, w)
  BY DEF AfterResize, ToBlock, Return, Places
<1> QED
  BY <1>1, NotThrown

\* A step that makes no block disposable and sends nothing.
LEMMA StoreLeft ==
  ASSUME StoreInv, UNCHANGED <<blob, upc, item, snap>>,
         \A f \in Files : \A i \in 1..filesize'[f] :
           Disposable(f, i)' => i \in 1..filesize[f] /\ Disposable(f, i),
         \A u \in Threads : pc'[u] # "threw"
  PROVE  StoreInv'
<1>1. Stored'
  BY DEF StoreInv, Stored
<1>2. Accepted'
  BY DEF StoreInv, Accepted, ListAccepted
<1>3. ThrowsOnlyBeyond'
  BY DEF ThrowsOnlyBeyond
<1> QED
  BY <1>1, <1>2, <1>3 DEF StoreInv

\* Steps that change neither cells nor lists.
LEMMA StillStored ==
  ASSUME IInv, StoreInv, NEW t \in Threads,
         \/ Begin(t) \/ IsFull(t) \/ PutNewItem(t) \/ ShrinkAsserts(t)
         \/ BeginLoad(t) \/ CopyOut(t) \/ CopyIn(t) \/ EndWrite(t)
  PROVE  StoreInv'
<1>1. UNCHANGED <<bstatus, blocklist, filesize, blob, upc, item, snap>>
  <2> USE DEF cacheVars, fileVars, upVars
  <2>1. ASSUME NEW r, NEW where, Call(t, where, r)
        PROVE  UNCHANGED <<bstatus, blocklist, filesize, blob, upc, item,
                           snap>>
    BY <2>1 DEF Call
  <2>2. Begin(t) => \E r, where : Call(t, where, r)
    BY DEF Begin, Read, Write, Truncate
  <2> QED
    BY <2>1, <2>2 DEF IsFull, PutNewItem, ShrinkAsserts, BeginLoad,
       AtBlock, CopyOut, CopyIn, EndWrite
<1>2. Up /\ \E w \in Places \ {"threw"} : Goto(t, w)
  <2>1. ASSUME Begin(t)
        PROVE  Up /\ \E w \in {"lock", "resize"} : Goto(t, w)
    BY <2>1 DEF Begin, Read, Write, Truncate, Call
  <2>2. CASE \/ IsFull(t) \/ PutNewItem(t) \/ ShrinkAsserts(t) \/ BeginLoad(t)
             \/ EndWrite(t)
    BY <2>2 DEF IsFull, PutNewItem, ShrinkAsserts, BeginLoad, AtBlock,
       EndWrite, Return, Places
  <2>3. CASE CopyOut(t) \/ CopyIn(t)
    BY <2>3 DEF CopyOut, CopyIn, ToBlock, Return, Places
  <2> QED
    BY <2>1, <2>2, <2>3 DEF Places
<1>3. \A u \in Threads : pc'[u] # "threw"
  BY <1>2, NotThrown
<1> QED
  BY <1>1, <1>3, StoreLeft DEF Disposable

\* get_blocks throws only at a block behind the end of the file.
LEMMA ThrowsStored ==
  ASSUME IInv, StoreInv, NEW t \in Threads, GetThrows(t)
  PROVE  StoreInv'
<1> USE DEF cacheVars, fileVars, upVars
<1>1. /\ pc[t] = "lock" /\ Up /\ Free(File(t)) /\ Goto(t, "threw")
      /\ UNCHANGED <<cacheVars, fileVars, req, idx, upVars>>
  BY DEF GetThrows, AtBlock
<1>2. idx[t] > filesize[File(t)]
  <2>1. Request(t) /\ AtIndex(t)
    BY <1>1, RequestOf
  <2>2. /\ File(t) \in Files /\ idx[t] \in 1..req[t].hi
        /\ req[t].hi \in 0..MaxBlocks
    BY <2>1, <1>1 DEF Request, AtIndex, File
  <2>3. /\ filesize[File(t)] = Len(blocklist[File(t)])
        /\ Len(blocklist[File(t)]) \in Nat
    BY <2>2, <1>1, ThreadFacts, ListTyped DEF FileLengths
  <2>4. CASE ~InRange(t)
    BY <2>2, <2>3, <2>4, BlockStoreAssumption DEF InRange
  <2>5. CASE /\ InRange(t) /\ Mapped(t) = 0
             /\ idx[t] > Len(blob[File(t)])
    <3>1. idx[t] \in 1..filesize[File(t)]
      BY <2>2, <2>3, <2>5, BlockStoreAssumption DEF InRange
    <3>2. Disposable(File(t), idx[t])
      BY <2>5 DEF Disposable, Mapped
    <3>3. idx[t] <= Len(blob[File(t)])
      BY <2>2, <3>1, <3>2 DEF StoreInv, Stored
    <3>4. Len(blob[File(t)]) \in Nat
      BY <2>2, LenProperties DEF IInv, Kept, TypeOK
    <3> QED
      BY <2>2, <2>5, <3>3, <3>4, BlockStoreAssumption
  <2> QED
    BY <2>4, <2>5 DEF GetThrows
<1>3. ThrowsOnlyBeyond'
  <2> SUFFICES ASSUME NEW u \in Threads, pc'[u] = "threw"
               PROVE  idx[u] > filesize[File(u)]
    BY <1>1 DEF ThrowsOnlyBeyond, File
  <2>1. u = t
    BY <1>1 DEF Up, Goto, IInv, Kept, TypeOK
  <2> QED
    BY <2>1, <1>2
<1>4. Stored' /\ Accepted'
  BY <1>1 DEF StoreInv, Stored, Accepted, ListAccepted, Disposable
<1> QED
  BY <1>3, <1>4 DEF StoreInv

\* A block becomes Dirty, or is given up by a write that copies it.
LEMMA CachedStored ==
  ASSUME IInv, StoreInv, NEW t \in Threads,
         GetCached(t) \/ BeginCopyOnWrite(t)
  PROVE  StoreInv'
<1> USE DEF upVars, fileVars
<1>1. /\ Up /\ UNCHANGED <<blocklist, filesize, upVars>>
      /\ Goto(t, "copy") \/ Goto(t, "alloc")
  BY DEF GetCached, BeginCopyOnWrite, AtBlock
<1>2. \A u \in Threads : pc'[u] # "threw"
  <2>1. "copy" \in Places \ {"threw"} /\ "alloc" \in Places \ {"threw"}
    BY DEF Places
  <2> QED
    BY <2>1, <1>1, NotThrown
<1>3. \A d \in Cells : bstatus'[d] = "Clean" => bstatus[d] = "Clean"
  BY DEF GetCached, BeginCopyOnWrite, IInv, Kept, TypeOK
<1>4. ASSUME NEW f \in Files, NEW i \in 1..filesize[f], Disposable(f, i)'
      PROVE  Disposable(f, i)
  <2>1. i \in 1..Len(blocklist[f])
    <3>1. /\ filesize[f] <= Len(blocklist[f]) /\ Len(blocklist[f]) \in Nat
          /\ filesize[f] \in 0..MaxBlocks
      BY ThreadFacts, ListTyped DEF FileLengths, IInv, Kept, TypeOK
    <3> QED
      BY <3>1, BlockStoreAssumption
  <2> QED
    BY <2>1, <1>1, <1>3, <1>4, ListTyped DEF Disposable
<1> QED
  BY <1>1, <1>2, <1>4, StoreLeft

\* A place of a file is one of its list.
LEMMA PlaceInList ==
  ASSUME IInv, NEW f \in Files, NEW i \in 1..filesize[f]
  PROVE  /\ i \in 1..Len(blocklist[f]) /\ filesize[f] \in Nat
         /\ blocklist[f][i] \in {0} \cup Cells
<1>1. /\ filesize[f] <= Len(blocklist[f]) /\ Len(blocklist[f]) \in Nat
      /\ filesize[f] \in 0..MaxBlocks
  BY ThreadFacts, ListTyped DEF FileLengths, IInv, Kept, TypeOK
<1> QED
  BY <1>1, ListTyped, BlockStoreAssumption

\* get_free_from_list throws away a Clean block.
LEMMA TakenStored ==
  ASSUME IInv, ListInv, StoreInv, NEW t \in Threads, NEW c \in Cells,
         TakeExpired(t, c) \/ Evict(t, c)
  PROVE  StoreInv'
<1> USE DEF upVars
<1>1. /\ bstatus[c] \in {"Expired", "Clean"} /\ bstatus'[c] = "Ready"
      /\ \A d \in Cells \ {c} : bstatus'[d] = bstatus[d]
      /\ \A f \in Files : \A i \in 1..Len(blocklist[f]) :
           blocklist'[f][i] = IF blocklist[f][i] = c THEN 0
                              ELSE blocklist[f][i]
      /\ UNCHANGED <<filesize, upVars>>
  BY TakenFacts
<1>2. Up /\ Goto(t, "assign")
  BY DEF TakeExpired, Evict, Take
<1>3. \A u \in Threads : pc'[u] # "threw"
  <2>1. "assign" \in Places \ {"threw"}
    BY DEF Places
  <2> QED
    BY <2>1, <1>2, NotThrown
<1>4. ASSUME NEW f \in Files, NEW i \in 1..filesize[f], Disposable(f, i)'
      PROVE  Disposable(f, i)
  <2>1. i \in 1..Len(blocklist[f]) /\ blocklist[f][i] \in {0} \cup Cells
    BY PlaceInList
  <2>2. CASE blocklist[f][i] = c
    <3>1. c # 0
      BY CellsFacts DEF Cells
    <3>2. bstatus[c] # "Expired"
      BY <2>1, <2>2, <3>1 DEF ListInv, Owned, Belongs, Copying, Live
    <3> QED
      BY <2>2, <3>2, <1>1 DEF Disposable
  <2>3. CASE blocklist[f][i] # c
    BY <2>1, <2>3, <1>1, <1>4 DEF Disposable
  <2> QED
    BY <2>2, <2>3
<1> QED
  BY <1>1, <1>3, <1>4, StoreLeft

\* The size that truncate asks for.
LEMMA ResizeStored ==
  ASSUME IInv, ListInv, StoreInv, NEW t \in Threads, Grow(t) \/ Shrink(t)
  PROVE  StoreInv'
<1> USE DEF upVars
<1>1. CASE Grow(t)
  <2>1. /\ File(t) \in Files
        /\ Len(blocklist[File(t)]) = filesize[File(t)]
        /\ \A g \in Files \ {File(t)} : blocklist'[g] = blocklist[g]
        /\ \A j \in 1..Len(blocklist[File(t)]) :
             blocklist'[File(t)][j] = blocklist[File(t)][j]
        /\ UNCHANGED <<bstatus, filesize, upVars>>
    BY <1>1, GrowFacts DEF Grew
  <2>2. \A u \in Threads : pc'[u] # "threw"
    <3>1. "alloc" \in Places \ {"threw"}
      BY DEF Places
    <3>2. Up /\ Goto(t, "alloc")
      BY <1>1 DEF Grow
    <3> QED
      BY <3>1, <3>2, NotThrown
  <2> QED
    BY <2>1, <2>2, StoreLeft DEF Disposable
<1>2. CASE Shrink(t)
  <2>1. /\ File(t) \in Files /\ upVars' = upVars
        /\ req[t].hi <= filesize[File(t)] /\ filesize[File(t)] \in Nat
        /\ filesize'[File(t)] = req[t].hi /\ req[t].hi \in Nat
        /\ Len(blocklist'[File(t)]) = req[t].hi
        /\ \A g \in Files \ {File(t)} : /\ filesize'[g] = filesize[g]
                                        /\ blocklist'[g] = blocklist[g]
    BY <1>2, ShrinkFacts DEF Shrunk
  <2>2. \A g \in Files : \A i \in 1..Len(blocklist'[g]) :
          /\ i \in 1..Len(blocklist[g])
          /\ blocklist'[g][i] = blocklist[g][i]
          /\ blocklist[g][i] # 0 =>
               bstatus'[blocklist[g][i]] = bstatus[blocklist[g][i]]
    BY <1>2, ShrunkFacts
  <2>3. \A u \in Threads : pc'[u] # "threw"
    BY <1>2, AfterResizeEnds DEF Shrink
  <2>4. ASSUME NEW f \in Files, NEW i \in 1..filesize'[f], Disposable(f, i)'
        PROVE  i \in 1..filesize[f] /\ Disposable(f, i)
    <3>1. i \in 1..filesize[f]
      BY <2>1
    <3>2. i \in 1..Len(blocklist'[f])
      BY <2>1, <3>1, PlaceInList
    <3> QED
      BY <2>2, <2>4, <3>1, <3>2 DEF Disposable
  <2> QED
    BY <2>1, <2>3, <2>4, StoreLeft
<1> QED
  BY <1>1, <1>2

\* A new block of a file is Dirty.
LEMMA AssignGrownStored ==
  ASSUME IInv, ListInv, OneClaim, IInv', StoreInv, NEW t \in Threads,
         AssignGrown(t)
  PROVE  StoreInv'
<1> DEFINE f == File(t)
           i == idx[t]
<1>1. /\ f \in Files /\ i \in Nat /\ filesize[f] \in Nat /\ filesize[f] < i
      /\ \A g \in Files \ {f} : filesize'[g] = filesize[g]
      /\ filesize'[f] \in {filesize[f], i}
      /\ \A g \in Files : \A j \in 1..Len(blocklist[g]) :
           blocklist[g][j] # 0 /\ ~(g = f /\ j = i) =>
             /\ blocklist'[g][j] = blocklist[g][j]
             /\ bstatus'[blocklist[g][j]] = bstatus[blocklist[g][j]]
      /\ \A j \in filesize[f]+1..i :
           /\ blocklist'[f][j] # 0
           /\ bstatus'[blocklist'[f][j]] = "Dirty"
  BY LongerFacts DEF Longer
<1>2. UNCHANGED upVars /\ Up
  BY DEF AssignGrown
<1>3. \A u \in Threads : pc'[u] # "threw"
  <2>1. Goto(t, "alloc") \/ AfterResize(t)
    BY DEF AssignGrown
  <2>2. "alloc" \in Places \ {"threw"}
    BY DEF Places
  <2> QED
    BY <2>1, <2>2, <1>2, NotThrown, AfterResizeEnds
<1> HIDE DEF f, i
<1>4. ASSUME NEW g \in Files, NEW j \in 1..filesize'[g], Disposable(g, j)'
      PROVE  j \in 1..filesize[g] /\ Disposable(g, j)
  <2>1. j \in 1..filesize[g]
    <3> SUFFICES ASSUME j \notin 1..filesize[g] PROVE FALSE
      OBVIOUS
    <3>1. g = f /\ j \in filesize[f]+1..i
      BY <1>1
    <3> QED
      BY <3>1, <1>1, <1>4 DEF Disposable
  <2>2. j \in 1..Len(blocklist[g]) /\ ~(g = f /\ j = i)
    BY <2>1, <1>1, PlaceInList
  <2> QED
    BY <2>1, <2>2, <1>1, <1>4 DEF Disposable
<1> QED
  BY <1>2, <1>3, <1>4, StoreLeft DEF upVars

\* A block that a read has loaded is in storage.
LEMMA AssignBlockStored ==
  ASSUME IInv, ListInv, OneClaim, StoreInv, NEW t \in Threads, AssignBlock(t)
  PROVE  StoreInv'
<1> USE DEF upVars, history
<1> DEFINE f == File(t)
           c == pin[t]
<1>1. /\ pc[t] = "assign" /\ Up /\ ~Growing(t) /\ Holding(t)
      /\ Goto(t, "copy")
      /\ Own(t) /\ pc'[t] = "copy"
      /\ ign'[t] = 0 /\ \A u \in Threads \ {t} : ign'[u] = ign[u]
      /\ UNCHANGED <<ncells, filesize, fstatus, req, idx, upVars>>
  BY GotoOwn DEF AssignBlock, Own, IInv, Kept, TypeOK, Calls, Places, Holding
<1>2. Assigned(t)
  BY <1>1 DEF AssignBlock, Assigned, NotedIndex, File
<1>3. Placed(t)
  BY <1>1, <1>2, PlacedFacts
<1>4. bstatus'[c] = IF req[t].op = "read" THEN "Clean" ELSE "Dirty"
  BY <1>3 DEF AssignBlock, IInv, Kept, TypeOK, Placed
<1>5. \A u \in Threads : pc'[u] # "threw"
  <2>1. "copy" \in Places \ {"threw"}
    BY DEF Places
  <2> QED
    BY <2>1, <1>1, NotThrown
<1> HIDE DEF f, c
<1>6. ASSUME NEW g \in Files, NEW j \in 1..filesize[g], Disposable(g, j)'
      PROVE  Disposable(g, j)
  <2>1. j \in 1..Len(blocklist[g]) /\ blocklist[g][j] \in {0} \cup Cells
    BY PlaceInList
  <2>2. CASE g = f /\ j = idx[t]
    <3>1. blocklist'[g][j] = c /\ c # 0 /\ blocklist[g][j] = ign[t]
      BY <2>2, <1>3 DEF Placed, f, c
    <3>2. req[t].op = "read"
      BY <1>4, <1>6, <3>1 DEF Disposable
    <3>3. ign[t] = 0
      BY <3>2 DEF ListInv, Writers
    <3> QED
      BY <3>1, <3>3 DEF Disposable
  <2>3. CASE ~(g = f /\ j = idx[t])
    <3>1. blocklist'[g][j] = blocklist[g][j] /\ blocklist[g][j] # c
      BY <2>1, <2>3, <1>3 DEF Placed, f, c
    <3>2. blocklist[g][j] # 0 =>
            bstatus'[blocklist[g][j]] = bstatus[blocklist[g][j]]
      BY <2>1, <3>1, <1>3 DEF Placed, c
    <3> QED
      BY <3>1, <3>2, <1>6 DEF Disposable
  <2> QED
    BY <2>2, <2>3
<1> QED
  BY <1>1, <1>5, <1>6, StoreLeft

\* The blocks that the snapshot leaves out are in storage.
LEMMA TakeSnapshotStored ==
  ASSUME IInv, ListInv, StoreInv, TakeSnapshot
  PROVE  StoreInv'
<1> USE DEF threadVars
<1>1. PICK f \in Files : f = Head(upload_queue)
  BY HeadTailProperties DEF TakeSnapshot, IInv, Kept, TypeOK
<1>2. /\ Free(f) /\ upc = "idle" /\ item' = f /\ upc' = "send"
      /\ filesize[f] = Len(blocklist[f]) /\ Len(blocklist[f]) \in Nat
      /\ DOMAIN snap' = 1..Len(blocklist[f]) /\ Len(snap') = Len(blocklist[f])
      /\ \A i \in 1..Len(blocklist[f]) :
           snap'[i] = IF /\ blocklist[f][i] # 0
                         /\ bstatus[blocklist[f][i]] = "Dirty"
                      THEN blocklist[f][i] ELSE 0
      /\ \A c \in Cells :
           IF bstatus[c] = "Dirty" /\ basefile[c] = f
           THEN bstatus'[c] = "Uploading"
           ELSE bstatus'[c] = bstatus[c]
      /\ UNCHANGED <<ncells, basefile, block_index, data, blocklist,
                     filesize, m_mutex, threadVars, result, blob, fails,
                     history>>
  BY <1>1, SnapshotFacts
<1>3. Stored'
  <2> SUFFICES ASSUME NEW g \in Files, NEW i \in 1..filesize[g],
                      Disposable(g, i)'
               PROVE  i <= Len(blob[g])
    BY <1>2 DEF Stored
  <2>1. blocklist[g][i] \in {0} \cup Cells
    BY PlaceInList
  <2>2. Disposable(g, i)
    BY <2>1, <1>2 DEF Disposable
  <2> QED
    BY <2>2 DEF StoreInv, Stored
<1>4. Accepted'
  <2> SUFFICES ASSUME NEW i \in 1..Len(blocklist[f]), snap'[i] = 0
               PROVE  i <= Len(blob[f])
    BY <1>2 DEF Accepted, ListAccepted
  <2>1. Disposable(f, i)
    <3> SUFFICES ASSUME blocklist[f][i] # 0
                 PROVE  bstatus[blocklist[f][i]] = "Clean"
      BY DEF Disposable
    <3>1. /\ blocklist[f][i] \in Cells
          /\ bstatus[blocklist[f][i]] \in Live
      BY <1>2, FreeIsLive
    <3>2. bstatus[blocklist[f][i]] # "Dirty"
      BY <1>2, <3>1
    <3>3. bstatus[blocklist[f][i]] # "Uploading"
      <4>1. snap = <<>>
        BY <1>2 DEF IInv, Kept, Uploads
      <4> QED
        BY <3>1, <4>1 DEF IInv, Kept, Snapped
    <3> QED
      BY <3>1, <3>2, <3>3 DEF Live
  <2> QED
    BY <2>1, <1>2 DEF StoreInv, Stored
<1>5. ThrowsOnlyBeyond'
  BY <1>2 DEF StoreInv, ThrowsOnlyBeyond, File
<1> QED
  BY <1>3, <1>4, <1>5 DEF StoreInv

\* The blob that upload_block_list makes is as long as the snapshot; the blocks
\* that the file has got since are in no blob, and stay in the cache.
LEMMA CommitStored ==
  ASSUME IInv, ListInv, StoreInv, Commit
  PROVE  StoreInv'
<1> USE DEF cacheVars, fileVars, threadVars
<1>1. /\ upc = "send" /\ upc' = "restore"
      /\ blob' = [blob EXCEPT ![item] = NewBlob]
      /\ UNCHANGED <<cacheVars, fileVars, threadVars, upload_queue, item, snap,
                     sent, fails, history>>
  BY DEF Commit, StoreInv, Accepted
<1>2. item \in Files
  BY <1>1 DEF IInv, Kept, Uploads
<1>3. /\ blob'[item] = NewBlob /\ \A g \in Files \ {item} : blob'[g] = blob[g]
  BY <1>1, <1>2 DEF IInv, Kept, TypeOK
<1>4. Len(NewBlob) = Len(snap) /\ Len(snap) \in Nat
  BY SnapTyped DEF NewBlob
<1>5. Stored'
  <2> SUFFICES ASSUME NEW g \in Files, NEW i \in 1..filesize[g],
                      Disposable(g, i)'
               PROVE  i <= Len(blob'[g])
    BY <1>1 DEF Stored
  <2>1. Disposable(g, i)
    BY <1>1 DEF Disposable
  <2>2. CASE g # item
    BY <2>1, <2>2, <1>3 DEF StoreInv, Stored
  <2>3. CASE g = item
    <3>1. ~Unsaved(item, i)
      BY <2>1, <2>3 DEF Unsaved, Disposable
    <3>2. ~(i > Len(snap))
      BY <2>3, <3>1, <1>1 DEF ListInv, Pending
    <3>3. i \in Nat
      BY PlaceInList
    <3> QED
      BY <2>3, <3>2, <3>3, <1>3, <1>4
  <2> QED
    BY <2>2, <2>3
<1>6. Accepted'
  BY <1>1, <1>3, <1>4 DEF Accepted
<1>7. ThrowsOnlyBeyond'
  BY <1>1 DEF StoreInv, ThrowsOnlyBeyond, File
<1> QED
  BY <1>5, <1>6, <1>7 DEF StoreInv

\* A block that ~Snapshot hands back as Clean is in the blob.
LEMMA RestoreBlockStored ==
  ASSUME IInv, ListInv, StoreInv, NEW i \in Index, i \in DOMAIN snap,
         RestoreBlock(i)
  PROVE  StoreInv'
<1> USE DEF fileVars, threadVars
<1> DEFINE c == snap[i]
<1>1. /\ c > 0 /\ bstatus' = [bstatus EXCEPT ![c] = Restored(@)]
      /\ upc = "restore"
      /\ snap' = [snap EXCEPT ![i] = 0]
      /\ UNCHANGED <<ncells, basefile, block_index, data, fileVars, threadVars,
                     upload_queue, upc, item, sent, result, blob, fails,
                     content>>
  BY DEF RestoreBlock
<1>2. c \in Cells /\ c # 0 /\ basefile[c] = item /\ block_index[c] = i
  BY <1>1, SnapTyped, CellsFacts DEF ListInv, SnapshotPinned, Cells
<1>3. \A d \in Cells \ {c} : bstatus'[d] = bstatus[d]
  BY <1>1, <1>2 DEF IInv, Kept, TypeOK
<1>4. Len(snap') = Len(snap) /\ Len(snap) \in Nat /\ i \in 1..Len(snap)
  BY <1>1, SnapTyped, ExceptSeq
<1> HIDE DEF c
<1>5. Stored'
  <2> SUFFICES ASSUME NEW g \in Files, NEW j \in 1..filesize[g],
                      Disposable(g, j)'
               PROVE  j <= Len(blob[g])
    BY <1>1 DEF Stored
  <2>1. j \in 1..Len(blocklist[g]) /\ blocklist[g][j] \in {0} \cup Cells
    BY PlaceInList
  <2>2. CASE blocklist[g][j] = c
    <3>1. g = item /\ j = i
      BY <2>1, <2>2, <1>2 DEF ListInv, Owned, Belongs
    <3>2. Len(blob[item]) = Len(snap)
      BY <1>1 DEF StoreInv, Accepted
    <3> QED
      BY <3>1, <3>2, <1>4
  <2>3. CASE blocklist[g][j] # c
    <3>1. Disposable(g, j)
      BY <2>1, <2>3, <1>1, <1>3 DEF Disposable
    <3> QED
      BY <3>1 DEF StoreInv, Stored
  <2> QED
    BY <2>2, <2>3
<1>6. Accepted'
  BY <1>1, <1>4 DEF StoreInv, Accepted
<1>7. ThrowsOnlyBeyond'
  BY <1>1 DEF StoreInv, ThrowsOnlyBeyond, File
<1> QED
  BY <1>5, <1>6, <1>7 DEF StoreInv

LEMMA EndStored ==
  ASSUME StoreInv, SendBlock \/ EndUpload \/ UNCHANGED vars
  PROVE  StoreInv'
<1>1. /\ UNCHANGED <<bstatus, blocklist, filesize, blob, req, idx, pc>>
      /\ upc' = "idle" \/ UNCHANGED <<upc, item, snap>>
  BY DEF SendBlock, EndUpload, vars, cacheVars, fileVars, threadVars, upVars
<1> QED
  BY <1>1 DEF StoreInv, Stored, Accepted, ListAccepted, Disposable,
     ThrowsOnlyBeyond, File

LEMMA StoreInit ==
  ASSUME Init
  PROVE  StoreInv
<1>1. \A f \in Files : Len(blob[f]) = filesize[f]
  <2> SUFFICES ASSUME NEW f \in Files PROVE Len(blob[f]) = filesize[f]
    OBVIOUS
  <2>1. InitBlocks[f] \in Nat
    BY BlockStoreAssumption
  <2> QED
    BY <2>1 DEF Init, Fill
<1>2. \A f \in Files : filesize[f] \in Nat
  BY BlockStoreAssumption DEF Init
<1> QED
  BY <1>1, <1>2 DEF Init, StoreInv, Stored, Accepted, ThrowsOnlyBeyond

\* Every step of which no request fails.
LEMMA StoreInductive ==
  ASSUME IInv, ListInv, OneClaim, StoreInv, [Next]_vars, ~RequestFails
  PROVE  StoreInv'
<1>1. IInv'
  BY Inductive
<1>2. ASSUME NEW t \in Threads, Begin(t) PROVE StoreInv'
  BY <1>2, StillStored
<1>3. ASSUME NEW t \in Threads, Proceed(t) PROVE StoreInv'
  BY <1>1, <1>3, StillStored, ThrowsStored, CachedStored, TakenStored,
     ResizeStored, AssignGrownStored, AssignBlockStored DEF Proceed
<1>4. ASSUME Upload PROVE StoreInv'
  BY <1>4, TakeSnapshotStored, CommitStored, RestoreBlockStored, EndStored
     DEF Upload
<1>5. CASE UNCHANGED vars
  BY <1>5, EndStored
<1> QED
  BY <1>2, <1>3, <1>4, <1>5 DEF Next

-----------------------------------------------------------------------------
\* The theorems.  Their condition is a behaviour in which get_free does not
\* hand one cell to two threads.  It may: put_new_item leaves the new cell
\* Expired in the list, where get_free_from_list of another thread finds it
\* before the first has assigned it.

LEMMA ListStep ==
  IInv /\ ListInv /\ OneClaim /\ [Next]_vars => (IInv /\ ListInv)'
BY Inductive, ListInductive

LEMMA ListStart == Init => IInv /\ ListInv
BY InitKept, ListInit

\* However many threads share the cache, if no two are given one cell, a file's
\* list and the cells agree whenever the file's m_mutex is free: gc_notify,
\* copy on write, truncation and ~Snapshot keep the two sides together although
\* each changes them under different mutexes.
THEOREM ListsOwnTheirCells == Spec /\ []OneClaim => []MappedIsOwned
<1>1. IInv /\ ListInv => MappedIsOwned
  BY FreeIsLive DEF MappedIsOwned
<1> QED
  BY <1>1, ListStart, ListStep, PTL DEF Spec

\* Under the same condition a snapshot's cells are its own from create_snap to
\* ~Snapshot: writers, truncation and get_free leave the blocks that are being
\* uploaded where they are.
THEOREM SnapshotsStayPinned == Spec /\ []OneClaim => []SnapshotPinned
<1>1. ListInv => SnapshotPinned
  BY DEF ListInv
<1> QED
  BY <1>1, ListStart, ListStep, PTL DEF Spec

\* Under the same condition no Dirty block is forgotten: its file is Dirty and
\* in the queue, or a write or truncate that has not ended will put it there.
THEOREM DirtyIsCovered == Spec /\ []OneClaim => []DirtyCovered
<1>1. ListInv => DirtyCovered
  BY DEF ListInv
<1> QED
  BY <1>1, ListStart, ListStep, PTL DEF Spec

\* While no request to storage fails, and under the same condition, a call
\* throws only because truncation has cut its block off: a block that is
\* downloaded is in storage, whatever was evicted, truncated, grown again and
\* uploaded before.
THEOREM DownloadsFindTheirBlocks ==
  Spec /\ []OneClaim /\ [](fails = 0) => []ThrowsOnlyBeyond
<1>1. Init => StoreInv
  BY StoreInit
<1>2. /\ IInv /\ ListInv /\ StoreInv /\ OneClaim
      /\ fails = 0 /\ (fails = 0)' /\ [Next]_vars
      => StoreInv'
  <2> SUFFICES ASSUME IInv, ListInv, StoreInv, OneClaim, fails = 0, fails' = 0,
                      [Next]_vars
               PROVE  StoreInv'
    OBVIOUS
  <2>1. ~RequestFails
    BY DEF RequestFails
  <2> QED
    BY <2>1, StoreInductive
<1>3. StoreInv => ThrowsOnlyBeyond
  BY DEF StoreInv
<1> QED
  BY <1>1, <1>2, <1>3, ListStart, ListStep, PTL DEF Spec

=============================================================================
