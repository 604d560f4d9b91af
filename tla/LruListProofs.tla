---------------------------- MODULE LruListProofs ----------------------------
(***************************************************************************)
(* Proofs about LruList, for any number of threads, files, cells and       *)
(* calls.                                                                  *)
(***************************************************************************)
EXTENDS LruList, FiniteSetTheorems, SequenceTheorems, TLAPS

\* The threads that saw room for a cell and have not put it in yet.
News == {t \in Threads : pc[t] = "new" /\ link.by # t}

\* The cells of the list: all but the one that is being put in.
Linked == {c \in Made : ~(link.to = "new" /\ c = link.c)}

\* The cells and those on their way.
Counted == size - 2 + Cardinality(News) < CacheSize + Cardinality(Threads)

\* Who holds link_list_mutex moves its cell, or puts one in.
LinkHeld ==
  IF link.by = NoOne THEN link = NoLink
  ELSE /\ link.c \in Made
       /\ IF link.to = "new" THEN pc[link.by] = "new"
          ELSE MovesTo(link.by) = link.to /\ cell[link.by] = link.c

\* Links lead from the head and from the cells of the list to its cells, or to
\* the back; a cell that is taken out keeps its link until it has a new one.
LinksLead ==
  /\ next[0] \in Linked \cup {1}
  /\ \A c \in Linked : next[c] \in Linked \cup {1}
  /\ link.to = "new" /\ link.at = "pointed" => next[link.c] = 1

AtCell == {"touch", "expire", "taken", "skip", "claim", "mark", "made", "fill",
           "next"}
CellInList ==
  \A t \in Threads :
    /\ pc[t] \in AtCell => cell[t] \in Linked
    /\ pc[t] = "scan" => cell[t] \in Linked \cup {1}

\* Nothing has been put into a cell before it is in the list.
OthersExpired == \A c \in Cells \ Linked : st[c] = "Expired"

\* A call holds the m_mutex of its file; one that copies a block holds that
\* block's status_mutex too, and the block is of the file that is uploaded.
HoldsFile(t) ==
  IF pc[t] = "idle" THEN file[t] = NoOne
  ELSE file[t] \in Files /\ m_mutex[file[t]] = t
HoldsBlock(t) ==
  IF ignore[t] = 0 THEN TRUE
  ELSE /\ pc[t] \notin {"idle", "locked", "touch", "expire"}
       /\ ignore[t] \in Cells
       /\ status_mutex[ignore[t]] = t
       /\ st[ignore[t]] = "Up_Expired"
       /\ owner[ignore[t]] = file[t]
HoldsCell(t) ==
  pc[t] \in {"expire", "taken", "skip"} =>
    status_mutex[cell[t]] = t /\ cell[t] # ignore[t]
Holds == \A t \in Threads : HoldsFile(t) /\ HoldsBlock(t) /\ HoldsCell(t)

\* Nobody else holds a status_mutex.
Held(c, t) ==
  status_mutex[c] = t =>
    \/ ignore[t] = c
    \/ pc[t] \in {"expire", "taken", "skip"} /\ cell[t] = c
Holder == \A c \in Cells, t \in Threads : Held(c, t)

InUpload ==
  \A c \in Cells : st[c] \in {"Uploading", "Up_Expired"} =>
                     uploading # NoOne /\ owner[c] = uploading

\* A cell that has been taken is Ready, one that has been made Expired.
Makes(t) == pc[t] \in {"made", "fill"}
InHand ==
  \A t \in Threads :
    /\ Took(t) => st[cell[t]] = "Ready" \/ cell[t] \in shared
    /\ Makes(t) => st[cell[t]] = "Expired" \/ cell[t] \in shared
OneMaker ==
  \A t, u \in Threads :
    t # u /\ Makes(t) /\ Makes(u) => cell[t] # cell[u] \/ cell[t] \in shared

IInv ==
  /\ TypeOK
  /\ Counted
  /\ LinkHeld
  /\ LinksLead
  /\ CellInList
  /\ OthersExpired
  /\ Holds
  /\ Holder
  /\ InUpload
  /\ InHand
  /\ OneTaker
  /\ OneMaker

-----------------------------------------------------------------------------
LEMMA NewsFacts ==
  /\ Cardinality(Threads) \in Nat /\ Cardinality(Threads) > 0
  /\ IsFiniteSet(News)
  /\ Cardinality(News) \in Nat
  /\ Cardinality(News) <= Cardinality(Threads)
  /\ Cardinality(News') \in Nat
  /\ Cardinality(News') <= Cardinality(Threads)
<1>1. IsFiniteSet(Threads) /\ News \subseteq Threads /\ News' \subseteq Threads
  BY LruListAssumption DEF News
<1>2. Cardinality(Threads) # 0
  BY <1>1, LruListAssumption, FS_EmptySet
<1> QED
  BY <1>1, <1>2, FS_Subset, FS_CardinalityType

LEMMA Numbers ==
  /\ CacheSize \in Nat \ {0} /\ Last \in Nat /\ Last >= 2
  /\ NoOne \notin Threads /\ NoOne \notin Files
<1>1. Last = CacheSize + Cardinality(Threads)
  BY DEF Last
<1> QED
  BY <1>1, NewsFacts, LruListAssumption

LEMMA Ends == 0 \in 0..Last /\ 1 \in 0..Last
BY Numbers

\* Every cell there is has a place in the functions.
LEMMA MadeAreCells ==
  ASSUME IInv
  PROVE  /\ Made \subseteq Cells /\ Linked \subseteq Made
         /\ size \in Nat /\ size <= Last + 1
<1>1. size \in 2..Last + 1
  BY DEF IInv, TypeOK
<1> QED
  BY <1>1, Numbers DEF Made, Cells, Linked

\* Who holds link_list_mutex moves its cell, or puts one in.
LEMMA Moving ==
  ASSUME IInv, NEW t \in Threads, link.by = t
  PROVE  \/ pc[t] = "new" /\ link.to = "new"
         \/ pc[t] \in {"touch", "expire", "taken", "skip", "claim", "made"}
            /\ link.to # "new" /\ cell[t] = link.c
<1>1. t # NoOne
  BY Numbers
<1> QED
  BY <1>1 DEF IInv, TypeOK, LinkHeld, MovesTo

\* The thread that moves a cell does nothing else in the meantime.
LEMMA NotMoving ==
  ASSUME IInv, NEW t \in Threads,
         pc[t] \in {"idle", "locked", "mark", "fill", "head", "next", "scan"}
  PROVE  link.by # t
  BY Moving

\* A thread at a cell is at one that there is.
LEMMA AtCells ==
  ASSUME IInv
  PROVE  \A t \in Threads : pc[t] \in AtCell => cell[t] \in Cells
BY MadeAreCells DEF IInv, CellInList

-----------------------------------------------------------------------------
\* A thread that neither moves a cell nor is to make one, and will not be.
Steps(t, where, at) ==
  /\ UNCHANGED <<size, next, link>>
  /\ pc[t] # "new" /\ where # "new" /\ link.by # t
  /\ pc' = [pc EXCEPT ![t] = where]
  /\ cell' = [cell EXCEPT ![t] = at]
  /\ where \in AtCell => at \in Linked
  /\ where = "scan" => at \in Linked \cup {1}

LEMMA StepsKeepsList ==
  ASSUME IInv, NEW t \in Threads, NEW where, NEW at, Steps(t, where, at)
  PROVE  Counted' /\ LinkHeld' /\ LinksLead' /\ CellInList' /\ Linked' = Linked
<1>1. Linked' = Linked
  BY DEF Steps, Linked, Made
<1>2. TypeOK
  BY DEF IInv
<1>3. News' = News
  BY <1>2 DEF Steps, News, TypeOK
<1>4. Counted'
  BY <1>3 DEF IInv, Counted, Steps
<1>5. LinkHeld'
  <2>1. \A u \in Threads \ {t} :
          pc'[u] = pc[u] /\ cell'[u] = cell[u] /\ MovesTo(u)' = MovesTo(u)
    BY <1>2 DEF Steps, TypeOK, MovesTo
  <2>2. link.by \in (Threads \ {t}) \cup {NoOne}
    BY <1>2 DEF Steps, TypeOK
  <2>3. link' = link /\ Made' = Made
    BY DEF Steps, Made
  <2>4. CASE link.by = NoOne
    BY <2>3, <2>4 DEF IInv, LinkHeld
  <2>5. CASE link.by \in Threads \ {t}
    BY <2>1, <2>3, <2>5, Numbers DEF IInv, LinkHeld
  <2> QED
    BY <2>2, <2>4, <2>5
<1>6. LinksLead'
  BY <1>1 DEF IInv, LinksLead, Steps
<1>7. CellInList'
  BY <1>1, <1>2 DEF IInv, CellInList, Steps, TypeOK
<1> QED
  BY <1>1, <1>4, <1>5, <1>6, <1>7

\* A thread that saw room.
LEMMA RoomKeepsList ==
  ASSUME IInv, NEW t \in Threads, pc[t] = "locked", ~is_full,
         UNCHANGED <<links, cell>>, pc' = [pc EXCEPT ![t] = "new"]
  PROVE  Counted' /\ LinkHeld' /\ LinksLead' /\ CellInList' /\ Linked' = Linked
<1>1. Linked' = Linked
  BY DEF links, Linked, Made
<1>2. TypeOK
  BY DEF IInv
<1>3. Counted'
  <2>1. size < CacheSize + 2 /\ size' = size
    BY Numbers, MadeAreCells DEF is_full, links
  <2> QED
    BY <2>1, NewsFacts, Numbers, MadeAreCells DEF Counted
<1>4. LinkHeld'
  <2>1. link.by # t
    BY NotMoving
  <2>2. \A u \in Threads \ {t} :
          pc'[u] = pc[u] /\ cell'[u] = cell[u] /\ MovesTo(u)' = MovesTo(u)
    BY <1>2 DEF TypeOK, MovesTo
  <2>3. link.by \in (Threads \ {t}) \cup {NoOne}
    BY <1>2, <2>1 DEF TypeOK
  <2>4. link' = link /\ Made' = Made
    BY DEF links, Made
  <2>5. CASE link.by = NoOne
    BY <2>4, <2>5 DEF IInv, LinkHeld
  <2>6. CASE link.by \in Threads \ {t}
    BY <2>2, <2>4, <2>6, Numbers DEF IInv, LinkHeld
  <2> QED
    BY <2>3, <2>5, <2>6
<1>5. LinksLead'
  BY <1>1 DEF IInv, LinksLead, links
<1>6. CellInList'
  BY <1>1, <1>2 DEF IInv, CellInList, TypeOK, AtCell
<1> QED
  BY <1>1, <1>3, <1>4, <1>5, <1>6


-----------------------------------------------------------------------------
\* The rest of the invariant, where a thread changes its place only.
LEMMA GoKeeps ==
  ASSUME IInv, NEW t \in Threads, NEW where \in {"head", "next", "scan", "new"},
         pc[t] \in {"locked", "head", "next", "scan"},
         pc' = [pc EXCEPT ![t] = where],
         NEW at \in 0..Last, cell' = [cell EXCEPT ![t] = at],
         Linked' = Linked,
         UNCHANGED <<links, others, file, ignore, ops, shared>>
  PROVE  /\ TypeOK' /\ OthersExpired' /\ Holds' /\ Holder' /\ InUpload'
         /\ InHand' /\ OneTaker' /\ OneMaker'
<1>1. TypeOK
  BY DEF IInv
<1>2. TypeOK'
  BY <1>1 DEF TypeOK, links, others, cells
<1>3. OthersExpired' /\ InUpload'
  BY DEF IInv, OthersExpired, InUpload, others, cells
<1>4. Holds'
  <2> SUFFICES ASSUME NEW u \in Threads
               PROVE  HoldsFile(u)' /\ HoldsBlock(u)' /\ HoldsCell(u)'
    BY DEF Holds
  <2>1. HoldsFile(u) /\ HoldsBlock(u) /\ HoldsCell(u)
    BY DEF IInv, Holds
  <2> QED
    BY <1>1, <2>1 DEF TypeOK, HoldsFile, HoldsBlock, HoldsCell, others, cells
<1>5. Holder'
  <2> SUFFICES ASSUME NEW d \in Cells, NEW u \in Threads PROVE Held(d, u)'
    BY DEF Holder
  <2>1. Held(d, u)
    BY DEF IInv, Holder
  <2> QED
    BY <1>1, <2>1 DEF TypeOK, Held, others, cells
<1>6. InHand'
  BY <1>1 DEF IInv, TypeOK, InHand, Took, Makes, others, cells
<1>7. OneTaker' /\ OneMaker'
  BY <1>1 DEF IInv, TypeOK, OneTaker, OneMaker, Took, Makes
<1> QED
  BY <1>2, <1>3, <1>4, <1>5, <1>6, <1>7

LEMMA LookedAt ==
  ASSUME IInv, NEW t \in Threads, Looks(t)
  PROVE  /\ pc[t] = "scan" /\ link.by # t
         /\ cell[t] \in Linked /\ cell[t] \in Cells /\ cell[t] \in 0..Last
         /\ cell[t] # ignore[t] /\ status_mutex[cell[t]] = NoOne
<1>1. pc[t] = "scan" /\ cell[t] # 1 /\ cell[t] # ignore[t]
      /\ status_mutex[cell[t]] = NoOne
  BY DEF Looks, Free
<1>2. cell[t] \in Linked
  BY <1>1 DEF IInv, CellInList
<1> QED
  BY <1>1, <1>2, NotMoving, MadeAreCells DEF IInv, TypeOK

LEMMA FromHeadPreserves ==
  ASSUME IInv, NEW t \in Threads, FromHead(t)
  PROVE  IInv'
<1>1. /\ pc[t] = "head" /\ pc' = [pc EXCEPT ![t] = "scan"]
      /\ cell' = [cell EXCEPT ![t] = next[0]]
      /\ UNCHANGED <<links, others, file, ignore, ops, shared>>
  BY DEF FromHead, Goto
<1>2. next[0] \in Linked \cup {1} /\ next[0] \in 0..Last
  BY Numbers DEF IInv, LinksLead, TypeOK
<1>3. Counted' /\ LinkHeld' /\ LinksLead' /\ CellInList' /\ Linked' = Linked
  <2>1. Steps(t, "scan", next[0])
    BY <1>1, <1>2, NotMoving DEF Steps, links, AtCell
  <2> QED
    BY <2>1, StepsKeepsList
<1> QED
  BY <1>1, <1>2, <1>3, GoKeeps DEF IInv

LEMMA NextCellPreserves ==
  ASSUME IInv, NEW t \in Threads, NextCell(t)
  PROVE  IInv'
<1> DEFINE at == next[cell[t]]
<1>1. /\ pc[t] = "next" /\ pc' = [pc EXCEPT ![t] = "scan"]
      /\ cell' = [cell EXCEPT ![t] = at]
      /\ UNCHANGED <<links, others, file, ignore, ops, shared>>
  BY DEF NextCell, Goto, IInv, TypeOK
<1>2. at \in Linked \cup {1} /\ at \in 0..Last
  <2>1. cell[t] \in Linked /\ cell[t] \in 0..Last
    BY <1>1 DEF IInv, CellInList, AtCell, TypeOK
  <2> QED
    BY <2>1 DEF IInv, LinksLead, TypeOK
<1>3. Counted' /\ LinkHeld' /\ LinksLead' /\ CellInList' /\ Linked' = Linked
  <2>1. Steps(t, "scan", at)
    BY <1>1, <1>2, NotMoving DEF Steps, links, AtCell
  <2> QED
    BY <2>1, StepsKeepsList
<1> HIDE DEF at
<1> QED
  BY <1>1, <1>2, <1>3, GoKeeps DEF IInv

\* Again, Pass, and get_free in a full cache.
LEMMA StayPreserves ==
  ASSUME IInv, NEW t \in Threads, NEW where \in {"head", "next"},
         pc[t] \in {"locked", "scan"},
         where = "next" => cell[t] \in Linked,
         Goto(t, where),
         UNCHANGED <<links, others, file, cell, ignore, ops, shared>>
  PROVE  IInv'
<1>1. /\ pc' = [pc EXCEPT ![t] = where]
      /\ cell' = [cell EXCEPT ![t] = cell[t]] /\ cell[t] \in 0..Last
  BY DEF Goto, IInv, TypeOK
<1>2. Counted' /\ LinkHeld' /\ LinksLead' /\ CellInList' /\ Linked' = Linked
  <2>1. Steps(t, where, cell[t])
    BY <1>1, NotMoving DEF Steps, links, AtCell
  <2> QED
    BY <2>1, StepsKeepsList
<1> QED
  BY <1>1, <1>2, GoKeeps DEF IInv

LEMMA LoadPreserves ==
  ASSUME IInv, NEW t \in Threads, Load(t)
  PROVE  IInv'
<1>1. CASE is_full
  BY <1>1, StayPreserves DEF Load, Search
<1>2. CASE ~is_full
  <2>1. /\ pc[t] = "locked" /\ pc' = [pc EXCEPT ![t] = "new"]
        /\ cell' = [cell EXCEPT ![t] = cell[t]] /\ cell[t] \in 0..Last
        /\ UNCHANGED <<links, others, file, cell, ignore, ops, shared>>
    BY <1>2 DEF Load, Search, Goto, IInv, TypeOK
  <2>2. Counted' /\ LinkHeld' /\ LinksLead' /\ CellInList' /\ Linked' = Linked
    BY <1>2, <2>1, RoomKeepsList
  <2> QED
    BY <2>1, <2>2, GoKeeps DEF IInv
<1> QED
  BY <1>1, <1>2

LEMMA ScanPreserves ==
  ASSUME IInv, NEW t \in Threads, Again(t) \/ Pass(t)
  PROVE  IInv'
<1>1. CASE Again(t)
  BY <1>1, StayPreserves DEF Again
<1>2. CASE Pass(t)
  BY <1>2, StayPreserves, LookedAt DEF Pass
<1> QED
  BY <1>1, <1>2

-----------------------------------------------------------------------------
LEMMA TakeExpiredPreserves ==
  ASSUME IInv, NEW t \in Threads, TakeExpired(t)
  PROVE  IInv'
<1> DEFINE c == cell[t]
<1>1. TypeOK
  BY DEF IInv
<1>2. /\ pc[t] = "scan" /\ link.by # t /\ c \in Linked /\ c \in Cells
      /\ c \in 0..Last /\ c # ignore[t] /\ status_mutex[c] = NoOne
  BY LookedAt DEF TakeExpired
<1>3. /\ st[c] = "Expired" /\ st' = [st EXCEPT ![c] = "Ready"]
      /\ status_mutex' = [status_mutex EXCEPT ![c] = t]
      /\ pc' = [pc EXCEPT ![t] = "taken"]
      /\ cell' = [cell EXCEPT ![t] = c]
      /\ shared \subseteq shared'
      /\ shared' \subseteq shared \cup {c}
      /\ \A u \in Threads : Makes(u) /\ cell[u] = c => c \in shared'
      /\ UNCHANGED <<links, owner, m_mutex, uploading, file, cell, ignore, ops>>
  BY <1>1 DEF TakeExpired, Status, Goto, Makes, TypeOK
<1> HIDE DEF c
<1>4. Counted' /\ LinkHeld' /\ LinksLead' /\ CellInList' /\ Linked' = Linked
  <2>1. Steps(t, "taken", c)
    BY <1>2, <1>3 DEF Steps, links, AtCell
  <2> QED
    BY <2>1, StepsKeepsList
<1>5. TypeOK'
  BY <1>1, <1>2, <1>3 DEF TypeOK, links
<1>6. OthersExpired' /\ InUpload'
  BY <1>1, <1>2, <1>3, <1>4 DEF IInv, OthersExpired, InUpload, TypeOK
<1>7. Holds'
  <2> SUFFICES ASSUME NEW u \in Threads
               PROVE  HoldsFile(u)' /\ HoldsBlock(u)' /\ HoldsCell(u)'
    BY DEF Holds
  <2>1. HoldsFile(u) /\ HoldsBlock(u) /\ HoldsCell(u)
    BY DEF IInv, Holds
  <2>2. HoldsFile(u)'
    BY <1>1, <1>2, <1>3, <2>1, Numbers DEF HoldsFile, TypeOK
  <2>3. HoldsBlock(u)'
    BY <1>1, <1>2, <1>3, <2>1, Numbers DEF HoldsBlock, TypeOK
  <2>4. HoldsCell(u)'
    <3>1. CASE u = t
      BY <1>1, <1>2, <1>3, <3>1 DEF HoldsCell, TypeOK
    <3>2. CASE u # t
      <4>1. pc'[u] = pc[u] /\ cell'[u] = cell[u] /\ ignore'[u] = ignore[u]
        BY <1>1, <1>2, <1>3, <3>2 DEF TypeOK
      <4>2. pc[u] \in {"expire", "taken", "skip"} =>
              status_mutex'[cell[u]] = status_mutex[cell[u]]
        BY <1>1, <1>2, <1>3, <2>1, Numbers, AtCells
        DEF HoldsCell, TypeOK, AtCell
      <4> QED
        BY <2>1, <4>1, <4>2 DEF HoldsCell
    <3> QED
      BY <3>1, <3>2
  <2> QED
    BY <2>2, <2>3, <2>4
<1>8. Holder'
  <2> SUFFICES ASSUME NEW d \in Cells, NEW u \in Threads PROVE Held(d, u)'
    BY DEF Holder
  <2>1. Held(d, u)
    BY DEF IInv, Holder
  <2> QED
    BY <1>1, <1>2, <1>3, <2>1, Numbers DEF Held, TypeOK
<1>9. InHand'
  BY <1>1, <1>2, <1>3 DEF IInv, InHand, Took, Makes, TypeOK, c
<1>10. OneTaker' /\ OneMaker'
  BY <1>1, <1>2, <1>3
  DEF IInv, InHand, OneTaker, OneMaker, Took, Makes, TypeOK, c
<1> QED
  BY <1>4, <1>5, <1>6, <1>7, <1>8, <1>9, <1>10 DEF IInv

LEMMA EvictPreserves ==
  ASSUME IInv, NEW t \in Threads, Evict(t)
  PROVE  IInv'
<1> DEFINE c == cell[t]
<1>1. TypeOK
  BY DEF IInv
<1>2. /\ pc[t] = "scan" /\ link.by # t /\ c \in Linked /\ c \in Cells
      /\ c \in 0..Last /\ c # ignore[t] /\ status_mutex[c] = NoOne
  BY LookedAt DEF Evict
<1>3. /\ st[c] = "Clean" /\ st' = [st EXCEPT ![c] = "Ready"]
      /\ pc' = [pc EXCEPT ![t] = "claim"]
      /\ cell' = [cell EXCEPT ![t] = c]
      /\ UNCHANGED <<links, owner, status_mutex, m_mutex, uploading, file, cell,
                     ignore, ops, shared>>
  BY <1>1 DEF Evict, Status, Goto, TypeOK
<1> HIDE DEF c
<1>4. Counted' /\ LinkHeld' /\ LinksLead' /\ CellInList' /\ Linked' = Linked
  <2>1. Steps(t, "claim", c)
    BY <1>2, <1>3 DEF Steps, links, AtCell
  <2> QED
    BY <2>1, StepsKeepsList
<1>5. TypeOK'
  BY <1>1, <1>2, <1>3 DEF TypeOK, links
<1>6. OthersExpired' /\ InUpload'
  BY <1>1, <1>2, <1>3, <1>4 DEF IInv, OthersExpired, InUpload, TypeOK
<1>7. Holds'
  <2> SUFFICES ASSUME NEW u \in Threads
               PROVE  HoldsFile(u)' /\ HoldsBlock(u)' /\ HoldsCell(u)'
    BY DEF Holds
  <2>1. HoldsFile(u) /\ HoldsBlock(u) /\ HoldsCell(u)
    BY DEF IInv, Holds
  <2>2. HoldsFile(u)'
    BY <1>1, <1>2, <1>3, <2>1, Numbers DEF HoldsFile, TypeOK
  <2>3. HoldsBlock(u)'
    BY <1>1, <1>2, <1>3, <2>1, Numbers DEF HoldsBlock, TypeOK
  <2>4. HoldsCell(u)'
    BY <1>1, <1>2, <1>3, <2>1, Numbers, AtCells
    DEF HoldsCell, HoldsBlock, TypeOK, AtCell
  <2> QED
    BY <2>2, <2>3, <2>4
<1>8. Holder'
  <2> SUFFICES ASSUME NEW d \in Cells, NEW u \in Threads PROVE Held(d, u)'
    BY DEF Holder
  <2>1. Held(d, u)
    BY DEF IInv, Holder
  <2> QED
    BY <1>1, <1>2, <1>3, <2>1, Numbers DEF Held, TypeOK
<1>9. InHand'
  BY <1>1, <1>2, <1>3 DEF IInv, InHand, Took, Makes, TypeOK, c
<1>10. OneTaker' /\ OneMaker'
  BY <1>1, <1>2, <1>3
  DEF IInv, InHand, OneTaker, OneMaker, Took, Makes, TypeOK, c
<1> QED
  BY <1>4, <1>5, <1>6, <1>7, <1>8, <1>9, <1>10 DEF IInv

LEMMA SkipPreserves ==
  ASSUME IInv, NEW t \in Threads, Skip(t)
  PROVE  IInv'
<1> DEFINE c == cell[t]
<1>1. TypeOK
  BY DEF IInv
<1>2. /\ pc[t] = "scan" /\ link.by # t /\ c \in Linked /\ c \in Cells
      /\ c \in 0..Last /\ c # ignore[t] /\ status_mutex[c] = NoOne
  BY LookedAt DEF Skip
<1>3. /\ status_mutex' = [status_mutex EXCEPT ![c] = t]
      /\ pc' = [pc EXCEPT ![t] = "skip"]
      /\ cell' = [cell EXCEPT ![t] = c]
      /\ UNCHANGED <<links, st, owner, m_mutex, uploading, file, cell, ignore,
                     ops, shared>>
  BY <1>1 DEF Skip, Goto, TypeOK
<1> HIDE DEF c
<1>4. Counted' /\ LinkHeld' /\ LinksLead' /\ CellInList' /\ Linked' = Linked
  <2>1. Steps(t, "skip", c)
    BY <1>2, <1>3 DEF Steps, links, AtCell
  <2> QED
    BY <2>1, StepsKeepsList
<1>5. TypeOK'
  BY <1>1, <1>2, <1>3 DEF TypeOK, links
<1>6. OthersExpired' /\ InUpload'
  BY <1>3, <1>4 DEF IInv, OthersExpired, InUpload
<1>7. Holds'
  <2> SUFFICES ASSUME NEW u \in Threads
               PROVE  HoldsFile(u)' /\ HoldsBlock(u)' /\ HoldsCell(u)'
    BY DEF Holds
  <2>1. HoldsFile(u) /\ HoldsBlock(u) /\ HoldsCell(u)
    BY DEF IInv, Holds
  <2>2. HoldsFile(u)'
    BY <1>1, <1>2, <1>3, <2>1, Numbers DEF HoldsFile, TypeOK
  <2>3. HoldsBlock(u)'
    BY <1>1, <1>2, <1>3, <2>1, Numbers DEF HoldsBlock, TypeOK
  <2>4. HoldsCell(u)'
    <3>1. CASE u = t
      BY <1>1, <1>2, <1>3, <3>1 DEF HoldsCell, TypeOK
    <3>2. CASE u # t
      <4>1. pc'[u] = pc[u] /\ cell'[u] = cell[u] /\ ignore'[u] = ignore[u]
        BY <1>1, <1>2, <1>3, <3>2 DEF TypeOK
      <4>2. pc[u] \in {"expire", "taken", "skip"} =>
              status_mutex'[cell[u]] = status_mutex[cell[u]]
        BY <1>1, <1>2, <1>3, <2>1, Numbers, AtCells
        DEF HoldsCell, TypeOK, AtCell
      <4> QED
        BY <2>1, <4>1, <4>2 DEF HoldsCell
    <3> QED
      BY <3>1, <3>2
  <2> QED
    BY <2>2, <2>3, <2>4
<1>8. Holder'
  <2> SUFFICES ASSUME NEW d \in Cells, NEW u \in Threads PROVE Held(d, u)'
    BY DEF Holder
  <2>1. Held(d, u)
    BY DEF IInv, Holder
  <2> QED
    BY <1>1, <1>2, <1>3, <2>1, Numbers DEF Held, TypeOK
<1>9. InHand' /\ OneTaker' /\ OneMaker'
  BY <1>1, <1>2, <1>3 DEF IInv, InHand, OneTaker, OneMaker, Took, Makes, TypeOK
<1> QED
  BY <1>4, <1>5, <1>6, <1>7, <1>8, <1>9 DEF IInv

-----------------------------------------------------------------------------
LEMMA LockPreserves ==
  ASSUME IInv, NEW t \in Threads, NEW f \in Files, Lock(t, f)
  PROVE  IInv'
<1>1. TypeOK
  BY DEF IInv
<1>2. /\ pc[t] = "idle" /\ pc' = [pc EXCEPT ![t] = "locked"]
      /\ m_mutex[f] = NoOne /\ m_mutex' = [m_mutex EXCEPT ![f] = t]
      /\ file' = [file EXCEPT ![t] = f]
      /\ ops < MaxOps /\ ops' = ops + 1
      /\ cell' = [cell EXCEPT ![t] = cell[t]]
      /\ UNCHANGED <<links, cells, uploading, cell, ignore, shared>>
  BY <1>1 DEF Lock, Goto, TypeOK
<1>3. Counted' /\ LinkHeld' /\ LinksLead' /\ CellInList' /\ Linked' = Linked
  <2>1. Steps(t, "locked", cell[t])
    BY <1>2, NotMoving DEF Steps, links, AtCell
  <2> QED
    BY <2>1, StepsKeepsList
<1>4. TypeOK'
  BY <1>1, <1>2, LruListAssumption DEF TypeOK, links, cells
<1>5. OthersExpired' /\ InUpload'
  BY <1>2, <1>3 DEF IInv, OthersExpired, InUpload, cells
<1>6. Holds'
  <2> SUFFICES ASSUME NEW u \in Threads
               PROVE  HoldsFile(u)' /\ HoldsBlock(u)' /\ HoldsCell(u)'
    BY DEF Holds
  <2>1. HoldsFile(u) /\ HoldsBlock(u) /\ HoldsCell(u)
    BY DEF IInv, Holds
  <2>2. HoldsFile(u)'
    BY <1>1, <1>2, <2>1, Numbers DEF HoldsFile, TypeOK, cells
  <2>3. HoldsBlock(u)'
    BY <1>1, <1>2, <2>1, Numbers DEF HoldsBlock, TypeOK, cells
  <2>4. HoldsCell(u)'
    BY <1>1, <1>2, <2>1, Numbers, AtCells
    DEF HoldsCell, HoldsBlock, TypeOK, AtCell, cells
  <2> QED
    BY <2>2, <2>3, <2>4
<1>7. Holder'
  <2> SUFFICES ASSUME NEW d \in Cells, NEW u \in Threads PROVE Held(d, u)'
    BY DEF Holder
  <2>1. Held(d, u)
    BY DEF IInv, Holder
  <2> QED
    BY <1>1, <1>2, <2>1 DEF Held, TypeOK, cells
<1>8. InHand' /\ OneTaker' /\ OneMaker'
  BY <1>1, <1>2
  DEF IInv, InHand, OneTaker, OneMaker, Took, Makes, TypeOK, cells
<1> QED
  BY <1>3, <1>4, <1>5, <1>6, <1>7, <1>8 DEF IInv

\* A block of the thread's file that it works on.
LEMMA OwnedBlock ==
  ASSUME IInv, NEW t \in Threads, NEW c \in Cells, Owned(t, c)
  PROVE  /\ pc[t] = "locked" /\ link.by # t /\ ignore[t] = 0
         /\ c \in Linked /\ c \in 0..Last /\ owner[c] = file[t]
         /\ st[c] \in {"Clean", "Dirty", "Uploading"}
<1>1. pc[t] = "locked" /\ owner[c] = file[t]
      /\ st[c] \in {"Clean", "Dirty", "Uploading"}
  BY DEF Owned
<1>2. c \in Linked
  BY <1>1 DEF IInv, OthersExpired
<1>3. c \in 0..Last
  BY Numbers DEF Cells
<1> QED
  BY <1>1, <1>2, <1>3, NotMoving DEF IInv, Holds, HoldsBlock

LEMMA TouchPreserves ==
  ASSUME IInv, NEW t \in Threads, NEW c \in Cells, Touch(t, c)
  PROVE  IInv'
<1>1. TypeOK
  BY DEF IInv
<1>2. /\ pc[t] = "locked" /\ link.by # t /\ ignore[t] = 0
      /\ c \in Linked /\ c \in 0..Last
      /\ pc' = [pc EXCEPT ![t] = "touch"] /\ cell' = [cell EXCEPT ![t] = c]
      /\ UNCHANGED <<links, others, file, ignore, ops, shared>>
  BY OwnedBlock DEF Touch, Goto
<1>3. Counted' /\ LinkHeld' /\ LinksLead' /\ CellInList' /\ Linked' = Linked
  <2>1. Steps(t, "touch", c)
    BY <1>2 DEF Steps, links, AtCell
  <2> QED
    BY <2>1, StepsKeepsList
<1>4. TypeOK'
  BY <1>1, <1>2 DEF TypeOK, links, others, cells
<1>5. OthersExpired' /\ InUpload'
  BY <1>2, <1>3 DEF IInv, OthersExpired, InUpload, others, cells
<1>6. Holds' /\ Holder'
  <2>1. ASSUME NEW u \in Threads
        PROVE  HoldsFile(u)' /\ HoldsBlock(u)' /\ HoldsCell(u)'
    <3>1. HoldsFile(u) /\ HoldsBlock(u) /\ HoldsCell(u)
      BY DEF IInv, Holds
    <3> QED
      BY <1>1, <1>2, <3>1
      DEF TypeOK, HoldsFile, HoldsBlock, HoldsCell, others, cells
  <2>2. ASSUME NEW d \in Cells, NEW u \in Threads PROVE Held(d, u)'
    BY <1>1, <1>2 DEF IInv, TypeOK, Holder, Held, others, cells
  <2> QED
    BY <2>1, <2>2 DEF Holds, Holder
<1>7. InHand' /\ OneTaker' /\ OneMaker'
  BY <1>1, <1>2 DEF IInv, InHand, OneTaker, OneMaker, Took, Makes, TypeOK,
     others, cells
<1> QED
  BY <1>3, <1>4, <1>5, <1>6, <1>7 DEF IInv

LEMMA ExpirePreserves ==
  ASSUME IInv, NEW t \in Threads, NEW c \in Cells, Expire(t, c)
  PROVE  IInv'
<1>1. TypeOK
  BY DEF IInv
<1>2. /\ pc[t] = "locked" /\ link.by # t /\ ignore[t] = 0
      /\ c \in Linked /\ c \in 0..Last
      /\ st[c] \in {"Clean", "Dirty", "Uploading"}
      /\ status_mutex[c] = NoOne
      /\ pc' = [pc EXCEPT ![t] = "expire"] /\ cell' = [cell EXCEPT ![t] = c]
      /\ st' = [st EXCEPT ![c] = "Expired"]
      /\ status_mutex' = [status_mutex EXCEPT ![c] = t]
      /\ UNCHANGED <<links, owner, m_mutex, uploading, file, ignore, ops, shared>>
  BY OwnedBlock DEF Expire, Goto, Status, Free
<1>3. Counted' /\ LinkHeld' /\ LinksLead' /\ CellInList' /\ Linked' = Linked
  <2>1. Steps(t, "expire", c)
    BY <1>2 DEF Steps, links, AtCell
  <2> QED
    BY <2>1, StepsKeepsList
<1>4. TypeOK'
  BY <1>1, <1>2 DEF TypeOK, links
<1>5. OthersExpired' /\ InUpload'
  BY <1>1, <1>2, <1>3 DEF IInv, OthersExpired, InUpload, TypeOK
<1>6. Holds'
  <2> SUFFICES ASSUME NEW u \in Threads
               PROVE  HoldsFile(u)' /\ HoldsBlock(u)' /\ HoldsCell(u)'
    BY DEF Holds
  <2>1. HoldsFile(u) /\ HoldsBlock(u) /\ HoldsCell(u)
    BY DEF IInv, Holds
  <2>2. HoldsFile(u)'
    BY <1>1, <1>2, <2>1, Numbers DEF HoldsFile, TypeOK
  <2>3. HoldsBlock(u)'
    BY <1>1, <1>2, <2>1, Numbers DEF HoldsBlock, TypeOK
  <2>4. HoldsCell(u)'
    <3>1. CASE u = t
      BY <1>1, <1>2, <3>1, Numbers DEF HoldsCell, TypeOK, Cells
    <3>2. CASE u # t
      <4>1. pc'[u] = pc[u] /\ cell'[u] = cell[u] /\ ignore'[u] = ignore[u]
        BY <1>1, <1>2, <3>2 DEF TypeOK
      <4>2. pc[u] \in {"expire", "taken", "skip"} =>
              status_mutex'[cell[u]] = status_mutex[cell[u]]
        BY <1>1, <1>2, <2>1, Numbers, AtCells DEF HoldsCell, TypeOK, AtCell
      <4> QED
        BY <2>1, <4>1, <4>2 DEF HoldsCell
    <3> QED
      BY <3>1, <3>2
  <2> QED
    BY <2>2, <2>3, <2>4
<1>7. Holder'
  <2> SUFFICES ASSUME NEW d \in Cells, NEW u \in Threads PROVE Held(d, u)'
    BY DEF Holder
  <2>1. Held(d, u)
    BY DEF IInv, Holder
  <2> QED
    BY <1>1, <1>2, <2>1, Numbers DEF Held, TypeOK
<1>8. InHand' /\ OneTaker' /\ OneMaker'
  BY <1>1, <1>2 DEF IInv, InHand, OneTaker, OneMaker, Took, Makes, TypeOK
<1> QED
  BY <1>3, <1>4, <1>5, <1>6, <1>7, <1>8 DEF IInv

LEMMA CopyOnWritePreserves ==
  ASSUME IInv, NEW t \in Threads, NEW c \in Cells, CopyOnWrite(t, c)
  PROVE  IInv'
<1> DEFINE where == IF is_full THEN "head" ELSE "new"
<1>1. TypeOK
  BY DEF IInv
<1>2. /\ pc[t] = "locked" /\ link.by # t /\ ignore[t] = 0
      /\ c \in Linked /\ c \in 0..Last /\ owner[c] = file[t]
      /\ st[c] = "Uploading" /\ status_mutex[c] = NoOne
      /\ pc' = [pc EXCEPT ![t] = where] /\ cell' = [cell EXCEPT ![t] = cell[t]]
      /\ st' = [st EXCEPT ![c] = "Up_Expired"]
      /\ status_mutex' = [status_mutex EXCEPT ![c] = t]
      /\ ignore' = [ignore EXCEPT ![t] = c]
      /\ UNCHANGED <<links, owner, m_mutex, uploading, file, cell, ops, shared>>
  BY <1>1, OwnedBlock DEF CopyOnWrite, Search, Goto, Status, Free, TypeOK
<1>3. Counted' /\ LinkHeld' /\ LinksLead' /\ CellInList' /\ Linked' = Linked
  <2>1. CASE is_full
    <3>1. Steps(t, "head", cell[t])
      BY <1>2, <2>1 DEF Steps, links, AtCell
    <3> QED
      BY <3>1, StepsKeepsList
  <2>2. CASE ~is_full
    BY <1>2, <2>2, RoomKeepsList
  <2> QED
    BY <2>1, <2>2
<1>4. where \in {"head", "new"}
  OBVIOUS
<1> HIDE DEF where
<1>5. TypeOK'
  BY <1>1, <1>2, <1>4 DEF TypeOK, links
<1>6. OthersExpired' /\ InUpload'
  BY <1>1, <1>2, <1>3 DEF IInv, OthersExpired, InUpload, TypeOK
<1>7. Holds'
  <2> SUFFICES ASSUME NEW u \in Threads
               PROVE  HoldsFile(u)' /\ HoldsBlock(u)' /\ HoldsCell(u)'
    BY DEF Holds
  <2>1. HoldsFile(u) /\ HoldsBlock(u) /\ HoldsCell(u)
    BY DEF IInv, Holds
  <2>2. HoldsFile(u)'
    BY <1>1, <1>2, <1>4, <2>1, Numbers DEF HoldsFile, TypeOK
  <2>3. HoldsBlock(u)'
    BY <1>1, <1>2, <1>4, <2>1, Numbers DEF HoldsBlock, TypeOK
  <2>4. HoldsCell(u)'
    <3>1. CASE u = t
      BY <1>1, <1>2, <1>4, <3>1 DEF HoldsCell, TypeOK
    <3>2. CASE u # t
      <4>1. pc'[u] = pc[u] /\ cell'[u] = cell[u] /\ ignore'[u] = ignore[u]
        BY <1>1, <1>2, <1>4, <3>2 DEF TypeOK
      <4>2. pc[u] \in {"expire", "taken", "skip"} =>
              status_mutex'[cell[u]] = status_mutex[cell[u]]
        BY <1>1, <1>2, <1>4, <2>1, Numbers, AtCells
        DEF HoldsCell, TypeOK, AtCell
      <4> QED
        BY <2>1, <4>1, <4>2 DEF HoldsCell
    <3> QED
      BY <3>1, <3>2
  <2> QED
    BY <2>2, <2>3, <2>4
<1>8. Holder'
  <2> SUFFICES ASSUME NEW d \in Cells, NEW u \in Threads PROVE Held(d, u)'
    BY DEF Holder
  <2>1. Held(d, u)
    BY DEF IInv, Holder
  <2> QED
    <3>1. CASE u = t
      BY <1>1, <1>2, <2>1, <3>1, Numbers DEF Held, TypeOK, Cells
    <3>2. CASE u # t
      BY <1>1, <1>2, <2>1, <3>2, Numbers DEF Held, TypeOK
    <3> QED
      BY <3>1, <3>2
<1>9. InHand' /\ OneTaker' /\ OneMaker'
  BY <1>1, <1>2, <1>4 DEF IInv, InHand, OneTaker, OneMaker, Took, Makes, TypeOK
<1> QED
  BY <1>3, <1>5, <1>6, <1>7, <1>8, <1>9 DEF IInv

LEMMA MarkPreserves ==
  ASSUME IInv, NEW t \in Threads, NEW s \in {"Clean", "Dirty"}, Mark(t, s)
  PROVE  IInv'
<1> DEFINE c == cell[t]
           f == file[t]
<1>1. TypeOK
  BY DEF IInv
<1>2. PICK new \in {"Clean", "Dirty"} : st' = [st EXCEPT ![c] = new]
  BY DEF Mark, Status
<1>3. /\ pc[t] \in {"mark", "fill"} /\ status_mutex[c] = NoOne
      /\ owner' = [owner EXCEPT ![c] = f]
      /\ status_mutex' = [d \in Cells |-> IF d = ignore[t] THEN NoOne
                                          ELSE status_mutex[d]]
      /\ ignore' = [ignore EXCEPT ![t] = 0]
      /\ pc' = [pc EXCEPT ![t] = "idle"] /\ cell' = [cell EXCEPT ![t] = 0]
      /\ m_mutex' = [m_mutex EXCEPT ![f] = NoOne]
      /\ file' = [file EXCEPT ![t] = NoOne]
      /\ UNCHANGED <<links, uploading, ops, shared>>
  BY DEF Mark, Return, Goto, Free
<1>4. /\ c \in Linked /\ c \in Cells /\ f \in Files /\ m_mutex[f] = t
      /\ link.by # t
  BY <1>3, MadeAreCells, NotMoving
  DEF IInv, CellInList, AtCell, Holds, HoldsFile
<1> HIDE DEF c, f
<1>5. Counted' /\ LinkHeld' /\ LinksLead' /\ CellInList' /\ Linked' = Linked
  <2>1. Steps(t, "idle", 0)
    BY <1>3, <1>4 DEF Steps, links, AtCell
  <2> QED
    BY <2>1, StepsKeepsList
<1>6. TypeOK'
  <2>1. status_mutex' \in [Cells -> Threads \cup {NoOne}]
    BY <1>1, <1>3 DEF TypeOK
  <2>2. ignore' \in [Threads -> 0..Last] /\ cell' \in [Threads -> 0..Last]
    BY <1>1, <1>3, Ends DEF TypeOK
  <2>3. file' \in [Threads -> Files \cup {NoOne}]
    BY <1>1, <1>3 DEF TypeOK
  <2> QED
    BY <1>1, <1>2, <1>3, <1>4, <2>1, <2>2, <2>3 DEF TypeOK, links
<1>7. OthersExpired' /\ InUpload'
  BY <1>1, <1>2, <1>3, <1>4, <1>5 DEF IInv, OthersExpired, InUpload, TypeOK
<1>8. Holds'
  <2> SUFFICES ASSUME NEW u \in Threads
               PROVE  HoldsFile(u)' /\ HoldsBlock(u)' /\ HoldsCell(u)'
    BY DEF Holds
  <2>1. CASE u = t
    BY <1>1, <1>3, <2>1 DEF HoldsFile, HoldsBlock, HoldsCell, TypeOK
  <2>2. CASE u # t
    <3>1. /\ HoldsFile(u) /\ HoldsBlock(u) /\ HoldsCell(u)
          /\ HoldsBlock(t)
      BY DEF IInv, Holds
    <3>2. pc'[u] = pc[u] /\ cell'[u] = cell[u] /\ file'[u] = file[u]
          /\ ignore'[u] = ignore[u]
      BY <1>1, <1>3, <2>2 DEF TypeOK
    <3>3. HoldsFile(u)'
      BY <1>1, <1>3, <1>4, <2>2, <3>1, <3>2 DEF HoldsFile, TypeOK
    <3>4. HoldsBlock(u)'
      <4>1. ignore[u] # 0 => ignore[u] # c /\ ignore[u] # ignore[t]
        BY <1>3, <2>2, <3>1, Numbers DEF HoldsBlock
      <4> QED
        BY <1>1, <1>2, <1>3, <3>1, <3>2, <4>1 DEF HoldsBlock, TypeOK
    <3>5. HoldsCell(u)'
      <4>1. pc[u] \in {"expire", "taken", "skip"} =>
              cell[u] \in Cells /\ cell[u] # ignore[t]
        BY <2>2, <3>1, AtCells, Numbers
        DEF HoldsCell, HoldsBlock, AtCell, Cells
      <4> QED
        BY <1>3, <3>1, <3>2, <4>1 DEF HoldsCell
    <3> QED
      BY <3>3, <3>4, <3>5
  <2> QED
    BY <2>1, <2>2
<1>9. Holder'
  <2> SUFFICES ASSUME NEW d \in Cells, NEW u \in Threads, status_mutex'[d] = u
               PROVE  \/ ignore'[u] = d
                      \/ pc'[u] \in {"expire", "taken", "skip"} /\ cell'[u] = d
    BY DEF Holder, Held
  <2>1. d # ignore[t] /\ status_mutex[d] = u
    BY <1>3, Numbers
  <2>2. \/ ignore[u] = d
        \/ pc[u] \in {"expire", "taken", "skip"} /\ cell[u] = d
    BY <2>1 DEF IInv, Holder, Held
  <2>3. u # t
    BY <1>3, <2>1, <2>2
  <2> QED
    BY <1>1, <1>3, <2>2, <2>3 DEF TypeOK
\* Whoever is about to use the same cell has had it from the list too soon.
<1>10. \A u \in Threads : u # t /\ (Took(u) \/ Makes(u)) /\ cell[u] = c => c \in shared
  BY <1>3 DEF IInv, InHand, OneTaker, OneMaker, Took, Makes, c
<1>11. \A u \in Threads :
         /\ Took(u)' \/ Makes(u)' => u # t
         /\ u # t => /\ cell'[u] = cell[u]
                     /\ Took(u)' <=> Took(u)
                     /\ Makes(u)' <=> Makes(u)
  BY <1>1, <1>3 DEF Took, Makes, TypeOK
<1>12. InHand'
  <2>1. \A u \in Threads : Took(u) \/ Makes(u) => cell[u] \in Cells
    BY AtCells DEF Took, Makes, AtCell
  <2> QED
    BY <1>1, <1>2, <1>3, <1>10, <1>11, <2>1 DEF IInv, InHand, TypeOK
<1>13. OneTaker' /\ OneMaker'
  BY <1>3, <1>11 DEF IInv, OneTaker, OneMaker
<1> QED
  BY <1>5, <1>6, <1>7, <1>8, <1>9, <1>12, <1>13 DEF IInv

-----------------------------------------------------------------------------
\* The uploads.
LEMMA StartUploadPreserves ==
  ASSUME IInv, NEW f \in Files, StartUpload(f)
  PROVE  IInv'
<1>1. TypeOK
  BY DEF IInv
<1>2. /\ uploading = NoOne /\ uploading' = f
      /\ st' = [c \in Cells |-> IF c \in CellsOf(f, {"Dirty"}) THEN "Uploading"
                                                               ELSE st[c]]
      /\ UNCHANGED <<links, owner, status_mutex, m_mutex, threads, shared>>
  BY DEF StartUpload, Snapshot
<1>3. \A c \in Cells : IF c \in CellsOf(f, {"Dirty"})
                       THEN st[c] = "Dirty" /\ owner[c] = f /\ st'[c] = "Uploading"
                       ELSE st'[c] = st[c]
  BY <1>2 DEF CellsOf
<1>4. /\ Linked' = Linked /\ News' = News
      /\ UNCHANGED <<size, next, link, pc, cell, ignore, file, Made>>
  BY <1>2 DEF Linked, Made, News, links, threads
<1>5. Counted' /\ LinkHeld' /\ LinksLead' /\ CellInList'
  BY <1>4 DEF IInv, Counted, LinkHeld, LinksLead, CellInList, MovesTo
<1>6. TypeOK'
  BY <1>1, <1>2, <1>3 DEF TypeOK, links, threads
<1>7. OthersExpired' /\ InUpload'
  BY <1>2, <1>3, <1>4, Numbers DEF IInv, OthersExpired, InUpload
<1>8. Holds' /\ Holder'
  BY <1>2, <1>3, <1>4
  DEF IInv, Holds, HoldsFile, HoldsBlock, HoldsCell, Holder, Held
<1>9. InHand'
  <2>1. \A u \in Threads : Took(u) \/ Makes(u) => cell[u] \in Cells
    BY AtCells DEF Took, Makes, AtCell
  <2> QED
    BY <1>2, <1>3, <1>4, <2>1 DEF IInv, InHand, Took, Makes
<1>10. OneTaker' /\ OneMaker'
  BY <1>2, <1>4 DEF IInv, OneTaker, OneMaker, Took, Makes
<1> QED
  BY <1>5, <1>6, <1>7, <1>8, <1>9, <1>10 DEF IInv

\* The task does not end while a thread copies one of its blocks.
LEMMA EndUploadPreserves ==
  ASSUME IInv, EndUpload
  PROVE  IInv'
<1> DEFINE sent == CellsOf(uploading, {"Uploading", "Up_Expired"})
<1>1. TypeOK
  BY DEF IInv
<1>2. /\ uploading' = NoOne
      /\ \A c \in sent : status_mutex[c] = NoOne
      /\ st' = [c \in Cells |-> IF c \notin sent THEN st[c]
                                ELSE IF st[c] = "Uploading" THEN "Clean"
                                ELSE "Expired"]
      /\ UNCHANGED <<links, owner, status_mutex, m_mutex, threads, shared>>
  BY DEF EndUpload, Free
<1>3. \A c \in Cells :
        c \in sent <=> c \in Made /\ st[c] \in {"Uploading", "Up_Expired"}
  BY DEF IInv, InUpload, CellsOf
<1>4. \A c \in Cells : st[c] \in {"Uploading", "Up_Expired"} => c \in sent
  BY <1>3, MadeAreCells DEF IInv, OthersExpired
<1> HIDE DEF sent
<1>5. /\ Linked' = Linked /\ News' = News
      /\ UNCHANGED <<size, next, link, pc, cell, ignore, file, Made>>
  BY <1>2 DEF Linked, Made, News, links, threads
<1>6. Counted' /\ LinkHeld' /\ LinksLead' /\ CellInList'
  BY <1>5 DEF IInv, Counted, LinkHeld, LinksLead, CellInList, MovesTo
<1>7. TypeOK'
  BY <1>1, <1>2 DEF TypeOK, links, threads
<1>8. OthersExpired' /\ InUpload'
  BY <1>2, <1>3, <1>4, <1>5 DEF IInv, OthersExpired, InUpload
<1>9. Holds' /\ Holder'
  <2>1. \A u \in Threads : ignore[u] = 0
    BY <1>2, <1>4, Numbers DEF IInv, Holds, HoldsBlock
  <2> QED
    BY <1>2, <1>5, <2>1
    DEF IInv, Holds, HoldsFile, HoldsBlock, HoldsCell, Holder, Held
<1>10. InHand'
  <2>1. \A u \in Threads : Took(u) \/ Makes(u) => cell[u] \in Cells
    BY AtCells DEF Took, Makes, AtCell
  <2> QED
    BY <1>2, <1>3, <1>5, <2>1 DEF IInv, InHand, Took, Makes
<1>11. OneTaker' /\ OneMaker'
  BY <1>2, <1>5 DEF IInv, OneTaker, OneMaker, Took, Makes
<1> QED
  BY <1>6, <1>7, <1>8, <1>9, <1>10, <1>11 DEF IInv

-----------------------------------------------------------------------------
\* What comes after a move, but for the list.
LEMMA MovedKeeps ==
  ASSUME IInv, NEW t \in Threads, MovesTo(t) # "stay", Moved(t),
         UNCHANGED <<uploading, ops, shared>>,
         Linked' = Linked,
         size' \in 2..Last+1, prev' \in [0..Last -> 0..Last],
         next' \in [0..Last -> 0..Last], link' = NoLink
  PROVE  /\ TypeOK' /\ OthersExpired' /\ Holds' /\ Holder' /\ InUpload'
         /\ InHand' /\ OneTaker' /\ OneMaker'
         /\ \E where \in {"idle", "claim", "next", "mark", "fill"}, at \in 0..Last :
              /\ pc' = [pc EXCEPT ![t] = where]
              /\ cell' = [cell EXCEPT ![t] = at]
              /\ at = 0 \/ at \in Linked
              /\ where # "idle" => at \in Linked
<1>1. TypeOK /\ st' = st /\ owner' = owner
  BY DEF IInv, Moved, cells
<1>2. NoLink \in [by : Threads \cup {NoOne}, c : 0..Last,
                  to : {"back", "front", "new"}, at : {"out", "pointed"}]
  BY Numbers DEF NoLink
<1>3. /\ cell[t] \in Linked /\ cell[t] \in Cells /\ cell[t] \in 0..Last
      /\ pc[t] \in {"touch", "expire", "taken", "skip", "claim", "made"}
  BY <1>1, MadeAreCells DEF IInv, CellInList, AtCell, MovesTo, TypeOK
<1>4. OthersExpired' /\ InUpload'
  BY <1>1 DEF IInv, OthersExpired, InUpload
<1>5. CASE pc[t] \in {"touch", "expire"}
  <2> DEFINE f == file[t]
  <2>1. /\ pc' = [pc EXCEPT ![t] = "idle"] /\ cell' = [cell EXCEPT ![t] = 0]
        /\ m_mutex' = [m_mutex EXCEPT ![f] = NoOne]
        /\ file' = [file EXCEPT ![t] = NoOne]
        /\ status_mutex' = IF pc[t] = "expire"
                           THEN [status_mutex EXCEPT ![cell[t]] = NoOne]
                           ELSE status_mutex
        /\ ignore' = ignore
    BY <1>5 DEF Moved, Return, Goto, Unlock, cells
  <2>2. f \in Files /\ m_mutex[f] = t /\ ignore[t] = 0
    BY <1>5 DEF IInv, Holds, HoldsFile, HoldsBlock
  <2> HIDE DEF f
  <2>3. TypeOK'
    <3>1. cell' \in [Threads -> 0..Last]
      BY <1>1, <2>1, Ends DEF TypeOK
    <3>2. status_mutex' \in [Cells -> Threads \cup {NoOne}]
      BY <1>1, <2>1 DEF TypeOK
    <3>3. /\ m_mutex' \in [Files -> Threads \cup {NoOne}]
          /\ file' \in [Threads -> Files \cup {NoOne}]
      BY <1>1, <2>1 DEF TypeOK
    <3> QED
      BY <1>1, <1>2, <2>1, <3>1, <3>2, <3>3 DEF TypeOK
  <2>4. ASSUME NEW u \in Threads
        PROVE  HoldsFile(u)' /\ HoldsBlock(u)' /\ HoldsCell(u)'
    <3>1. /\ HoldsFile(u) /\ HoldsBlock(u) /\ HoldsCell(u) /\ HoldsCell(t)
      BY DEF IInv, Holds
    <3>2. CASE u = t
      BY <1>1, <2>1, <2>2, <3>2 DEF HoldsFile, HoldsBlock, HoldsCell, TypeOK
    <3>3. CASE u # t
      <4>1. pc'[u] = pc[u] /\ cell'[u] = cell[u] /\ file'[u] = file[u]
        BY <1>1, <2>1, <3>3 DEF TypeOK
      <4>2. HoldsFile(u)'
        BY <1>1, <2>1, <2>2, <3>1, <3>3, <4>1 DEF HoldsFile, TypeOK
      <4>3. \A d \in Cells : status_mutex[d] = u => status_mutex'[d] = u
        BY <1>1, <1>3, <2>1, <3>1, <3>3 DEF HoldsCell, TypeOK
      <4>4. HoldsBlock(u)'
        BY <1>1, <2>1, <3>1, <4>1, <4>3 DEF HoldsBlock
      <4>5. HoldsCell(u)'
        BY <2>1, <3>1, <4>1, <4>3, AtCells DEF HoldsCell, AtCell
      <4> QED
        BY <4>2, <4>4, <4>5
    <3> QED
      BY <3>2, <3>3
  <2>5. ASSUME NEW d \in Cells, NEW u \in Threads PROVE Held(d, u)'
    <3>1. Held(d, u) /\ Held(d, t)
      BY DEF IInv, Holder
    <3>2. CASE u = t
      BY <1>1, <1>3, <1>5, <2>1, <2>2, <3>1, <3>2, Numbers
      DEF Held, TypeOK, Cells
    <3>3. CASE u # t
      BY <1>1, <1>3, <2>1, <3>1, <3>3, Numbers DEF Held, TypeOK
    <3> QED
      BY <3>2, <3>3
  <2>6. InHand' /\ OneTaker' /\ OneMaker'
    BY <1>1, <1>5, <2>1
    DEF IInv, InHand, OneTaker, OneMaker, Took, Makes, TypeOK
  <2>7. \E where \in {"idle", "claim", "next", "mark", "fill"}, at \in 0..Last :
              /\ pc' = [pc EXCEPT ![t] = where]
              /\ cell' = [cell EXCEPT ![t] = at]
              /\ at = 0 \/ at \in Linked
              /\ where # "idle" => at \in Linked
    <3> SUFFICES \E at \in 0..Last : /\ pc' = [pc EXCEPT ![t] = "idle"]
                                    /\ cell' = [cell EXCEPT ![t] = at]
                                    /\ at = 0
      OBVIOUS
    <3> QED
      BY <2>1, Ends
  <2> QED
    BY <1>4, <2>3, <2>4, <2>5, <2>6, <2>7 DEF Holds, Holder
<1>6. CASE pc[t] \in {"taken", "skip", "claim", "made"}
  <2>1. PICK where \in {"claim", "next", "mark", "fill"} :
          /\ pc' = [pc EXCEPT ![t] = where]
          /\ where \in {"claim", "mark"} <=> pc[t] \in {"taken", "claim"}
          /\ where = "fill" <=> pc[t] = "made"
    BY <1>6 DEF Moved, Goto
  <2>2. /\ UNCHANGED <<m_mutex, file, cell, ignore>>
        /\ status_mutex' = IF pc[t] \in {"taken", "skip"}
                           THEN [status_mutex EXCEPT ![cell[t]] = NoOne]
                           ELSE status_mutex
        /\ cell' = [cell EXCEPT ![t] = cell[t]]
    BY <1>1, <1>6 DEF Moved, Unlock, cells, TypeOK
  <2>3. TypeOK'
    <3>1. status_mutex' \in [Cells -> Threads \cup {NoOne}]
      BY <1>1, <2>2 DEF TypeOK
    <3> QED
      BY <1>1, <1>2, <2>1, <2>2, <3>1 DEF TypeOK
  <2>4. ASSUME NEW u \in Threads
        PROVE  HoldsFile(u)' /\ HoldsBlock(u)' /\ HoldsCell(u)'
    <3>1. /\ HoldsFile(u) /\ HoldsBlock(u) /\ HoldsCell(u) /\ HoldsCell(t)
      BY DEF IInv, Holds
    <3>2. HoldsFile(u)'
      BY <1>1, <1>6, <2>1, <2>2, <3>1 DEF HoldsFile, TypeOK
    <3>3. \A d \in Cells : status_mutex[d] = u /\ (u # t \/ d # cell[t])
                             => status_mutex'[d] = u
      BY <1>1, <1>3, <2>2, <3>1 DEF HoldsCell, TypeOK
    <3>4. HoldsBlock(u)'
      <4>1. ignore[t] # 0 /\ pc[t] \in {"taken", "skip"} => ignore[t] # cell[t]
        BY <3>1 DEF HoldsCell
      <4>2. CASE u = t /\ pc[t] \in {"claim", "made"}
        BY <1>1, <1>6, <2>1, <2>2, <3>1, <4>2 DEF HoldsBlock, TypeOK
      <4>3. CASE u = t /\ pc[t] \in {"taken", "skip"}
        BY <1>1, <1>6, <2>1, <2>2, <3>1, <3>3, <4>1, <4>3
        DEF HoldsBlock, TypeOK
      <4>4. CASE u # t
        BY <1>1, <2>1, <2>2, <3>1, <3>3, <4>4 DEF HoldsBlock, TypeOK
      <4> QED
        BY <1>6, <4>2, <4>3, <4>4
    <3>5. HoldsCell(u)'
      <4>1. CASE u = t
        BY <1>1, <2>1, <4>1 DEF HoldsCell, TypeOK
      <4>2. CASE u # t
        BY <1>1, <2>1, <2>2, <3>1, <3>3, <4>2, AtCells
        DEF HoldsCell, AtCell, TypeOK
      <4> QED
        BY <4>1, <4>2
    <3> QED
      BY <3>2, <3>4, <3>5
  <2>5. ASSUME NEW d \in Cells, NEW u \in Threads PROVE Held(d, u)'
    <3>1. Held(d, u) /\ HoldsCell(t)
      BY DEF IInv, Holder, Holds
    <3>2. CASE u = t
      BY <1>1, <1>3, <1>6, <2>1, <2>2, <3>1, <3>2, Numbers DEF Held, TypeOK
    <3>3. CASE u # t
      BY <1>1, <1>3, <2>1, <2>2, <3>1, <3>3, Numbers DEF Held, TypeOK
    <3> QED
      BY <3>2, <3>3
  <2>6. InHand' /\ OneTaker' /\ OneMaker'
    <3>1. \A u \in Threads : /\ Took(u)' => Took(u)
                             /\ Makes(u)' => Makes(u)
      BY <1>1, <1>6, <2>1 DEF Took, Makes, TypeOK
    <3> QED
      BY <1>1, <2>2, <3>1 DEF IInv, InHand, OneTaker, OneMaker
  <2>7. \E at \in 0..Last : /\ pc' = [pc EXCEPT ![t] = where]
                            /\ cell' = [cell EXCEPT ![t] = at]
                            /\ at \in Linked
    BY <1>3, <2>1, <2>2
  <2> QED
    BY <1>4, <2>3, <2>4, <2>5, <2>6, <2>7 DEF Holds, Holder
<1> QED
  BY <1>3, <1>5, <1>6

LEMMA AlreadyBackPreserves ==
  ASSUME IInv, NEW t \in Threads, AlreadyBack(t)
  PROVE  IInv'
<1>1. /\ MovesTo(t) # "stay" /\ link = NoLink /\ Moved(t)
      /\ UNCHANGED <<links, uploading, ops, shared>>
  BY DEF AlreadyBack
<1>2. Linked' = Linked /\ link.by # t /\ pc[t] # "new"
  BY <1>1, Numbers DEF Linked, Made, links, NoLink, MovesTo
<1>3. /\ size' \in 2..Last+1 /\ prev' \in [0..Last -> 0..Last]
      /\ next' \in [0..Last -> 0..Last] /\ link' = NoLink
  BY <1>1 DEF IInv, TypeOK, links
<1>4. /\ TypeOK' /\ OthersExpired' /\ Holds' /\ Holder' /\ InUpload'
      /\ InHand' /\ OneTaker' /\ OneMaker'
      /\ \E where \in {"idle", "claim", "next", "mark", "fill"}, at \in 0..Last :
           /\ pc' = [pc EXCEPT ![t] = where]
           /\ cell' = [cell EXCEPT ![t] = at]
           /\ at = 0 \/ at \in Linked
           /\ where # "idle" => at \in Linked
  BY <1>1, <1>2, <1>3, MovedKeeps
<1>5. PICK where \in {"idle", "claim", "next", "mark", "fill"}, at \in 0..Last :
        /\ pc' = [pc EXCEPT ![t] = where]
        /\ cell' = [cell EXCEPT ![t] = at]
        /\ where # "idle" => at \in Linked
  BY <1>4
<1>6. Steps(t, where, at)
  BY <1>1, <1>2, <1>5 DEF Steps, links, AtCell
<1> QED
  BY <1>4, <1>6, StepsKeepsList DEF IInv

\* The part of the invariant that moving cells leaves alone.
LEMMA MovingKeeps ==
  ASSUME IInv, Linked' = Linked, UNCHANGED <<others, threads, shared>>
  PROVE  /\ OthersExpired' /\ Holds' /\ Holder' /\ InUpload' /\ InHand'
         /\ OneTaker' /\ OneMaker' /\ CellInList'
  BY DEF IInv, OthersExpired, Holds, HoldsFile, HoldsBlock, HoldsCell, Holder,
     Held, InUpload, InHand, OneTaker, OneMaker, Took, Makes, CellInList,
     others, cells, threads

LEMMA DetachPreserves ==
  ASSUME IInv, NEW t \in Threads, Detach(t)
  PROVE  IInv'
<1> DEFINE c == cell[t]
<1>1. TypeOK
  BY DEF IInv
<1>2. /\ MovesTo(t) \in {"back", "front"} /\ link = NoLink
      /\ next' = [next EXCEPT ![prev[c]] = next[c]]
      /\ prev' = [prev EXCEPT ![next[c]] = prev[c]]
      /\ link' = [by |-> t, c |-> c, to |-> MovesTo(t), at |-> "out"]
      /\ UNCHANGED <<size, others, threads, shared>>
  BY DEF Detach, TakeOut, BeforeSkips, BehindSkips, MovesTo
<1>3. c \in Linked /\ c \in 0..Last /\ pc[t] # "new"
  BY <1>1, <1>2 DEF IInv, CellInList, AtCell, MovesTo, TypeOK
<1> HIDE DEF c
<1>4. Linked' = Linked /\ Linked = Made
  BY <1>2 DEF Linked, Made, NoLink
<1>5. News' = News
  BY <1>2, <1>3, Numbers DEF News, threads, NoLink
<1>6. Counted'
  BY <1>2, <1>5 DEF IInv, Counted
<1>7. LinkHeld'
  <2>1. link'.by = t /\ link'.c = c /\ link'.to = MovesTo(t)
    BY <1>2
  <2>2. UNCHANGED <<pc, cell, Made>>
    BY <1>2 DEF threads, Made
  <2> QED
    BY <1>2, <1>3, <1>4, <2>1, <2>2, Numbers DEF LinkHeld, MovesTo, c
<1>8. next[c] \in Linked \cup {1} /\ next[c] \in 0..Last /\ prev[c] \in 0..Last
  BY <1>1, <1>3 DEF IInv, LinksLead, TypeOK
<1>9. LinksLead'
  BY <1>1, <1>2, <1>4, <1>8 DEF IInv, LinksLead, TypeOK, Linked
<1>10. TypeOK'
  <2>1. link' \in [by : Threads \cup {NoOne}, c : 0..Last,
                   to : {"back", "front", "new"}, at : {"out", "pointed"}]
    BY <1>2, <1>3
  <2> QED
    BY <1>1, <1>2, <1>8, <2>1 DEF TypeOK, others, cells, threads
<1> QED
  BY <1>2, <1>4, <1>6, <1>7, <1>9, <1>10, MovingKeeps DEF IInv

LEMMA PointPreserves ==
  ASSUME IInv, NEW t \in Threads, Point(t)
  PROVE  IInv'
<1> DEFINE c == link.c
<1>1. TypeOK
  BY DEF IInv
<1>2. /\ link.by = t /\ link.at = "out"
      /\ prev' = [prev EXCEPT ![c] = IF link.to = "front" THEN 0 ELSE prev[1]]
      /\ next' = [next EXCEPT ![c] = IF link.to = "front" THEN next[0] ELSE 1]
      /\ link' = [link EXCEPT !.at = "pointed"]
      /\ UNCHANGED <<size, others, threads, shared>>
  BY DEF Point
<1>3. /\ link'.by = link.by /\ link'.c = c /\ link'.to = link.to
      /\ link'.at = "pointed" /\ c \in 0..Last
  BY <1>1, <1>2 DEF TypeOK
<1>4. c \in Made
  BY <1>2, Numbers DEF IInv, LinkHeld
<1> HIDE DEF c
<1>5. Linked' = Linked /\ News' = News /\ UNCHANGED <<Made, pc, cell>>
  BY <1>2, <1>3 DEF Linked, Made, News, threads, c
<1>6. Counted'
  BY <1>2, <1>5 DEF IInv, Counted
<1>7. LinkHeld'
  BY <1>2, <1>3, <1>5, Numbers DEF IInv, LinkHeld, MovesTo, c
<1>8. LinksLead'
  <2>1. next[0] \in Linked \cup {1} /\ c # 0
    BY <1>4, Numbers DEF IInv, LinksLead, Made
  <2>2. \A d \in Linked : next'[d] \in Linked \cup {1}
    BY <1>1, <1>2, <1>3, <2>1 DEF IInv, LinksLead, TypeOK
  <2>3. next'[0] = next[0]
    BY <1>1, <1>2, <2>1, Numbers DEF TypeOK
  <2>4. link'.to = "new" => next'[c] = 1
    BY <1>1, <1>2, <1>3 DEF TypeOK
  <2> QED
    BY <1>3, <1>5, <2>1, <2>2, <2>3, <2>4 DEF LinksLead
<1>9. TypeOK'
  <2>1. link' \in [by : Threads \cup {NoOne}, c : 0..Last,
                   to : {"back", "front", "new"}, at : {"out", "pointed"}]
    BY <1>1, <1>2 DEF TypeOK
  <2>2. next[0] \in 0..Last /\ prev[1] \in 0..Last
    BY <1>1, Ends DEF TypeOK
  <2>3. next' \in [0..Last -> 0..Last] /\ prev' \in [0..Last -> 0..Last]
    BY <1>1, <1>2, <2>2, Ends DEF TypeOK
  <2> QED
    BY <1>1, <1>2, <2>1, <2>3 DEF TypeOK, others, cells, threads
<1> QED
  BY <1>2, <1>5, <1>6, <1>7, <1>8, <1>9, MovingKeeps DEF IInv

LEMMA PutNewItemPreserves ==
  ASSUME IInv, NEW t \in Threads, PutNewItem(t)
  PROVE  IInv'
<1>1. TypeOK
  BY DEF IInv
<1>2. /\ pc[t] = "new" /\ link = NoLink /\ size' = size + 1
      /\ link' = [by |-> t, c |-> size, to |-> "new", at |-> "out"]
      /\ UNCHANGED <<prev, next, others, threads, shared>>
  BY DEF PutNewItem
<1>3. t \in News /\ News' = News \ {t} /\ link.by = NoOne
  BY <1>2, Numbers DEF News, NoLink, threads
<1>4. Cardinality(News') = Cardinality(News) - 1
  BY <1>3, NewsFacts, FS_RemoveElement
<1>5. Counted'
  BY <1>1, <1>2, <1>4, NewsFacts, Numbers, MadeAreCells DEF IInv, Counted
<1>6. size \in 2..Last
  BY <1>1, <1>4, NewsFacts, Numbers, MadeAreCells
  DEF IInv, Counted, TypeOK, Last
<1>7. Linked' = Linked /\ size \in Made'
  BY <1>2, <1>6, Numbers DEF Linked, Made, NoLink
<1>8. LinkHeld'
  <2>1. link'.by = t /\ link'.c = size /\ link'.to = "new"
    BY <1>2
  <2> QED
    BY <1>2, <1>7, <2>1, Numbers DEF LinkHeld, threads
<1>9. LinksLead'
  BY <1>2, <1>7 DEF IInv, LinksLead
<1>10. TypeOK'
  <2>1. link' \in [by : Threads \cup {NoOne}, c : 0..Last,
                   to : {"back", "front", "new"}, at : {"out", "pointed"}]
    BY <1>2, <1>6, Numbers
  <2>2. size' \in 2..Last+1
    BY <1>2, <1>6, Numbers
  <2> QED
    BY <1>1, <1>2, <2>1, <2>2 DEF TypeOK, others, cells, threads
<1> QED
  BY <1>2, <1>5, <1>7, <1>8, <1>9, <1>10, MovingKeeps DEF IInv

LEMMA AttachPreserves ==
  ASSUME IInv, NEW t \in Threads, Attach(t)
  PROVE  IInv'
<1> DEFINE c == link.c
<1>1. TypeOK
  BY DEF IInv
<1>2. /\ link.by = t /\ link.at = "pointed" /\ link' = NoLink
      /\ UNCHANGED <<size, uploading, ops, shared>>
      /\ \/ /\ link.to = "front"
            /\ prev' = [prev EXCEPT ![next[0]] = c]
            /\ next' = [next EXCEPT ![0] = c]
         \/ /\ link.to # "front"
            /\ next' = [next EXCEPT ![prev[1]] = c]
            /\ prev' = [prev EXCEPT ![1] = c]
  BY DEF Attach
<1>3. /\ c \in Made /\ c \in Cells /\ c \in 0..Last /\ c # 0
      /\ next[0] \in 0..Last /\ prev[1] \in 0..Last
  <2>1. c \in Made
    BY <1>2, Numbers DEF IInv, LinkHeld
  <2>2. c \in Cells /\ c # 0
    BY <2>1, MadeAreCells, Numbers DEF Made
  <2>3. c \in 0..Last
    BY <1>1 DEF TypeOK
  <2>4. next[0] \in 0..Last /\ prev[1] \in 0..Last
    BY <1>1, Ends DEF TypeOK
  <2> QED
    BY <2>1, <2>2, <2>3, <2>4
<1>4. next' \in [0..Last -> 0..Last] /\ prev' \in [0..Last -> 0..Last]
  BY <1>1, <1>2, <1>3 DEF TypeOK
<1>5. Linked' = Made /\ Linked \subseteq Made
  BY <1>2 DEF Linked, Made, NoLink
<1>6. LinkHeld'
  BY <1>2 DEF LinkHeld, NoLink
<1>7. LinksLead'
  <2>1. /\ next[0] \in Made \cup {1}
        /\ \A d \in Linked : next[d] \in Made \cup {1}
        /\ link.to = "new" => next[c] = 1
    BY <1>2, <1>5 DEF IInv, LinksLead
  <2>2. \A d \in Made : next[d] \in Made \cup {1}
    BY <2>1 DEF Linked
  <2>3. \A p \in 0..Last : next'[p] = next[p] \/ next'[p] = c
    BY <1>1, <1>2, <1>3 DEF TypeOK
  <2>4. Made \subseteq 0..Last
    BY MadeAreCells, Numbers DEF Cells
  <2>5. link'.to # "new"
    BY <1>2 DEF NoLink
  <2> QED
    BY <1>3, <1>5, <2>1, <2>2, <2>3, <2>4, <2>5, Ends DEF LinksLead
<1>8. SUFFICES TypeOK' /\ Counted' /\ CellInList' /\ OthersExpired' /\ Holds'
               /\ Holder' /\ InUpload' /\ InHand' /\ OneTaker' /\ OneMaker'
  BY <1>6, <1>7 DEF IInv
<1>9. CASE link.to # "new"
  <2>1. Linked' = Linked /\ cell[t] = c /\ pc[t] # "new"
        /\ MovesTo(t) # "stay" /\ Moved(t)
    <3>1. MovesTo(t) = link.to /\ cell[t] = c
      BY <1>2, <1>9, Numbers DEF IInv, LinkHeld
    <3>2. MovesTo(t) # "stay"
      BY <1>1, <3>1 DEF TypeOK
    <3> QED
      BY <1>5, <1>9, <3>1, <3>2 DEF Attach, Linked, Made, MovesTo
  <2>2. size' \in 2..Last+1
    BY <1>1, <1>2 DEF TypeOK
  <2>3. /\ TypeOK' /\ OthersExpired' /\ Holds' /\ Holder' /\ InUpload'
        /\ InHand' /\ OneTaker' /\ OneMaker'
        /\ \E where \in {"idle", "claim", "next", "mark", "fill"}, at \in 0..Last :
             /\ pc' = [pc EXCEPT ![t] = where]
             /\ cell' = [cell EXCEPT ![t] = at]
             /\ at = 0 \/ at \in Linked
             /\ where # "idle" => at \in Linked
    BY <1>2, <1>4, <2>1, <2>2, MovedKeeps
  <2>4. PICK where \in {"idle", "claim", "next", "mark", "fill"}, at \in 0..Last :
          /\ pc' = [pc EXCEPT ![t] = where]
          /\ cell' = [cell EXCEPT ![t] = at]
          /\ where # "idle" => at \in Linked
    BY <2>3
  <2>5. News' = News
    BY <1>1, <1>2, <2>1, <2>4, Numbers DEF News, NoLink, TypeOK
  <2>6. Counted'
    BY <1>2, <2>5 DEF IInv, Counted
  <2>7. CellInList'
    BY <1>1, <2>1, <2>4 DEF IInv, CellInList, AtCell, TypeOK
  <2> QED
    BY <2>3, <2>6, <2>7
<1>10. CASE link.to = "new"
  <2>1. /\ pc[t] = "new" /\ pc' = [pc EXCEPT ![t] = "made"]
        /\ cell' = [cell EXCEPT ![t] = c]
        /\ UNCHANGED <<cells, m_mutex, file, ignore>>
    BY <1>2, <1>10, Numbers DEF IInv, LinkHeld, Attach, Goto
  <2>2. c \notin Linked /\ st[c] = "Expired"
    BY <1>3, <1>10 DEF IInv, OthersExpired, Linked
  <2> HIDE DEF c
  <2>3. TypeOK'
    <3>1. NoLink \in [by : Threads \cup {NoOne}, c : 0..Last,
                      to : {"back", "front", "new"}, at : {"out", "pointed"}]
      BY Ends DEF NoLink
    <3> QED
      BY <1>1, <1>2, <1>3, <1>4, <2>1, <3>1 DEF TypeOK, cells
  <2>4. News' = News
    BY <1>1, <1>2, <2>1, Numbers DEF News, NoLink, TypeOK
  <2>5. Counted'
    BY <1>2, <2>4 DEF IInv, Counted
  <2>6. CellInList'
    BY <1>1, <1>3, <1>5, <2>1 DEF IInv, CellInList, TypeOK
  <2>7. OthersExpired' /\ InUpload'
    BY <1>2, <1>5, <2>1 DEF IInv, OthersExpired, InUpload, cells
  <2>8. ASSUME NEW u \in Threads
        PROVE  HoldsFile(u)' /\ HoldsBlock(u)' /\ HoldsCell(u)'
    <3>1. HoldsFile(u) /\ HoldsBlock(u) /\ HoldsCell(u)
      BY DEF IInv, Holds
    <3> QED
      BY <1>1, <2>1, <3>1 DEF HoldsFile, HoldsBlock, HoldsCell, TypeOK, cells
  <2>9. ASSUME NEW d \in Cells, NEW u \in Threads PROVE Held(d, u)'
    <3>1. Held(d, u)
      BY DEF IInv, Holder
    <3> QED
      BY <1>1, <2>1, <3>1 DEF Held, TypeOK, cells
  <2>10. InHand' /\ OneTaker'
    BY <1>1, <1>2, <2>1, <2>2
    DEF IInv, InHand, OneTaker, Took, Makes, TypeOK, cells
  <2>11. OneMaker'
    <3>1. \A u \in Threads : Makes(u) => cell[u] # c
      BY <2>2 DEF IInv, CellInList, AtCell, Makes
    <3>2. \A u \in Threads \ {t} : Makes(u)' = Makes(u) /\ cell'[u] = cell[u]
      BY <1>1, <2>1 DEF Makes, TypeOK
    <3>3. cell'[t] = c
      BY <1>1, <2>1 DEF TypeOK
    <3> QED
      BY <1>2, <3>1, <3>2, <3>3 DEF IInv, OneMaker
  <2> QED
    BY <2>3, <2>5, <2>6, <2>7, <2>8, <2>9, <2>10, <2>11 DEF Holds, Holder
<1> QED
  BY <1>9, <1>10

-----------------------------------------------------------------------------
LEMMA InitIInv == Init => IInv
<1> SUFFICES ASSUME Init PROVE IInv
  OBVIOUS
<1> DEFINE n == Len(Cells0)
<1>1. /\ size = n + 2 /\ n \in Nat
      /\ n <= CacheSize /\ size \in 2..Last+1 /\ size \in Nat
  BY Numbers, NewsFacts, LruListAssumption DEF Init, Last
<1>2. Made \subseteq Cells /\ Made \subseteq 0..Last /\ 0 \notin Made /\ 1 \notin Made
  BY <1>1, Numbers DEF Made, Cells
<1>3. \A c \in Made : Cells0[c-1] \in [owner : Files,
                                       st : {"Expired", "Clean", "Dirty"}]
  <2>1. \A i \in 1..n : Cells0[i] \in [owner : Files,
                                       st : {"Expired", "Clean", "Dirty"}]
    BY LruListAssumption, ElementOfSeq
  <2> HIDE DEF n
  <2>2. \A c \in Made : c - 1 \in 1..n
    BY <1>1 DEF Made
  <2> QED
    BY <2>1, <2>2
<1>4. \A p \in 0..Last :
        next[p] = IF p # 1 /\ p < size
                  THEN LET after == IF p = 0 THEN 2 ELSE p + 1
                       IN IF after = size THEN 1 ELSE after
                  ELSE 0
  BY DEF Init
<1>5. /\ next[0] \in Made \cup {1}
      /\ \A c \in Made : next[c] \in Made \cup {1}
  BY <1>1, <1>2, <1>4, Ends DEF Made
<1>6. Linked = Made
  BY DEF Linked, Init, NoLink
<1>7. TypeOK
  <2>1. next \in [0..Last -> 0..Last]
    <3>1. \A p \in 0..Last : next[p] \in 0..Last
      BY <1>1, <1>2, <1>4, Ends, Numbers
    <3> QED
      BY <3>1 DEF Init
  <2>2. prev \in [0..Last -> 0..Last]
    BY <1>1, Ends, Numbers DEF Init
  <2>3. link \in [by : Threads \cup {NoOne}, c : 0..Last,
                  to : {"back", "front", "new"}, at : {"out", "pointed"}]
    BY Ends DEF Init, NoLink
  <2>4. st \in [Cells -> {"Expired", "Clean", "Ready", "Dirty", "Uploading",
                          "Up_Expired"}]
    BY <1>3 DEF Init
  <2>5. owner \in [Cells -> Files \cup {NoOne}]
    BY <1>3 DEF Init
  <2>6. /\ status_mutex \in [Cells -> Threads \cup {NoOne}]
        /\ m_mutex \in [Files -> Threads \cup {NoOne}]
        /\ uploading \in Files \cup {NoOne}
    BY DEF Init
  <2>7. /\ pc \in [Threads -> {"idle", "locked", "touch", "expire", "new",
                                "made", "fill", "head", "scan", "next", "skip",
                                "taken", "claim", "mark"}]
        /\ file \in [Threads -> Files \cup {NoOne}]
    BY DEF Init
  <2>8. cell \in [Threads -> 0..Last] /\ ignore \in [Threads -> 0..Last]
    BY Ends DEF Init
  <2>9. ops \in 0..MaxOps /\ shared \subseteq Cells
    BY LruListAssumption DEF Init
  <2> QED
    BY <1>1, <2>1, <2>2, <2>3, <2>4, <2>5, <2>6, <2>7, <2>8, <2>9 DEF TypeOK
<1>8. Counted
  <2>1. News = {}
    BY DEF News, Init
  <2> QED
    BY <1>1, <2>1, FS_EmptySet, NewsFacts, Numbers DEF Counted
<1>9. LinkHeld /\ LinksLead
  BY <1>5, <1>6 DEF LinkHeld, LinksLead, Init, NoLink
<1>10. CellInList /\ OthersExpired
  BY <1>6 DEF CellInList, AtCell, OthersExpired, Init
<1>11. Holds /\ Holder
  BY Numbers DEF Holds, HoldsFile, HoldsBlock, HoldsCell, Holder, Held, Init
<1>12. InUpload
  <2>1. \A c \in Cells : st[c] \in {"Expired", "Clean", "Dirty"}
    BY <1>3 DEF Init
  <2> QED
    BY <2>1 DEF InUpload
<1>13. InHand /\ OneTaker /\ OneMaker
  BY DEF InHand, OneTaker, OneMaker, Took, Makes, Init
<1> QED
  BY <1>7, <1>8, <1>9, <1>10, <1>11, <1>12, <1>13 DEF IInv

LEMMA StepIInv == IInv /\ [Next]_vars => IInv'
<1> SUFFICES ASSUME IInv, [Next]_vars PROVE IInv'
  OBVIOUS
<1>1. CASE UNCHANGED vars
  <2>1. UNCHANGED <<size, prev, next, link, st, owner, status_mutex, m_mutex,
                    uploading, pc, file, cell, ignore, ops, shared>>
    BY <1>1 DEF vars, links, others, cells, threads
  <2>2. News' = News /\ Linked' = Linked
    BY <2>1 DEF News, Linked, Made
  <2> QED
    BY <2>1, <2>2
    DEF IInv, TypeOK, Counted, LinkHeld, MovesTo, Made, LinksLead, CellInList,
        OthersExpired, Holds, HoldsFile, HoldsBlock, HoldsCell, Holder, Held,
        InUpload, InHand, OneTaker, OneMaker, Took, Makes
<1>2. CASE \E t \in Threads : Step(t)
  <2> SUFFICES ASSUME NEW t \in Threads, Step(t) PROVE IInv'
    BY <1>2
  <2>1. CASE AlreadyBack(t) \/ Detach(t) \/ Point(t) \/ Attach(t) \/ PutNewItem(t)
    BY <2>1, AlreadyBackPreserves, DetachPreserves, PointPreserves,
       AttachPreserves, PutNewItemPreserves
  <2>2. CASE \E f \in Files : Lock(t, f)
    BY <2>2, LockPreserves
  <2>3. CASE \E c \in Cells : Touch(t, c) \/ Expire(t, c) \/ CopyOnWrite(t, c)
    BY <2>3, TouchPreserves, ExpirePreserves, CopyOnWritePreserves
  <2>4. CASE Load(t) \/ \E s \in {"Clean", "Dirty"} : Mark(t, s)
    BY <2>4, LoadPreserves, MarkPreserves
  <2>5. CASE FromHead(t) \/ NextCell(t) \/ Again(t) \/ Pass(t)
    BY <2>5, FromHeadPreserves, NextCellPreserves, ScanPreserves
  <2>6. CASE TakeExpired(t) \/ Evict(t) \/ Skip(t)
    BY <2>6, TakeExpiredPreserves, EvictPreserves, SkipPreserves
  <2> QED
    BY <2>1, <2>2, <2>3, <2>4, <2>5, <2>6 DEF Step
<1>3. CASE \E f \in Files : StartUpload(f)
  BY <1>3, StartUploadPreserves
<1>4. CASE EndUpload
  BY <1>4, EndUploadPreserves
<1> QED
  BY <1>1, <1>2, <1>3, <1>4 DEF Next

THEOREM Invariance == Spec => []IInv
BY InitIInv, StepIInv, PTL DEF Spec

\* Type correctness: in particular the vector never outgrows CacheSize by more
\* than one cell per thread.
THEOREM TypeCorrect == Spec => []TypeOK
<1>1. IInv => TypeOK
  BY DEF IInv
<1> QED
  BY <1>1, Invariance, PTL

\* A scan that follows next links while other threads relink the cells is
\* always at a cell of the list or at its back.
THEOREM ScansStayInList == Spec => []ScanInList
<1>1. IInv => ScanInList
  BY MadeAreCells DEF IInv, CellInList, ScanInList
<1> QED
  BY <1>1, Invariance, PTL

\* Two calls of get_free_from_list never return the same cell.
THEOREM OneTakerEver == Spec => []OneTaker
<1>1. IInv => OneTaker
  BY DEF IInv
<1> QED
  BY <1>1, Invariance, PTL

\* Scans never wait for each other in a circle, of any length.
THEOREM ScansDoNotStandOff == Spec => []NoStandoff
<1>1. ASSUME IInv, NEW S \in SUBSET Threads, S # {},
             \A t \in S : \E u \in S : WaitsFor(t, u)
      PROVE  FALSE
  <2>1. \A u \in S : /\ pc[u] = "scan" /\ cell[u] # ignore[u]
                     /\ cell[u] \in Cells
    BY <1>1, MadeAreCells DEF WaitsFor
  <2>2. \A t, u \in S : WaitsFor(t, u) => ignore[u] = cell[t]
    BY <1>1, <2>1 DEF WaitsFor, IInv, Holder, Held
  <2>3. \A t, u \in S : WaitsFor(t, u) =>
          m_mutex[uploading] = u /\ uploading \in Files
    <3> SUFFICES ASSUME NEW t \in S, NEW u \in S, WaitsFor(t, u)
                 PROVE  m_mutex[uploading] = u /\ uploading \in Files
      OBVIOUS
    <3>1. ignore[u] \in Cells /\ ignore[u] # 0
      BY <1>1, <2>1, <2>2, Numbers DEF Cells
    <3>2. /\ st[ignore[u]] = "Up_Expired" /\ owner[ignore[u]] = file[u]
          /\ m_mutex[file[u]] = u /\ file[u] \in Files
      BY <1>1, <2>1, <3>1 DEF IInv, Holds, HoldsBlock, HoldsFile
    <3> QED
      BY <1>1, <3>1, <3>2 DEF IInv, InUpload
  <2>4. PICK t \in S : TRUE
    BY <1>1
  <2>5. PICK u \in S : WaitsFor(t, u)
    BY <1>1
  <2>6. PICK v \in S : WaitsFor(u, v)
    BY <1>1
  <2>7. u = v
    BY <2>3, <2>5, <2>6
  <2> QED
    BY <2>1, <2>2, <2>6, <2>7
<1>2. IInv => NoStandoff
  BY <1>1 DEF NoStandoff
<1> QED
  BY <1>2, Invariance, PTL
=============================================================================
