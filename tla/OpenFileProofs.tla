---------------------------- MODULE OpenFileProofs ----------------------------
(***************************************************************************)
(* Proofs about OpenFile, for blocks and files of any size and any number  *)
(* of handles and calls.                                                   *)
(*                                                                         *)
(* What a read returns comes from a cell or, if there is none, from        *)
(* storage; so the invariant says of both that they agree with what was    *)
(* written, and of a file that exists that each of its blocks is in one.   *)
(***************************************************************************)
EXTENDS OpenFile, ByteRangesProofs

\* A byte that position p may have: the one last written there, or any if none
\* has been written or it was passed over.
Agree(w, t, p, byte) == w[p] \in {byte, Any} \/ p \in t
Agrees(p, byte) == Agree(written, torn, p, byte)

\* What the list of blocks has, and what storage has of a block without unsaved
\* bytes, is what has been written.
CellsAgree ==
  up => \A p \in 0..filesize-1 :
          blocklist[start_index(p)] # None =>
            Agrees(p, blocklist[start_index(p)].data[cblock(p)])

StorageAgrees ==
  up => \A p \in 0..filesize-1 :
          ~DirtyBlock(start_index(p)) /\ InStorage(start_index(p)) =>
            Agrees(p, blob[start_index(p)][cblock(p)])

\* Nothing has been written beyond the end of the file.
EndIsEnd == \A p \in Positions : p >= filesize => written[p] = Any

\* A file that exists has each of its blocks in a Dirty cell or in storage; and
\* if it is not to be uploaded, all of it is there.
BlocksCovered ==
  m_exist => \A k \in DOMAIN blocklist : DirtyBlock(k) \/ InStorage(k)

CleanIsStored ==
  status = "Clean" =>
    /\ \A k \in DOMAIN blocklist : ~DirtyBlock(k)
    /\ m_exist => blob # None /\ l_filesize = filesize

\* Before it is created there is nothing.
UnknownIsEmpty ==
  ~known => /\ ~m_exist /\ filesize = 0
            /\ \A h \in Handles : fh[h] = Closed

\* The process ends on a block that is nowhere, of a file without a link.
Ended ==
  ~up => /\ ~m_exist
         /\ \E k \in DOMAIN blocklist : ~Obtainable(k)

IInv ==
  /\ TypeOK
  /\ CellsAgree
  /\ StorageAgrees
  /\ EndIsEnd
  /\ BlocksCovered
  /\ CleanIsStored
  /\ UnknownIsEmpty
  /\ Ended

-----------------------------------------------------------------------------
LEMMA JunkIsData == JunkData \in BlockData
  BY DEF JunkData, BlockData, Bytes

\* The block and the place of a position of the file.
LEMMA Located ==
  ASSUME TypeOK, NEW p \in 0..filesize-1
  PROVE  /\ p \in Positions /\ p \in Nat
         /\ start_index(p) \in Indices(filesize)
         /\ cblock(p) \in Places
<1>1. filesize \in 0..MaxSize /\ filesize \in Nat /\ p \in Nat
  BY OpenFileAssumption DEF TypeOK
<1>2. start_index(p) \in Indices(filesize)
  BY <1>1, BlocksCover DEF Indices
<1>3. cblock(p) \in Places
  BY <1>1, Quotient
<1> QED
  BY <1>1, <1>2, <1>3, OpenFileAssumption DEF Positions

\* A position beyond the blocks of the file is beyond its end.
LEMMA BeyondBlocks ==
  ASSUME TypeOK, NEW p \in Nat, start_index(p) \notin Indices(filesize)
  PROVE  p >= filesize
<1>1. filesize \in 0..MaxSize /\ filesize \in Nat
  BY OpenFileAssumption DEF TypeOK
<1> QED
  BY <1>1, BlocksCover DEF Indices

LEMMA FlagsOfHandle == \A flags \in 0..2 : flags % 4 \in 0..3
  OBVIOUS

LEMMA NoBlocks == Indices(0) = {}
  BY DEF Indices, Blocks

\* A cell is told from None.
LEMMA CellIsThere ==
  ASSUME NEW st \in {"Clean", "Dirty"}, NEW data \in BlockData
  PROVE  /\ Cell(st, data) \in CellSet
         /\ Cell(st, data) # None
         /\ Cell(st, data).st = st /\ Cell(st, data).data = data
<1>1. Cell(st, data) \in CellSet
  BY DEF Cell, CellSet
<1> QED
  BY <1>1, OpenFileAssumption DEF Cell

\* resize keeps the blocks there are and makes Dirty ones.
LEMMA ResizedList ==
  ASSUME TypeOK, NEW size \in 0..MaxSize
  PROVE  /\ Resized(size) \in [Indices(size) -> CellSet \cup {None}]
         /\ \A k \in Indices(size) :
              Resized(size)[k] = IF k \in Indices(filesize) THEN blocklist[k]
                                 ELSE Cell("Dirty", JunkData)
<1>1. DOMAIN blocklist = Indices(filesize)
  BY DEF TypeOK
<1>2. Cell("Dirty", JunkData) \in CellSet
  BY JunkIsData, CellIsThere
<1> QED
  BY <1>1, <1>2 DEF Resized, TypeOK

-----------------------------------------------------------------------------
LEMMA InitIInv == Init => IInv
<1> SUFFICES ASSUME Init PROVE IInv
  OBVIOUS
<1>1. filesize \in 0..MaxSize /\ l_filesize = filesize
  BY OpenFileAssumption DEF Init
<1>2. blob # None => blob = [k \in Indices(filesize) |->
                               [i \in Places |-> Byte(0, k * BlockSize + i)]]
  BY DEF Init
<1>3. \A k \in Indices(filesize), i \in Places : Byte(0, k * BlockSize + i) \in Bytes
  <2>1. ASSUME NEW k \in Indices(filesize), NEW i \in Places
        PROVE  k * BlockSize + i \in Nat
    <3>1. k \in Nat
      BY <1>1, BlocksCover, OpenFileAssumption DEF Indices
    <3> QED
      BY <3>1, BlockSizeAssumption DEF Places
  <2> QED
    BY <2>1 DEF Byte, Bytes
<1>4. TypeOK
  <2>1. blob \in [Indices(l_filesize) -> BlockData] \cup {None}
    BY <1>1, <1>2, <1>3 DEF BlockData
  <2>2. written \in [Positions -> Bytes]
    BY OpenFileAssumption DEF Init, Positions, Bytes, Byte
  <2>3. blocklist \in [Indices(filesize) -> CellSet \cup {None}]
    BY DEF Init
  <2>4. /\ ops \in 0..MaxOps /\ torn \subseteq Positions
        /\ fh \in [Handles -> {Closed} \cup 0..3]
    BY OpenFileAssumption DEF Init
  <2>5. /\ known \in BOOLEAN /\ m_exist \in BOOLEAN /\ up \in BOOLEAN
        /\ status \in {"Clean", "Dirty"}
    BY Zenon DEF Init
  <2> QED
    BY <1>1, <2>1, <2>2, <2>3, <2>4, <2>5 DEF TypeOK
<1>5. known => blob # None
  <2>1. known => blob \in [Indices(filesize) -> BlockData]
    BY <1>1, <1>2, <1>3 DEF BlockData, Init
  <2> QED
    BY <1>1, <2>1, OpenFileAssumption
<1>6. CellsAgree
  BY <1>4, Located DEF CellsAgree, Init
<1>7. StorageAgrees
  <2> SUFFICES ASSUME NEW p \in 0..filesize-1, InStorage(start_index(p))
               PROVE  Agrees(p, blob[start_index(p)][cblock(p)])
    BY DEF StorageAgrees
  <2>1. /\ p \in Positions /\ p \in Nat /\ start_index(p) \in Indices(filesize)
        /\ cblock(p) \in Places
    BY <1>4, Located
  <2>2. blob[start_index(p)][cblock(p)]
          = Byte(0, start_index(p) * BlockSize + cblock(p))
    BY <1>2, <2>1 DEF InStorage
  <2>3. p < filesize
    BY <1>1, OpenFileAssumption
  <2>4. written[p] = Byte(0, p)
    BY <2>1, <2>3 DEF Init
  <2> QED
    BY <2>1, <2>2, <2>4, Quotient DEF Agrees, Agree
<1>8. EndIsEnd
  BY <1>1, OpenFileAssumption DEF EndIsEnd, Init, Positions
<1>9. BlocksCovered /\ CleanIsStored
  BY <1>1, <1>2, <1>5 DEF BlocksCovered, CleanIsStored, DirtyBlock, InStorage, Init
<1>10. UnknownIsEmpty /\ Ended
  BY DEF UnknownIsEmpty, Ended, Init
<1> QED
  BY <1>4, <1>6, <1>7, <1>8, <1>9, <1>10 DEF IInv

-----------------------------------------------------------------------------
\* What leaves the blocks and storage alone leaves alone what is said of them.
LEMMA SameBytes ==
  ASSUME IInv, up, up',
         UNCHANGED <<filesize, blocklist, storage, history>>
  PROVE  CellsAgree' /\ StorageAgrees' /\ EndIsEnd' /\ Ended'
  BY DEF IInv, CellsAgree, StorageAgrees, EndIsEnd, Ended, Agrees, DirtyBlock,
         InStorage, storage, history

LEMMA CreatePreserves ==
  ASSUME IInv, NEW h \in Handles, NEW flags \in 0..2, azs_create(h, flags)
  PROVE  IInv'
<1>1. filesize = 0 /\ DOMAIN blocklist = {}
  BY NoBlocks DEF IInv, UnknownIsEmpty, TypeOK, azs_create
<1>2. TypeOK'
  BY <1>1, FlagsOfHandle DEF IInv, TypeOK, azs_create, storage, history
<1>3. CellsAgree' /\ StorageAgrees' /\ EndIsEnd' /\ Ended'
  BY SameBytes DEF azs_create
<1>4. BlocksCovered' /\ CleanIsStored' /\ UnknownIsEmpty'
  BY <1>1 DEF BlocksCovered, CleanIsStored, UnknownIsEmpty, azs_create
<1> QED
  BY <1>2, <1>3, <1>4 DEF IInv

LEMMA OpenPreserves ==
  ASSUME IInv, NEW h \in Handles, NEW flags \in 0..2, azs_open(h, flags)
  PROVE  IInv'
<1>2. TypeOK'
  BY FlagsOfHandle DEF IInv, TypeOK, azs_open, object, storage, history
<1>3. CellsAgree' /\ StorageAgrees' /\ EndIsEnd' /\ Ended'
  BY SameBytes DEF azs_open, object
<1>4. BlocksCovered' /\ CleanIsStored' /\ UnknownIsEmpty'
  BY DEF IInv, BlocksCovered, CleanIsStored, UnknownIsEmpty, DirtyBlock,
         InStorage, azs_open, object, storage
<1> QED
  BY <1>2, <1>3, <1>4 DEF IInv

LEMMA ReleasePreserves ==
  ASSUME IInv, NEW h \in Handles, azs_release(h)
  PROVE  IInv'
<1>1. TypeOK'
  BY DEF IInv, TypeOK, azs_release, object, storage, history
<1>2. CellsAgree' /\ StorageAgrees' /\ EndIsEnd' /\ Ended'
  BY SameBytes DEF azs_release, object
<1>3. BlocksCovered' /\ CleanIsStored'
  BY DEF IInv, BlocksCovered, CleanIsStored, DirtyBlock, InStorage, azs_release,
         object, storage
<1>4. UnknownIsEmpty'
  BY DEF IInv, TypeOK, UnknownIsEmpty, azs_release, object
<1> QED
  BY <1>1, <1>2, <1>3, <1>4 DEF IInv

LEMMA UnlinkPreserves ==
  ASSUME IInv, azs_unlink
  PROVE  IInv'
<1>1. TypeOK'
  BY DEF IInv, TypeOK, azs_unlink, storage, history
<1>2. CellsAgree' /\ StorageAgrees' /\ EndIsEnd' /\ Ended'
  BY SameBytes DEF azs_unlink
<1>3. BlocksCovered' /\ CleanIsStored' /\ UnknownIsEmpty'
  BY DEF IInv, BlocksCovered, CleanIsStored, UnknownIsEmpty, azs_unlink
<1> QED
  BY <1>1, <1>2, <1>3 DEF IInv

-----------------------------------------------------------------------------
LEMMA EvictPreserves ==
  ASSUME IInv, NEW k \in DOMAIN blocklist, Evict(k)
  PROVE  IInv'
<1>1. TypeOK
  BY DEF IInv
<1>2. /\ DOMAIN blocklist' = DOMAIN blocklist
      /\ \A i \in DOMAIN blocklist :
           /\ blocklist'[i] = IF i = k THEN None ELSE blocklist[i]
           /\ DirtyBlock(i)' <=> DirtyBlock(i)
           /\ InStorage(i)' <=> InStorage(i)
  BY <1>1 DEF Evict, TypeOK, DirtyBlock, InStorage, storage
<1>3. TypeOK'
  BY <1>1 DEF TypeOK, Evict, storage, history
<1>4. /\ UNCHANGED <<filesize, blob, l_filesize, written, torn, m_exist, status,
                     known, fh>>
      /\ up /\ up'
  BY DEF Evict, storage, history
<1>5. \A p \in 0..filesize-1 : start_index(p) \in DOMAIN blocklist
  BY <1>1, Located DEF TypeOK
<1>6. CellsAgree'
  BY <1>2, <1>4, <1>5 DEF IInv, CellsAgree, Agrees
<1>7. StorageAgrees'
  BY <1>2, <1>4, <1>5 DEF IInv, StorageAgrees, Agrees, Agree
<1>8. EndIsEnd' /\ UnknownIsEmpty' /\ Ended'
  BY <1>4 DEF IInv, EndIsEnd, UnknownIsEmpty, Ended
<1>9. BlocksCovered' /\ CleanIsStored'
  BY <1>2, <1>4 DEF IInv, BlocksCovered, CleanIsStored
<1> QED
  BY <1>3, <1>6, <1>7, <1>8, <1>9 DEF IInv

LEMMA ResizePreserves ==
  ASSUME IInv, known, up, NEW size \in 0..MaxSize, Resize(size)
  PROVE  IInv'
<1>1. TypeOK
  BY DEF IInv
<1>2. /\ UNCHANGED <<blob, l_filesize, m_exist, known, fh, up>>
      /\ filesize' = size /\ blocklist' = Resized(size) /\ status' = "Dirty"
  BY DEF Resize, storage
<1>3. /\ blocklist' \in [Indices(size) -> CellSet \cup {None}]
      /\ \A k \in Indices(size) :
           blocklist'[k] = IF k \in Indices(filesize) THEN blocklist[k]
                           ELSE Cell("Dirty", JunkData)
  BY <1>1, <1>2, ResizedList
<1>4. DOMAIN blocklist = Indices(filesize) /\ DOMAIN blocklist' = Indices(size)
  BY <1>1, <1>3 DEF TypeOK
<1>5. /\ Cell("Dirty", JunkData) # None
      /\ Cell("Dirty", JunkData).st = "Dirty"
  BY JunkIsData, CellIsThere
<1>6. \A k \in Indices(size) :
        /\ k \in Indices(filesize) =>
             /\ blocklist'[k] = blocklist[k]
             /\ DirtyBlock(k)' <=> DirtyBlock(k)
        /\ k \notin Indices(filesize) => DirtyBlock(k)'
        /\ InStorage(k)' <=> InStorage(k)
  BY <1>2, <1>3, <1>5 DEF DirtyBlock, InStorage
<1>7. /\ written' = [p \in Positions |-> IF p < size THEN written[p] ELSE Any]
      /\ torn' = {p \in torn : p < size}
  BY DEF Resize
<1>8. TypeOK'
  <2>1. written' \in [Positions -> Bytes] /\ torn' \subseteq Positions
    BY <1>1, <1>7 DEF TypeOK, Bytes
  <2>2. ops' \in 0..MaxOps
    BY <1>1, OpenFileAssumption DEF Resize, Called, TypeOK
  <2> QED
    BY <1>1, <1>2, <1>3, <2>1, <2>2 DEF TypeOK
<1>9. ASSUME NEW p \in 0..filesize'-1
      PROVE  /\ p \in Positions /\ p \in Nat
             /\ start_index(p) \in Indices(size)
             /\ p < size
             /\ p >= filesize => written'[p] = Any
             /\ p < filesize => p \in 0..filesize-1
             /\ \A byte : Agrees(p, byte) => Agree(written', torn', p, byte)
  <2>1. size \in Nat /\ p \in Nat /\ p < size /\ p \in Positions
    BY <1>2, OpenFileAssumption DEF Positions
  <2>2. start_index(p) \in Indices(size)
    BY <1>2, <2>1, BlocksCover DEF Indices
  <2>3. written'[p] = written[p] /\ (p \in torn => p \in torn')
    BY <1>7, <2>1
  <2>4. p >= filesize => written[p] = Any
    BY <2>1 DEF IInv, EndIsEnd
  <2>5. p < filesize => p \in 0..filesize-1
    BY <1>1, <2>1, OpenFileAssumption DEF TypeOK
  <2> QED
    BY <2>1, <2>2, <2>3, <2>4, <2>5 DEF Agrees, Agree
<1>10. ASSUME NEW p \in 0..filesize'-1, start_index(p) \notin Indices(filesize)
       PROVE  written'[p] = Any
  BY <1>1, <1>9, <1>10, BeyondBlocks
<1>11. ASSUME NEW p \in 0..filesize'-1,
              \/ p >= filesize
              \/ start_index(p) \notin Indices(filesize)
       PROVE  \A byte : Agree(written', torn', p, byte)
  BY <1>9, <1>10, <1>11 DEF Agrees, Agree
<1>12. filesize \in Nat
  BY <1>1, OpenFileAssumption DEF TypeOK
<1>13. CellsAgree'
  <2> SUFFICES ASSUME NEW p \in 0..filesize'-1,
                      blocklist'[start_index(p)] # None
               PROVE  Agree(written', torn', p,
                            blocklist'[start_index(p)].data[cblock(p)])
    BY DEF CellsAgree, Agrees
  <2>1. CASE p >= filesize \/ start_index(p) \notin Indices(filesize)
    BY <2>1, <1>11
  <2>2. CASE p < filesize /\ start_index(p) \in Indices(filesize)
    <3>1. p \in 0..filesize-1 /\ blocklist'[start_index(p)] = blocklist[start_index(p)]
      BY <2>2, <1>6, <1>9
    <3>2. Agrees(p, blocklist[start_index(p)].data[cblock(p)])
      BY <3>1 DEF IInv, CellsAgree
    <3> QED
      BY <1>9, <3>1, <3>2
  <2> QED
    BY <2>1, <2>2, <1>9, <1>12
<1>14. StorageAgrees'
  <2> SUFFICES ASSUME NEW p \in 0..filesize'-1,
                      ~DirtyBlock(start_index(p))', InStorage(start_index(p))'
               PROVE  Agree(written', torn', p,
                            blob[start_index(p)][cblock(p)])
    BY <1>2 DEF StorageAgrees, Agrees
  <2>1. CASE p >= filesize \/ start_index(p) \notin Indices(filesize)
    BY <2>1, <1>11
  <2>2. CASE p < filesize /\ start_index(p) \in Indices(filesize)
    <3>1. /\ p \in 0..filesize-1
          /\ ~DirtyBlock(start_index(p)) /\ InStorage(start_index(p))
      BY <2>2, <1>6, <1>9
    <3>2. Agrees(p, blob[start_index(p)][cblock(p)])
      BY <3>1 DEF IInv, StorageAgrees
    <3> QED
      BY <1>2, <1>9, <3>2
  <2> QED
    BY <2>1, <2>2, <1>9, <1>12
<1>15. EndIsEnd'
  <2> SUFFICES ASSUME NEW p \in Positions, p >= size PROVE written'[p] = Any
    BY <1>2 DEF EndIsEnd
  <2> QED
    BY <1>7, OpenFileAssumption DEF Positions
<1>16. BlocksCovered'
  BY <1>2, <1>4, <1>6 DEF IInv, BlocksCovered
<1>17. CleanIsStored' /\ UnknownIsEmpty' /\ Ended'
  BY <1>2 DEF IInv, CleanIsStored, UnknownIsEmpty, Ended
<1> QED
  BY <1>8, <1>13, <1>14, <1>15, <1>16, <1>17 DEF IInv

-----------------------------------------------------------------------------
\* The blocks of a read or a write that stays within the file.
LEMMA RangeInFile ==
  ASSUME TypeOK, NEW offset \in Nat, NEW size \in Nat \ {0}, NEW end \in Nat,
         offset + size <= end
  PROVE  /\ Range(offset, size) \subseteq Indices(end)
         /\ start_index(offset) \in Range(offset, size)
         /\ end_index(offset, size) \in Range(offset, size)
<1>1. offset + size - 1 \in 0..end-1 /\ offset \in 0..end-1
      /\ offset + size - 1 \in Nat /\ offset <= offset + size - 1
  OBVIOUS
<1>2. end_index(offset, size) = start_index(offset + size - 1)
  BY DEF end_index, start_index
<1>3. start_index(offset) \in Nat /\ start_index(offset + size - 1) \in Nat
  BY <1>1, Quotient
<1>4. start_index(offset + size - 1) <= Blocks(end)-1
  BY <1>1, BlocksCover
<1>5. start_index(offset) <= start_index(offset + size - 1)
  BY <1>1, Order
<1> QED
  BY <1>2, <1>3, <1>4, <1>5, BlocksCover DEF Range, Indices

LEMMA ReadPreserves ==
  ASSUME IInv, NEW h \in Handles, NEW offset \in Positions,
         NEW size \in 1..MaxSize, azs_read(h, offset, size)
  PROVE  IInv'
<1> DEFINE n == to_read(filesize, offset, size)
           wanted == IF n = 0 THEN {} ELSE Range(offset, n)
<1>1. TypeOK
  BY DEF IInv
<1>2. wanted \subseteq Indices(filesize)
  <2>1. filesize \in Nat /\ offset \in Nat /\ size \in Nat
    BY <1>1, OpenFileAssumption DEF TypeOK, Positions
  <2>2. CASE n = 0
    BY <2>2
  <2>3. CASE n # 0
    <3>1. n \in Nat \ {0} /\ offset + n <= filesize
      BY <2>1, <2>3 DEF to_read
    <3> QED
      BY <1>1, <2>1, <3>1, RangeInFile
  <2> QED
    BY <2>2, <2>3
<1>3. /\ UNCHANGED <<known, m_exist, filesize, status, fh, blob, l_filesize,
                     written, torn>>
      /\ up
      /\ up' = \A k \in wanted : Obtainable(k)
      /\ blocklist' = IF up' THEN [k \in DOMAIN blocklist |->
                                     IF k \in wanted /\ blocklist[k] = None
                                     THEN Cell("Clean", blob[k])
                                     ELSE blocklist[k]]
                      ELSE blocklist
      /\ ops' \in 0..MaxOps
  BY <1>1, OpenFileAssumption DEF azs_read, Called, storage, history, TypeOK
<1>4. DOMAIN blocklist = Indices(filesize)
  BY <1>1 DEF TypeOK
<1>5. CASE ~up'
  <2>1. UNCHANGED blocklist
    BY <1>3, <1>5
  <2>2. TypeOK'
    BY <1>1, <1>3, <2>1 DEF TypeOK
  <2>3. PICK k \in DOMAIN blocklist : ~Obtainable(k)
    BY <1>2, <1>3, <1>4, <1>5
  <2>4. ~m_exist
    BY <2>3 DEF IInv, BlocksCovered, DirtyBlock, Obtainable
  <2>5. CellsAgree' /\ StorageAgrees'
    BY <1>5 DEF CellsAgree, StorageAgrees
  <2>6. EndIsEnd' /\ BlocksCovered' /\ CleanIsStored' /\ UnknownIsEmpty'
    BY <1>3, <2>1 DEF IInv, EndIsEnd, BlocksCovered, CleanIsStored,
       UnknownIsEmpty, DirtyBlock, InStorage
  <2>7. Ended'
    BY <1>3, <2>1, <2>3, <2>4 DEF Ended, Obtainable, InStorage
  <2> QED
    BY <2>2, <2>5, <2>6, <2>7 DEF IInv
<1>6. CASE up'
  <2>1. ASSUME NEW k \in wanted, blocklist[k] = None
        PROVE  /\ InStorage(k)
               /\ Cell("Clean", blob[k]) \in CellSet
               /\ Cell("Clean", blob[k]) # None
               /\ Cell("Clean", blob[k]).st = "Clean"
               /\ Cell("Clean", blob[k]).data = blob[k]
    <3>1. InStorage(k)
      BY <1>3, <1>6, <2>1 DEF Obtainable
    <3>2. blob[k] \in BlockData
      BY <1>1, <3>1 DEF TypeOK, InStorage
    <3> QED
      BY <3>1, <3>2, CellIsThere
  <2>2. DOMAIN blocklist' = DOMAIN blocklist
    BY <1>3, <1>6
  <2>3. \A k \in DOMAIN blocklist :
          /\ \/ blocklist'[k] = blocklist[k]
             \/ /\ InStorage(k) /\ blocklist[k] = None
                /\ blocklist'[k] # None /\ blocklist'[k].st = "Clean"
                /\ blocklist'[k].data = blob[k]
          /\ blocklist'[k] \in CellSet \cup {None}
    BY <1>1, <1>3, <1>4, <1>6, <2>1 DEF TypeOK
  <2>4. \A k \in DOMAIN blocklist :
          /\ DirtyBlock(k)' <=> DirtyBlock(k)
          /\ InStorage(k)' <=> InStorage(k)
    BY <1>3, <2>3 DEF DirtyBlock, InStorage
  <2>5. TypeOK'
    <3>1. blocklist' \in [Indices(filesize') -> CellSet \cup {None}]
      BY <1>3, <1>4, <1>6, <2>3
    <3> QED
      BY <1>1, <1>3, <3>1 DEF TypeOK
  <2>6. \A p \in 0..filesize-1 : start_index(p) \in DOMAIN blocklist
    BY <1>1, <1>4, Located
  <2>7. CellsAgree'
    <3> SUFFICES ASSUME NEW p \in 0..filesize-1,
                        blocklist'[start_index(p)] # None
                 PROVE  Agree(written', torn', p,
                              blocklist'[start_index(p)].data[cblock(p)])
      BY <1>3 DEF CellsAgree, Agrees
    <3>1. CASE blocklist'[start_index(p)] = blocklist[start_index(p)]
      BY <1>3, <3>1 DEF IInv, CellsAgree, Agrees
    <3>2. CASE blocklist'[start_index(p)] # blocklist[start_index(p)]
      <4>1. /\ InStorage(start_index(p)) /\ blocklist[start_index(p)] = None
            /\ blocklist'[start_index(p)].data = blob[start_index(p)]
        BY <2>3, <2>6, <3>2
      <4>2. Agrees(p, blob[start_index(p)][cblock(p)])
        BY <1>3, <4>1 DEF IInv, StorageAgrees, DirtyBlock
      <4> QED
        BY <1>3, <4>1, <4>2 DEF Agrees
    <3> QED
      BY <3>1, <3>2
  <2>8. StorageAgrees'
    BY <1>3, <2>4, <2>6 DEF IInv, StorageAgrees, Agrees
  <2>9. EndIsEnd' /\ UnknownIsEmpty' /\ Ended'
    BY <1>3, <1>6 DEF IInv, EndIsEnd, UnknownIsEmpty, Ended
  <2>10. BlocksCovered' /\ CleanIsStored'
    BY <1>3, <2>2, <2>4 DEF IInv, BlocksCovered, CleanIsStored
  <2> QED
    BY <2>5, <2>7, <2>8, <2>9, <2>10 DEF IInv
<1> QED
  BY <1>5, <1>6

-----------------------------------------------------------------------------
LEMMA UploadPreserves ==
  ASSUME IInv, Upload
  PROVE  IInv'
<1>1. TypeOK
  BY DEF IInv
<1>2. /\ UNCHANGED <<known, m_exist, filesize, fh, up, written, torn, ops>>
      /\ up /\ status' = "Clean" /\ blocklist' = Restored
  BY DEF Upload, history
<1>3. DOMAIN blocklist = Indices(filesize)
  BY <1>1 DEF TypeOK
<1>4. /\ DOMAIN blocklist' = DOMAIN blocklist
      /\ \A k \in DOMAIN blocklist :
           /\ blocklist'[k] \in CellSet \cup {None}
           /\ blocklist'[k] = None <=> blocklist[k] = None
           /\ blocklist[k] # None => blocklist'[k].data = blocklist[k].data
           /\ ~DirtyBlock(k)'
  <2>1. DOMAIN blocklist' = DOMAIN blocklist
    BY <1>2 DEF Restored
  <2>2. ASSUME NEW k \in DOMAIN blocklist
        PROVE  /\ blocklist'[k] \in CellSet \cup {None}
               /\ blocklist'[k] = None <=> blocklist[k] = None
               /\ blocklist[k] # None => blocklist'[k].data = blocklist[k].data
               /\ ~DirtyBlock(k)'
    <3>1. CASE DirtyBlock(k)
      <4>1. blocklist'[k] = Cell("Clean", blocklist[k].data)
        BY <1>2, <3>1 DEF Restored
      <4>2. blocklist[k] # None /\ blocklist[k].data \in BlockData
        BY <1>1, <1>3, <3>1 DEF TypeOK, DirtyBlock, CellSet
      <4>3. /\ Cell("Clean", blocklist[k].data) \in CellSet
            /\ Cell("Clean", blocklist[k].data) # None
            /\ Cell("Clean", blocklist[k].data).st = "Clean"
            /\ Cell("Clean", blocklist[k].data).data = blocklist[k].data
        BY <4>2, CellIsThere
      <4> QED
        BY <4>1, <4>2, <4>3 DEF DirtyBlock
    <3>2. CASE ~DirtyBlock(k)
      <4>1. blocklist'[k] = blocklist[k]
        BY <1>2, <3>2 DEF Restored
      <4> QED
        BY <1>1, <1>3, <3>2, <4>1 DEF TypeOK, DirtyBlock
    <3> QED
      BY <3>1, <3>2
  <2> QED
    BY <2>1, <2>2
<1>5. \A p \in 0..filesize-1 : start_index(p) \in DOMAIN blocklist
  BY <1>1, <1>3, Located
<1>6. CellsAgree'
  BY <1>2, <1>4, <1>5 DEF IInv, CellsAgree, Agrees
<1>7. blocklist' \in [Indices(filesize') -> CellSet \cup {None}]
  <2>1. blocklist' = [k \in Indices(filesize') |-> blocklist'[k]]
    BY <1>2, <1>3 DEF Restored
  <2> QED
    BY <1>2, <1>3, <1>4, <2>1
<1>8. EndIsEnd' /\ UnknownIsEmpty' /\ Ended'
  BY <1>2 DEF IInv, EndIsEnd, UnknownIsEmpty, Ended
<1>9. CASE m_exist
  <2>1. /\ blob' = [k \in DOMAIN blocklist |->
                      IF DirtyBlock(k) THEN blocklist[k].data ELSE blob[k]]
        /\ l_filesize' = filesize
    BY <1>9 DEF IInv, BlocksCovered, Upload, StoreBlob
  <2>2. \A k \in DOMAIN blocklist : DirtyBlock(k) \/ InStorage(k)
    BY <1>9 DEF IInv, BlocksCovered
  <2>3. \A k \in DOMAIN blocklist :
          /\ DirtyBlock(k) => blocklist[k].data \in BlockData
          /\ InStorage(k) => blob[k] \in BlockData
    BY <1>1, <1>3 DEF TypeOK, DirtyBlock, CellSet, InStorage
  <2>4. blob' \in [Indices(filesize) -> BlockData]
    BY <1>3, <2>1, <2>2, <2>3
  <2>5. blob' # None
    BY <1>1, <2>4, OpenFileAssumption DEF TypeOK
  <2>6. TypeOK'
    BY <1>1, <1>2, <1>7, <2>1, <2>4 DEF TypeOK
  <2>7. \A k \in DOMAIN blocklist : InStorage(k)'
    BY <1>3, <2>1, <2>5 DEF InStorage
  <2>8. StorageAgrees'
    <3> SUFFICES ASSUME NEW p \in 0..filesize-1
                 PROVE  Agree(written', torn', p, blob'[start_index(p)][cblock(p)])
      BY <1>2 DEF StorageAgrees, Agrees
    <3> DEFINE k == start_index(p)
    <3>1. k \in DOMAIN blocklist
      BY <1>5
    <3>2. CASE DirtyBlock(k)
      <4>1. blob'[k] = blocklist[k].data
        BY <2>1, <3>1, <3>2
      <4>2. Agrees(p, blocklist[k].data[cblock(p)])
        BY <1>2, <3>2 DEF IInv, CellsAgree, DirtyBlock
      <4> QED
        BY <1>2, <4>1, <4>2 DEF Agrees
    <3>3. CASE ~DirtyBlock(k)
      <4>1. blob'[k] = blob[k]
        BY <2>1, <3>1, <3>3
      <4>2. Agrees(p, blob[k][cblock(p)])
        BY <1>2, <2>2, <3>1, <3>3 DEF IInv, StorageAgrees
      <4> QED
        BY <1>2, <4>1, <4>2 DEF Agrees
    <3> QED
      BY <3>2, <3>3
  <2>9. BlocksCovered' /\ CleanIsStored'
    BY <1>2, <1>4, <2>1, <2>5, <2>7 DEF BlocksCovered, CleanIsStored
  <2> QED
    BY <1>6, <1>8, <2>6, <2>8, <2>9 DEF IInv
<1>10. CASE ~m_exist
  <2>1. blob' = None /\ l_filesize' = l_filesize
    BY <1>10 DEF Upload
  <2>2. TypeOK'
    BY <1>1, <1>2, <1>7, <2>1 DEF TypeOK
  <2>3. StorageAgrees'
    BY <2>1 DEF StorageAgrees, InStorage
  <2>4. BlocksCovered' /\ CleanIsStored'
    BY <1>2, <1>4, <1>10 DEF BlocksCovered, CleanIsStored
  <2> QED
    BY <1>6, <1>8, <2>2, <2>3, <2>4 DEF IInv
<1> QED
  BY <1>9, <1>10

\* Nothing is lost by unmounting: storage has every block and the size.
LEMMA RemountPreserves ==
  ASSUME IInv, Remount
  PROVE  IInv'
<1>1. TypeOK
  BY DEF IInv
<1>2. /\ filesize' = filesize /\ m_exist /\ up /\ up' /\ status = "Clean"
      /\ blocklist' = [k \in Indices(filesize) |-> None]
      /\ blob # None /\ l_filesize = filesize
      /\ UNCHANGED <<known, m_exist, status, fh, blob, l_filesize, written,
                     torn, ops>>
  BY DEF IInv, CleanIsStored, Remount, storage, history
<1>3. DOMAIN blocklist = Indices(filesize)
  BY <1>1 DEF TypeOK
<1>4. \A k \in Indices(filesize) : ~DirtyBlock(k) /\ ~DirtyBlock(k)' /\ InStorage(k)
  BY <1>2, <1>3 DEF IInv, CleanIsStored, BlocksCovered, DirtyBlock
<1>5. TypeOK'
  BY <1>1, <1>2 DEF TypeOK
<1>6. \A p \in 0..filesize-1 : start_index(p) \in Indices(filesize)
  BY <1>1, Located
<1>7. CellsAgree'
  BY <1>2, <1>6 DEF CellsAgree
<1>8. StorageAgrees'
  BY <1>2, <1>4, <1>6 DEF IInv, StorageAgrees, Agrees
<1>9. EndIsEnd' /\ UnknownIsEmpty' /\ Ended'
  BY <1>2 DEF IInv, EndIsEnd, UnknownIsEmpty, Ended
<1>10. BlocksCovered' /\ CleanIsStored'
  BY <1>2, <1>4 DEF BlocksCovered, CleanIsStored, InStorage
<1> QED
  BY <1>5, <1>7, <1>8, <1>9, <1>10 DEF IInv

-----------------------------------------------------------------------------
LEMMA WrittenBlockIsData ==
  ASSUME NEW offset \in Nat, NEW size \in Nat \ {0},
         NEW buf \in [0..size-1 -> Bytes], NEW block \in BlockData,
         NEW k \in Range(offset, size)
  PROVE  WriteBlock(block, offset, size, buf, k) \in BlockData
<1> DEFINE new == WriteBlock(block, offset, size, buf, k)
<1>1. new = [i \in Places |-> new[i]]
  BY DEF WriteBlock, Copy
<1>2. ASSUME NEW i \in Places PROVE new[i] \in Bytes
  <2> DEFINE p == k * BlockSize + i
  <2>1. k \in Nat /\ start_index(offset) <= k /\ k <= end_index(offset, size)
    <3>1. start_index(offset) \in Nat
      BY Quotient
    <3>2. end_index(offset, size) \in Int
      BY BlockSizeAssumption, SMT DEF end_index
    <3> QED
      BY <3>1, <3>2 DEF Range
  <2>2. start_index(p) = k /\ cblock(p) = i
    BY <2>1, Unique
  <2>3. k * BlockSize \in Nat
    BY <2>1, BlockSizeAssumption, SMT
  <2>4. p \in Nat
    <3> DEFINE m == k * BlockSize
    <3> HIDE DEF m
    <3>1. m \in Nat /\ p = m + i
      BY <2>3 DEF m
    <3> QED
      BY <3>1 DEF Places
  <2>5. new[i] = IF p \in Written(offset, size) /\ ~Passed(offset, size, p)
                 THEN buf[p - offset] ELSE block[i]
    <3> HIDE DEF p
    <3> QED
      BY <2>1, <2>2, <2>4, WritesInPlace
  <2>6. p \in Written(offset, size) => p - offset \in 0..size-1
    <3> HIDE DEF p
    <3> QED
      BY <2>4 DEF Written
  <2> QED
    BY <2>5, <2>6 DEF BlockData
<1> HIDE DEF new
<1> QED
  BY <1>1, <1>2 DEF BlockData, new

LEMMA WritePreserves ==
  ASSUME IInv, NEW h \in Handles, NEW offset \in Positions,
         NEW size \in 1..MaxSize-offset, azs_write(h, offset, size)
  PROVE  IInv'
<1> DEFINE end == IF offset + size > filesize THEN offset + size ELSE filesize
           list == IF offset + size > filesize THEN Resized(offset + size)
                                               ELSE blocklist
           buf == [j \in 0..size-1 |-> Byte(ops + 1, offset + j)]
           ends == {start_index(offset), end_index(offset, size)}
           range == offset..offset+size-1
           target(k) == ToWrite(list, k, offset, size)
<1>1. TypeOK
  BY DEF IInv
<1>2. /\ offset \in Nat /\ size \in Nat \ {0} /\ filesize \in Nat
      /\ end \in 0..MaxSize /\ end \in Nat /\ filesize <= end
      /\ offset + size <= end
      /\ offset + size > filesize => offset + size \in 0..MaxSize
  BY <1>1, OpenFileAssumption DEF TypeOK, Positions
<1>3. /\ UNCHANGED <<known, m_exist, fh, blob, l_filesize>>
      /\ up /\ status' = "Dirty" /\ filesize' = end
      /\ up' = \A k \in ends : list[k] # None \/ InStorage(k)
      /\ blocklist' = IF up' THEN [k \in DOMAIN list |->
                                     IF k \in Range(offset, size)
                                     THEN Cell("Dirty",
                                            WriteBlock(target(k), offset, size,
                                                       buf, k))
                                     ELSE list[k]]
                      ELSE list
      /\ written' = [p \in Positions |-> IF p \in range THEN Byte(ops + 1, p)
                                                        ELSE written[p]]
      /\ torn' = (torn \ range) \cup PassedOver(offset, size)
      /\ ops' = ops + 1 /\ ops < MaxOps /\ fh[h] # Closed
  BY DEF azs_write, storage, Called, MayWrite
<1>4. DOMAIN blocklist = Indices(filesize)
  BY <1>1 DEF TypeOK
<1>5. /\ list \in [Indices(end) -> CellSet \cup {None}]
      /\ \A k \in Indices(end) :
           list[k] = IF k \in Indices(filesize) THEN blocklist[k]
                     ELSE Cell("Dirty", JunkData)
  BY <1>1, <1>2, <1>4, ResizedList DEF TypeOK
<1>6. /\ Range(offset, size) \subseteq Indices(end)
      /\ ends \subseteq Range(offset, size)
  BY <1>1, <1>2, RangeInFile
<1>7. /\ Cell("Dirty", JunkData) # None
      /\ Cell("Dirty", JunkData).st = "Dirty"
      /\ Cell("Dirty", JunkData).data = JunkData
  BY JunkIsData, CellIsThere
<1>8. buf \in [0..size-1 -> Bytes] /\ ops + 1 \in Nat /\ ops' \in 0..MaxOps
  <2>1. ops + 1 \in Nat /\ ops' \in 0..MaxOps
    BY <1>1, <1>3, OpenFileAssumption DEF TypeOK
  <2>2. \A j \in 0..size-1 : Byte(ops + 1, offset + j) \in Bytes
    BY <1>2, <2>1 DEF Byte, Bytes
  <2> QED
    BY <2>1, <2>2
<1>9. written' \in [Positions -> Bytes] /\ torn' \subseteq Positions
  <2>1. \A p \in Positions : Byte(ops + 1, p) \in Bytes
    BY <1>8, OpenFileAssumption DEF Byte, Bytes, Positions
  <2>2. range \subseteq Positions /\ PassedOver(offset, size) \subseteq Positions
    BY <1>2, OpenFileAssumption DEF Positions, PassedOver
  <2> QED
    BY <1>1, <1>3, <2>1, <2>2 DEF TypeOK
<1>10. UnknownIsEmpty' /\ CleanIsStored'
  BY <1>3 DEF IInv, UnknownIsEmpty, CleanIsStored
<1>11. EndIsEnd'
  <2> SUFFICES ASSUME NEW p \in Positions, p >= end PROVE written'[p] = Any
    BY <1>3 DEF EndIsEnd
  <2>1. p \notin range /\ p >= filesize
    BY <1>2, OpenFileAssumption DEF Positions
  <2> QED
    BY <1>3, <2>1 DEF IInv, EndIsEnd
\* The blocks the call leaves alone.
<1>12. \A k \in Indices(end) :
         \/ k \in Indices(filesize) /\ list[k] = blocklist[k]
         \/ /\ k \notin Indices(filesize) /\ list[k] # None
            /\ list[k].st = "Dirty" /\ list[k].data = JunkData
  BY <1>5, <1>7
<1>13. CASE ~up'
  <2>2. blocklist' = list
    BY <1>3, <1>13
  <2>3. TypeOK'
    <3> HIDE DEF list, end
    <3>1. blocklist' \in [Indices(filesize') -> CellSet \cup {None}]
      BY <1>3, <1>5, <2>2
    <3> QED
      BY <1>1, <1>2, <1>3, <1>8, <1>9, <3>1 DEF TypeOK
  <2>4. PICK k \in Indices(end) : list[k] = None /\ ~InStorage(k)
    <3> HIDE DEF list, end, target, buf
    <3> QED
      BY <1>3, <1>6, <1>13
  <2>5. ~m_exist
    <3>1. k \in Indices(filesize) /\ blocklist[k] = None
      BY <1>12, <2>4
    <3> QED
      BY <1>4, <2>4, <3>1 DEF IInv, BlocksCovered, DirtyBlock
  <2>6. CellsAgree' /\ StorageAgrees'
    BY <1>13 DEF CellsAgree, StorageAgrees
  <2>7. BlocksCovered'
    BY <1>3, <2>5 DEF BlocksCovered
  <2>8. Ended'
    <3> HIDE DEF list, end
    <3>1. k \in DOMAIN blocklist' /\ blocklist'[k] = None
      BY <1>5, <2>2, <2>4
    <3> QED
      BY <1>3, <2>4, <2>5, <3>1 DEF Ended, Obtainable, InStorage
  <2> QED
    BY <1>10, <1>11, <2>3, <2>6, <2>7, <2>8 DEF IInv
<1>14. CASE up'
  <2>1. blocklist' = [k \in Indices(end) |->
                        IF k \in Range(offset, size)
                        THEN Cell("Dirty", WriteBlock(target(k), offset, size,
                                                      buf, k))
                        ELSE list[k]]
    <3>1. DOMAIN list = Indices(end)
      BY <1>5
    <3> HIDE DEF list, end, target, buf
    <3> QED
      BY <1>3, <1>14, <3>1
  \* What the call copies to: the old bytes where not all are overwritten.
  <2>2. ASSUME NEW k \in Range(offset, size)
        PROVE  /\ target(k) \in BlockData
               /\ \/ k \in Indices(filesize) /\ blocklist[k] # None
                     /\ target(k) = blocklist[k].data
                  \/ k \in Indices(filesize) /\ blocklist[k] = None
                     /\ InStorage(k) /\ target(k) = blob[k]
                  \/ k \in Indices(filesize) /\ k \notin ends
                  \/ k \notin Indices(filesize)
    <3>1. k \in Indices(end)
      BY <1>6
    <3>2. CASE k \notin Indices(filesize)
      BY <1>4, <1>12, <3>1, <3>2, JunkIsData DEF ToWrite
    <3>3. CASE k \in Indices(filesize) /\ blocklist[k] # None
      <4>1. list[k] = blocklist[k]
        BY <1>12, <3>1, <3>3
      <4>2. target(k) = blocklist[k].data
        BY <3>3, <4>1 DEF ToWrite
      <4>3. blocklist[k].data \in BlockData
        BY <1>1, <3>3 DEF TypeOK, CellSet
      <4> QED
        BY <3>3, <4>2, <4>3
    <3>4. CASE k \in Indices(filesize) /\ blocklist[k] = None /\ k \in ends
      <4>1. list[k] = None
        BY <1>12, <3>1, <3>4
      <4>2. InStorage(k)
        BY <1>3, <1>14, <3>4, <4>1
      <4>3. target(k) = blob[k]
        BY <1>4, <3>4, <4>1 DEF ToWrite
      <4>4. blob[k] \in BlockData
        BY <1>1, <4>2 DEF TypeOK, InStorage
      <4> QED
        BY <3>4, <4>2, <4>3, <4>4
    <3>5. CASE k \in Indices(filesize) /\ blocklist[k] = None /\ k \notin ends
      <4>1. list[k] = None
        BY <1>12, <3>1, <3>5
      <4>2. target(k) = JunkData
        BY <1>4, <3>5, <4>1 DEF ToWrite
      <4> QED
        BY <3>5, <4>2, JunkIsData
    <3> QED
      BY <3>2, <3>3, <3>4, <3>5
  <2>3. ASSUME NEW k \in Range(offset, size)
        PROVE  /\ blocklist'[k] \in CellSet /\ blocklist'[k] # None
               /\ blocklist'[k].st = "Dirty"
               /\ blocklist'[k].data = WriteBlock(target(k), offset, size, buf, k)
    <3>1. blocklist'[k] = Cell("Dirty", WriteBlock(target(k), offset, size, buf, k))
      BY <1>6, <2>1
    <3>2. WriteBlock(target(k), offset, size, buf, k) \in BlockData
      <4> HIDE DEF target, buf
      <4> QED
        BY <1>2, <1>8, <2>2, WrittenBlockIsData
    <3> QED
      BY <3>1, <3>2, CellIsThere
  <2>4. ASSUME NEW k \in Indices(end), k \notin Range(offset, size)
        PROVE  blocklist'[k] = list[k]
    BY <2>1, <2>4
  <2>5. TypeOK'
    <3> HIDE DEF list, end, target, buf
    <3>1. \A k \in Indices(end) : blocklist'[k] \in CellSet \cup {None}
      BY <1>5, <2>3, <2>4
    <3>2. blocklist' \in [Indices(filesize') -> CellSet \cup {None}]
      BY <1>3, <2>1, <3>1
    <3> QED
      BY <1>1, <1>2, <1>3, <1>8, <1>9, <1>14, <3>2 DEF TypeOK
  <2>6. ASSUME NEW p \in 0..end-1
        PROVE  /\ p \in Nat /\ p \in Positions /\ start_index(p) \in Indices(end)
               /\ p < filesize => p \in 0..filesize-1
               /\ p >= filesize => written[p] = Any
               /\ start_index(p) \notin Indices(filesize) => written[p] = Any
    <3> HIDE DEF end
    <3>1. p \in Nat /\ p \in Positions
      BY <1>2, OpenFileAssumption DEF Positions
    <3>2. start_index(p) \in Indices(end)
      BY <1>2, BlocksCover DEF Indices
    <3>3. p < filesize => p \in 0..filesize-1
      BY <1>2, <3>1
    <3>4. p >= filesize => written[p] = Any
      BY <3>1 DEF IInv, EndIsEnd
    <3> QED
      BY <1>1, <3>1, <3>2, <3>3, <3>4, BeyondBlocks
  \* Outside the range, what agreed agrees.
  <2>7. ASSUME NEW p \in 0..end-1, p \notin range
        PROVE  /\ \A byte : Agrees(p, byte) => Agree(written', torn', p, byte)
               /\ written[p] = Any => \A byte : Agree(written', torn', p, byte)
    <3>1. written'[p] = written[p] /\ (p \in torn => p \in torn')
      BY <1>3, <2>6, <2>7
    <3> QED
      BY <3>1 DEF Agrees, Agree
  <2>8. CellsAgree'
    <3> SUFFICES ASSUME NEW p \in 0..end-1, blocklist'[start_index(p)] # None
                 PROVE  Agree(written', torn', p,
                              blocklist'[start_index(p)].data[cblock(p)])
      BY <1>3 DEF CellsAgree, Agrees
    <3> DEFINE k == start_index(p)
    <3>1. CASE k \in Range(offset, size)
      <4>1. blocklist'[k].data = WriteBlock(target(k), offset, size, buf, k)
        BY <2>3, <3>1
      <4>2. /\ k \in Nat /\ start_index(offset) <= k
            /\ k <= end_index(offset, size) /\ p \in Nat
        <5>1. /\ k \in Nat /\ start_index(offset) \in Nat
              /\ end_index(offset, size) \in Int
          BY <1>2, <2>6, Quotient, BlockSizeAssumption, SMT DEF end_index
        <5> HIDE DEF k
        <5> QED
          BY <3>1, <5>1, <2>6 DEF Range
      <4>3. blocklist'[k].data[cblock(p)] =
              IF p \in Written(offset, size) /\ ~Passed(offset, size, p)
              THEN buf[p - offset] ELSE target(k)[cblock(p)]
        <5> HIDE DEF target, buf, end
        <5> QED
          BY <1>2, <4>1, <4>2, WritesInPlace
      <4>4. CASE p \in range /\ ~Passed(offset, size, p)
        <5>1. p - offset \in 0..size-1 /\ offset + (p - offset) = p
          BY <1>2, <4>2, <4>4
        <5>2. buf[p - offset] = Byte(ops + 1, p)
          BY <5>1
        <5>3. written'[p] = Byte(ops + 1, p)
          BY <1>3, <2>6, <4>4
        <5> QED
          BY <4>3, <4>4, <5>2, <5>3 DEF Agree, Written
      <4>5. CASE p \in range /\ Passed(offset, size, p)
        <5>1. p \in PassedOver(offset, size)
          <6>1. /\ start_index(offset) \in Nat /\ end_index(offset, size) \in Nat
                /\ start_index(p) \in Nat /\ cblock(p) \in Places
                /\ cblock(offset) \in Places
            BY <1>2, <4>2, Quotient, WrittenBlocks
          <6>2. start_index(p) \in
                  start_index(offset)+1..end_index(offset, size)-1
            BY <4>5, <6>1 DEF Passed
          <6>3. cblock(p) >= BlockSize - cblock(offset)
            BY <4>5, <6>1, BlockSizeAssumption DEF Passed, Places
          <6> QED
            BY <2>6, <6>2, <6>3 DEF PassedOver
        <5> QED
          BY <1>3, <5>1 DEF Agree
      <4>6. CASE p \notin range
        <5>1. blocklist'[k].data[cblock(p)] = target(k)[cblock(p)]
          BY <4>3, <4>6 DEF Written
        <5>2. k \in ends
          <6>1. ~(start_index(offset) < k /\ k < end_index(offset, size))
            BY <1>2, <4>2, <4>6, WrittenBlocks DEF Written
          <6>2. start_index(offset) \in Nat /\ end_index(offset, size) \in Nat
            BY <1>2, <4>2, Quotient, WrittenBlocks
          <6> HIDE DEF k
          <6> QED
            BY <4>2, <6>1, <6>2
        <5>3. CASE k \in Indices(filesize) /\ p < filesize
          <6>1. CASE blocklist[k] # None /\ target(k) = blocklist[k].data
            <7>1. Agrees(p, blocklist[k].data[cblock(p)])
              BY <1>3, <2>6, <5>3, <6>1 DEF IInv, CellsAgree
            <7> QED
              BY <2>7, <4>6, <5>1, <6>1, <7>1
          <6>2. CASE blocklist[k] = None /\ InStorage(k) /\ target(k) = blob[k]
            <7>1. Agrees(p, blob[k][cblock(p)])
              BY <1>3, <2>6, <5>3, <6>2 DEF IInv, StorageAgrees, DirtyBlock
            <7> QED
              BY <2>7, <4>6, <5>1, <6>2, <7>1
          <6> QED
            BY <2>2, <3>1, <5>2, <5>3, <6>1, <6>2
        <5>4. CASE ~(k \in Indices(filesize) /\ p < filesize)
          BY <1>2, <2>6, <2>7, <4>2, <4>6, <5>4
        <5> QED
          BY <5>3, <5>4
      <4> QED
        BY <4>4, <4>5, <4>6
    <3>2. CASE k \notin Range(offset, size)
      <4>1. blocklist'[k] = list[k]
        BY <2>4, <2>6, <3>2
      <4>2. p \notin range
        <5>1. p \notin Written(offset, size)
          <6>1. /\ start_index(offset) \in Nat /\ end_index(offset, size) \in Nat
                /\ k \in Nat
            BY <1>2, <2>6, Quotient, WrittenBlocks
          <6> HIDE DEF end
          <6> QED
            BY <1>2, <2>6, <3>2, <6>1, WrittenBlocks DEF Range
        <5> QED
          BY <5>1 DEF Written
      <4>3. CASE k \in Indices(filesize) /\ p < filesize
        <5>1. blocklist'[k] = blocklist[k]
          BY <1>12, <2>6, <4>1, <4>3
        <5>2. Agrees(p, blocklist[k].data[cblock(p)])
          BY <1>3, <2>6, <4>3, <5>1 DEF IInv, CellsAgree
        <5> QED
          BY <2>7, <4>2, <5>1, <5>2
      <4>4. CASE ~(k \in Indices(filesize) /\ p < filesize)
        BY <1>2, <2>6, <2>7, <4>2, <4>4
      <4> QED
        BY <4>3, <4>4
    <3> QED
      BY <3>1, <3>2
  <2>9. StorageAgrees'
    <3> SUFFICES ASSUME NEW p \in 0..end-1, ~DirtyBlock(start_index(p))',
                        InStorage(start_index(p))
                 PROVE  Agree(written', torn', p, blob[start_index(p)][cblock(p)])
      BY <1>3 DEF StorageAgrees, Agrees, InStorage
    <3> DEFINE k == start_index(p)
    <3>1. k \notin Range(offset, size)
      BY <2>3 DEF DirtyBlock
    <3>2. blocklist'[k] = list[k]
      BY <2>4, <2>6, <3>1
    <3>3. p \notin range
      <4>1. /\ start_index(offset) \in Nat /\ end_index(offset, size) \in Nat
            /\ k \in Nat
        BY <1>2, <2>6, Quotient, WrittenBlocks
      <4> HIDE DEF end
      <4> QED
        BY <1>2, <2>6, <3>1, <4>1, WrittenBlocks DEF Range, Written
    <3>4. CASE k \in Indices(filesize) /\ p < filesize
      <4>1. ~DirtyBlock(k)
        BY <1>12, <2>6, <3>2, <3>4 DEF DirtyBlock
      <4>2. Agrees(p, blob[k][cblock(p)])
        BY <1>3, <2>6, <3>4, <4>1 DEF IInv, StorageAgrees
      <4> QED
        BY <2>7, <3>3, <4>2
    <3>5. CASE ~(k \in Indices(filesize) /\ p < filesize)
      BY <1>2, <2>6, <2>7, <3>3, <3>5
    <3> QED
      BY <3>4, <3>5
  <2>10. BlocksCovered'
    <3> SUFFICES ASSUME m_exist, NEW k \in Indices(end)
                 PROVE  DirtyBlock(k)' \/ InStorage(k)
      BY <1>3, <2>1 DEF BlocksCovered, InStorage
    <3>1. CASE k \in Range(offset, size)
      BY <2>3, <3>1 DEF DirtyBlock
    <3>2. CASE k \notin Range(offset, size)
      <4>1. blocklist'[k] = list[k]
        BY <2>4, <3>2
      <4>2. k \in Indices(filesize) => DirtyBlock(k) \/ InStorage(k)
        BY <1>4 DEF IInv, BlocksCovered
      <4> QED
        BY <1>12, <4>1, <4>2 DEF DirtyBlock
    <3> QED
      BY <3>1, <3>2
  <2>11. Ended'
    BY <1>14 DEF Ended
  <2> QED
    BY <1>10, <1>11, <2>5, <2>8, <2>9, <2>10, <2>11 DEF IInv
<1> QED
  BY <1>13, <1>14

-----------------------------------------------------------------------------
LEMMA StepIInv == IInv /\ [Next]_vars => IInv'
<1> SUFFICES ASSUME IInv, [Next]_vars PROVE IInv'
  OBVIOUS
<1>1. CASE UNCHANGED vars
  BY <1>1 DEF IInv, TypeOK, CellsAgree, StorageAgrees, EndIsEnd, BlocksCovered,
     CleanIsStored, UnknownIsEmpty, Ended, Agrees, DirtyBlock, InStorage,
     Obtainable, vars, object, storage, history
<1>2. ASSUME NEW h \in Handles, NEW size \in 0..MaxSize, azs_ftruncate(h, size)
      PROVE  IInv'
  <2>1. Resize(size) /\ up /\ known
    BY <1>2 DEF azs_ftruncate, Resize, Called, MayWrite, IInv, UnknownIsEmpty
  <2> QED
    BY <2>1, ResizePreserves
<1>3. ASSUME NEW size \in 0..MaxSize, azs_truncate(size) PROVE IInv'
  <2>1. Resize(size) /\ up /\ known
    BY <1>3 DEF azs_truncate, Resize, Called, IInv, UnknownIsEmpty
  <2> QED
    BY <2>1, ResizePreserves
<1>4. CASE Callback
  <2>1. CASE azs_unlink
    BY <2>1, UnlinkPreserves
  <2>2. CASE \E size \in 0..MaxSize : azs_truncate(size)
    BY <2>2, <1>3
  <2>3. ASSUME NEW h \in Handles, NEW flags \in 0..2,
               azs_create(h, flags) \/ azs_open(h, flags)
        PROVE  IInv'
    BY <2>3, CreatePreserves, OpenPreserves
  <2>4. ASSUME NEW h \in Handles, azs_release(h) PROVE IInv'
    BY <2>4, ReleasePreserves
  <2>5. ASSUME NEW h \in Handles, NEW size \in 0..MaxSize, azs_ftruncate(h, size)
        PROVE  IInv'
    BY <2>5, <1>2
  <2>6. ASSUME NEW h \in Handles, NEW offset \in Positions,
               NEW size \in 1..MaxSize, azs_read(h, offset, size)
        PROVE  IInv'
    BY <2>6, ReadPreserves
  <2>7. ASSUME NEW h \in Handles, NEW offset \in Positions,
               NEW size \in 1..MaxSize-offset, azs_write(h, offset, size)
        PROVE  IInv'
    BY <2>7, WritePreserves
  <2> QED
    BY <1>4, <2>1, <2>2, <2>3, <2>4, <2>5, <2>6, <2>7 DEF Callback
<1>5. ASSUME NEW k \in DOMAIN blocklist, Evict(k) PROVE IInv'
  BY <1>5, EvictPreserves
<1> QED
  BY <1>1, <1>4, <1>5, UploadPreserves, RemountPreserves DEF Next

\* The invariant holds at every step.
THEOREM Invariance == Spec => []IInv
<1> QED
  BY InitIInv, StepIInv, PTL DEF Spec

\* The variables keep to their types: callbacks, evictions, uploads and mounts
\* leave a file with as many blocks as its size takes.
THEOREM TypeCorrect == Spec => []TypeOK
<1>1. IInv => TypeOK
  BY DEF IInv
<1> QED
  BY <1>1, Invariance, PTL

\* Every read of azs_read, wherever it begins and ends, returns the bytes that
\* azs_write last put there, except those that write_bytes passed over.
LEMMA ReadsAgree == IInv => WrittenIsRead
<1> SUFFICES ASSUME IInv, \A k \in DOMAIN blocklist : Obtainable(k),
                    NEW offset \in Positions, NEW size \in 1..MaxSize,
                    NEW j \in DOMAIN Reading(offset, size)
             PROVE  \/ written[offset + j] \in {Reading(offset, size)[j], Any}
                    \/ offset + j \in torn
  BY DEF WrittenIsRead, ReadsBack
<1> DEFINE p == offset + j
           k == start_index(p)
           n == to_read(filesize, offset, size)
           held == [i \in DOMAIN blocklist |-> Held(i)]
<1>1. TypeOK /\ up
  BY DEF IInv, Ended
<1>2. filesize \in Nat /\ offset \in Nat /\ size \in Nat
  BY <1>1, OpenFileAssumption DEF TypeOK, Positions
<1>3. n \in Nat /\ j \in 0..n-1
  BY <1>2 DEF Reading, ReadBytes, to_read
<1>4. j \in Nat /\ p \in 0..filesize-1
  BY <1>2, <1>3 DEF to_read
<1>5. k \in DOMAIN blocklist
  BY <1>1, <1>4, Located DEF TypeOK
<1>6. Reading(offset, size)[j] = Held(k)[cblock(p)]
  <2>1. ReadFrom(offset, j) = [index |-> k, place |-> cblock(p)]
    BY <1>2, <1>4, ReadsInPlace
  <2>2. ReadFrom(offset, j).index = k /\ ReadFrom(offset, j).place = cblock(p)
    <3> HIDE DEF p, k
    <3> QED
      BY <2>1
  <2>3. Reading(offset, size)[j]
          = held[ReadFrom(offset, j).index][ReadFrom(offset, j).place]
    BY <1>3 DEF Reading, ReadBytes
  <2> QED
    BY <1>5, <2>2, <2>3
<1>7. CASE blocklist[k] # None
  BY <1>1, <1>4, <1>6, <1>7 DEF IInv, CellsAgree, Agrees, Agree, Held
<1>8. CASE blocklist[k] = None
  <2>1. InStorage(k) /\ ~DirtyBlock(k)
    BY <1>5, <1>8 DEF Obtainable, DirtyBlock
  <2> QED
    BY <1>1, <1>4, <1>6, <1>8, <2>1 DEF IInv, StorageAgrees, Agrees, Agree, Held
<1> QED
  BY <1>7, <1>8

\* Every read returns the bytes last written, for files and blocks of any size,
\* whatever is evicted, uploaded, truncated and mounted in between, but for what
\* the copies to the inner blocks of a long write pass over.
THEOREM ReadsWhatIsWritten == Spec => []WrittenIsRead
<1> QED
  BY ReadsAgree, Invariance, PTL

\* A read or a write throws only on a file that has lost its last link.
THEOREM ThrowsUnlinked == Spec => []ThrowsOnlyUnlinked
<1>1. IInv => ThrowsOnlyUnlinked
  BY DEF IInv, Ended, ThrowsOnlyUnlinked
<1> QED
  BY <1>1, Invariance, PTL

\* The blob of a file without links does not come back.
THEOREM StaysDead == Spec => DeadStaysDead
<1> DEFINE Dead == known /\ ~m_exist /\ blob = None => blob' = None
<1>1. [Next]_vars => [Dead]_vars
  <2> SUFFICES ASSUME [Next]_vars, known, ~m_exist, blob = None
               PROVE  blob' = None
    OBVIOUS
  <2> QED
    BY DEF Next, Callback, azs_create, azs_open, azs_release, azs_unlink,
       azs_truncate, azs_ftruncate, Resize, azs_read, azs_write, Evict, Upload,
       Remount, vars, storage
<1>2. Spec => [][Dead]_vars
  BY <1>1, PTL DEF Spec
<1> QED
  BY <1>2 DEF DeadStaysDead
=============================================================================
