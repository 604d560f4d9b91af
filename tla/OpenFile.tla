------------------------------- MODULE OpenFile -------------------------------
(***************************************************************************)
(* A regular file byte by byte: what open, read, write, truncate, unlink   *)
(* and release do to it through a handle, over blocks that come and go in  *)
(* the cache, are uploaded, and are found again after the next mount.      *)
(*                                                                         *)
(* A callback is one step here, as is an upload, and storage does not      *)
(* fail: what goes on between them is the subject of BlockStore.           *)
(***************************************************************************)
EXTENDS ByteRanges, FiniteSets

CONSTANTS
  Handles,       \* the handles of the system
  MaxSize,       \* bound on the size of the file
  StoredSize,    \* its size if it is in storage at first
  MaxOps,        \* bound on the calls that read or change it
  Junk,          \* a byte of a cell nothing has been copied to
  Any,           \* a byte nobody has written
  None, Closed   \* no block, no blob; no open file

Positions == 0..MaxSize-1
Indices(size) == 0..Blocks(size)-1

\* The byte of call n meant for position p, and any byte there may be.
Byte(n, p) == <<n, p>>
Bytes == (Nat \X Nat) \cup {Junk, Any}
BlockData == [Places -> Bytes]
CellSet == [st : {"Clean", "Dirty"}, data : BlockData]

ASSUME OpenFileAssumption ==
  /\ MaxSize \in Nat \ {0}
  /\ StoredSize \in 0..MaxSize
  /\ MaxOps \in Nat
  /\ None \notin CellSet
  /\ \A size \in 0..MaxSize : None \notin [Indices(size) -> BlockData]
  /\ Closed \notin 0..3

VARIABLES
  \* the object
  known,         \* it is in FileMap
  m_exist,       \* BasicFile::m_exist; an existing file has one link
  filesize,
  blocklist,     \* per block its cell, [st, data], or None
  status,        \* "Dirty": in the queue; "Clean"
  \* the callbacks
  fh,            \* per handle fhwraper::flag, or Closed
  up,            \* no exception has ended the process
  \* storage
  blob,          \* the committed blocks, or None
  l_filesize,    \* its metadata
  \* history
  written,       \* per position the byte last written there, or Any
  torn,          \* positions that write_bytes has passed over
  ops

object  == <<known, m_exist, filesize, blocklist, status>>
storage == <<blob, l_filesize>>
history == <<written, torn>>
vars == <<object, fh, up, storage, history, ops>>

JunkData == [i \in Places |-> Junk]

Init ==
  /\ known \in BOOLEAN
  /\ m_exist = known
  /\ filesize = IF known THEN StoredSize ELSE 0
  /\ blocklist = [k \in Indices(filesize) |-> None]
  /\ status = "Clean"
  /\ fh = [h \in Handles |-> Closed]
  /\ up = TRUE
  /\ blob = IF known
            THEN [k \in Indices(filesize) |->
                    [i \in Places |-> Byte(0, k * BlockSize + i)]]
            ELSE None
  /\ l_filesize = filesize
  /\ written = [p \in Positions |-> IF p < filesize THEN Byte(0, p) ELSE Any]
  /\ torn = {}
  /\ ops = 0

-----------------------------------------------------------------------------
(***************************************************************************)
(* Names and handles.                                                      *)
(***************************************************************************)
\* create_reg, BasicFile::create, and a handle.
azs_create(h, flags) ==
  /\ up
  /\ ~known
  /\ fh[h] = Closed
  /\ known' = TRUE
  /\ m_exist' = TRUE
  /\ status' = "Dirty"
  /\ fh' = [fh EXCEPT ![h] = flags % 4]
  /\ UNCHANGED <<filesize, blocklist, up, storage, history, ops>>

\* FileMap::get finds only a file that exists.
azs_open(h, flags) ==
  /\ up
  /\ m_exist
  /\ fh[h] = Closed
  /\ fh' = [fh EXCEPT ![h] = flags % 4]
  /\ UNCHANGED <<object, up, storage, history, ops>>

azs_release(h) ==
  /\ up
  /\ fh[h] # Closed
  /\ fh' = [fh EXCEPT ![h] = Closed]
  /\ UNCHANGED <<object, up, storage, history, ops>>

\* rmEntry and the dec_nlink of the only link; handles stay open.
azs_unlink ==
  /\ up
  /\ m_exist
  /\ m_exist' = FALSE
  /\ status' = "Dirty"
  /\ UNCHANGED <<known, filesize, blocklist, fh, up, storage, history, ops>>

\* The O_ flags of the handle: 1 is O_WRONLY, 2 is O_RDWR.
MayRead(h)  == fh[h] # Closed /\ fh[h] % 2 = 0
MayWrite(h) == fh[h] # Closed /\ fh[h] # 0

-----------------------------------------------------------------------------
(***************************************************************************)
(* Blocks.                                                                 *)
(***************************************************************************)
Cell(st, data) == [st |-> st, data |-> data]

InStorage(k) == blob # None /\ k \in DOMAIN blob

\* The bytes of block k, where they are now.
Held(k) == IF blocklist[k] # None THEN blocklist[k].data ELSE blob[k]

\* download_range_to_stream finds what it is asked for.
Obtainable(k) == blocklist[k] # None \/ InStorage(k)

\* resize: new blocks are Dirty (a slip: they are not), blocks beyond the end
\* are given up.
ResizedClean(size) ==
  [k \in Indices(size) |->
     IF k \in DOMAIN blocklist THEN blocklist[k] ELSE Cell("Clean", JunkData)]
Resized(size) ==
  [k \in Indices(size) |->
     IF k \in DOMAIN blocklist THEN blocklist[k] ELSE Cell("Dirty", JunkData)]

Called ==
  /\ up
  /\ ops < MaxOps
  /\ ops' = ops + 1

\* get_read_block and get_write_block_copy download into a new cell.
Range(offset, size) == start_index(offset)..end_index(offset, size)

azs_read(h, offset, size) ==
  LET n == to_read(filesize, offset, size)
      wanted == IF n = 0 THEN {} ELSE Range(offset, n)
  IN /\ Called
     /\ MayRead(h)
     /\ up' = \A k \in wanted : Obtainable(k)
     /\ blocklist' =
          IF up' THEN [k \in DOMAIN blocklist |->
                         IF k \in wanted /\ blocklist[k] = None
                         THEN Cell("Clean", blob[k]) ELSE blocklist[k]]
          ELSE blocklist
     /\ UNCHANGED <<known, m_exist, filesize, status, fh, storage, history>>

\* get_write_block, for the blocks between the first and the last, downloads
\* nothing.
ToWrite(list, k, offset, size) ==
  IF k \in DOMAIN blocklist /\ list[k] = None
  THEN IF k \in {start_index(offset), end_index(offset, size)}
       THEN blob[k] ELSE JunkData
  ELSE list[k].data

\* The blocks between the first and the last get BlockSize - cblock bytes.
PassedOver(offset, size) ==
  {p \in Positions :
     /\ start_index(p) \in start_index(offset)+1..end_index(offset, size)-1
     /\ cblock(p) >= BlockSize - cblock(offset)}

\* write_bytes: resize if need be, then copy to one block after the other.
azs_write(h, offset, size) ==
  LET list == IF offset + size > filesize THEN Resized(offset + size)
                                          ELSE blocklist
      buf == [j \in 0..size-1 |-> Byte(ops + 1, offset + j)]
      ends == {start_index(offset), end_index(offset, size)}
      range == offset..offset+size-1
  IN /\ Called
     /\ MayWrite(h)
     /\ filesize' = IF offset + size > filesize THEN offset + size
                                                ELSE filesize
     /\ up' = \A k \in ends : list[k] # None \/ InStorage(k)
     /\ blocklist' =
          IF up' THEN [k \in DOMAIN list |->
                         IF k \in Range(offset, size)
                         THEN Cell("Dirty",
                                   WriteBlock(ToWrite(list, k, offset, size),
                                              offset, size, buf, k))
                         ELSE list[k]]
          ELSE list
     /\ status' = "Dirty"
     /\ written' = [p \in Positions |-> IF p \in range THEN Byte(ops + 1, p)
                                                       ELSE written[p]]
     /\ torn' = (torn \ range) \cup PassedOver(offset, size)
     /\ UNCHANGED <<known, m_exist, fh, storage>>

Resize(size) ==
  /\ Called
  /\ filesize' = size
  /\ blocklist' = Resized(size)
  /\ status' = "Dirty"
  /\ written' = [p \in Positions |-> IF p < size THEN written[p] ELSE Any]
  /\ torn' = {p \in torn : p < size}
  /\ UNCHANGED <<known, m_exist, fh, up, storage>>

azs_truncate(size) == m_exist /\ Resize(size)

azs_ftruncate(h, size) == MayWrite(h) /\ Resize(size)

-----------------------------------------------------------------------------
(***************************************************************************)
(* The cache, the uploader, and the next mount.                            *)
(***************************************************************************)
\* get_free needs the cell of a Clean block.
Evict(k) ==
  /\ up
  /\ blocklist[k] # None
  /\ blocklist[k].st = "Clean"
  /\ blocklist' = [blocklist EXCEPT ![k] = None]
  /\ UNCHANGED <<known, m_exist, filesize, status, fh, up, storage, history,
                 ops>>

DirtyBlock(k) == blocklist[k] # None /\ blocklist[k].st = "Dirty"

\* What the snapshot took is Clean when it is gone.
Restored ==
  [k \in DOMAIN blocklist |-> IF DirtyBlock(k)
                              THEN Cell("Clean", blocklist[k].data)
                              ELSE blocklist[k]]

\* A slip: the metadata with the size are not written again.
StoreBlobOnly ==
  /\ UNCHANGED l_filesize
  /\ blob' = [k \in DOMAIN blocklist |->
               IF DirtyBlock(k) THEN blocklist[k].data ELSE blob[k]]

\* generate_task: the Dirty blocks are sent, the others are in the blob, or
\* the list is refused.
StoreBlob ==
  IF \A k \in DOMAIN blocklist : DirtyBlock(k) \/ InStorage(k)
  THEN /\ blob' = [k \in DOMAIN blocklist |->
                     IF DirtyBlock(k) THEN blocklist[k].data ELSE blob[k]]
       /\ l_filesize' = filesize
  ELSE UNCHANGED storage

\* A slip: the file is stored whether it exists or not.
UploadAlways ==
  /\ up
  /\ status = "Dirty"
  /\ StoreBlob
  /\ status' = "Clean"
  /\ blocklist' = Restored
  /\ UNCHANGED <<known, m_exist, filesize, fh, up, history, ops>>

Upload ==
  /\ up
  /\ status = "Dirty"
  /\ IF m_exist THEN StoreBlob
                ELSE blob' = None /\ UNCHANGED l_filesize
  /\ status' = "Clean"
  /\ blocklist' = Restored
  /\ UNCHANGED <<known, m_exist, filesize, fh, up, history, ops>>

\* The queue is empty, so azs_destroy returns; the next process makes the
\* object from what is stored: BasicFile::get.
Remount ==
  /\ up
  /\ m_exist
  /\ status = "Clean"
  /\ \A h \in Handles : fh[h] = Closed
  /\ blob # None
  /\ filesize' = l_filesize
  /\ blocklist' = [k \in Indices(l_filesize) |-> None]
  /\ UNCHANGED <<known, m_exist, status, fh, up, storage, history, ops>>

-----------------------------------------------------------------------------
Callback ==
  \/ azs_unlink
  \/ \E size \in 0..MaxSize : azs_truncate(size)
  \/ \E h \in Handles :
       \/ \E flags \in 0..2 : azs_create(h, flags) \/ azs_open(h, flags)
       \/ azs_release(h)
       \/ \E size \in 0..MaxSize : azs_ftruncate(h, size)
       \/ \E offset \in Positions, size \in 1..MaxSize :
            azs_read(h, offset, size)
       \/ \E offset \in Positions :
            \E size \in 1..MaxSize-offset : azs_write(h, offset, size)

Next ==
  \/ Callback
  \/ \E k \in DOMAIN blocklist : Evict(k)
  \/ Upload
  \/ Remount

Spec == Init /\ [][Next]_vars

-----------------------------------------------------------------------------
TypeOK ==
  /\ known \in BOOLEAN /\ m_exist \in BOOLEAN /\ up \in BOOLEAN
  /\ filesize \in 0..MaxSize /\ l_filesize \in 0..MaxSize
  /\ blocklist \in [Indices(filesize) -> CellSet \cup {None}]
  /\ status \in {"Clean", "Dirty"}
  /\ fh \in [Handles -> {Closed} \cup 0..3]
  /\ blob \in [Indices(l_filesize) -> BlockData] \cup {None}
  /\ written \in [Positions -> Bytes]
  /\ torn \subseteq Positions
  /\ ops \in 0..MaxOps

\* What azs_read would return.
Reading(offset, size) == ReadBytes([k \in DOMAIN blocklist |-> Held(k)],
                                   filesize, offset, size)

ReadsBack(but) ==
  (\A k \in DOMAIN blocklist : Obtainable(k)) =>
    \A offset \in Positions, size \in 1..MaxSize :
      LET bytes == Reading(offset, size)
      IN \A j \in DOMAIN bytes :
           written[offset + j] \in {bytes[j], Any} \/ offset + j \in but

\* Every read, wherever it begins and ends, returns the bytes last written
\* there, through all the ways of cutting ranges into blocks, growing,
\* truncation, eviction, upload and remounting; except what the copy to the
\* inner blocks of a long write passes over.
WrittenIsRead == ReadsBack(torn)

\* The same without the exception: write_bytes stores all of its buffer.
WriteStores == ReadsBack({})

\* The process ends by an exception only if a file is used that has lost its
\* last link: whatever is in no cell is in storage.
ThrowsOnlyUnlinked == ~up => ~m_exist

\* A file that is deleted stays so, although handles to it still write to it
\* and have it queued.
DeadStaysDead == [][known /\ ~m_exist /\ blob = None => blob' = None]_vars
=============================================================================
