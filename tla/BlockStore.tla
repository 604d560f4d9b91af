------------------------------ MODULE BlockStore ------------------------------
(***************************************************************************)
(* The data path of blobfs: the FUSE threads that read, write and truncate *)
(* files through BasicFile, the block cache they share (BlockCache), and   *)
(* the upload task that takes snapshots of files, stores their Dirty       *)
(* blocks and gives the blocks back (Snapshot, generate_task).             *)
(*                                                                         *)
(* A block's bytes are one value, a file's size is counted in blocks and   *)
(* the order of the cache's list is left open: a thread that looks for a   *)
(* free cell may find any cell it is allowed to take.  A step is what      *)
(* happens under one lock, or between two, so every place where the code   *)
(* lets go of a lock is a place where the others may step in.              *)
(***************************************************************************)
EXTENDS Integers, Sequences, FiniteSets

CONSTANTS
  Files,         \* the files, all of them in FileMap and with links
  Threads,       \* the FUSE callback threads
  Nobody,        \* no file, no thread
  Values,        \* what write may put into a block
  Fresh, Old,    \* the data of a new Block; what storage holds at first
  MaxBlocks,     \* bound on the blocks of a file
  CacheSize,     \* default_cache_size
  InitBlocks,    \* the blocks each file has in storage at first
  Ops,           \* the operations tried: "read", "write", "trunc"
  MaxOps,        \* bound on the calls made
  Results,       \* the values a failing upload may return
  MaxFails       \* bound on the requests that fail

Data  == Values \cup {Fresh, Old}
Cells == 1..(CacheSize + Cardinality(Threads))
Index == 1..MaxBlocks

ASSUME BlockStoreAssumption ==
  /\ Nobody \notin Files \cup Threads
  /\ IsFiniteSet(Threads) /\ Threads # {}
  /\ MaxBlocks \in Nat \ {0}
  /\ CacheSize \in Nat \ {0}
  /\ InitBlocks \in [Files -> 0..MaxBlocks]
  /\ Ops \subseteq {"read", "write", "trunc"}
  /\ MaxOps \in Nat
  /\ Results \subseteq {-1, 1}
  /\ MaxFails \in Nat

VARIABLES
  \* BlockCache
  ncells,        \* the cells made so far
  bstatus,       \* Block::status of each cell
  basefile,      \* Block::basefile
  block_index,   \* Block::block_index
  data,          \* Block::data
  \* BasicFile
  blocklist,     \* per file, the cell of each block, 0 for none
  filesize,      \* per file, in blocks
  fstatus,       \* BasicFile::status
  m_mutex,       \* who holds BasicFile::m_mutex between two steps
  \* the threads
  pc,            \* where the thread is
  req,           \* its call: [op, f, lo, hi, v]; "trunc" has the new size in hi
  idx,           \* the block it is at
  pin,           \* the cell it was given
  ign,           \* the cell whose status_mutex it holds to copy it, or 0
  got,           \* what it downloaded
  ops,           \* calls made so far
  \* the uploader and storage
  upload_queue,
  upc,           \* "idle", "send", "restore"
  item,          \* the file being uploaded
  snap,          \* Snapshot::dirtyblock: per block its cell, or 0
  sent,          \* the blocks staged so far (Nobody: not staged)
  result,        \* what the task is going to return
  blob,          \* the committed blocks of each file
  fails,         \* requests that failed so far
  \* history
  content,       \* what the calls so far have made of each file
  exposed        \* blocks a late copy or a failed upload left unsaved

cacheVars  == <<ncells, bstatus, basefile, block_index, data>>
fileVars   == <<blocklist, filesize, fstatus, m_mutex>>
threadVars == <<pc, req, idx, pin, ign, got, ops>>
upVars     == <<upc, item, snap, sent, result, blob, fails>>
history    == <<content, exposed>>
vars == <<cacheVars, fileVars, threadVars, upload_queue, upVars, history>>

Fill(f, v) == [i \in 1..InitBlocks[f] |-> v]
NoReq == [op |-> "none", f |-> Nobody, lo |-> 0, hi |-> 0,
          v |-> Fresh]

Init ==
  /\ ncells = 0
  /\ bstatus     = [c \in Cells |-> "Expired"]
  /\ basefile    = [c \in Cells |-> Nobody]
  /\ block_index = [c \in Cells |-> 0]
  /\ data        = [c \in Cells |-> Fresh]
  /\ blocklist = [f \in Files |-> Fill(f, 0)]
  /\ filesize  = InitBlocks
  /\ fstatus   = [f \in Files |-> "Clean"]
  /\ m_mutex   = [f \in Files |-> Nobody]
  /\ pc  = [t \in Threads |-> "idle"]
  /\ req = [t \in Threads |-> NoReq]
  /\ idx = [t \in Threads |-> 0]
  /\ pin = [t \in Threads |-> 0]
  /\ ign = [t \in Threads |-> 0]
  /\ got = [t \in Threads |-> Fresh]
  /\ ops = 0
  /\ upload_queue = <<>>
  /\ upc = "idle"
  /\ item = Nobody
  /\ snap = <<>>
  /\ sent = <<>>
  /\ result = 0
  /\ blob = [f \in Files |-> Fill(f, Old)]
  /\ fails = 0
  /\ content = blob
  /\ exposed = {}

\* An exception that leaves a callback, like a failed assert, ends the process.
Up == \A t \in Threads : pc[t] \notin {"threw", "asserted"}

Free(f) == m_mutex[f] = Nobody
StatusFree(c) == \A t \in Threads : ign[t] # c

\* A slip: a file that is being uploaded is taken for one that is queued.
TouchIfClean(f) ==
  /\ fstatus' = [fstatus EXCEPT ![f] = "Dirty"]
  /\ upload_queue' = IF fstatus[f] = "Clean" THEN Append(upload_queue, f)
                                             ELSE upload_queue

\* The end of resize and of write_bytes: status and add_to_wait under m_mutex.
Touch(f) ==
  /\ fstatus' = [fstatus EXCEPT ![f] = "Dirty"]
  /\ upload_queue' = IF fstatus[f] = "Dirty" THEN upload_queue
                     ELSE Append(upload_queue, f)

Goto(t, where) == pc' = [pc EXCEPT ![t] = where]

-----------------------------------------------------------------------------
(***************************************************************************)
(* A call begins: the size is looked at without a lock.                    *)
(***************************************************************************)
Call(t, where, r) ==
  /\ Up
  /\ pc[t] = "idle"
  /\ r.op \in Ops
  /\ ops < MaxOps
  /\ ops' = ops + 1
  /\ Goto(t, where)
  /\ req' = [req EXCEPT ![t] = r]
  /\ idx' = [idx EXCEPT ![t] = r.lo]
  /\ UNCHANGED <<cacheVars, fileVars, pin, ign, got, upload_queue, upVars,
                 history>>

\* read_bytes: nothing beyond the end, and no further than the end.
Read(t, f, lo, hi) ==
  /\ lo <= hi /\ hi <= filesize[f]
  /\ Call(t, "lock",
          [op |-> "read", f |-> f, lo |-> lo, hi |-> hi, v |-> Fresh])

\* write_bytes: resize first if the write reaches beyond the end.
Write(t, f, lo, hi, v) ==
  /\ lo <= hi
  /\ Call(t, IF hi > filesize[f] THEN "resize" ELSE "lock",
          [op |-> "write", f |-> f, lo |-> lo, hi |-> hi, v |-> v])

Truncate(t, f, n) ==
  Call(t, "resize", [op |-> "trunc", f |-> f, lo |-> 0, hi |-> n, v |-> Fresh])

\* The call is over; its local variables are gone.
Return(t) ==
  /\ Goto(t, "idle")
  /\ req' = [req EXCEPT ![t] = NoReq]
  /\ idx' = [idx EXCEPT ![t] = 0]
  /\ pin' = [pin EXCEPT ![t] = 0]

\* The call goes on with block i.
ToBlock(t, i) ==
  /\ Goto(t, "lock")
  /\ idx' = [idx EXCEPT ![t] = i]
  /\ pin' = [pin EXCEPT ![t] = 0]
  /\ UNCHANGED req

-----------------------------------------------------------------------------
(***************************************************************************)
(* BlockCache::get_free.  The thread holds the m_mutex of its file, and    *)
(* when it copies a block, the status_mutex of that block (ign).           *)
(***************************************************************************)
\* is_full; the two ends of the list are cells of the vector as well.  (Slips:
\* the comparison, the two ends forgotten in max_cache_size.)
CacheFullLate  == ncells > CacheSize
CacheFullEarly == ncells + 2 >= CacheSize
CacheFull      == ncells >= CacheSize

IsFull(t) ==
  /\ Up
  /\ pc[t] = "alloc"
  /\ Goto(t, IF CacheFull THEN "scan" ELSE "new")
  /\ UNCHANGED <<cacheVars, fileVars, req, idx, pin, ign, got, ops,
                 upload_queue, upVars, history>>

\* put_new_item: the new Block is in the list from now on, and Expired.
PutNewItem(t) ==
  /\ Up
  /\ pc[t] = "new"
  /\ ncells' = ncells + 1
  /\ pin' = [pin EXCEPT ![t] = ncells + 1]
  /\ Goto(t, "assign")
  /\ UNCHANGED <<bstatus, basefile, block_index, data, fileVars, req, idx,
                 ign, got, ops, upload_queue, upVars, history>>

\* get_free_from_list takes an Expired cell, ...
Take(t, c) ==
  /\ Up
  /\ pc[t] = "scan"
  /\ c <= ncells
  /\ StatusFree(c)
  /\ bstatus' = [bstatus EXCEPT ![c] = "Ready"]
  /\ pin' = [pin EXCEPT ![t] = c]
  /\ Goto(t, "assign")
  /\ UNCHANGED <<ncells, basefile, block_index, data, filesize, fstatus,
                 m_mutex, req, idx, ign, got, ops, upload_queue, upVars,
                 history>>

TakeExpired(t, c) ==
  /\ bstatus[c] = "Expired"
  /\ Take(t, c)
  /\ UNCHANGED blocklist

\* A slip: gc_notify does not unmap the block.
EvictMapped(t, c) ==
  /\ bstatus[c] = "Clean"
  /\ Free(basefile[c])
  /\ Take(t, c)
  /\ UNCHANGED blocklist

\* The status get_free_from_list asks for.  (A slip: Dirty will do.)
EvictableDirty == {"Clean", "Dirty"}
Evictable == {"Clean"}

\* ... or a Clean one whose file's m_mutex nobody holds (try_to_lock fails for
\* the thread that holds it, too): gc_notify unmaps the block.  Its
\* blocklist.at does not throw (EvictInRange).
Evict(t, c) ==
  /\ bstatus[c] \in Evictable
  /\ LET f == basefile[c]
         i == block_index[c]
     IN /\ Free(f)
        /\ i <= Len(blocklist[f])
        /\ blocklist' = [blocklist EXCEPT ![f][i] = IF @ = c THEN 0 ELSE @]
  /\ Take(t, c)

-----------------------------------------------------------------------------
(***************************************************************************)
(* BasicFile::resize, for truncate and for a write beyond the end.         *)
(***************************************************************************)
\* What follows resize: write_bytes goes on, truncate is done.
AfterResize(t) ==
  IF req[t].op = "write" THEN ToBlock(t, req[t].lo) ELSE Return(t)

\* More blocks: make room in the list, then get a cell for each of them.
Grow(t) ==
  LET f == req[t].f
      n == req[t].hi
  IN /\ Up
     /\ pc[t] = "resize"
     /\ Free(f)
     /\ n > filesize[f]
     /\ blocklist' = [blocklist EXCEPT ![f] =
                        [i \in 1..n |-> IF i <= Len(@) THEN @[i] ELSE 0]]
     /\ m_mutex' = [m_mutex EXCEPT ![f] = t]
     /\ idx' = [idx EXCEPT ![t] = filesize[f] + 1]
     /\ Goto(t, "alloc")
     /\ UNCHANGED <<cacheVars, filesize, fstatus, req, pin, ign, got,
                    ops, upload_queue, upVars, history>>

\* What becomes of a cell that the file gives up.  (Slips: all of them are
\* freed at once, or the one being uploaded is left alone.)
GivenUpAtOnce(s) == "Expired"
GivenUpNot(s) == IF s = "Uploading" THEN s ELSE "Expired"
GivenUp(s) == IF s = "Uploading" THEN "Up_Expired" ELSE "Expired"

\* As many or fewer: every cell beyond the new end is given up, at once or,
\* if it is being uploaded, by ~Snapshot.
Shrink(t) ==
  LET f == req[t].f
      n == req[t].hi
      gone == {blocklist[f][i] : i \in n+1..Len(blocklist[f])} \ {0}
  IN /\ Up
     /\ pc[t] = "resize"
     /\ Free(f)
     /\ n <= filesize[f]
     /\ \A c \in gone : StatusFree(c) /\ bstatus[c] \notin {"Expired", "Ready"}
     /\ bstatus' = [c \in Cells |->
                      IF c \in gone THEN GivenUp(bstatus[c]) ELSE bstatus[c]]
     /\ blocklist' = [blocklist EXCEPT ![f] = SubSeq(@, 1, n)]
     /\ filesize' = [filesize EXCEPT ![f] = n]
     /\ content' = [content EXCEPT ![f] = SubSeq(@, 1, n)]
     /\ exposed' = exposed \ ({f} \X (n+1..MaxBlocks))
     /\ Touch(f)
     /\ AfterResize(t)
     /\ UNCHANGED <<ncells, basefile, block_index, data, m_mutex, ign, got,
                    ops, upVars>>

\* assert(false): a block of the file is in a cell that is free.
ShrinkAsserts(t) ==
  LET f == req[t].f
  IN /\ Up
     /\ pc[t] = "resize"
     /\ Free(f)
     /\ \E i \in req[t].hi+1..Len(blocklist[f]) :
          /\ blocklist[f][i] > 0
          /\ bstatus[blocklist[f][i]] \in {"Expired", "Ready"}
     /\ Goto(t, "asserted")
     /\ UNCHANGED <<cacheVars, fileVars, req, idx, pin, ign, got, ops,
                    upload_queue, upVars, history>>

\* The cell from get_free becomes block idx of the file: in resize, ...
Growing(t) == idx[t] > filesize[req[t].f]

AssignGrown(t) ==
  LET f == req[t].f
      c == pin[t]
      i == idx[t]
  IN /\ Up
     /\ pc[t] = "assign"
     /\ Growing(t)
     /\ basefile' = [basefile EXCEPT ![c] = f]
     /\ block_index' = [block_index EXCEPT ![c] = i]
     /\ bstatus' = [bstatus EXCEPT ![c] = "Dirty"]
     /\ blocklist' = [blocklist EXCEPT ![f][i] = c]
     /\ content' = [content EXCEPT ![f] = Append(@, data[c])]
     /\ \/ /\ i < req[t].hi
           /\ idx' = [idx EXCEPT ![t] = i + 1]
           /\ pin' = [pin EXCEPT ![t] = 0]
           /\ Goto(t, "alloc")
           /\ UNCHANGED <<filesize, fstatus, m_mutex, req, upload_queue>>
        \/ /\ i = req[t].hi
           /\ filesize' = [filesize EXCEPT ![f] = i]
           /\ m_mutex' = [m_mutex EXCEPT ![f] = Nobody]
           /\ Touch(f)
           /\ AfterResize(t)
     /\ UNCHANGED <<ncells, data, ign, got, ops, upVars, exposed>>

-----------------------------------------------------------------------------
(***************************************************************************)
(* get_read_block, get_write_block and get_write_block_copy for block idx. *)
(***************************************************************************)
File(t)   == req[t].f
InRange(t) == idx[t] <= Len(blocklist[File(t)])
Mapped(t) == blocklist[File(t)][idx[t]]

AtBlock(t) ==
  /\ Up
  /\ pc[t] = "lock"
  /\ Free(File(t))

\* The blocks between the first and the last of a write are not downloaded.
Downloads(t) == req[t].op = "read" \/ idx[t] \in {req[t].lo, req[t].hi}

\* blocklist.at or the download throws: the file has become shorter, or
\* storage does not hold the block.
GetThrows(t) ==
  /\ AtBlock(t)
  /\ \/ ~InRange(t)
     \/ /\ InRange(t)
        /\ Mapped(t) = 0
        /\ Downloads(t)
        /\ idx[t] > Len(blob[File(t)])
  /\ Goto(t, "threw")
  /\ UNCHANGED <<cacheVars, fileVars, req, idx, pin, ign, got, ops,
                 upload_queue, upVars, history>>

\* The block is in the cache and stays where it is; a write makes it Dirty.
GetCached(t) ==
  LET c == Mapped(t)
  IN /\ AtBlock(t)
     /\ InRange(t)
     /\ c > 0
     /\ req[t].op = "write" => StatusFree(c) /\ bstatus[c] # "Uploading"
     /\ bstatus' = IF req[t].op = "write" /\ bstatus[c] = "Clean"
                   THEN [bstatus EXCEPT ![c] = "Dirty"] ELSE bstatus
     /\ pin' = [pin EXCEPT ![t] = c]
     /\ Goto(t, "copy")
     /\ UNCHANGED <<ncells, basefile, block_index, data, fileVars, req,
                    idx, ign, got, ops, upload_queue, upVars, history>>

\* A write to a block that is being uploaded: copy it to another cell.
BeginCopyOnWrite(t) ==
  LET c == Mapped(t)
  IN /\ AtBlock(t)
     /\ req[t].op = "write"
     /\ InRange(t)
     /\ c > 0
     /\ StatusFree(c)
     /\ bstatus[c] = "Uploading"
     /\ bstatus' = [bstatus EXCEPT ![c] = "Up_Expired"]
     /\ ign' = [ign EXCEPT ![t] = c]
     /\ m_mutex' = [m_mutex EXCEPT ![File(t)] = t]
     /\ Goto(t, "alloc")
     /\ UNCHANGED <<ncells, basefile, block_index, data, blocklist, filesize,
                    fstatus, req, idx, pin, got, ops, upload_queue,
                    upVars, history>>

\* The block is not in the cache: download it if need be, then get a cell.
BeginLoad(t) ==
  /\ AtBlock(t)
  /\ InRange(t)
  /\ Mapped(t) = 0
  /\ \/ /\ Downloads(t)
        /\ idx[t] <= Len(blob[File(t)])
        /\ got' = [got EXCEPT ![t] = blob[File(t)][idx[t]]]
     \/ ~Downloads(t) /\ UNCHANGED got
  /\ m_mutex' = [m_mutex EXCEPT ![File(t)] = t]
  /\ Goto(t, "alloc")
  /\ UNCHANGED <<cacheVars, blocklist, filesize, fstatus, req, idx, pin,
                 ign, ops, upload_queue, upVars, history>>

\* The index noted in the cell.  (A slip: operator= leaves it out.)
NotedIndexOld(t) == IF ign[t] # 0 THEN block_index[pin[t]] ELSE idx[t]
NotedIndex(t) == idx[t]

\* ... and the cell from get_free becomes the block, in these functions.
AssignBlock(t) ==
  LET f == File(t)
      c == pin[t]
  IN /\ Up
     /\ pc[t] = "assign"
     /\ ~Growing(t)
     /\ basefile' = [basefile EXCEPT ![c] = f]
     /\ block_index' = [block_index EXCEPT ![c] = NotedIndex(t)]
     /\ data' = [data EXCEPT ![c] = IF ign[t] # 0 THEN data[ign[t]]
                                    ELSE IF Downloads(t) THEN got[t] ELSE @]
     /\ bstatus' = [bstatus EXCEPT ![c] =
                      IF req[t].op = "read" THEN "Clean" ELSE "Dirty"]
     /\ blocklist' = [blocklist EXCEPT ![f][idx[t]] = c]
     /\ m_mutex' = [m_mutex EXCEPT ![f] = Nobody]
     /\ ign' = [ign EXCEPT ![t] = 0]
     /\ got' = [got EXCEPT ![t] = Fresh]
     /\ Goto(t, "copy")
     /\ UNCHANGED <<ncells, filesize, fstatus, req, idx, pin, ops,
                    upload_queue, upVars, history>>

-----------------------------------------------------------------------------
(***************************************************************************)
(* The memcpy of read_bytes and write_bytes, without any lock, and what    *)
(* comes after it.                                                         *)
(***************************************************************************)
\* A slip: the loop runs once too often.
CopyOutBeyond(t) ==
  /\ Up
  /\ pc[t] = "copy"
  /\ req[t].op = "read"
  /\ IF idx[t] <= req[t].hi THEN ToBlock(t, idx[t] + 1) ELSE Return(t)
  /\ UNCHANGED <<cacheVars, fileVars, ign, got, ops, upload_queue, upVars,
                 history>>

CopyOut(t) ==
  /\ Up
  /\ pc[t] = "copy"
  /\ req[t].op = "read"
  /\ IF idx[t] < req[t].hi THEN ToBlock(t, idx[t] + 1) ELSE Return(t)
  /\ UNCHANGED <<cacheVars, fileVars, ign, got, ops, upload_queue, upVars,
                 history>>

CopyIn(t) ==
  LET at == <<File(t), idx[t]>>
  IN /\ Up
     /\ pc[t] = "copy"
     /\ req[t].op = "write"
     /\ data' = [data EXCEPT ![pin[t]] = req[t].v]
     /\ content' = [content EXCEPT ![at[1]] =
                      [i \in DOMAIN @ |-> IF i = at[2] THEN req[t].v ELSE @[i]]]
     /\ exposed' = IF bstatus[pin[t]] = "Dirty" THEN exposed \ {at}
                   ELSE exposed \cup {at}
     /\ IF idx[t] < req[t].hi
        THEN ToBlock(t, idx[t] + 1)
        ELSE Goto(t, "touch") /\ pin' = [pin EXCEPT ![t] = 0]
                              /\ UNCHANGED <<req, idx>>
     /\ UNCHANGED <<ncells, bstatus, basefile, block_index, fileVars, ign, got,
                    ops, upload_queue, upVars>>

\* The last section of write_bytes.
EndWrite(t) ==
  /\ Up
  /\ pc[t] = "touch"
  /\ Free(File(t))
  /\ Touch(File(t))
  /\ Return(t)
  /\ UNCHANGED <<cacheVars, blocklist, filesize, m_mutex, ign, got, ops,
                 upVars, history>>

-----------------------------------------------------------------------------
(***************************************************************************)
(* The upload of the file at the front of the queue.  UploadQueue has the  *)
(* loop around it, and the files without links.                            *)
(***************************************************************************)
\* create_snap: every Dirty block is marked Uploading and noted.
TakeSnapshot ==
  /\ Up
  /\ upc = "idle"
  /\ upload_queue # <<>>
  /\ LET f == Head(upload_queue)
         list == blocklist[f]
         dirty == {i \in DOMAIN list : /\ list[i] > 0
                                       /\ bstatus[list[i]] = "Dirty"}
     IN /\ Free(f)
        /\ \A i \in DOMAIN list : list[i] > 0 => StatusFree(list[i])
        /\ item' = f
        /\ fstatus' = [fstatus EXCEPT ![f] = "Uploading"]
        /\ snap' = [i \in DOMAIN list |-> IF i \in dirty THEN list[i] ELSE 0]
        /\ sent' = [i \in DOMAIN list |-> Nobody]
        /\ bstatus' = [c \in Cells |-> IF \E i \in dirty : list[i] = c
                                       THEN "Uploading" ELSE bstatus[c]]
  /\ upload_queue' = Tail(upload_queue)
  /\ upc' = "send"
  /\ UNCHANGED <<ncells, basefile, block_index, data, blocklist, filesize,
                 m_mutex, threadVars, result, blob, fails, history>>

\* (A slip: the loop over the block list ends one short.)
UnsentButLast == {i \in 1..Len(snap)-1 : snap[i] > 0 /\ sent[i] = Nobody}
Unsent == {i \in DOMAIN snap : snap[i] > 0 /\ sent[i] = Nobody}

\* upload_block_async, in the order of the block list, takes the data as it is.
SendBlock ==
  /\ Up
  /\ upc = "send"
  /\ Unsent # {}
  /\ LET i == CHOOSE j \in Unsent : \A k \in Unsent : j <= k
     IN sent' = [sent EXCEPT ![i] = data[snap[i]]]
  /\ UNCHANGED <<cacheVars, fileVars, threadVars, upload_queue, upc, item,
                 snap, result, blob, fails, history>>

\* upload_block_list: "uncommitted" blocks come from those staged, "committed"
\* ones from the blob as it is; a list that names a missing one is refused.
ListAccepted == \A i \in DOMAIN snap : snap[i] = 0 => i <= Len(blob[item])
NewBlob == [i \in DOMAIN snap |-> IF snap[i] > 0 THEN sent[i]
                                                 ELSE blob[item][i]]

Commit ==
  /\ Up
  /\ upc = "send"
  /\ Unsent = {}
  /\ IF ListAccepted
     THEN result' = 0 /\ blob' = [blob EXCEPT ![item] = NewBlob]
     ELSE result' = -1 /\ UNCHANGED blob
  /\ upc' = "restore"
  /\ UNCHANGED <<cacheVars, fileVars, threadVars, upload_queue, item, snap,
                 sent, fails, history>>

\* A request fails; the one that commits may have taken effect, and so has it
\* when it is upload_metadata that fails.
RequestFails ==
  /\ Up
  /\ upc = "send"
  /\ fails < MaxFails
  /\ fails' = fails + 1
  /\ result' \in Results
  /\ upc' = "restore"
  /\ \/ UNCHANGED blob
     \/ /\ Unsent = {}
        /\ ListAccepted
        /\ blob' = [blob EXCEPT ![item] = NewBlob]
  /\ UNCHANGED <<cacheVars, fileVars, threadVars, upload_queue, item, snap,
                 sent, history>>

\* The two compare_and_set of ~Snapshot.  (A slip: the first only.)
RestoredHalf(s) == IF s = "Uploading" THEN "Clean" ELSE s
Restored(s) == IF s = "Uploading" THEN "Clean"
               ELSE IF s = "Up_Expired" THEN "Expired" ELSE s

\* ~Snapshot, one block after the other, whatever the result, ...
RestoreBlock(i) ==
  LET c == snap[i]
  IN /\ Up
     /\ upc = "restore"
     /\ c > 0
     /\ StatusFree(c)
     /\ bstatus' = [bstatus EXCEPT ![c] = Restored(@)]
     /\ exposed' = IF bstatus[c] = "Uploading" /\ result # 0
                   THEN exposed \cup {<<item, i>>} ELSE exposed
     /\ snap' = [snap EXCEPT ![i] = 0]
     /\ UNCHANGED <<ncells, basefile, block_index, data, fileVars, threadVars,
                    upload_queue, upc, item, sent, result, blob, fails,
                    content>>

\* ... then the file; run_upload queues it again if the result says so.
EndUpload ==
  /\ Up
  /\ upc = "restore"
  /\ \A i \in DOMAIN snap : snap[i] = 0
  /\ Free(item)
  /\ fstatus' = [fstatus EXCEPT ![item] =
                   IF @ = "Uploading" THEN "Clean" ELSE @]
  /\ upload_queue' = IF result > 0 THEN Append(upload_queue, item)
                                   ELSE upload_queue
  /\ upc' = "idle"
  /\ item' = Nobody
  /\ snap' = <<>>
  /\ sent' = <<>>
  /\ result' = 0
  /\ UNCHANGED <<cacheVars, blocklist, filesize, m_mutex, threadVars, blob,
                 fails, history>>

-----------------------------------------------------------------------------
Begin(t) ==
  \E f \in Files :
    \/ \E lo, hi \in Index : Read(t, f, lo, hi)
    \/ \E lo, hi \in Index, v \in Values : Write(t, f, lo, hi, v)
    \/ \E n \in 0..MaxBlocks : Truncate(t, f, n)

Proceed(t) ==
  \/ IsFull(t) \/ PutNewItem(t)
  \/ \E c \in Cells : TakeExpired(t, c) \/ Evict(t, c)
  \/ Grow(t) \/ Shrink(t) \/ ShrinkAsserts(t) \/ AssignGrown(t)
  \/ GetThrows(t) \/ GetCached(t) \/ BeginCopyOnWrite(t) \/ BeginLoad(t)
  \/ AssignBlock(t)
  \/ CopyOut(t) \/ CopyIn(t) \/ EndWrite(t)

Upload ==
  \/ TakeSnapshot \/ SendBlock \/ Commit \/ RequestFails
  \/ (\E i \in Index : i \in DOMAIN snap /\ RestoreBlock(i))
  \/ EndUpload

Next == (\E t \in Threads : Begin(t) \/ Proceed(t)) \/ Upload

Spec == Init /\ [][Next]_vars

\* A thread inside a call and the uploader go on whenever they can, each gets
\* a mutex that is free again and again, and so does a thread that scans get a
\* cell; requests do not fail for ever.
Fairness ==
  /\ \A t \in Threads : SF_vars(Proceed(t))
  /\ SF_vars(Upload)
  /\ SF_vars(Commit)

FairSpec == Spec /\ Fairness

-----------------------------------------------------------------------------
TypeOK ==
  /\ ncells \in 0..Cardinality(Cells)
  /\ bstatus \in [Cells -> {"Expired", "Clean", "Ready", "Dirty", "Uploading",
                            "Up_Expired"}]
  /\ basefile \in [Cells -> Files \cup {Nobody}]
  /\ block_index \in [Cells -> 0..MaxBlocks]
  /\ data \in [Cells -> Data]
  /\ blocklist \in [Files -> Seq({0} \cup Cells)]
  /\ filesize \in [Files -> 0..MaxBlocks]
  /\ fstatus \in [Files -> {"Clean", "Dirty", "Uploading"}]
  /\ m_mutex \in [Files -> Threads \cup {Nobody}]
  /\ pc \in [Threads -> {"idle", "resize", "lock", "alloc", "new", "scan",
                         "assign", "copy", "touch", "threw", "asserted"}]
  /\ \A t \in Threads :
       pc[t] # "idle" => /\ req[t].op \in {"read", "write", "trunc"}
                         /\ req[t].f \in Files
                         /\ req[t].hi \in 0..MaxBlocks
  /\ idx \in [Threads -> 0..MaxBlocks]
  /\ pin \in [Threads -> {0} \cup Cells]
  /\ ign \in [Threads -> {0} \cup Cells]
  /\ got \in [Threads -> Data]
  /\ ops \in 0..MaxOps
  /\ upload_queue \in Seq(Files)
  /\ upc \in {"idle", "send", "restore"}
  /\ item \in Files \cup {Nobody}
  /\ snap \in Seq({0} \cup Cells)
  /\ sent \in Seq(Data \cup {Nobody})
  /\ result \in {-1, 0, 1}
  /\ blob \in [Files -> Seq(Data)]
  /\ fails \in 0..MaxFails
  /\ content \in [Files -> Seq(Data)]
  /\ exposed \subseteq Files \X Index

Live == {"Clean", "Dirty", "Uploading"}

\* Whenever its m_mutex is free, a file's list and the cache agree: the cell a
\* list names holds that very block and no other list names it.  get_free,
\* gc_notify, copy on write and ~Snapshot each change one side of this under
\* different mutexes.
MappedIsOwned ==
  \A f \in Files : Free(f) => \A i \in 1..Len(blocklist[f]) :
    LET c == blocklist[f][i]
    IN c > 0 => basefile[c] = f /\ block_index[c] = i /\ bstatus[c] \in Live

\* No cell is lost: one that get_free may never take again is a block of its
\* file, or a thread is about to make it one, or ~Snapshot will free it.
NoCellLost ==
  \A c \in 1..ncells :
    /\ bstatus[c] \in Live =>
         /\ block_index[c] <= Len(blocklist[basefile[c]])
         /\ blocklist[basefile[c]][block_index[c]] = c
    /\ bstatus[c] = "Ready" => \E t \in Threads : pc[t] = "assign" /\ pin[t] = c
    /\ bstatus[c] = "Up_Expired" => \E i \in DOMAIN snap : snap[i] = c

\* From the snapshot until ~Snapshot the cells to upload keep holding the
\* blocks they held, although writers, truncation and get_free go on.
SnapshotPinned ==
  \A i \in DOMAIN snap :
    snap[i] > 0 => /\ bstatus[snap[i]] \in {"Uploading", "Up_Expired"}
                   /\ basefile[snap[i]] = item
                   /\ block_index[snap[i]] = i

\* No Dirty block is forgotten: its file is Dirty and queued, or the call that
\* made the block Dirty has not come to its end.
DirtyCovered ==
  \A c \in 1..ncells :
    bstatus[c] = "Dirty" =>
      LET f == basefile[c]
      IN \/ fstatus[f] = "Dirty" /\ \E i \in DOMAIN upload_queue :
                                       upload_queue[i] = f
         \/ \E t \in Threads :
              pc[t] # "idle" /\ req[t].op # "read" /\ req[t].f = f

Saved(f, i) == i <= Len(blob[f]) /\ blob[f][i] = content[f][i]

\* The block can be thrown away: it is Clean, or is not in the cache at all.
Disposable(f, i) ==
  blocklist[f][i] = 0 \/ bstatus[blocklist[f][i]] = "Clean"

\* A write has the block and is about to copy into it.
Writing(f, i) ==
  \E t \in Threads : /\ pc[t] = "copy" /\ req[t].op = "write"
                     /\ File(t) = f /\ idx[t] = i

\* Write-back loses nothing: a block that get_free may throw away is in
\* storage as the calls have left it, except one that a memcpy reached after
\* its snapshot or that a failed upload handed back (exposed), and one that a
\* write has yet to fill: get_write_block does not download a block that it
\* will overwrite, and what the cell held before may be uploaded.
CleanIsSaved ==
  \A f \in Files : Free(f) =>
    \A i \in 1..filesize[f] :
      Disposable(f, i) => \/ Saved(f, i)
                          \/ <<f, i>> \in exposed
                          \/ Writing(f, i)

\* read_bytes returns what was last written, whatever eviction, download, copy
\* on write and truncation did in between, with the same exception.
ReadsLatest ==
  \A t \in Threads :
    pc[t] = "copy" /\ req[t].op = "read" =>
      \/ data[pin[t]] = content[File(t)][idx[t]]
      \/ <<File(t), idx[t]>> \in exposed

\* gc_notify never reaches beyond the end of a list: a Clean cell lies within
\* its file, although truncation leaves a cell that is being uploaded to
\* ~Snapshot, and two files may claim one cell.
EvictInRange ==
  \A c \in 1..ncells :
    bstatus[c] = "Clean" => block_index[c] <= Len(blocklist[basefile[c]])

\* A call throws only if truncation has put its block beyond the end since the
\* call looked at the size: storage holds every block that is to be downloaded,
\* although blocks are thrown away, truncated and grown again between uploads.
ThrowsOnlyBeyond ==
  \A t \in Threads : pc[t] = "threw" => idx[t] > filesize[File(t)]

\* The cache outgrows its size only by the threads that saw it not full at the
\* same time ("the size may exceed the max_cache_size", Cache.h).
CacheBound == ncells < CacheSize + Cardinality(Threads)

\* The same without the exception: "clear and upload take unique lock", says
\* Cache.h of a block's mutexes.
CleanIsAlwaysSaved ==
  \A f \in Files : Free(f) =>
    \A i \in 1..filesize[f] : Disposable(f, i) => Saved(f, i)

\* The assertion of resize (BasicFile.cpp) holds.
AssertHolds == \A t \in Threads : pc[t] # "asserted"

\* An upload whose errors are all "to be retried" (Uploader.cpp) is done in the
\* end: with nothing left to do, storage has the files at their sizes.
RetriedIsStored ==
  (/\ upload_queue = <<>>
   /\ upc = "idle"
   /\ \A t \in Threads : pc[t] = "idle")
  => \A f \in Files : Len(blob[f]) = filesize[f]

\* A call comes to its end: azs_read, azs_write and azs_truncate return.
CallsEnd == \A t \in Threads : pc[t] # "idle" ~> pc[t] = "idle"
=============================================================================
