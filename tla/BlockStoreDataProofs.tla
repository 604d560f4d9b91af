------------------------ MODULE BlockStoreDataProofs ------------------------
(***************************************************************************)
(* Proofs about what the cells and storage hold: DataInv says that, beside *)
(* IInv and ListInv of BlockStoreProofs, the data are those the calls have *)
(* written.                                                                *)
(***************************************************************************)
EXTENDS BlockStoreProofs

\* What the cells hold, and what is in storage.

\* get_free hands out no cell at which another thread copies: no thread has a
\* pointer to a block that is thrown away.
OneHolder ==
  \A t, u \in Threads :
    /\ pc[t] \in {"copy", "assign"}
    /\ pc[u] = "assign"
    /\ pin[t] = pin[u]
    => t = u

\* A block that the calls have made v, unless a memcpy after its snapshot, a
\* failed upload or a write that is not over has made a difference.
Excused(f, i) == <<f, i>> \in exposed \/ Writing(f, i)
Same(v, f, i) == v = content[f][i] \/ Excused(f, i)

\* A file is as long as the calls have made it, or resize is making it longer.
Lengthening(t) == Holding(t) /\ Growing(t)
ContentLengths ==
  /\ \A f \in Files :
       (\A t \in Threads : Lengthening(t) => File(t) # f)
         => /\ Len(content[f]) = filesize[f]
            /\ Len(blocklist[f]) = filesize[f]
  /\ \A t \in Threads :
       Lengthening(t) => Len(content[File(t)]) = idx[t] - 1

\* The cell at which a thread copies is still the block it looked up, though
\* truncation or copy on write may have taken it out of the list.
PinKept ==
  \A t \in Threads : pc[t] = "copy" =>
    /\ pin[t] \in 1..ncells
    /\ basefile[pin[t]] = File(t)
    /\ block_index[pin[t]] = idx[t]

DataRight ==
  \A f \in Files : \A i \in 1..Len(blocklist[f]) :
    blocklist[f][i] # 0 => Same(data[blocklist[f][i]], f, i)

\* What a thread has downloaded is what storage ought to have.
Loaded(t) == Holding(t) /\ ~Growing(t) /\ ign[t] = 0 /\ Downloads(t)
GotRight ==
  \A t \in Threads : Loaded(t) => Same(got[t], File(t), idx[t])

\* What has been staged, or has been stored, of a block that ~Snapshot is
\* going to hand back as Clean.
IsUp(i) == snap[i] # 0 /\ bstatus[snap[i]] = "Uploading"
SentRight ==
  upc = "send" =>
    \A i \in DOMAIN snap :
      IsUp(i) /\ sent[i] # Nobody => Same(sent[i], item, i)
BlobRight ==
  upc = "restore" /\ result = 0 =>
    \A i \in DOMAIN snap :
      IsUp(i) => i <= Len(blob[item]) /\ Same(blob[item][i], item, i)

AllSaved ==
  \A f \in Files : \A i \in 1..filesize[f] :
    Disposable(f, i) => Saved(f, i) \/ Excused(f, i)

DataInv == /\ ContentLengths /\ PinKept /\ DataRight /\ GotRight
           /\ SentRight /\ BlobRight /\ AllSaved

\* Whoever makes the file longer has its m_mutex.
LEMMA FreeLength ==
  ASSUME IInv, ContentLengths, NEW f \in Files, Free(f)
  PROVE  /\ Len(content[f]) = filesize[f]
         /\ Len(blocklist[f]) = filesize[f]
<1>1. \A t \in Threads : Lengthening(t) => File(t) # f
  BY BlockStoreAssumption DEF IInv, Kept, HasMutex, Owner, Free, Lengthening
<1> QED
  BY <1>1, ThreadFacts DEF ContentLengths, FileLengths

LEMMA HolderLength ==
  ASSUME IInv, ContentLengths, NEW t \in Threads, Holding(t), ~Growing(t)
  PROVE  /\ File(t) \in Files
         /\ Len(content[File(t)]) = filesize[File(t)]
         /\ Len(blocklist[File(t)]) = filesize[File(t)]
<1>1. File(t) \in Files
  BY RequestOf DEF Request, File, Holding
<1>2. \A u \in Threads \ {t} : Holding(u) => File(u) # File(t)
  BY ThreadFacts DEF Owner
<1>3. \A u \in Threads : Lengthening(u) => File(u) # File(t)
  BY <1>2 DEF Lengthening
<1> QED
  BY <1>1, <1>3, ThreadFacts DEF ContentLengths, Sized

\* A step that makes no file longer or shorter.
LEMMA LengthsLeft ==
  ASSUME ContentLengths, filesize' = filesize,
         \A f \in Files : /\ Len(content'[f]) = Len(content[f])
                          /\ Len(blocklist'[f]) = Len(blocklist[f]),
         \A u \in Threads :
           /\ Lengthening(u)' => Lengthening(u) /\ File(u) \in Files
           /\ Lengthening(u) =>
                Lengthening(u)' /\ File(u)' = File(u) /\ idx'[u] = idx[u]
  PROVE  ContentLengths'
<1>1. ASSUME NEW f \in Files,
             \A t \in Threads : Lengthening(t)' => File(t)' # f
      PROVE  /\ Len(content'[f]) = filesize'[f]
             /\ Len(blocklist'[f]) = filesize'[f]
  BY <1>1 DEF ContentLengths
<1>2. ASSUME NEW t \in Threads, Lengthening(t)'
      PROVE  Len(content'[File(t)']) = idx'[t] - 1
  BY <1>2 DEF ContentLengths
<1> QED
  BY <1>1, <1>2 DEF ContentLengths

\* What was right stays right ...
ExcusedNext(f, i) ==
  \/ <<f, i>> \in exposed'
  \/ \E t \in Threads : /\ pc'[t] = "copy" /\ req'[t].op = "write"
                        /\ req'[t].f = f /\ idx'[t] = i
StillSame(f, i) ==
  /\ content'[f][i] = content[f][i]
  /\ Excused(f, i) => ExcusedNext(f, i)

\* ... if no write copies into its block in this step.
WritesGoOn(t) == pc[t] = "copy" /\ req[t].op = "write" =>
                   /\ pc'[t] = "copy" /\ req'[t] = req[t] /\ idx'[t] = idx[t]
LEMMA StillExcused ==
  ASSUME NEW f, NEW i, \A u \in Threads : WritesGoOn(u),
         <<f, i>> \in exposed => <<f, i>> \in exposed'
  PROVE  Excused(f, i) => ExcusedNext(f, i)
BY DEF Excused, ExcusedNext, Writing, File, WritesGoOn

LEMMA AllStillSame ==
  ASSUME \A u \in Threads : WritesGoOn(u), content' = content,
         exposed \subseteq exposed'
  PROVE  \A f, i : StillSame(f, i)
BY StillExcused DEF StillSame

LEMMA DataLeft ==
  ASSUME DataRight,
         \A f \in Files : \A i \in 1..Len(blocklist'[f]) :
           blocklist'[f][i] # 0 =>
             /\ i \in 1..Len(blocklist[f])
             /\ blocklist'[f][i] = blocklist[f][i]
             /\ data'[blocklist[f][i]] = data[blocklist[f][i]]
             /\ StillSame(f, i)
  PROVE  DataRight'
BY DEF DataRight, Same, StillSame, Excused, ExcusedNext, Writing, File

LEMMA GotLeft ==
  ASSUME GotRight,
         \A u \in Threads : Loaded(u)' =>
           /\ Loaded(u) /\ got'[u] = got[u]
           /\ File(u)' = File(u) /\ idx'[u] = idx[u]
           /\ StillSame(File(u), idx[u])
  PROVE  GotRight'
<1> SUFFICES ASSUME NEW u \in Threads, Loaded(u)'
             PROVE  Same(got[u], File(u), idx[u])'
  BY DEF GotRight
<1>1. PICK g, j : g = File(u) /\ j = idx[u]
  OBVIOUS
<1>2. /\ g = File(u)' /\ j = idx'[u] /\ got'[u] = got[u]
      /\ Same(got[u], g, j) /\ StillSame(g, j)
  BY <1>1 DEF GotRight
<1>3. Same(got[u], g, j)'
  BY <1>2 DEF Same, StillSame, Excused, ExcusedNext, Writing, File
<1> QED
  BY <1>2, <1>3 DEF Same, Excused, Writing

LEMMA SavedLeft ==
  ASSUME AllSaved, blob' = blob,
         \A f \in Files : \A i \in 1..filesize'[f] :
           Disposable(f, i)' => /\ i \in 1..filesize[f] /\ Disposable(f, i)
                                /\ StillSame(f, i)
  PROVE  AllSaved'
BY DEF AllSaved, Saved, StillSame, Excused, ExcusedNext, Writing, File

LEMMA UploadLeft ==
  ASSUME SentRight, BlobRight,
         UNCHANGED <<blob, upc, item, snap, sent, result>>,
         upc # "idle" =>
           \A i \in DOMAIN snap :
             IsUp(i)' => IsUp(i) /\ StillSame(item, i)
  PROVE  SentRight' /\ BlobRight'
<1>1. SentRight'
  BY DEF SentRight, Same, StillSame, Excused, ExcusedNext, Writing, File
<1>2. BlobRight'
  BY DEF BlobRight, Same, StillSame, Excused, ExcusedNext, Writing, File
<1> QED
  BY <1>1, <1>2

\* A step of a thread that copies nothing and throws nothing away but what is
\* in storage.
LEMMA ThreadData ==
  ASSUME IInv, DataInv, NEW t \in Threads, Own(t), ContentLengths',
         UNCHANGED <<basefile, block_index, data, filesize, upVars, history>>,
         ncells' \in Nat, ncells <= ncells',
         pc[t] = "copy" => req[t].op # "write",
         pc'[t] = "copy" => /\ pin'[t] \in 1..ncells
                            /\ basefile[pin'[t]] = File(t)'
                            /\ block_index[pin'[t]] = idx'[t],
         Loaded(t)' => Same(got'[t], File(t)', idx'[t]),
         \A u \in Threads \ {t} : ign'[u] = ign[u] /\ got'[u] = got[u],
         \A f \in Files : \A i \in 1..Len(blocklist'[f]) :
           blocklist'[f][i] # 0 => /\ i \in 1..Len(blocklist[f])
                                   /\ blocklist'[f][i] = blocklist[f][i],
         \A f \in Files : \A i \in 1..filesize[f] :
           Disposable(f, i)' => Disposable(f, i),
         \A c \in Cells : bstatus'[c] = "Uploading" => bstatus[c] = "Uploading"
  PROVE  DataInv'
<1> USE DEF upVars, history
<1>1. \A u \in Threads : WritesGoOn(u)
  BY DEF Own, WritesGoOn
<1>2. \A f, i : StillSame(f, i)
  BY <1>1, AllStillSame
<1>3. PinKept'
  <2> SUFFICES ASSUME NEW u \in Threads, pc'[u] = "copy"
               PROVE  /\ pin'[u] \in 1..ncells'
                      /\ basefile'[pin'[u]] = File(u)'
                      /\ block_index'[pin'[u]] = idx'[u]
    BY DEF PinKept
  <2>1. /\ pin'[u] \in 1..ncells
        /\ basefile[pin'[u]] = File(u)' /\ block_index[pin'[u]] = idx'[u]
    BY DEF Own, DataInv, PinKept, File
  <2>2. ncells \in Nat
    BY CellsFacts DEF IInv, NewBound
  <2> QED
    BY <2>1, <2>2
<1>4. DataRight'
  BY <1>2, DataLeft DEF DataInv
<1>5. GotRight'
  <2> SUFFICES ASSUME NEW u \in Threads, Loaded(u)'
               PROVE  Same(got[u], File(u), idx[u])'
    BY DEF GotRight
  <2>1. CASE u = t
    BY <2>1, <1>2 DEF Same, StillSame, Excused, ExcusedNext, Writing, File
  <2>2. CASE u # t
    <3>1. /\ Loaded(u) /\ got'[u] = got[u] /\ File(u)' = File(u)
          /\ idx'[u] = idx[u]
      BY <2>2 DEF Own, Loaded, Holding, Growing, File, Downloads
    <3> QED
      BY <3>1, <1>2 DEF DataInv, GotRight, Same, StillSame, Excused,
         ExcusedNext, Writing, File
  <2> QED
    BY <2>1, <2>2
<1>6. AllSaved'
  BY <1>2, SavedLeft DEF DataInv
<1>7. SentRight' /\ BlobRight'
  <2>1. \A i \in DOMAIN snap : IsUp(i)' => IsUp(i)
    BY SnapTyped DEF IsUp
  <2> QED
    BY <1>2, <2>1, UploadLeft DEF DataInv
<1> QED
  BY <1>3, <1>4, <1>5, <1>6, <1>7 DEF DataInv

LEMMA ThreadLengths ==
  ASSUME IInv, ContentLengths, NEW t \in Threads, Own(t),
         UNCHANGED <<filesize, content>>,
         \A f \in Files : Len(blocklist'[f]) = Len(blocklist[f]),
         Lengthening(t)' <=> Lengthening(t),
         Lengthening(t) => req'[t] = req[t] /\ idx'[t] = idx[t]
  PROVE  ContentLengths'
<1>1. \A u \in Threads : Holding(u) => File(u) \in Files
  BY RequestOf DEF Request, File, Holding
<1>2. \A u \in Threads :
        /\ Lengthening(u)' <=> Lengthening(u)
        /\ Lengthening(u) => File(u)' = File(u) /\ idx'[u] = idx[u]
  BY DEF Own, Lengthening, Holding, Growing, File
<1> QED
  BY <1>1, <1>2, LengthsLeft DEF Lengthening

\* The same if it changes neither cells nor lists.
LEMMA QuietData ==
  ASSUME IInv, DataInv, NEW t \in Threads, Own(t),
         UNCHANGED <<bstatus, basefile, block_index, data, blocklist, filesize,
                     ign, got, upVars, history>>,
         ncells' \in Nat, ncells <= ncells',
         Holding(t)' <=> Holding(t),
         Holding(t) => req'[t] = req[t] /\ idx'[t] = idx[t],
         pc'[t] # "copy", pc[t] = "copy" => req[t].op # "write"
  PROVE  DataInv'
<1>1. ContentLengths'
  BY ThreadLengths DEF DataInv, Lengthening, Growing, history
<1>2. Loaded(t)' => Same(got'[t], File(t)', idx'[t])
  BY DEF DataInv, GotRight, Loaded, Growing, File, Downloads
<1>3. \A f, i : Disposable(f, i)' => Disposable(f, i)
  BY DEF Disposable
<1> QED
  BY <1>1, <1>2, <1>3, ThreadData

\* The steps that only move a thread.
LEMMA BeginData ==
  ASSUME IInv, DataInv, NEW t \in Threads, Begin(t)
  PROVE  DataInv'
<1> USE DEF cacheVars, fileVars
<1>1. /\ Own(t) /\ pc[t] = "idle" /\ pc'[t] \in {"resize", "lock"}
      /\ UNCHANGED <<cacheVars, fileVars, ign, got, upVars, history>>
  BY BeginFacts
<1>2. ~Holding(t) /\ ~Holding(t)'
  BY <1>1 DEF Holding
<1>3. ncells \in Nat
  BY CellsFacts DEF IInv, NewBound
<1> QED
  BY <1>1, <1>2, <1>3, QuietData

LEMMA GoneData ==
  ASSUME IInv, DataInv, NEW t \in Threads,
         GetThrows(t) \/ ShrinkAsserts(t) \/ IsFull(t)
  PROVE  DataInv'
<1> USE DEF cacheVars, fileVars
<1>1. PICK w \in {"threw", "asserted", "scan", "new"} :
        /\ Goto(t, w)
        /\ w \in {"scan", "new"} => Holding(t)
        /\ w \in {"threw", "asserted"} => ~Holding(t)
  BY DEF GetThrows, ShrinkAsserts, IsFull, AtBlock, Holding
<1>2. /\ pc[t] # "copy"
      /\ UNCHANGED <<cacheVars, fileVars, req, idx, pin, ign, got, ops,
                     upload_queue, upVars, history>>
  BY DEF GetThrows, AtBlock, ShrinkAsserts, IsFull
<1>3. Own(t) /\ pc'[t] = w
  <2>1. w \in Places
    BY DEF Places
  <2>2. pc' \in [Threads -> Places] /\ pc'[t] = w
        /\ \A u \in Threads \ {t} : pc'[u] = pc[u]
    BY <1>1, <2>1, GotoOwn
  <2> QED
    BY <1>2, <2>2 DEF Own, IInv, Kept, TypeOK, Calls
<1>4. Holding(t)' = Holding(t)
  BY <1>1, <1>3 DEF Holding
<1>5. ncells \in Nat
  BY CellsFacts DEF IInv, NewBound
<1> QED
  BY <1>1, <1>2, <1>3, <1>4, <1>5, QuietData

LEMMA PutNewItemData ==
  ASSUME IInv, DataInv, IInv', NEW t \in Threads, PutNewItem(t)
  PROVE  DataInv'
<1> USE DEF fileVars
<1>1. /\ Holding(t) /\ Goto(t, "assign") /\ pc[t] # "copy"
      /\ pin' = [pin EXCEPT ![t] = ncells + 1]
      /\ ncells' = ncells + 1
      /\ UNCHANGED <<bstatus, basefile, block_index, data, fileVars, req, idx,
                     ign, got, ops, upload_queue, upVars, history>>
  BY DEF PutNewItem, Holding
<1>2. ncells \in Nat /\ ncells + 1 \in Cells
  <2>1. ncells \in Nat /\ ncells + 1 \in 1..Cardinality(Cells)
    BY <1>1, CellsFacts DEF IInv, Kept, TypeOK, NewBound
  <2> QED
    BY <2>1, CellsFacts DEF Cells
<1>3. Own(t) /\ pc'[t] = "assign"
  BY <1>1, <1>2, GotoOwn DEF Own, IInv, Kept, TypeOK, Calls, Places
<1>4. Holding(t)'
  BY <1>3 DEF Holding
<1> QED
  BY <1>1, <1>2, <1>3, <1>4, QuietData

LEMMA CopyOutData ==
  ASSUME IInv, DataInv, NEW t \in Threads, CopyOut(t)
  PROVE  DataInv'
<1> USE DEF cacheVars, fileVars
<1>1. /\ pc[t] = "copy" /\ ~Holding(t) /\ Request(t) /\ AtIndex(t)
      /\ req[t].op = "read"
      /\ UNCHANGED <<cacheVars, fileVars, ign, got, upVars, history>>
  BY RequestOf DEF CopyOut, Holding
<1>2. Own(t) /\ pc'[t] \in {"lock", "idle"}
  <2>1. CASE ToBlock(t, idx[t] + 1) /\ idx[t] < req[t].hi
    <3>1. idx[t] + 1 \in 0..MaxBlocks
      BY <1>1, <2>1, BlockStoreAssumption DEF Request, AtIndex
    <3> QED
      BY <2>1, <3>1, ToBlockOwn
  <2>2. CASE Return(t)
    BY <2>2, ReturnOwn
  <2> QED
    BY <2>1, <2>2 DEF CopyOut
<1>3. ~Holding(t)'
  BY <1>2 DEF Holding
<1>4. ncells \in Nat
  BY CellsFacts DEF IInv, NewBound
<1> QED
  BY <1>1, <1>2, <1>3, <1>4, QuietData

LEMMA EndWriteData ==
  ASSUME IInv, DataInv, NEW t \in Threads, EndWrite(t)
  PROVE  DataInv'
<1> USE DEF cacheVars
<1>1. /\ pc[t] = "touch" /\ ~Holding(t)
      /\ UNCHANGED <<cacheVars, blocklist, filesize, ign, got, upVars,
                     history>>
  BY DEF EndWrite, Holding
<1>2. Own(t) /\ pc'[t] = "idle"
  BY ReturnOwn DEF EndWrite
<1>3. ~Holding(t)'
  BY <1>2 DEF Holding
<1>4. ncells \in Nat
  BY CellsFacts DEF IInv, NewBound
<1> QED
  BY <1>1, <1>2, <1>3, <1>4, QuietData

\* A download finds what storage has of a block that is not in the cache.
LEMMA BeginLoadData ==
  ASSUME IInv, ListInv, DataInv, NEW t \in Threads, BeginLoad(t)
  PROVE  DataInv'
<1> USE DEF cacheVars
<1>1. /\ pc[t] = "lock" /\ ~Holding(t) /\ Goto(t, "alloc") /\ Mapped(t) = 0
      /\ Free(File(t)) /\ InRange(t) /\ File(t) \in Files
      /\ UNCHANGED <<cacheVars, blocklist, filesize, fstatus, req, idx, pin,
                     ign, ops, upload_queue, upVars, history>>
  BY RequestOf DEF BeginLoad, AtBlock, Holding, Request, File
<1>2. Own(t) /\ pc'[t] = "alloc"
  BY <1>1, GotoOwn DEF Own, IInv, Kept, TypeOK, Calls, Places
<1>3. idx[t] \in 1..filesize[File(t)] /\ ~Growing(t)'
  <2>1. /\ idx[t] \in 1..Len(blocklist[File(t)])
        /\ Len(blocklist[File(t)]) = filesize[File(t)]
    BY <1>1, MappedTyped, FreeLength DEF DataInv
  <2>2. filesize[File(t)] \in 0..MaxBlocks
    BY <1>1 DEF IInv, Kept, TypeOK
  <2> QED
    BY <1>1, <2>1, <2>2, BlockStoreAssumption DEF Growing, File
<1>4. ContentLengths'
  BY <1>1, <1>2, <1>3, ThreadLengths DEF DataInv, Lengthening, history
<1>5. Loaded(t)' => Same(got'[t], File(t)', idx'[t])
  <2> SUFFICES ASSUME Downloads(t) PROVE Same(got'[t], File(t), idx[t])
    BY <1>1 DEF Loaded, Downloads, File
  <2>1. got'[t] = blob[File(t)][idx[t]]
    BY DEF BeginLoad, IInv, Kept, TypeOK
  <2>2. Disposable(File(t), idx[t])
    BY <1>1 DEF Disposable, Mapped
  <2> QED
    BY <1>1, <1>3, <2>1, <2>2 DEF DataInv, AllSaved, Saved, Same
<1>6. \A u \in Threads \ {t} : ign'[u] = ign[u] /\ got'[u] = got[u]
  BY <1>1 DEF BeginLoad, IInv, Kept, TypeOK
<1>7. \A f, i : Disposable(f, i)' => Disposable(f, i)
  BY <1>1 DEF Disposable
<1>8. ncells \in Nat
  BY CellsFacts DEF IInv, NewBound
<1> QED
  BY <1>1, <1>2, <1>4, <1>5, <1>6, <1>7, <1>8, ThreadData

\* Copy on write gives up what is being uploaded, not what is stored.
LEMMA BeginCopyOnWriteData ==
  ASSUME IInv, ListInv, DataInv, NEW t \in Threads, BeginCopyOnWrite(t)
  PROVE  DataInv'
<1> USE DEF upVars
<1> DEFINE c == Mapped(t)
<1>1. /\ pc[t] = "lock" /\ ~Holding(t) /\ Free(File(t)) /\ InRange(t)
      /\ File(t) \in Files /\ c > 0 /\ Goto(t, "alloc")
      /\ bstatus' = [bstatus EXCEPT ![c] = "Up_Expired"]
      /\ ign' = [ign EXCEPT ![t] = c]
      /\ UNCHANGED <<ncells, basefile, block_index, data, blocklist, filesize,
                     fstatus, req, idx, pin, got, ops, upload_queue,
                     upVars, history>>
  BY RequestOf DEF BeginCopyOnWrite, AtBlock, Holding, Request, File
<1>2. c \in Cells /\ c # 0 /\ idx[t] \in 1..Len(blocklist[File(t)])
  BY <1>1, MappedTyped, CellsFacts DEF Cells
<1>3. Own(t) /\ pc'[t] = "alloc"
  BY <1>1, GotoOwn DEF Own, IInv, Kept, TypeOK, Calls, Places
<1>4. /\ bstatus'[c] = "Up_Expired"
      /\ \A d \in Cells \ {c} : bstatus'[d] = bstatus[d]
      /\ ign'[t] = c /\ \A u \in Threads \ {t} : ign'[u] = ign[u]
  BY <1>1, <1>2 DEF IInv, Kept, TypeOK
<1> HIDE DEF c
<1>5. ~Growing(t)'
  <2>1. Len(blocklist[File(t)]) = filesize[File(t)]
    BY <1>1, FreeLength DEF DataInv
  <2>2. filesize[File(t)] \in 0..MaxBlocks
    BY <1>1 DEF IInv, Kept, TypeOK
  <2> QED
    BY <1>1, <1>2, <2>1, <2>2, BlockStoreAssumption DEF Growing, File
<1>6. ContentLengths'
  BY <1>1, <1>3, <1>5, ThreadLengths DEF DataInv, Lengthening, history
<1>7. ~Loaded(t)'
  BY <1>2, <1>4 DEF Loaded
<1>8. ASSUME NEW f \in Files, NEW i \in 1..filesize[f], Disposable(f, i)'
      PROVE  Disposable(f, i)
  <2>1. blocklist[f][i] \in {0} \cup Cells
    BY PlaceInList
  <2> QED
    BY <2>1, <1>1, <1>4, <1>8 DEF Disposable
<1>9. \A d \in Cells : bstatus'[d] = "Uploading" => bstatus[d] = "Uploading"
  BY <1>4
<1>10. ncells \in Nat
  BY CellsFacts DEF IInv, NewBound
<1> QED
  BY <1>1, <1>3, <1>4, <1>6, <1>7, <1>8, <1>9, <1>10, ThreadData

\* A block that is in the cache.
LEMMA GetCachedData ==
  ASSUME IInv, ListInv, DataInv, NEW t \in Threads, GetCached(t)
  PROVE  DataInv'
<1> USE DEF fileVars, upVars
<1> DEFINE c == Mapped(t)
<1>1. /\ pc[t] = "lock" /\ ~Holding(t) /\ Free(File(t)) /\ InRange(t)
      /\ File(t) \in Files
      /\ UNCHANGED <<ncells, basefile, block_index, data, fileVars, req,
                     idx, ign, got, ops, upload_queue, upVars, history>>
  BY RequestOf DEF GetCached, AtBlock, Holding, Request, File
<1>2. c \in Cells /\ c # 0 /\ idx[t] \in 1..Len(blocklist[File(t)])
  BY <1>1, MappedTyped, CellsFacts DEF GetCached, Cells
<1>3. Own(t) /\ pc'[t] = "copy" /\ pin'[t] = c
  <2>1. Own(t) /\ pc'[t] = "copy"
    BY <1>1, <1>2, GotoOwn
       DEF GetCached, Own, IInv, Kept, TypeOK, Calls, Places
  <2> QED
    BY <2>1 DEF GetCached, IInv, Kept, TypeOK
<1>4. \A d \in Cells :
        bstatus'[d] # bstatus[d] =>
          bstatus[d] = "Clean" /\ bstatus'[d] = "Dirty"
  BY <1>2 DEF GetCached, IInv, Kept, TypeOK
<1>5. /\ basefile[c] = File(t) /\ block_index[c] = idx[t]
      /\ bstatus[c] \in Live
  BY <1>1, <1>2, FreeIsLive DEF Mapped
<1>6. c \in 1..ncells
  BY <1>2, <1>5, CellsFacts DEF IInv, Kept, Unmade, NewBound, Cells, Live
<1> HIDE DEF c
<1>7. ~Holding(t)'
  BY <1>3 DEF Holding
<1>8. ContentLengths'
  BY <1>1, <1>3, <1>7, ThreadLengths DEF DataInv, Lengthening, history
<1>9. ASSUME NEW f \in Files, NEW i \in 1..filesize[f], Disposable(f, i)'
      PROVE  Disposable(f, i)
  <2>1. blocklist[f][i] \in {0} \cup Cells
    BY PlaceInList
  <2> QED
    BY <2>1, <1>1, <1>4, <1>9 DEF Disposable
<1>10. /\ \A d \in Cells :
            bstatus'[d] = "Uploading" => bstatus[d] = "Uploading"
       /\ ncells \in Nat
  BY <1>4, CellsFacts DEF IInv, NewBound
<1>11. File(t)' = File(t) /\ idx'[t] = idx[t] /\ ~Loaded(t)'
  BY <1>1, <1>7 DEF File, Loaded
<1> QED
  BY <1>1, <1>3, <1>5, <1>6, <1>8, <1>9, <1>10, <1>11, ThreadData

\* get_free_from_list throws away what is stored.
LEMMA TakenData ==
  ASSUME IInv, ListInv, DataInv, NEW t \in Threads, NEW c \in Cells,
         TakeExpired(t, c) \/ Evict(t, c)
  PROVE  DataInv'
<1> USE DEF upVars
<1>1. /\ Own(t) /\ Holding(t) /\ Holding(t)' /\ pc'[t] = "assign"
      /\ req' = req /\ idx' = idx
      /\ bstatus[c] \in {"Expired", "Clean"} /\ bstatus'[c] = "Ready"
      /\ \A d \in Cells \ {c} : bstatus'[d] = bstatus[d]
      /\ \A f \in Files : Len(blocklist'[f]) = Len(blocklist[f])
      /\ \A f \in Files : \A i \in 1..Len(blocklist[f]) :
           blocklist'[f][i] = IF blocklist[f][i] = c THEN 0
                              ELSE blocklist[f][i]
      /\ UNCHANGED <<ncells, basefile, block_index, data, filesize, ign, got,
                     upVars, history>>
  BY TakenFacts
<1>2. ContentLengths'
  BY <1>1, ThreadLengths DEF DataInv, Lengthening, Growing, history
<1>3. Loaded(t)' => Same(got'[t], File(t)', idx'[t])
  BY <1>1 DEF DataInv, GotRight, Loaded, Growing, File, Downloads
<1>4. ASSUME NEW f \in Files, NEW i \in 1..filesize[f], Disposable(f, i)'
      PROVE  Disposable(f, i)
  <2>1. i \in 1..Len(blocklist[f]) /\ blocklist[f][i] \in {0} \cup Cells
    BY PlaceInList
  <2>2. CASE blocklist[f][i] = c
    <3>1. c # 0
      BY CellsFacts DEF Cells
    <3>2. bstatus[c] # "Expired"
      BY <2>1, <2>2, <3>1 DEF ListInv, Owned, Belongs, Copying, Live
    <3> QED
      BY <2>2, <3>2, <1>1 DEF Disposable
  <2>3. CASE blocklist[f][i] # c
    BY <2>1, <2>3, <1>1, <1>4 DEF Disposable
  <2> QED
    BY <2>2, <2>3
<1>5. \A d \in Cells : bstatus'[d] = "Uploading" => bstatus[d] = "Uploading"
  BY <1>1
<1>6. pc[t] # "copy" /\ ncells \in Nat
  BY <1>1, CellsFacts DEF Holding, IInv, NewBound
<1> QED
  BY <1>1, <1>2, <1>3, <1>4, <1>5, <1>6, ThreadData

\* Room for more blocks.
LEMMA GrowData ==
  ASSUME IInv, ListInv, DataInv, NEW t \in Threads, Grow(t)
  PROVE  DataInv'
<1> DEFINE f == File(t)
<1>1. /\ f \in Files /\ Free(f) /\ pc[t] = "resize"
      /\ Own(t) /\ pc'[t] = "alloc" /\ req' = req
      /\ idx'[t] = filesize[f] + 1 /\ filesize[f] \in Nat
      /\ \A u \in Threads \ {t} : Holding(u) => File(u) \in Files \ {f}
      /\ Len(blocklist[f]) = filesize[f]
      /\ \A g \in Files \ {f} : blocklist'[g] = blocklist[g]
      /\ \A j \in 1..Len(blocklist[f]) : blocklist'[f][j] = blocklist[f][j]
      /\ Len(blocklist'[f]) = req[t].hi
      /\ \A j \in Len(blocklist[f])+1..req[t].hi : blocklist'[f][j] = 0
      /\ UNCHANGED <<ncells, bstatus, basefile, block_index, data, filesize,
                     req, pin, ign, got, upVars, content, exposed>>
  <2>1. Free(f) /\ pc[t] = "resize"
    BY DEF Grow, File
  <2> QED
    BY <2>1, GrowFacts DEF Grew
<1>2. Lengthening(t)' /\ File(t)' = f /\ ~Loaded(t)' /\ ~Lengthening(t)
  BY <1>1 DEF Lengthening, Loaded, Holding, Growing, File
<1> HIDE DEF f
<1>3. ContentLengths'
  <2>1. Len(content[f]) = filesize[f]
    BY <1>1, FreeLength DEF DataInv
  <2>2. ASSUME NEW u \in Threads \ {t}
        PROVE  /\ Lengthening(u)' <=> Lengthening(u)
               /\ File(u)' = File(u) /\ idx'[u] = idx[u]
               /\ Lengthening(u) => File(u) \in Files \ {f}
    BY <1>1 DEF Own, Lengthening, Holding, Growing, File
  <2>3. ASSUME NEW g \in Files,
               \A u \in Threads : Lengthening(u)' => File(u)' # g
        PROVE  /\ Len(content'[g]) = filesize'[g]
               /\ Len(blocklist'[g]) = filesize'[g]
    <3>1. \A u \in Threads : Lengthening(u) => File(u) # g
      BY <2>2, <2>3, <1>2
    <3>2. g # f
      BY <2>3, <1>2
    <3> QED
      BY <3>1, <3>2, <1>1 DEF DataInv, ContentLengths
  <2>4. ASSUME NEW u \in Threads, Lengthening(u)'
        PROVE  Len(content'[File(u)']) = idx'[u] - 1
    <3>1. CASE u = t
      BY <3>1, <2>1, <1>1, <1>2
    <3>2. CASE u # t
      BY <3>2, <2>2, <2>4, <1>1 DEF DataInv, ContentLengths
    <3> QED
      BY <3>1, <3>2
  <2> QED
    BY <2>3, <2>4 DEF ContentLengths
<1>4. ASSUME NEW g \in Files, NEW i \in 1..Len(blocklist'[g]),
             blocklist'[g][i] # 0
      PROVE  i \in 1..Len(blocklist[g]) /\ blocklist'[g][i] = blocklist[g][i]
  BY <1>1, <1>4
<1>5. ASSUME NEW g \in Files, NEW i \in 1..filesize[g], Disposable(g, i)'
      PROVE  Disposable(g, i)
  BY <1>1, <1>5 DEF Disposable
<1>6. ncells \in Nat
  BY CellsFacts DEF IInv, NewBound
<1> QED
  BY <1>1, <1>2, <1>3, <1>4, <1>5, <1>6, ThreadData DEF history

\* The block that is being uploaded is in its list.
LEMMA UpInList ==
  ASSUME IInv, ListInv, NEW i \in DOMAIN snap, IsUp(i)
  PROVE  /\ item \in Files /\ snap[i] \in Cells /\ snap[i] # 0
         /\ i \in 1..Len(blocklist[item]) /\ blocklist[item][i] = snap[i]
<1>1. snap[i] \in Cells /\ snap[i] # 0 /\ snap[i] > 0
  BY SnapTyped, CellsFacts DEF IsUp, Cells
<1>2. basefile[snap[i]] = item /\ block_index[snap[i]] = i
  BY <1>1 DEF ListInv, SnapshotPinned
<1>3. InList(snap[i])
  BY <1>1 DEF IInv, Kept, MapsBack, Live, IsUp
<1> QED
  BY <1>1, <1>2, <1>3 DEF InList

\* What is cut off goes from the file, from the cache and from what is exposed.
LEMMA ShrinkData ==
  ASSUME IInv, ListInv, DataInv, NEW t \in Threads, Shrink(t)
  PROVE  DataInv'
<1> USE DEF upVars
<1> DEFINE f == File(t)
           n == req[t].hi
<1>1. /\ f \in Files /\ Free(f) /\ n \in Nat /\ n <= filesize[f]
      /\ filesize[f] \in Nat /\ pc[t] = "resize" /\ pc'[t] \in {"lock", "idle"}
      /\ Len(blocklist'[f]) = n /\ filesize'[f] = n /\ Len(content'[f]) = n
      /\ Len(blocklist[f]) = filesize[f]
      /\ \A g \in Files \ {f} : /\ filesize'[g] = filesize[g]
                                /\ blocklist'[g] = blocklist[g]
                                /\ content'[g] = content[g]
      /\ exposed' = exposed \ ({f} \X (n+1..MaxBlocks))
      /\ \A u \in Threads \ {t} : Holding(u) => File(u) \in Files \ {f}
      /\ \A c \in Cells \ Gone(t) : bstatus'[c] = bstatus[c]
      /\ \A c \in Cells \cap Gone(t) :
           /\ bstatus[c] = "Uploading" => bstatus'[c] = "Up_Expired"
           /\ bstatus[c] # "Uploading" => bstatus'[c] = "Expired"
      /\ UNCHANGED <<ncells, basefile, block_index, data, m_mutex, ign, got,
                     ops, upVars>>
      /\ Own(t)
  BY ShrinkFacts DEF Shrunk
<1>2. \A g \in Files : \A i \in 1..Len(blocklist'[g]) :
        /\ i \in 1..Len(blocklist[g]) /\ blocklist'[g][i] = blocklist[g][i]
        /\ blocklist[g][i] # 0 =>
             bstatus'[blocklist[g][i]] = bstatus[blocklist[g][i]]
  BY ShrunkFacts
<1>3. \A i \in 1..n : content'[f][i] = content[f][i]
  <2>1. content[f] \in Seq(Data) /\ Len(content[f]) = filesize[f]
    BY <1>1, FreeLength DEF DataInv, IInv, Kept, TypeOK
  <2>2. content'[f] = SubSeq(content[f], 1, n)
    <3>1. content' = [content EXCEPT ![f] = SubSeq(content[f], 1, n)]
      BY DEF Shrink, File
    <3>2. content \in [Files -> Seq(Data)]
      BY DEF IInv, Kept, TypeOK
    <3> HIDE DEF f, n
    <3> QED
      BY <1>1, <3>1, <3>2
  <2> HIDE DEF f, n
  <2> QED
    BY <1>1, <2>1, <2>2, SubSeqProperties
<1>4. \A c \in Gone(t) : c \in Cells
  BY ShrunkFacts
<1>5. \A i \in n+1..Len(blocklist[f]) :
        blocklist[f][i] # 0 => blocklist[f][i] \in Gone(t)
  BY DEF Gone
<1> HIDE DEF f, n
<1>6. \A u \in Threads : WritesGoOn(u)
  BY <1>1 DEF Own, WritesGoOn
<1>7. ASSUME NEW g \in Files, NEW i, g # f \/ i \in 1..n
      PROVE  StillSame(g, i)
  <2>1. <<g, i>> \in exposed => <<g, i>> \in exposed'
    BY <1>1, <1>7
  <2>2. content'[g][i] = content[g][i]
    BY <1>1, <1>3, <1>7
  <2> QED
    BY <2>1, <2>2, <1>6, StillExcused DEF StillSame
<1>8. \A u \in Threads : Holding(u)' =>
        /\ Holding(u) /\ File(u) \in Files \ {f} /\ u # t
        /\ File(u)' = File(u) /\ idx'[u] = idx[u]
        /\ Growing(u)' <=> Growing(u)
  <2>1. ~Holding(t)'
    BY <1>1 DEF Holding
  <2> QED
    BY <1>1, <2>1 DEF Own, Holding, Growing, File
<1>9. ContentLengths'
  <2>1. \A u \in Threads : Lengthening(u) =>
          /\ Lengthening(u)' /\ File(u) \in Files \ {f}
          /\ File(u)' = File(u) /\ idx'[u] = idx[u]
    <3>1. ~Holding(t)
      BY <1>1 DEF Holding
    <3>2. \A u \in Threads : Holding(u) =>
            Holding(u)' /\ File(u) \in Files \ {f}
      BY <1>1, <3>1 DEF Own, Holding
    <3> QED
      BY <1>8, <3>2 DEF Lengthening
  <2>2. ASSUME NEW g \in Files,
               \A u \in Threads : Lengthening(u)' => File(u)' # g
        PROVE  /\ Len(content'[g]) = filesize'[g]
               /\ Len(blocklist'[g]) = filesize'[g]
    BY <2>1, <2>2, <1>1 DEF DataInv, ContentLengths
  <2>3. ASSUME NEW u \in Threads, Lengthening(u)'
        PROVE  Len(content'[File(u)']) = idx'[u] - 1
    BY <2>3, <1>1, <1>8 DEF DataInv, ContentLengths, Lengthening
  <2> QED
    BY <2>2, <2>3 DEF ContentLengths
<1>10. PinKept'
  BY <1>1 DEF Own, DataInv, PinKept, File
<1>11. DataRight'
  <2>1. \A g \in Files : \A i \in 1..Len(blocklist'[g]) : StillSame(g, i)
    BY <1>1, <1>7
  <2> QED
    BY <2>1, <1>1, <1>2, DataLeft DEF DataInv
<1>12. GotRight'
  <2>1. \A u \in Threads :
          Loaded(u)' => Loaded(u) /\ StillSame(File(u), idx[u])
    BY <1>1, <1>7, <1>8 DEF Loaded, Own, Downloads
  <2>2. \A u \in Threads : Loaded(u)' => File(u)' = File(u) /\ idx'[u] = idx[u]
    BY <1>8 DEF Loaded
  <2> QED
    BY <2>1, <2>2, <1>1, GotLeft DEF DataInv
<1>13. AllSaved'
  <2> SUFFICES ASSUME NEW g \in Files, NEW i \in 1..filesize'[g],
                      Disposable(g, i)'
               PROVE  /\ i \in 1..filesize[g] /\ Disposable(g, i)
                      /\ StillSame(g, i)
    BY <1>1, SavedLeft DEF DataInv
  <2>1. i \in 1..filesize[g] /\ StillSame(g, i)
    BY <1>1, <1>7
  <2>2. i \in 1..Len(blocklist'[g])
    <3>1. CASE g = f
      BY <3>1, <1>1
    <3>2. CASE g # f
      BY <3>2, <2>1, <1>1, PlaceInList
    <3> QED
      BY <3>1, <3>2
  <2> QED
    BY <2>1, <2>2, <1>2 DEF Disposable
<1>14. SentRight' /\ BlobRight'
  <2>1. ASSUME NEW i \in DOMAIN snap, IsUp(i)'
        PROVE  IsUp(i) /\ StillSame(item, i)
    <3>1. snap[i] \in Cells /\ snap[i] # 0 /\ snap' = snap
      BY <2>1, <1>1, SnapTyped DEF IsUp
    <3>2. IsUp(i) /\ snap[i] \notin Gone(t)
      BY <2>1, <3>1, <1>1 DEF IsUp
    <3>3. /\ item \in Files /\ i \in 1..Len(blocklist[item])
          /\ blocklist[item][i] = snap[i]
      BY <3>2, UpInList
    <3>4. item # f \/ i \in 1..n
      BY <3>1, <3>2, <3>3, <1>1, <1>5
    <3> QED
      BY <3>2, <3>3, <3>4, <1>7
  <2> QED
    BY <2>1, <1>1, UploadLeft DEF DataInv
<1> QED
  BY <1>9, <1>10, <1>11, <1>12, <1>13, <1>14 DEF DataInv

\* The blocks of a file, and those of a snapshot, by their types.
LEMMA ContentTyped ==
  ASSUME IInv, NEW f \in Files
  PROVE  content[f] \in Seq(Data) /\ blob[f] \in Seq(Data)
BY DEF IInv, Kept, TypeOK

\* A block in the cache is one of the file's contents.
LEMMA InContent ==
  ASSUME IInv, ContentLengths, NEW f \in Files,
         NEW i \in 1..Len(blocklist[f]), blocklist[f][i] # 0
  PROVE  i \in 1..Len(content[f])
<1>1. CASE \E t \in Threads : Lengthening(t) /\ File(t) = f
  <2>1. PICK t \in Threads : Lengthening(t) /\ File(t) = f
    BY <1>1
  <2>2. Len(content[f]) = idx[t] - 1 /\ Len(blocklist[f]) = req[t].hi
    BY <2>1, ThreadFacts DEF ContentLengths, Sized, Lengthening
  <2>3. \A j \in idx[t]..req[t].hi : blocklist[f][j] = 0
    BY <2>1, ThreadFacts DEF Waits, Lengthening
  <2>4. idx[t] \in Nat /\ req[t].hi \in Nat
    <3>1. Request(t) /\ AtIndex(t)
      BY <2>1, RequestOf DEF Lengthening, Holding
    <3> QED
      BY <2>1, <3>1, BlockStoreAssumption DEF Request, AtIndex, Lengthening
  <2> QED
    BY <2>2, <2>3, <2>4
<1>2. CASE \A t \in Threads : Lengthening(t) => File(t) # f
  BY <1>2 DEF ContentLengths
<1> QED
  BY <1>1, <1>2

\* A write copies into the cell it has.  If the block is still the cell's and
\* Dirty, every difference is made up for; otherwise it is one from now on.
LEMMA CopyInData ==
  ASSUME IInv, ListInv, DataInv, NEW t \in Threads, CopyIn(t)
  PROVE  DataInv'
<1> USE DEF fileVars, upVars
<1>1. /\ pc[t] = "copy" /\ ~Holding(t) /\ Request(t) /\ AtIndex(t)
      /\ req[t].op = "write" /\ File(t) \in Files /\ idx[t] \in Nat
      /\ pin[t] \in Cells /\ pin[t] # 0
      /\ basefile[pin[t]] = File(t) /\ block_index[pin[t]] = idx[t]
  <2>1. /\ pc[t] = "copy" /\ ~Holding(t) /\ Request(t) /\ AtIndex(t)
        /\ req[t].op = "write"
    BY RequestOf DEF CopyIn, Holding
  <2>2. File(t) \in Files /\ idx[t] \in Nat
    BY <2>1, BlockStoreAssumption DEF Request, AtIndex, File
  <2>3. /\ pin[t] \in 1..ncells
        /\ basefile[pin[t]] = File(t) /\ block_index[pin[t]] = idx[t]
    BY <2>1 DEF DataInv, PinKept
  <2>4. pin[t] \in Cells /\ pin[t] # 0
    BY <2>3, CellsFacts DEF IInv, Kept, TypeOK, Cells
  <2> QED
    BY <2>1, <2>2, <2>3, <2>4
<1>0. PICK f \in Files, i \in Nat, c \in Cells :
        f = File(t) /\ i = idx[t] /\ c = pin[t]
  BY <1>1
<1>2. /\ f = File(t) /\ i = idx[t] /\ c = pin[t]
      /\ basefile[c] = f /\ block_index[c] = i /\ c # 0
      /\ data' = [data EXCEPT ![c] = req[t].v]
      /\ content' = [content EXCEPT ![f] =
                       [j \in DOMAIN @ |-> IF j = i THEN req[t].v ELSE @[j]]]
      /\ exposed' = IF bstatus[c] = "Dirty" THEN exposed \ {<<f, i>>}
                    ELSE exposed \cup {<<f, i>>}
      /\ UNCHANGED <<ncells, bstatus, basefile, block_index, fileVars, ign,
                     got, ops, upload_queue, upVars>>
  BY <1>0, <1>1 DEF CopyIn
<1>3. Own(t) /\ pc'[t] \in {"lock", "touch"}
  <2>1. CASE ToBlock(t, idx[t] + 1) /\ idx[t] < req[t].hi
    <3>1. idx[t] + 1 \in 0..MaxBlocks
      BY <1>1, <2>1, BlockStoreAssumption DEF Request, AtIndex
    <3> QED
      BY <2>1, <3>1, ToBlockOwn
  <2>2. CASE /\ Goto(t, "touch") /\ pin' = [pin EXCEPT ![t] = 0]
             /\ UNCHANGED <<req, idx>>
    BY <2>2, GotoOwn DEF Own, IInv, Kept, TypeOK, Calls, Places
  <2> QED
    BY <2>1, <2>2 DEF CopyIn
<1>4. /\ \A d \in Cells \ {c} : data'[d] = data[d]
      /\ data'[c] = req[t].v
  BY <1>2 DEF IInv, Kept, TypeOK
<1>5. /\ \A g \in Files \ {f} : content'[g] = content[g]
      /\ Len(content'[f]) = Len(content[f])
      /\ \A j \in 1..Len(content[f]) :
           content'[f][j] = IF j = i THEN req[t].v ELSE content[f][j]
  <2> DEFINE e == [j \in DOMAIN content[f] |->
                     IF j = i THEN req[t].v ELSE content[f][j]]
  <2>1. /\ content[f] \in Seq(Data) /\ DOMAIN content[f] = 1..Len(content[f])
        /\ Len(content[f]) \in Nat /\ content \in [Files -> Seq(Data)]
    BY ContentTyped, LenProperties DEF IInv, Kept, TypeOK
  <2>2. content' = [content EXCEPT ![f] = e]
    BY <1>2
  <2>3. DOMAIN e = 1..Len(content[f])
    BY <2>1
  <2>4. Len(e) = Len(content[f])
    BY <2>1, <2>3
  <2>5. \A j \in 1..Len(content[f]) :
          e[j] = IF j = i THEN req[t].v ELSE content[f][j]
    BY <2>1
  <2> HIDE DEF e
  <2> QED
    BY <2>1, <2>2, <2>4, <2>5
<1>6. ~Holding(t)' /\ pc'[t] # "copy"
  BY <1>3 DEF Holding
<1>7. \A u \in Threads \ {t} : WritesGoOn(u)
  BY <1>3 DEF Own, WritesGoOn
<1>8. ASSUME NEW g, NEW j, Writing(g, j), ~(g = f /\ j = i)
      PROVE  Writing(g, j)'
  <2>1. PICK u \in Threads : /\ pc[u] = "copy" /\ req[u].op = "write"
                             /\ File(u) = g /\ idx[u] = j
    BY <1>8 DEF Writing
  <2>2. u # t
    BY <2>1, <1>8, <1>2
  <2> QED
    BY <2>1, <2>2, <1>7 DEF WritesGoOn, Writing, File
<1>9. bstatus[c] # "Dirty" => Excused(f, i)'
  BY <1>2 DEF Excused
<1>10. ASSUME bstatus[c] = "Dirty"
       PROVE  i \in 1..Len(blocklist[f]) /\ blocklist[f][i] = c
  BY <1>2, <1>10 DEF IInv, Kept, MapsBack, InList, Live
<1>11. ASSUME NEW g \in Files, NEW j, ~(g = f /\ j = i),
              j \in 1..Len(content[g])
       PROVE  StillSame(g, j)
  <2>1. Excused(g, j) => ExcusedNext(g, j)
    <3>1. Excused(g, j) => Excused(g, j)'
      BY <1>2, <1>8, <1>11 DEF Excused
    <3> QED
      BY <3>1 DEF Excused, ExcusedNext, Writing, File
  <2>2. content'[g][j] = content[g][j]
    BY <1>5, <1>11
  <2> QED
    BY <2>1, <2>2 DEF StillSame
\* What is at this block, if the cell is Dirty, is the cell.
<1>12. ASSUME NEW g \in Files, g = item, NEW j \in DOMAIN snap, IsUp(j)'
       PROVE  IsUp(j) /\ (ExcusedNext(g, j) \/ StillSame(g, j))
  <2>1. IsUp(j)
    BY <1>2, <1>12 DEF IsUp
  <2>2. /\ snap[j] # 0 /\ bstatus[snap[j]] = "Uploading"
        /\ j \in 1..Len(blocklist[g]) /\ blocklist[g][j] = snap[j]
    BY <2>1, <1>12, UpInList DEF IsUp
  <2>3. j \in 1..Len(content[g])
    BY <2>2, InContent DEF DataInv
  <2>4. CASE g = f /\ j = i
    BY <2>1, <2>2, <2>4, <1>9, <1>10 DEF Excused, ExcusedNext, Writing, File
  <2>5. CASE ~(g = f /\ j = i)
    BY <2>1, <2>3, <2>5, <1>11
  <2> QED
    BY <2>4, <2>5
<1>13. ContentLengths'
  <2>1. \A u \in Threads :
          /\ Lengthening(u)' <=> Lengthening(u)
          /\ Lengthening(u) => /\ File(u)' = File(u) /\ idx'[u] = idx[u]
                               /\ File(u) \in Files
    <3>1. \A u \in Threads : Holding(u) => File(u) \in Files
      BY RequestOf DEF Request, File, Holding
    <3>2. \A u \in Threads \ {t} :
            /\ Holding(u)' <=> Holding(u)
            /\ Growing(u)' <=> Growing(u)
            /\ File(u)' = File(u) /\ idx'[u] = idx[u]
      BY <1>2, <1>3 DEF Own, Holding, Growing, File
    <3> QED
      BY <3>1, <3>2, <1>1, <1>6 DEF Lengthening
  <2> QED
    BY <2>1, <1>2, <1>5, LengthsLeft DEF DataInv
<1>14. PinKept'
  BY <1>2, <1>3, <1>6 DEF Own, DataInv, PinKept, File
<1>15. DataRight'
  <2> SUFFICES ASSUME NEW g \in Files, NEW j \in 1..Len(blocklist[g]),
                      blocklist[g][j] # 0
               PROVE  Same(data[blocklist[g][j]], g, j)'
    BY <1>2 DEF DataRight
  <2>1. j \in 1..Len(content[g]) /\ blocklist[g][j] \in Cells
    BY InContent, ListTyped DEF DataInv
  <2>2. Belongs(g, j, blocklist[g][j])
    BY DEF ListInv, Owned
  <2>3. CASE g = f /\ j = i /\ bstatus[c] = "Dirty"
    BY <2>1, <2>3, <1>2, <1>4, <1>5, <1>10 DEF Same
  <2>4. CASE g = f /\ j = i /\ bstatus[c] # "Dirty"
    BY <2>4, <1>9 DEF Same
  <2>5. CASE ~(g = f /\ j = i)
    <3>1. StillSame(g, j)
      BY <2>1, <2>5, <1>11
    <3>2. data'[blocklist[g][j]] = data[blocklist[g][j]]
      BY <2>1, <2>2, <2>5, <1>2, <1>4 DEF Belongs
    <3> QED
      BY <3>1, <3>2, <1>2
         DEF DataInv, DataRight, Same, StillSame, Excused, ExcusedNext,
             Writing, File
  <2> QED
    BY <2>3, <2>4, <2>5
<1>16. GotRight'
  <2> SUFFICES ASSUME NEW u \in Threads, Loaded(u)'
               PROVE  Same(got[u], File(u), idx[u])'
    BY DEF GotRight
  <2>1. /\ u # t /\ Loaded(u) /\ got'[u] = got[u]
        /\ File(u)' = File(u) /\ idx'[u] = idx[u]
    BY <1>2, <1>3, <1>6 DEF Own, Loaded, Holding, Growing, File, Downloads
  <2>2. PICK g \in Files, j \in Nat : g = File(u) /\ j = idx[u]
    <3>1. File(u) \in Files /\ idx[u] \in Nat
      BY <2>1, RequestOf, BlockStoreAssumption
         DEF Request, AtIndex, File, Holding, Loaded
    <3> QED
      BY <3>1
  <2>3. Same(got[u], g, j)
    BY <2>1, <2>2 DEF DataInv, GotRight
  <2>4. CASE g = f /\ j = i
    <3>1. blocklist[g][j] = 0
      BY <2>1, <2>2, ThreadFacts DEF Loaded, Waits
    <3> QED
      BY <2>1, <2>2, <2>4, <3>1, <1>2, <1>9, <1>10 DEF Same
  <2>5. CASE ~(g = f /\ j = i)
    <3>1. j \in 1..Len(content[g])
      <4>1. /\ Len(content[g]) = filesize[g]
            /\ Len(blocklist[g]) = filesize[g]
        BY <2>1, <2>2, HolderLength DEF DataInv, Loaded
      <4>2. AtIndex(u) /\ Holding(u) /\ ~Growing(u)
        BY <2>1, RequestOf DEF Loaded, Holding
      <4>3. filesize[g] \in 0..MaxBlocks /\ j >= 1
        BY <2>2, <4>2 DEF IInv, Kept, TypeOK, AtIndex
      <4> QED
        BY <2>2, <4>1, <4>2, <4>3, BlockStoreAssumption DEF Growing, File
    <3>2. StillSame(g, j)
      BY <3>1, <2>5, <1>11
    <3> QED
      BY <2>1, <2>2, <2>3, <3>2
         DEF Same, StillSame, Excused, ExcusedNext, Writing, File
  <2> QED
    BY <2>4, <2>5
<1>17. AllSaved'
  <2> SUFFICES ASSUME NEW g \in Files, NEW j \in 1..filesize[g],
                      Disposable(g, j)'
               PROVE  Saved(g, j)' \/ Excused(g, j)'
    BY <1>2 DEF AllSaved
  <2>1. Disposable(g, j) /\ (Saved(g, j) \/ Excused(g, j))
    BY <1>2 DEF Disposable, DataInv, AllSaved
  <2>2. CASE g = f /\ j = i
    BY <2>1, <2>2, <1>2, <1>9, <1>10 DEF Disposable
  <2>3. CASE ~(g = f /\ j = i)
    <3>1. j \in 1..Len(content[g])
      <4>1. filesize[g] <= Len(content[g]) /\ filesize[g] \in Nat
            /\ Len(content[g]) \in Nat
        BY PlaceInList, ContentTyped, LenProperties, ThreadFacts
           DEF FileLengths
      <4> QED
        BY <4>1
    <3>2. StillSame(g, j)
      BY <3>1, <2>3, <1>11
    <3> QED
      BY <2>1, <3>2, <1>2
         DEF Saved, StillSame, Excused, ExcusedNext, Writing, File
  <2> QED
    BY <2>2, <2>3
<1>18. SentRight'
  <2> SUFFICES ASSUME upc = "send", NEW j \in DOMAIN snap, IsUp(j)',
                      sent[j] # Nobody
               PROVE  Same(sent[j], item, j)'
    BY <1>2 DEF SentRight
  <2>1. PICK g \in Files : g = item
    BY DEF IInv, Kept, Uploads
  <2>2. IsUp(j) /\ (ExcusedNext(g, j) \/ StillSame(g, j))
    BY <2>1, <1>12
  <2>3. Same(sent[j], g, j)
    BY <2>1, <2>2 DEF DataInv, SentRight
  <2> QED
    BY <2>1, <2>2, <2>3, <1>2 DEF Same, StillSame, Excused, ExcusedNext,
       Writing, File
<1>19. BlobRight'
  <2> SUFFICES ASSUME upc = "restore", result = 0, NEW j \in DOMAIN snap,
                      IsUp(j)'
               PROVE  j <= Len(blob[item]) /\ Same(blob[item][j], item, j)'
    BY <1>2 DEF BlobRight
  <2>1. PICK g \in Files : g = item
    BY DEF IInv, Kept, Uploads
  <2>2. IsUp(j) /\ (ExcusedNext(g, j) \/ StillSame(g, j))
    BY <2>1, <1>12
  <2>3. j <= Len(blob[g]) /\ Same(blob[g][j], g, j)
    BY <2>1, <2>2 DEF DataInv, BlobRight
  <2> QED
    BY <2>1, <2>2, <2>3, <1>2 DEF Same, StillSame, Excused, ExcusedNext,
       Writing, File
<1> QED
  BY <1>13, <1>14, <1>15, <1>16, <1>17, <1>18, <1>19 DEF DataInv

\* Nobody copies at the cell that becomes a block.
LEMMA PinsLeft ==
  ASSUME IInv, OneHolder, PinKept, NEW t \in Threads, Assigned(t), Placed(t),
         Own(t),
         pc'[t] = "copy" =>
           pin'[t] = pin[t] /\ req'[t] = req[t] /\ idx'[t] = idx[t]
  PROVE  PinKept'
<1> SUFFICES ASSUME NEW u \in Threads, pc'[u] = "copy"
             PROVE  /\ pin'[u] \in 1..ncells'
                    /\ basefile'[pin'[u]] = File(u)'
                    /\ block_index'[pin'[u]] = idx'[u]
  BY DEF PinKept
<1>1. pc[t] = "assign" /\ ncells' = ncells
  BY DEF Assigned
<1>2. CASE u = t
  <2>1. pin[t] \in 1..ncells
    BY <1>1, RequestOf DEF AtIndex
  <2>2. /\ basefile'[pin[t]] = File(t) /\ block_index'[pin[t]] = idx[t]
        /\ File(t)' = File(t)
    BY <1>2 DEF Placed, File
  <2> QED
    BY <1>1, <1>2, <2>1, <2>2
<1>3. CASE u # t
  <2>1. /\ pc[u] = "copy" /\ pin'[u] = pin[u] /\ idx'[u] = idx[u]
        /\ File(u)' = File(u)
    BY <1>3 DEF Own, File
  <2>2. /\ pin[u] \in 1..ncells /\ basefile[pin[u]] = File(u)
        /\ block_index[pin[u]] = idx[u]
    BY <2>1 DEF PinKept
  <2>3. pin[u] # pin[t]
    BY <2>1, <1>1, <1>3 DEF OneHolder
  <2>4. pin[u] \in Cells
    BY <2>2, CellsFacts DEF IInv, Kept, TypeOK, Cells
  <2> QED
    BY <1>1, <2>1, <2>2, <2>3, <2>4 DEF Placed
<1> QED
  BY <1>2, <1>3

\* The cell gets what the block ought to be, or what a write is going to fill.
LEMMA AssignBlockData ==
  ASSUME IInv, ListInv, OneClaim, OneHolder, DataInv, NEW t \in Threads,
         AssignBlock(t)
  PROVE  DataInv'
<1> USE DEF upVars, history
<1>1. /\ pc[t] = "assign" /\ ~Growing(t) /\ Holding(t)
      /\ Own(t) /\ pc'[t] = "copy" /\ req' = req /\ idx' = idx
      /\ ign'[t] = 0 /\ \A u \in Threads \ {t} : ign'[u] = ign[u]
      /\ UNCHANGED <<ncells, filesize, fstatus, req, idx, pin, ops,
                     upload_queue, upVars, history>>
  BY GotoOwn DEF AssignBlock, Own, IInv, Kept, TypeOK, Calls, Places, Holding
<1>2. Assigned(t)
  BY <1>1 DEF AssignBlock, Assigned, NotedIndex, File
<1>3. Placed(t)
  BY <1>1, <1>2, PlacedFacts
<1>4. PICK f \in Files, i \in 1..Len(blocklist[File(t)]), c \in Cells :
        f = File(t) /\ i = idx[t] /\ c = pin[t]
  BY <1>3 DEF Placed
<1>5. /\ data'[c] = IF ign[t] # 0 THEN data[ign[t]]
                    ELSE IF Downloads(t) THEN got[t] ELSE data[c]
      /\ bstatus'[c] = IF req[t].op = "read" THEN "Clean" ELSE "Dirty"
      /\ \A d \in Cells \ {c} : data'[d] = data[d] /\ bstatus'[d] = bstatus[d]
      /\ \A u \in Threads \ {t} : got'[u] = got[u]
  BY <1>4 DEF AssignBlock, IInv, Kept, TypeOK
<1>6. /\ blocklist'[f][i] = c /\ c # 0 /\ blocklist[f][i] = ign[t]
      /\ i \in 1..Len(blocklist[f])
      /\ \A g \in Files : Len(blocklist'[g]) = Len(blocklist[g])
      /\ \A g \in Files : \A j \in 1..Len(blocklist[g]) :
           /\ blocklist[g][j] # c
           /\ ~(g = f /\ j = i) => blocklist'[g][j] = blocklist[g][j]
  BY <1>3, <1>4 DEF Placed
<1>7. \A u \in Threads : WritesGoOn(u)
  BY <1>1 DEF Own, WritesGoOn
<1>8. \A g, j : StillSame(g, j)
  BY <1>1, <1>7, AllStillSame
<1>9. ContentLengths'
  <2>1. ~Holding(t)' /\ ~Lengthening(t)
    BY <1>1 DEF Holding, Lengthening
  <2> QED
    BY <2>1, <1>1, <1>6, ThreadLengths DEF DataInv, Lengthening
<1>10. PinKept'
  BY <1>1, <1>2, <1>3, PinsLeft DEF DataInv
<1>11. req[t].op = "write" => Excused(f, i)'
  BY <1>1, <1>4 DEF Excused, Writing, File
<1>12. DataRight'
  <2> SUFFICES ASSUME NEW g \in Files, NEW j \in 1..Len(blocklist[g]),
                      blocklist'[g][j] # 0
               PROVE  Same(data[blocklist[g][j]], g, j)'
    BY <1>6 DEF DataRight
  <2>1. CASE g = f /\ j = i
    <3>1. CASE req[t].op = "write"
      BY <3>1, <2>1, <1>11 DEF Same
    <3>2. CASE req[t].op # "write"
      <4>1. ign[t] = 0
        BY <3>2 DEF ListInv, Writers
      <4>2. Downloads(t)
        <5>1. req[t].op \in {"read", "write", "trunc"} /\ req[t].op # "trunc"
          BY <1>1, RequestOf, ThreadFacts DEF Request, Sized
        <5> QED
          BY <5>1, <3>2 DEF Downloads
      <4>3. Same(got[t], f, i)
        BY <4>1, <4>2, <1>1, <1>4 DEF DataInv, GotRight, Loaded
      <4>4. data'[blocklist'[g][j]] = got[t]
        BY <4>1, <4>2, <2>1, <1>5, <1>6
      <4> QED
        BY <4>3, <4>4, <2>1, <1>8
           DEF Same, StillSame, Excused, ExcusedNext, Writing, File
    <3> QED
      BY <3>1, <3>2
  <2>2. CASE ~(g = f /\ j = i)
    <3>1. blocklist'[g][j] = blocklist[g][j] /\ blocklist[g][j] \in Cells \ {c}
      BY <2>2, <1>6, ListTyped
    <3>2. data'[blocklist'[g][j]] = data[blocklist[g][j]]
      BY <3>1, <1>5
    <3>3. Same(data[blocklist[g][j]], g, j)
      BY <3>1 DEF DataInv, DataRight
    <3> QED
      BY <3>2, <3>3, <1>8
         DEF Same, StillSame, Excused, ExcusedNext, Writing, File
  <2> QED
    BY <2>1, <2>2
<1>13. GotRight'
  <2>1. \A u \in Threads : Loaded(u)' =>
          /\ Loaded(u) /\ got'[u] = got[u]
          /\ File(u)' = File(u) /\ idx'[u] = idx[u]
    BY <1>1, <1>5 DEF Own, Loaded, Holding, Growing, File, Downloads
  <2> QED
    BY <2>1, <1>8, GotLeft DEF DataInv
<1>14. AllSaved'
  <2> SUFFICES ASSUME NEW g \in Files, NEW j \in 1..filesize[g],
                      Disposable(g, j)'
               PROVE  Disposable(g, j)
    BY <1>1, <1>8, SavedLeft DEF DataInv
  <2>1. j \in 1..Len(blocklist[g]) /\ blocklist[g][j] \in {0} \cup Cells
    BY PlaceInList
  <2>2. CASE g = f /\ j = i
    <3>1. req[t].op = "read"
      BY <2>2, <1>5, <1>6 DEF Disposable
    <3>2. ign[t] = 0
      BY <3>1 DEF ListInv, Writers
    <3> QED
      BY <2>2, <3>2, <1>6 DEF Disposable
  <2>3. CASE ~(g = f /\ j = i)
    BY <2>1, <2>3, <1>5, <1>6 DEF Disposable
  <2> QED
    BY <2>2, <2>3
<1>15. SentRight' /\ BlobRight'
  <2>1. \A j \in DOMAIN snap : IsUp(j)' => IsUp(j)
    BY <1>1, <1>5, SnapTyped DEF IsUp
  <2> QED
    BY <2>1, <1>1, <1>8, UploadLeft DEF DataInv
<1> QED
  BY <1>9, <1>10, <1>12, <1>13, <1>14, <1>15 DEF DataInv

\* What a new block holds is what the file has there from now on.
LEMMA AssignGrownData ==
  ASSUME IInv, ListInv, OneClaim, OneHolder, DataInv, NEW t \in Threads,
         AssignGrown(t)
  PROVE  DataInv'
<1> USE DEF upVars
<1>1. /\ pc[t] = "assign" /\ Growing(t) /\ Holding(t) /\ File(t) \in Files
      /\ Own(t) /\ Assigned(t) /\ Placed(t)
      /\ item' = item /\ snap' = snap /\ upc' = upc /\ ign[t] = 0
      /\ idx[t] \in 1..req[t].hi /\ req[t].hi \in Nat
      /\ filesize[File(t)] \in Nat /\ idx[t] \in Nat
      /\ filesize[File(t)] < idx[t]
      /\ \/ /\ idx[t] < req[t].hi /\ pc'[t] = "alloc" /\ idx'[t] = idx[t] + 1
            /\ UNCHANGED <<filesize, req>>
         \/ /\ idx[t] = req[t].hi /\ pc'[t] \in {"lock", "idle"}
            /\ filesize'[File(t)] = idx[t]
      /\ \A g \in Files \ {File(t)} : filesize'[g] = filesize[g]
      /\ \A u \in Threads \ {t} :
           /\ Holding(u)' = Holding(u) /\ File(u)' = File(u)
           /\ idx'[u] = idx[u]
           /\ Holding(u) => File(u) \in Files \ {File(t)}
                            /\ Growing(u)' = Growing(u)
      /\ \A g \in Files : \A j \in 1..Len(blocklist[g]) :
           blocklist[g][j] # 0 /\ ~(g = File(t) /\ j = idx[t]) =>
             /\ blocklist'[g][j] = blocklist[g][j]
             /\ bstatus'[blocklist[g][j]] = bstatus[blocklist[g][j]]
      /\ \A j \in filesize[File(t)]+1..idx[t] :
           /\ blocklist'[File(t)][j] # 0
           /\ bstatus'[blocklist'[File(t)][j]] = "Dirty"
  <2>1. req[t].hi \in 0..MaxBlocks => req[t].hi \in Nat
    BY BlockStoreAssumption
  <2> QED
    BY <2>1, LongerFacts DEF Longer
<1>2. PICK f \in Files, i \in Nat, n \in Nat, c \in Cells :
        f = File(t) /\ i = idx[t] /\ n = req[t].hi /\ c = pin[t]
  BY <1>1 DEF Placed
<1>3. /\ UNCHANGED <<ncells, data, ign, got, ops, upVars, exposed>>
      /\ content' = [content EXCEPT ![f] = Append(content[f], data[c])]
  BY <1>2 DEF AssignGrown, File
<1>4. /\ Len(content[f]) = i - 1 /\ Len(blocklist[f]) = n /\ i \in 1..n
      /\ filesize[f] \in Nat /\ filesize[f] < i
  BY <1>1, <1>2, ThreadFacts DEF DataInv, ContentLengths, Lengthening, Sized
<1>5. /\ Len(content'[f]) = i /\ content'[f][i] = data[c]
      /\ \A j \in 1..i-1 : content'[f][j] = content[f][j]
      /\ \A g \in Files \ {f} : content'[g] = content[g]
  <2> DEFINE e == Append(content[f], data[c])
  <2>1. /\ content[f] \in Seq(Data) /\ data[c] \in Data
        /\ content \in [Files -> Seq(Data)]
    BY DEF IInv, Kept, TypeOK
  <2>2. /\ Len(e) = i /\ e[i] = data[c]
        /\ \A j \in 1..i-1 : e[j] = content[f][j]
    BY <2>1, <1>4, AppendProperties
  <2> HIDE DEF e
  <2>3. content' = [content EXCEPT ![f] = e]
    BY <1>3 DEF e
  <2> QED
    BY <2>1, <2>2, <2>3
<1>6. /\ blocklist'[f][i] = c /\ c # 0 /\ blocklist[f][i] = 0
      /\ \A g \in Files : Len(blocklist'[g]) = Len(blocklist[g])
      /\ \A g \in Files : \A j \in 1..Len(blocklist[g]) :
           ~(g = f /\ j = i) => blocklist'[g][j] = blocklist[g][j]
      /\ \A d \in Cells \ {c} : bstatus'[d] = bstatus[d]
      /\ bstatus'[c] \in {"Clean", "Dirty"}
  BY <1>1, <1>2 DEF Placed
<1>7. \A u \in Threads : WritesGoOn(u)
  BY <1>1 DEF Own, WritesGoOn
<1>8. ASSUME NEW g \in Files, NEW j, g = f => j \in 1..i-1
      PROVE  StillSame(g, j)
  <2>1. Excused(g, j) => ExcusedNext(g, j)
    BY <1>3, <1>7, StillExcused
  <2> QED
    BY <2>1, <1>5, <1>8 DEF StillSame
<1>9. ASSUME NEW u \in Threads \ {t}
      PROVE  /\ Holding(u)' <=> Holding(u)
             /\ Lengthening(u)' <=> Lengthening(u)
             /\ File(u)' = File(u) /\ idx'[u] = idx[u]
             /\ Holding(u) => File(u) \in Files \ {f}
  BY <1>1, <1>2, <1>9 DEF Lengthening
<1>10. Lengthening(t) /\ ~Loaded(t)' /\ (Lengthening(t)' => i < n)
       /\ (i < n => /\ Lengthening(t)' /\ File(t)' = f /\ idx'[t] = i + 1
                    /\ filesize' = filesize)
       /\ (i = n => ~Holding(t)' /\ filesize'[f] = n)
  <2>1. CASE i < n
    <3>1. /\ pc'[t] = "alloc" /\ idx'[t] = i + 1 /\ UNCHANGED <<filesize, req>>
      BY <1>1, <1>2, <2>1
    <3>2. Lengthening(t)' /\ File(t)' = f
      BY <1>2, <1>4, <3>1 DEF Lengthening, Holding, Growing, File
    <3> QED
      BY <1>1, <1>2, <2>1, <3>1, <3>2 DEF Lengthening, Loaded
  <2>2. CASE i = n
    <3>1. pc'[t] \in {"lock", "idle"} /\ filesize'[f] = n
      BY <1>1, <1>2, <2>2
    <3> QED
      BY <1>1, <1>2, <2>2, <3>1 DEF Lengthening, Loaded, Holding
  <2> QED
    BY <2>1, <2>2, <1>4
<1>11. ContentLengths'
  <2>1. ASSUME NEW g \in Files,
               \A u \in Threads : Lengthening(u)' => File(u)' # g
        PROVE  /\ Len(content'[g]) = filesize'[g]
               /\ Len(blocklist'[g]) = filesize'[g]
    <3>1. CASE g = f
      <4>1. ~(i < n)
        BY <2>1, <3>1, <1>10
      <4>2. i = n
        BY <4>1, <1>4
      <4> QED
        BY <3>1, <4>2, <1>4, <1>5, <1>6, <1>10
    <3>2. CASE g # f
      <4>1. \A u \in Threads : Lengthening(u) => File(u) # g
        BY <2>1, <3>2, <1>2, <1>9
      <4> QED
        BY <3>2, <4>1, <1>1, <1>2, <1>5, <1>6 DEF DataInv, ContentLengths
    <3> QED
      BY <3>1, <3>2
  <2>2. ASSUME NEW u \in Threads, Lengthening(u)'
        PROVE  Len(content'[File(u)']) = idx'[u] - 1
    <3>1. CASE u = t
      BY <2>2, <3>1, <1>4, <1>5, <1>10
    <3>2. CASE u # t
      <4>1. /\ Lengthening(u) /\ File(u) \in Files \ {f}
            /\ File(u)' = File(u) /\ idx'[u] = idx[u]
        BY <2>2, <3>2, <1>9 DEF Lengthening
      <4> QED
        BY <4>1, <1>5 DEF DataInv, ContentLengths
    <3> QED
      BY <3>1, <3>2
  <2> QED
    BY <2>1, <2>2 DEF ContentLengths
<1>12. PinKept'
  <2>1. pc'[t] # "copy"
    BY <1>1
  <2> QED
    BY <2>1, <1>1, PinsLeft DEF DataInv
\* Where the list has something, or had, the contents are as before.
<1>13. ASSUME NEW g \in Files, NEW j \in 1..Len(blocklist[g]),
              blocklist[g][j] # 0
       PROVE  ~(g = f /\ j = i) /\ StillSame(g, j)
  <2>1. j \in 1..Len(content[g])
    BY <1>13, InContent DEF DataInv
  <2> QED
    BY <2>1, <1>4, <1>6, <1>8, <1>13
<1>14. DataRight'
  <2> SUFFICES ASSUME NEW g \in Files, NEW j \in 1..Len(blocklist[g]),
                      blocklist'[g][j] # 0
               PROVE  Same(data[blocklist[g][j]], g, j)'
    BY <1>6 DEF DataRight
  <2>1. CASE g = f /\ j = i
    BY <2>1, <1>3, <1>5, <1>6 DEF Same
  <2>2. CASE ~(g = f /\ j = i)
    <3>1. blocklist'[g][j] = blocklist[g][j] /\ StillSame(g, j)
      BY <2>2, <1>6, <1>13
    <3>2. Same(data[blocklist[g][j]], g, j)
      BY <3>1 DEF DataInv, DataRight
    <3> QED
      BY <3>1, <3>2, <1>3
         DEF Same, StillSame, Excused, ExcusedNext, Writing, File
  <2> QED
    BY <2>1, <2>2
<1>15. GotRight'
  <2> SUFFICES ASSUME NEW u \in Threads, Loaded(u)'
               PROVE  /\ Loaded(u) /\ got'[u] = got[u]
                      /\ File(u)' = File(u) /\ idx'[u] = idx[u]
                      /\ StillSame(File(u), idx[u])
    BY GotLeft DEF DataInv
  <2>1. u # t
    BY <1>10
  <2>2. /\ Loaded(u) /\ got'[u] = got[u] /\ File(u)' = File(u)
        /\ idx'[u] = idx[u] /\ File(u) \in Files \ {f}
    BY <2>1, <1>1, <1>3, <1>9 DEF Own, Loaded, Downloads
  <2> QED
    BY <2>2, <1>8
<1>16. AllSaved'
  <2> SUFFICES ASSUME NEW g \in Files, NEW j \in 1..filesize'[g],
                      Disposable(g, j)'
               PROVE  /\ j \in 1..filesize[g] /\ Disposable(g, j)
                      /\ StillSame(g, j)
    BY <1>3, SavedLeft DEF DataInv
  <2>1. j \in 1..filesize[g]
    <3> SUFFICES ASSUME j \notin 1..filesize[g] PROVE FALSE
      OBVIOUS
    <3>1. g = f /\ j \in filesize[f]+1..i
      BY <1>1, <1>2, <1>4, <1>10
    <3> QED
      BY <3>1, <1>1, <1>2 DEF Disposable
  <2>2. j \in 1..Len(blocklist[g]) /\ StillSame(g, j) /\ ~(g = f /\ j = i)
    BY <2>1, <1>4, <1>8, PlaceInList
  <2>3. Disposable(g, j)
    BY <2>2, <1>1, <1>2 DEF Disposable
  <2> QED
    BY <2>1, <2>2, <2>3
<1>17. SentRight' /\ BlobRight'
  <2> SUFFICES ASSUME upc # "idle", NEW j \in DOMAIN snap, IsUp(j)'
               PROVE  IsUp(j) /\ StillSame(item, j)
    BY <1>3, UploadLeft DEF DataInv
  <2>1. PICK g \in Files : g = item
    BY DEF IInv, Kept, Uploads
  <2>2. IsUp(j)
    BY <1>3, <1>6, SnapTyped DEF IsUp
  <2>3. j \in 1..Len(blocklist[g]) /\ blocklist[g][j] # 0
    BY <2>1, <2>2, UpInList
  <2> QED
    BY <2>1, <2>2, <2>3, <1>13
<1> QED
  BY <1>11, <1>12, <1>14, <1>15, <1>16, <1>17 DEF DataInv

\* A step of the uploader.
UpOnly ==
  /\ UNCHANGED <<ncells, basefile, block_index, data, blocklist, filesize,
                 threadVars, content>>
  /\ exposed \subseteq exposed'

LEMMA UpOnlySame ==
  ASSUME UpOnly
  PROVE  \A f, i : StillSame(f, i)
BY AllStillSame DEF UpOnly, threadVars, WritesGoOn

LEMMA UpOnlyData ==
  ASSUME DataInv, UpOnly, SentRight', BlobRight', AllSaved'
  PROVE  DataInv'
<1> USE DEF threadVars
<1>1. \A f, i : StillSame(f, i)
  BY UpOnlySame
<1>2. \A u \in Threads : /\ Lengthening(u)' <=> Lengthening(u)
                         /\ Loaded(u)' <=> Loaded(u)
                         /\ File(u)' = File(u)
  BY DEF UpOnly, Lengthening, Loaded, Holding, Growing, File, Downloads
<1>3. ContentLengths'
  BY <1>2 DEF DataInv, ContentLengths, UpOnly
<1>4. PinKept'
  BY DEF DataInv, PinKept, UpOnly, File
<1>5. DataRight'
  BY <1>1, DataLeft DEF DataInv, UpOnly
<1>6. GotRight'
  BY <1>1, <1>2, GotLeft DEF DataInv, UpOnly
<1> QED
  BY <1>3, <1>4, <1>5, <1>6 DEF DataInv

\* create_snap makes no block disposable, and nothing has been sent yet.
LEMMA TakeSnapshotData ==
  ASSUME IInv, ListInv, DataInv, TakeSnapshot
  PROVE  DataInv'
<1>1. PICK f \in Files : f = Head(upload_queue)
  BY HeadTailProperties DEF TakeSnapshot, IInv, Kept, TypeOK
<1>2. /\ upc' = "send"
      /\ \A c \in Cells : bstatus'[c] \in {"Uploading", bstatus[c]}
      /\ UNCHANGED <<ncells, basefile, block_index, data, blocklist, filesize,
                     threadVars, blob, history>>
  BY <1>1, SnapshotFacts
<1>3. UpOnly
  BY <1>2 DEF UpOnly, history
<1>4. \A i \in DOMAIN snap' : sent'[i] = Nobody
  BY DEF TakeSnapshot
<1>5. SentRight' /\ BlobRight'
  BY <1>2, <1>4 DEF SentRight, BlobRight
<1>6. AllSaved'
  <2>1. ASSUME NEW g \in Files, NEW i \in 1..filesize[g], Disposable(g, i)'
        PROVE  Disposable(g, i)
    <3>1. blocklist[g][i] \in {0} \cup Cells
      BY PlaceInList
    <3> QED
      BY <2>1, <3>1, <1>2 DEF Disposable
  <2> QED
    BY <2>1, <1>2, <1>3, UpOnlySame, SavedLeft DEF DataInv
<1> QED
  BY <1>3, <1>5, <1>6, UpOnlyData

\* upload_block_async takes the data as the cell has it.
LEMMA SendBlockData ==
  ASSUME IInv, ListInv, DataInv, SendBlock
  PROVE  DataInv'
<1> USE DEF cacheVars, fileVars, history
<1> DEFINE i == CHOOSE j \in Unsent : \A k \in Unsent : j <= k
<1>1. i \in Unsent
  <2>1. Unsent \subseteq Nat /\ Unsent # {}
    BY SnapTyped DEF SendBlock, Unsent
  <2>2. \E j \in Unsent : \A k \in Unsent : j <= k
    BY <2>1, Least
  <2> QED
    BY <2>2
<1>2. /\ sent' = [sent EXCEPT ![i] = data[snap[i]]] /\ upc = "send"
      /\ UNCHANGED <<cacheVars, fileVars, threadVars, upload_queue, upc, item,
                     snap, result, blob, fails, history>>
  BY DEF SendBlock
<1> HIDE DEF i
<1>3. UpOnly
  BY <1>2 DEF UpOnly
<1>4. ASSUME NEW j \in DOMAIN snap, IsUp(j), sent'[j] # Nobody
      PROVE  Same(sent'[j], item, j)
  <2>1. CASE j = i
    <3>1. sent'[j] = data[snap[j]]
      BY <2>1, <1>1, <1>2, SnapTyped
    <3>2. /\ item \in Files /\ snap[j] # 0
          /\ j \in 1..Len(blocklist[item]) /\ blocklist[item][j] = snap[j]
      BY <1>4, UpInList
    <3> QED
      BY <3>1, <3>2 DEF DataInv, DataRight
  <2>2. CASE j # i
    <3>1. sent'[j] = sent[j]
      BY <2>2, <1>2, SnapTyped
    <3> QED
      BY <3>1, <1>2, <1>4 DEF DataInv, SentRight
  <2> QED
    BY <2>1, <2>2
<1>5. SentRight'
  <2> SUFFICES ASSUME NEW j \in DOMAIN snap', IsUp(j)', sent'[j] # Nobody
               PROVE  Same(sent[j], item, j)'
    BY DEF SentRight
  <2>1. j \in DOMAIN snap /\ IsUp(j)
    BY <1>2 DEF IsUp
  <2>2. Same(sent'[j], item, j)
    BY <1>4, <2>1
  <2> QED
    BY <2>2, <1>2 DEF Same, Excused, Writing, File, threadVars
<1>6. BlobRight'
  BY <1>2 DEF BlobRight
<1>7. AllSaved'
  <2>1. \A g, j : Disposable(g, j)' => Disposable(g, j)
    BY <1>2 DEF Disposable
  <2> QED
    BY <2>1, <1>2, <1>3, UpOnlySame, SavedLeft DEF DataInv
<1> QED
  BY <1>3, <1>5, <1>6, <1>7, UpOnlyData

\* Whether the new list of blocks has taken effect or not, the blob has every
\* block that is not in the cache alone.
LEMMA RequestData ==
  ASSUME IInv, ListInv, DataInv, Commit \/ RequestFails
  PROVE  DataInv'
<1> USE DEF cacheVars, fileVars, history
<1>1. /\ upc = "send" /\ upc' = "restore"
      /\ \/ blob' = blob /\ result' # 0
         \/ /\ Unsent = {} /\ blob' = [blob EXCEPT ![item] = NewBlob]
            /\ ListAccepted
      /\ UNCHANGED <<cacheVars, fileVars, threadVars, upload_queue, item, snap,
                     sent, history>>
  BY BlockStoreAssumption DEF Commit, RequestFails
<1>2. PICK f \in Files : f = item
  BY <1>1 DEF IInv, Kept, Uploads
<1>3. UpOnly
  BY <1>1 DEF UpOnly
<1>4. SentRight'
  BY <1>1 DEF SentRight
<1>5. CASE blob' = blob /\ result' # 0
  <2>1. BlobRight'
    BY <1>5 DEF BlobRight
  <2>2. AllSaved'
    <3>1. \A g, j : Disposable(g, j)' => Disposable(g, j)
      BY <1>1 DEF Disposable
    <3> QED
      BY <3>1, <1>1, <1>3, <1>5, UpOnlySame, SavedLeft DEF DataInv
  <2> QED
    BY <2>1, <2>2, <1>3, <1>4, UpOnlyData
<1>6. CASE Unsent = {} /\ blob' = [blob EXCEPT ![f] = NewBlob] /\ ListAccepted
  <2>1. /\ blob'[f] = NewBlob /\ \A g \in Files \ {f} : blob'[g] = blob[g]
    BY <1>6 DEF IInv, Kept, TypeOK
  <2>2. /\ Len(NewBlob) = Len(snap) /\ Len(snap) \in Nat
        /\ DOMAIN snap = 1..Len(snap)
        /\ \A j \in DOMAIN snap : snap[j] > 0 <=> snap[j] # 0
    <3>1. \A n \in {0} \cup Cells : n > 0 <=> n # 0
      BY CellsFacts DEF Cells
    <3>2. Len(NewBlob) = Len(snap)
      BY SnapTyped DEF NewBlob
    <3>3. \A j \in DOMAIN snap : snap[j] \in {0} \cup Cells
      BY SnapTyped
    <3> QED
      BY <3>1, <3>2, <3>3, SnapTyped
  <2>3. BlobRight'
    <3> SUFFICES ASSUME NEW j \in DOMAIN snap', IsUp(j)'
                 PROVE  j <= Len(blob'[item']) /\ Same(blob[item][j], item, j)'
      BY DEF BlobRight
    <3>1. j \in DOMAIN snap /\ IsUp(j) /\ item' = f
      BY <1>1, <1>2 DEF IsUp
    <3>2. sent[j] # Nobody /\ snap[j] > 0
      BY <3>1, <2>2, <1>6 DEF IsUp, Unsent
    <3>3. Same(sent[j], f, j)
      BY <3>1, <3>2, <1>1, <1>2 DEF DataInv, SentRight
    <3>4. blob'[f][j] = sent[j]
      BY <3>1, <3>2, <2>1 DEF NewBlob
    <3>5. Same(sent[j], f, j)'
      BY <3>3, <1>1 DEF Same, Excused, Writing, File, threadVars
    <3>6. Same(blob[f][j], f, j)'
      BY <3>4, <3>5, <1>1 DEF Same, Excused, Writing
    <3>7. j <= Len(blob'[f])
      BY <3>1, <2>1, <2>2
    <3> QED
      BY <3>1, <3>6, <3>7 DEF Same, Excused, Writing
  <2>4. AllSaved'
    <3> SUFFICES ASSUME NEW g \in Files, NEW j \in 1..filesize[g],
                        Disposable(g, j)'
                 PROVE  Saved(g, j)' \/ Excused(g, j)'
      BY <1>1 DEF AllSaved
    <3>1. Disposable(g, j)
      BY <1>1 DEF Disposable
    <3>2. Saved(g, j) \/ Excused(g, j)
      BY <3>1 DEF DataInv, AllSaved
    <3>3. CASE Excused(g, j)
      BY <3>3, <1>1 DEF Excused, Writing, File, threadVars
    <3>4. CASE Saved(g, j) /\ g # f
      BY <3>4, <2>1, <1>1 DEF Saved
    <3>5. CASE Saved(g, j) /\ g = f
      <4>1. ~Unsaved(item, j)
        BY <3>1, <3>5, <1>2 DEF Unsaved, Disposable
      <4>2. ~(j > Len(snap)) /\ ~(snap[j] # 0)
        BY <3>5, <4>1, <1>1, <1>2 DEF ListInv, Pending
      <4>3. j \in DOMAIN snap /\ j <= Len(snap)
        BY <4>2, <2>2, PlaceInList
      <4>4. blob'[f][j] = blob[f][j]
        BY <4>2, <4>3, <2>1, <2>2, <1>2 DEF NewBlob
      <4> QED
        BY <3>5, <4>3, <4>4, <2>1, <2>2, <1>1 DEF Saved
    <3> QED
      BY <3>2, <3>3, <3>4, <3>5
  <2> QED
    BY <2>3, <2>4, <1>3, <1>4, UpOnlyData
<1> QED
  BY <1>1, <1>2, <1>5, <1>6

\* ~Snapshot hands back as Clean what is in storage, or else exposes it.
LEMMA RestoreBlockData ==
  ASSUME IInv, ListInv, DataInv, NEW i \in Index, i \in DOMAIN snap,
         RestoreBlock(i)
  PROVE  DataInv'
<1> USE DEF fileVars
<1> DEFINE c == snap[i]
<1>1. /\ c > 0 /\ bstatus' = [bstatus EXCEPT ![c] = Restored(@)]
      /\ upc = "restore"
      /\ exposed' = IF bstatus[c] = "Uploading" /\ result # 0
                    THEN exposed \cup {<<item, i>>} ELSE exposed
      /\ snap' = [snap EXCEPT ![i] = 0]
      /\ UNCHANGED <<ncells, basefile, block_index, data, fileVars, threadVars,
                     upload_queue, upc, item, sent, result, blob, fails,
                     content>>
  BY DEF RestoreBlock
<1>2. c \in Cells /\ c # 0
  BY <1>1, SnapTyped, CellsFacts DEF Cells
<1>3. /\ bstatus'[c] = Restored(bstatus[c])
      /\ \A d \in Cells \ {c} : bstatus'[d] = bstatus[d]
  BY <1>1, <1>2 DEF IInv, Kept, TypeOK
<1>4. /\ DOMAIN snap' = DOMAIN snap /\ snap'[i] = 0
      /\ \A j \in DOMAIN snap \ {i} : snap'[j] = snap[j]
  BY <1>1, SnapTyped, ExceptSeq
<1>5. PICK f \in Files : f = item
  BY <1>1 DEF IInv, Kept, Uploads
<1>6. UpOnly
  BY <1>1 DEF UpOnly
<1>7. \A g, j : StillSame(g, j)
  BY <1>6, UpOnlySame
<1>8. SentRight'
  BY <1>1 DEF SentRight
<1>9. BlobRight'
  <2> SUFFICES ASSUME result' = 0, NEW j \in DOMAIN snap', IsUp(j)'
               PROVE  j <= Len(blob'[item']) /\ Same(blob[item][j], item, j)'
    BY DEF BlobRight
  <2>1. j \in DOMAIN snap /\ j # i /\ snap'[j] = snap[j] /\ snap[j] \in Cells
    BY <1>4, SnapTyped DEF IsUp
  <2>2. IsUp(j)
    BY <2>1, <1>2, <1>3 DEF IsUp, Restored
  <2>3. j <= Len(blob[f]) /\ Same(blob[f][j], f, j)
    BY <2>1, <2>2, <1>1, <1>5 DEF DataInv, BlobRight
  <2>4. Same(blob[f][j], f, j)'
    BY <2>3, <1>1, <1>7
       DEF Same, StillSame, Excused, ExcusedNext, Writing, File
  <2> QED
    BY <2>3, <2>4, <1>1, <1>5 DEF Same, Excused, Writing
<1>10. AllSaved'
  <2> SUFFICES ASSUME NEW g \in Files, NEW j \in 1..filesize[g],
                      Disposable(g, j)'
               PROVE  Saved(g, j)' \/ Excused(g, j)'
    BY <1>1 DEF AllSaved
  <2>1. blocklist[g][j] \in {0} \cup Cells /\ j \in 1..Len(blocklist[g])
    BY PlaceInList
  <2>2. CASE Disposable(g, j)
    <3>1. Saved(g, j) \/ Excused(g, j)
      BY <2>2 DEF DataInv, AllSaved
    <3> QED
      BY <3>1, <1>1, <1>7
         DEF Saved, StillSame, Excused, ExcusedNext, Writing, File
  <2>3. CASE ~Disposable(g, j)
    <3>1. /\ blocklist[g][j] = c /\ bstatus[c] # "Clean"
          /\ bstatus'[c] = "Clean"
      BY <2>1, <2>3, <1>1, <1>3 DEF Disposable
    <3>2. bstatus[c] = "Uploading"
      BY <3>1, <1>3 DEF Restored
    <3>3. f = g /\ i = j
      <4>1. IsUp(i)
        BY <3>2, <1>2 DEF IsUp
      <4>2. i \in 1..Len(blocklist[f]) /\ blocklist[f][i] = c
        BY <4>1, <1>5, UpInList
      <4> QED
        BY <4>2, <3>1, <2>1, <1>2, OnePlace
    <3>4. CASE result # 0
      <4>1. <<g, j>> \in exposed'
        BY <3>2, <3>3, <3>4, <1>1, <1>5
      <4> QED
        BY <4>1 DEF Excused
    <3>5. CASE result = 0
      <4>1. j <= Len(blob[g]) /\ Same(blob[g][j], g, j)
        BY <3>2, <3>3, <3>5, <1>1, <1>2, <1>5 DEF DataInv, BlobRight, IsUp
      <4> QED
        BY <4>1, <1>1, <1>7
           DEF Same, Saved, StillSame, Excused, ExcusedNext, Writing, File
    <3> QED
      BY <3>4, <3>5
  <2> QED
    BY <2>2, <2>3
<1> HIDE DEF c
<1> QED
  BY <1>6, <1>8, <1>9, <1>10, UpOnlyData

LEMMA EndData ==
  ASSUME DataInv, EndUpload \/ UNCHANGED vars
  PROVE  DataInv'
<1> USE DEF vars, cacheVars, fileVars, upVars, history
<1>1. /\ UNCHANGED <<cacheVars, blocklist, filesize, threadVars, blob,
                     history>>
      /\ upc' = "idle" \/ UNCHANGED <<upc, item, snap, sent, result>>
  BY DEF EndUpload
<1>2. UpOnly
  BY <1>1 DEF UpOnly
<1>3. \A g, j : StillSame(g, j)
  BY <1>2, UpOnlySame
<1>4. AllSaved'
  <2>1. \A g, j : Disposable(g, j)' => Disposable(g, j)
    BY <1>1 DEF Disposable
  <2> QED
    BY <2>1, <1>1, <1>3, SavedLeft DEF DataInv
<1>5. SentRight' /\ BlobRight'
  <2>1. CASE upc' = "idle"
    BY <2>1 DEF SentRight, BlobRight
  <2>2. CASE UNCHANGED <<upc, item, snap, sent, result>>
    <3>1. \A j : IsUp(j)' => IsUp(j)
      BY <2>2, <1>1 DEF IsUp
    <3> QED
      BY <3>1, <2>2, <1>1, <1>3, UploadLeft DEF DataInv
  <2> QED
    BY <1>1, <2>1, <2>2
<1> QED
  BY <1>2, <1>4, <1>5, UpOnlyData

LEMMA DataInit ==
  ASSUME Init
  PROVE  DataInv
<1>1. \A f \in Files : InitBlocks[f] \in Nat
  BY BlockStoreAssumption
<1>2. \A f \in Files :
        /\ Len(blob[f]) = filesize[f] /\ Len(blocklist[f]) = filesize[f]
        /\ filesize[f] \in Nat
        /\ \A i \in 1..Len(blocklist[f]) : blocklist[f][i] = 0
  BY <1>1 DEF Init, Fill
<1>3. content = blob /\ snap = <<>> /\ upc = "idle"
      /\ \A t \in Threads : pc[t] = "idle" /\ ~Holding(t)
  BY DEF Init, Holding
<1>4. ContentLengths
  BY <1>2, <1>3 DEF ContentLengths, Lengthening
<1>5. AllSaved
  BY <1>2, <1>3 DEF AllSaved, Saved
<1> QED
  BY <1>2, <1>3, <1>4, <1>5 DEF DataInv, PinKept, DataRight, GotRight, Loaded,
     SentRight, BlobRight

LEMMA OneHolderOneClaim == OneHolder => OneClaim
BY DEF OneHolder, OneClaim

\* Every step, while get_free hands out no cell that somebody has.
LEMMA DataInductive ==
  ASSUME IInv, ListInv, OneHolder, DataInv, [Next]_vars
  PROVE  DataInv'
<1>1. IInv' /\ OneClaim
  BY Inductive, OneHolderOneClaim
<1>2. ASSUME NEW t \in Threads, Begin(t) PROVE DataInv'
  BY <1>2, BeginData
<1>3. ASSUME NEW t \in Threads, Proceed(t) PROVE DataInv'
  BY <1>1, <1>3, GoneData, PutNewItemData, TakenData, GrowData, ShrinkData,
     AssignGrownData, GetCachedData, BeginCopyOnWriteData, BeginLoadData,
     AssignBlockData, CopyOutData, CopyInData, EndWriteData DEF Proceed
<1>4. ASSUME Upload PROVE DataInv'
  BY <1>4, TakeSnapshotData, SendBlockData, RequestData, RestoreBlockData,
     EndData DEF Upload
<1>5. CASE UNCHANGED vars
  BY <1>5, EndData
<1> QED
  BY <1>2, <1>3, <1>4, <1>5 DEF Next

-----------------------------------------------------------------------------
\* What a read returns.

\* No write or truncate of a file is under way while read_bytes copies a block.
ReadersAlone ==
  \A t, u \in Threads :
    /\ pc[t] = "copy" /\ req[t].op = "read"
    /\ pc[u] # "idle" /\ File(u) = File(t)
    => req[u].op = "read"

\* Then the cell it copies is in the list of the file.
Reading(t) == pc[t] = "copy" /\ req[t].op = "read"
HasBlock(t) ==
  /\ idx[t] \in 1..Len(blocklist[File(t)])
  /\ blocklist[File(t)][idx[t]] = pin[t]
ReadersMapped == \A t \in Threads : Reading(t) => HasBlock(t)

\* No thread has found the cache full.
Room == \A t \in Threads : pc[t] # "scan"

\* A step of t is none of the others'.
Apart(t) ==
  \A u \in Threads \ {t} : /\ pc'[u] = pc[u] /\ req'[u] = req[u]
                           /\ idx'[u] = idx[u] /\ pin'[u] = pin[u]

LEMMA OwnApart == ASSUME NEW t \in Threads, Own(t) PROVE Apart(t)
BY DEF Own, Apart

LEMMA ReadsOn ==
  ASSUME ReadersMapped, NEW t \in Threads, Apart(t),
         Reading(t)' => HasBlock(t)',
         \A u \in Threads \ {t} : Reading(u) =>
           /\ Len(blocklist'[File(u)]) = Len(blocklist[File(u)])
           /\ blocklist'[File(u)][idx[u]] = blocklist[File(u)][idx[u]]
  PROVE  ReadersMapped'
<1> SUFFICES ASSUME NEW u \in Threads, u # t, Reading(u)' PROVE HasBlock(u)'
  BY DEF ReadersMapped
<1>1. /\ Reading(u) /\ HasBlock(u)
      /\ File(u)' = File(u) /\ idx'[u] = idx[u] /\ pin'[u] = pin[u]
  BY DEF ReadersMapped, Apart, Reading, File
<1> QED
  BY <1>1 DEF HasBlock

\* Steps that leave the lists alone and hand out no cell.
LEMMA BesideFacts ==
  ASSUME IInv, NEW t \in Threads,
         \/ Begin(t) \/ IsFull(t) \/ ShrinkAsserts(t) \/ GetThrows(t)
         \/ BeginCopyOnWrite(t) \/ BeginLoad(t) \/ CopyOut(t) \/ CopyIn(t)
         \/ EndWrite(t)
  PROVE  /\ blocklist' = blocklist /\ Apart(t)
         /\ pc'[t] \notin {"copy", "assign"}
<1> USE DEF cacheVars, fileVars
<1>1. ASSUME NEW w \in Places \ {"copy", "assign"}, Goto(t, w),
             \A u \in Threads \ {t} :
               req'[u] = req[u] /\ idx'[u] = idx[u] /\ pin'[u] = pin[u]
      PROVE  Apart(t) /\ pc'[t] \notin {"copy", "assign"}
  BY <1>1, GotoOwn DEF Apart
<1>2. CASE Begin(t)
  BY <1>2, BeginFacts DEF Own, Apart
<1>3. CASE \/ IsFull(t) \/ ShrinkAsserts(t) \/ GetThrows(t)
           \/ BeginCopyOnWrite(t) \/ BeginLoad(t)
  <2>1. /\ blocklist' = blocklist /\ UNCHANGED <<req, idx, pin>>
        /\ \E w \in Places \ {"copy", "assign"} : Goto(t, w)
    BY <1>3 DEF IsFull, ShrinkAsserts, GetThrows, BeginCopyOnWrite, BeginLoad,
       Places
  <2> QED
    BY <2>1, <1>1
<1>4. CASE CopyOut(t) \/ CopyIn(t) \/ EndWrite(t)
  <2>1. /\ blocklist' = blocklist
        /\ \/ \E i : ToBlock(t, i)
           \/ Return(t)
           \/ /\ Goto(t, "touch") /\ pin' = [pin EXCEPT ![t] = 0]
              /\ UNCHANGED <<req, idx>>
    BY <1>4 DEF CopyOut, CopyIn, EndWrite
  <2>2. /\ \E w \in Places \ {"copy", "assign"} : Goto(t, w)
        /\ \A u \in Threads \ {t} :
             req'[u] = req[u] /\ idx'[u] = idx[u] /\ pin'[u] = pin[u]
    BY <2>1 DEF ToBlock, Return, Places, IInv, Kept, TypeOK, Calls
  <2> QED
    BY <2>1, <2>2, <1>1
<1> QED
  BY <1>2, <1>3, <1>4

\* put_new_item hands out the new cell.
LEMMA NewFacts ==
  ASSUME IInv, NEW t \in Threads, PutNewItem(t)
  PROVE  /\ blocklist' = blocklist /\ Apart(t)
         /\ pc'[t] = "assign" /\ pin'[t] = ncells + 1
<1>1. /\ blocklist' = blocklist /\ UNCHANGED <<req, idx>>
      /\ pin' = [pin EXCEPT ![t] = ncells + 1] /\ Goto(t, "assign")
      /\ "assign" \in Places
  BY DEF PutNewItem, Places, fileVars
<1>2. pin'[t] = ncells + 1 /\ \A u \in Threads \ {t} : pin'[u] = pin[u]
  BY <1>1 DEF IInv, Kept, TypeOK
<1> QED
  BY <1>1, <1>2, GotoOwn DEF Apart

LEMMA ReadsBeside ==
  ASSUME IInv, ReadersMapped, NEW t \in Threads,
         \/ Begin(t) \/ IsFull(t) \/ PutNewItem(t) \/ ShrinkAsserts(t)
         \/ GetThrows(t) \/ BeginCopyOnWrite(t) \/ BeginLoad(t)
         \/ CopyOut(t) \/ CopyIn(t) \/ EndWrite(t)
  PROVE  ReadersMapped'
<1>1. blocklist' = blocklist /\ Apart(t) /\ pc'[t] # "copy"
  BY BesideFacts, NewFacts
<1> QED
  BY <1>1, ReadsOn DEF Reading

\* get_read_block returns the cell that the list has.
LEMMA ReadsCached ==
  ASSUME IInv, ReadersMapped, NEW t \in Threads, GetCached(t)
  PROVE  ReadersMapped'
<1> USE DEF fileVars
<1>1. /\ pc[t] = "lock" /\ InRange(t)
      /\ UNCHANGED <<ncells, basefile, block_index, data, fileVars, req,
                     idx, ign, got, ops, upload_queue, upVars, history>>
  BY DEF GetCached, AtBlock
<1>2. Mapped(t) \in Cells /\ idx[t] \in 1..Len(blocklist[File(t)])
  BY <1>1, MappedTyped DEF GetCached
<1>3. Own(t) /\ pc'[t] = "copy"
  BY <1>1, <1>2, GotoOwn DEF GetCached, Own, IInv, Kept, TypeOK, Calls, Places
<1>4. pin'[t] = Mapped(t)
  BY DEF GetCached, IInv, Kept, TypeOK
<1>5. HasBlock(t)'
  BY <1>1, <1>2, <1>4 DEF HasBlock, Mapped, File
<1> QED
  BY <1>1, <1>3, <1>5, OwnApart, ReadsOn

\* get_free throws no block away at which somebody copies.
LEMMA ReadsTaken ==
  ASSUME IInv, ListInv, PinKept, OneHolder', ReadersMapped,
         NEW t \in Threads, NEW c \in Cells, TakeExpired(t, c) \/ Evict(t, c)
  PROVE  ReadersMapped'
<1>1. /\ Own(t) /\ pc'[t] = "assign" /\ pin'[t] = c
      /\ \A f \in Files : Len(blocklist'[f]) = Len(blocklist[f])
      /\ \A f \in Files : \A i \in 1..Len(blocklist[f]) :
           blocklist'[f][i] = IF blocklist[f][i] = c THEN 0
                              ELSE blocklist[f][i]
  BY TakenFacts
<1>2. ASSUME NEW u \in Threads \ {t}, Reading(u)
      PROVE  /\ Len(blocklist'[File(u)]) = Len(blocklist[File(u)])
             /\ blocklist'[File(u)][idx[u]] = blocklist[File(u)][idx[u]]
  <2>1. pc'[u] = "copy" /\ pin'[u] = pin[u]
    BY <1>1, <1>2 DEF Own, Reading
  <2>2. pin[u] # c
    BY <1>1, <2>1 DEF OneHolder
  <2>3. HasBlock(u) /\ File(u) \in Files
    BY <1>2, RequestOf DEF ReadersMapped, Reading, Request, File
  <2> QED
    BY <1>1, <2>2, <2>3 DEF HasBlock
<1> QED
  BY <1>1, <1>2, OwnApart, ReadsOn DEF Reading

\* resize makes another file longer or shorter than the one that is read.
LEMMA ReadsResized ==
  ASSUME IInv, ListInv, OneClaim, ReadersAlone, ReadersMapped,
         NEW t \in Threads, Grow(t) \/ Shrink(t) \/ AssignGrown(t)
  PROVE  ReadersMapped'
<1>1. /\ Own(t) /\ pc'[t] # "copy" /\ pc[t] # "idle" /\ req[t].op # "read"
      /\ \A g \in Files \ {File(t)} : blocklist'[g] = blocklist[g]
  <2>1. CASE Grow(t)
    <3>1. Grew(t) /\ pc[t] = "resize"
      BY <2>1, GrowFacts DEF Grow
    <3> QED
      BY <3>1 DEF Grew, ListInv, Writers
  <2>2. CASE Shrink(t)
    <3>1. Shrunk(t) /\ pc[t] = "resize"
      BY <2>2, ShrinkFacts DEF Shrink
    <3> QED
      BY <3>1 DEF Shrunk, ListInv, Writers
  <2>3. CASE AssignGrown(t)
    <3>1. Longer(t)
      BY <2>3, LongerFacts
    <3>2. /\ Assigned(t) /\ Own(t) /\ req[t].op # "read"
          /\ pc'[t] \in {"alloc", "lock", "idle"}
      BY <3>1 DEF Longer
    <3>3. \A g \in Files \ {File(t)} : blocklist'[g] = blocklist[g]
      BY <3>2, AssignedFacts
    <3> QED
      BY <3>2, <3>3 DEF Assigned
  <2> QED
    BY <2>1, <2>2, <2>3
<1>2. ASSUME NEW u \in Threads \ {t}, Reading(u)
      PROVE  File(u) \in Files \ {File(t)}
  <2>1. File(u) \in Files
    BY <1>2, RequestOf DEF Reading, Request, File
  <2> QED
    BY <1>1, <1>2, <2>1 DEF ReadersAlone, Reading, File
<1> QED
  BY <1>1, <1>2, OwnApart, ReadsOn DEF Reading

\* A block that is loaded takes an empty place, at which nobody reads.
LEMMA ReadsAssigned ==
  ASSUME IInv, ListInv, OneClaim, PinKept, ReadersAlone, ReadersMapped,
         NEW t \in Threads, AssignBlock(t)
  PROVE  ReadersMapped'
<1>1. /\ pc[t] = "assign" /\ Own(t) /\ pc'[t] = "copy"
      /\ UNCHANGED <<ncells, req, idx, pin, upVars>>
      /\ ign'[t] = 0 /\ \A u \in Threads \ {t} : ign'[u] = ign[u]
  BY GotoOwn DEF AssignBlock, Own, IInv, Kept, TypeOK, Calls, Places
<1>2. Assigned(t)
  BY <1>1 DEF AssignBlock, Assigned, NotedIndex, File
<1>3. Placed(t)
  BY <1>1, <1>2, PlacedFacts
<1>4. HasBlock(t)'
  BY <1>1, <1>3 DEF HasBlock, Placed, File
<1>5. ASSUME NEW u \in Threads \ {t}, Reading(u)
      PROVE  /\ Len(blocklist'[File(u)]) = Len(blocklist[File(u)])
             /\ blocklist'[File(u)][idx[u]] = blocklist[File(u)][idx[u]]
  <2>1. HasBlock(u) /\ File(u) \in Files /\ pin[u] # 0
    <3>1. pin[u] \in 1..ncells
      BY <1>5 DEF PinKept, Reading
    <3>2. ncells \in Nat
      BY CellsFacts DEF IInv, NewBound
    <3> QED
      BY <3>1, <3>2, <1>5, RequestOf
         DEF ReadersMapped, Reading, Request, File
  <2>2. ~(File(u) = File(t) /\ idx[u] = idx[t])
    <3> SUFFICES ASSUME File(u) = File(t), idx[u] = idx[t] PROVE FALSE
      OBVIOUS
    <3>1. req[t].op = "read"
      BY <1>1, <1>5 DEF ReadersAlone, Reading
    <3>2. ign[t] = 0
      BY <3>1 DEF ListInv, Writers
    <3> QED
      BY <3>2, <2>1, <1>3 DEF Placed, HasBlock
  <2> QED
    BY <2>1, <2>2, <1>3 DEF Placed, HasBlock
<1> QED
  BY <1>1, <1>4, <1>5, OwnApart, ReadsOn

LEMMA ReadersInductive ==
  ASSUME IInv, ListInv, DataInv, OneHolder, OneHolder', ReadersAlone,
         ReadersMapped, [Next]_vars
  PROVE  ReadersMapped'
<1>1. OneClaim /\ PinKept
  BY OneHolderOneClaim DEF DataInv
<1>2. ASSUME NEW t \in Threads, Begin(t) PROVE ReadersMapped'
  BY <1>2, ReadsBeside
<1>3. ASSUME NEW t \in Threads, Proceed(t) PROVE ReadersMapped'
  BY <1>1, <1>3, ReadsBeside, ReadsCached, ReadsTaken, ReadsResized,
     ReadsAssigned DEF Proceed
<1>4. ASSUME Upload \/ UNCHANGED vars PROVE ReadersMapped'
  <2>1. UNCHANGED <<blocklist, pc, req, idx, pin>>
    BY <1>4 DEF Upload, TakeSnapshot, SendBlock, Commit, RequestFails,
       RestoreBlock, EndUpload, vars, fileVars, threadVars
  <2> QED
    BY <2>1 DEF ReadersMapped, Reading, HasBlock, File
<1> QED
  BY <1>2, <1>3, <1>4 DEF Next

LEMMA ReadersStart == Init => ReadersMapped
BY DEF Init, ReadersMapped, Reading

\* The block that a reader copies is right.
LEMMA ReadersRight ==
  ASSUME DataInv, IInv, ReadersAlone, ReadersMapped
  PROVE  ReadsLatest
<1> SUFFICES ASSUME NEW t \in Threads, Reading(t)
             PROVE  \/ data[pin[t]] = content[File(t)][idx[t]]
                    \/ <<File(t), idx[t]>> \in exposed
  BY DEF ReadsLatest, Reading
<1>1. HasBlock(t) /\ File(t) \in Files /\ pin[t] # 0
  <2>1. pin[t] \in 1..ncells
    BY DEF DataInv, PinKept, Reading
  <2>2. ncells \in Nat
    BY CellsFacts DEF IInv, NewBound
  <2> QED
    BY <2>1, <2>2, RequestOf DEF ReadersMapped, Reading, Request, File
<1>2. Same(data[pin[t]], File(t), idx[t])
  BY <1>1 DEF DataInv, DataRight, HasBlock
<1>3. ~Writing(File(t), idx[t])
  BY DEF Writing, ReadersAlone, Reading
<1> QED
  BY <1>2, <1>3 DEF Same, Excused

\* While no thread has found the cache full, get_free hands out new cells.
LEMMA HoldersLeft ==
  ASSUME OneHolder, NEW t \in Threads, Apart(t),
         \A u \in Threads \ {t} :
           /\ pc'[t] = "assign" =>
                (pc[u] \in {"copy", "assign"} => pin[u] # pin'[t])
           /\ pc'[t] = "copy" => (pc[u] = "assign" => pin[u] # pin'[t])
  PROVE  OneHolder'
BY DEF OneHolder, Apart

LEMMA RoomInductive ==
  ASSUME IInv, ListInv, PinKept, OneHolder, Room, [Next]_vars
  PROVE  OneHolder'
<1>1. ASSUME NEW t \in Threads,
             \/ Begin(t) \/ IsFull(t) \/ ShrinkAsserts(t) \/ GetThrows(t)
             \/ BeginCopyOnWrite(t) \/ BeginLoad(t) \/ CopyOut(t)
             \/ CopyIn(t) \/ EndWrite(t) \/ Grow(t) \/ Shrink(t)
             \/ AssignGrown(t)
      PROVE  OneHolder'
  <2>1. Apart(t) /\ pc'[t] \notin {"copy", "assign"}
    <3>1. CASE Grow(t)
      BY <3>1, GrowFacts, OwnApart DEF Grew
    <3>2. CASE Shrink(t)
      BY <3>2, ShrinkFacts, OwnApart DEF Shrunk
    <3>3. CASE AssignGrown(t)
      <4>1. Longer(t)
        BY <3>3, OneHolderOneClaim, LongerFacts
      <4>2. Own(t) /\ pc'[t] \in {"alloc", "lock", "idle"}
        BY <4>1 DEF Longer
      <4> QED
        BY <4>2, OwnApart
    <3> QED
      BY <1>1, <3>1, <3>2, <3>3, BesideFacts
  <2> QED
    BY <2>1, HoldersLeft
<1>2. ASSUME NEW t \in Threads, PutNewItem(t) PROVE OneHolder'
  <2>1. Apart(t) /\ pc'[t] = "assign" /\ pin'[t] = ncells + 1
    BY <1>2, NewFacts
  <2>2. \A u \in Threads :
          pc[u] \in {"copy", "assign"} => pin[u] \in 1..ncells
    BY RequestOf DEF PinKept, AtIndex
  <2>3. ncells \in Nat
    BY CellsFacts DEF IInv, NewBound
  <2>4. \A u \in Threads :
          pc[u] \in {"copy", "assign"} => pin[u] # pin'[t]
    BY <2>1, <2>2, <2>3
  <2> QED
    BY <2>1, <2>4, HoldersLeft
<1>3. ASSUME NEW t \in Threads, NEW c \in Cells,
             TakeExpired(t, c) \/ Evict(t, c)
      PROVE  FALSE
  BY <1>3 DEF TakeExpired, Evict, Take, Room
<1>4. ASSUME NEW t \in Threads, GetCached(t) PROVE OneHolder'
  <2>1. /\ Free(File(t)) /\ File(t) \in Files
        /\ Mapped(t) \in Cells /\ Mapped(t) # 0
        /\ idx[t] \in 1..Len(blocklist[File(t)])
    <3>1. pc[t] = "lock" /\ InRange(t) /\ Mapped(t) > 0 /\ Free(File(t))
      BY <1>4 DEF GetCached, AtBlock
    <3> QED
      BY <3>1, <1>4, MappedTyped, RequestOf, CellsFacts
         DEF GetCached, Cells, Request, File
  <2>2. /\ Apart(t) /\ pc'[t] = "copy" /\ pin'[t] = Mapped(t)
    <3>1. pc'[t] = "copy" /\ \A u \in Threads \ {t} : pc'[u] = pc[u]
      BY <1>4, GotoOwn DEF GetCached, Places
    <3>2. pin'[t] = Mapped(t) /\ \A u \in Threads \ {t} : pin'[u] = pin[u]
      BY <1>4 DEF GetCached, IInv, Kept, TypeOK
    <3>3. req' = req /\ idx' = idx
      BY <1>4 DEF GetCached
    <3> QED
      BY <3>1, <3>2, <3>3 DEF Apart
  <2>3. bstatus[Mapped(t)] \in Live
    BY <2>1, FreeIsLive DEF Mapped
  <2>4. \A u \in Threads : pc[u] = "assign" => pin[u] # Mapped(t)
    BY <2>3 DEF ListInv, ClaimFree, Live
  <2> QED
    BY <2>2, <2>4, HoldersLeft
<1>5. ASSUME NEW t \in Threads, AssignBlock(t) PROVE OneHolder'
  <2>1. /\ pc[t] = "assign" /\ Own(t) /\ pc'[t] = "copy" /\ pin' = pin
    BY <1>5, GotoOwn
       DEF AssignBlock, Own, IInv, Kept, TypeOK, Calls, Places
  <2>2. \A u \in Threads \ {t} : pc[u] = "assign" => pin[u] # pin[t]
    BY <2>1 DEF OneHolder
  <2> QED
    BY <2>1, <2>2, OwnApart, HoldersLeft
<1>6. ASSUME Upload \/ UNCHANGED vars PROVE OneHolder'
  <2>1. UNCHANGED <<pc, pin>>
    BY <1>6 DEF Upload, TakeSnapshot, SendBlock, Commit, RequestFails,
       RestoreBlock, EndUpload, vars, threadVars
  <2> QED
    BY <2>1 DEF OneHolder
<1> QED
  BY <1>1, <1>2, <1>3, <1>4, <1>5, <1>6 DEF Next, Proceed

-----------------------------------------------------------------------------
\* The theorems about what the cells hold.  Their condition is that get_free
\* hands out no cell that another thread has: neither the new cell of
\* put_new_item nor a Clean one into or out of which memcpy copies, for a copy
\* holds no lock.

LEMMA DataStep ==
  IInv /\ ListInv /\ DataInv /\ OneHolder /\ [Next]_vars
  => (IInv /\ ListInv /\ DataInv)'
BY Inductive, ListInductive, DataInductive, OneHolderOneClaim

LEMMA DataStart == Init => IInv /\ ListInv /\ DataInv /\ ReadersMapped
BY InitKept, ListInit, DataInit, ReadersStart

\* Write-back loses nothing: a block that get_free may throw away is in
\* storage as the calls have left it.  The exceptions are those the property
\* names: a memcpy after the snapshot of its block, a failed upload, and a
\* write that has its block and has yet to fill it.
THEOREM CleanBlocksAreStored == Spec /\ []OneHolder => []CleanIsSaved
<1>1. DataInv => CleanIsSaved
  BY DEF DataInv, AllSaved, CleanIsSaved, Excused
<1> QED
  BY <1>1, DataStart, DataStep, PTL DEF Spec

\* If, besides, no write or truncate of the same file is under way, read_bytes
\* copies what was last written, whatever eviction, download, copy on write
\* and truncation did before.
THEOREM ReadsReturnTheLatest ==
  Spec /\ []OneHolder /\ []ReadersAlone => []ReadsLatest
<1>1. /\ IInv /\ ListInv /\ DataInv /\ ReadersMapped
      /\ OneHolder /\ OneHolder' /\ ReadersAlone /\ [Next]_vars
      => ReadersMapped'
  BY ReadersInductive
<1>2. IInv /\ DataInv /\ ReadersAlone /\ ReadersMapped => ReadsLatest
  BY ReadersRight
<1> QED
  BY <1>1, <1>2, DataStart, DataStep, PTL DEF Spec

\* The condition holds as long as the cache has room: get_free hands one cell
\* to two threads only when one of them looks for a cell in the list.
THEOREM RoomIsEnough == Spec /\ []Room => []OneHolder
<1>1. Init => OneHolder
  BY DEF Init, OneHolder
<1>2. /\ IInv /\ ListInv /\ DataInv /\ OneHolder /\ Room /\ [Next]_vars
      => OneHolder'
  BY RoomInductive DEF DataInv
<1> QED
  BY <1>1, <1>2, DataStart, DataStep, PTL DEF Spec

\* And it holds for one caller, with the upload task beside it: then the data
\* path is right without any condition on the cache.
THEOREM OneCallerIsSafe ==
  ASSUME \A t, u \in Threads : t = u
  PROVE  Spec => [](/\ MappedIsOwned /\ SnapshotPinned /\ DirtyCovered
                    /\ CleanIsSaved /\ ReadsLatest)
<1>1. OneHolder /\ OneClaim /\ ReadersAlone
  BY DEF OneHolder, OneClaim, ReadersAlone
<1> QED
  BY <1>1, ListsOwnTheirCells, SnapshotsStayPinned, DirtyIsCovered,
     CleanBlocksAreStored, ReadsReturnTheLatest, PTL

=============================================================================
