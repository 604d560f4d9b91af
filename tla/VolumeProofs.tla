----------------------------- MODULE VolumeProofs -----------------------------
(***************************************************************************)
(* Proofs about Volume, for any tree, calls, guids and number of crashes:  *)
(* the types of the variables, that a size never goes beyond its data,     *)
(* that the root directory stays, and what an end of the process leaves in *)
(* the container.  There are five layers, each on those before it:         *)
(*                                                                         *)
(*   IInv   what a blob's metadata and its data say of each other, which   *)
(*          depends on what the task has still to send, that on the file   *)
(*          in memory at its snapshot, and that on what the last mount has *)
(*          loaded.  A file that is loaded with a size and without data    *)
(*          (Hollow) cannot be opened; that no call makes it longer or     *)
(*          shorter is what keeps the next upload of it harmless.          *)
(*   SInv   what a file that is Clean, Uploading or Dirty has in storage.  *)
(*   LInv   the links that directories without damage hold: no more than   *)
(*          are counted, and each leads to a file.                         *)
(*   RInv   the root directory: nothing takes away its entry for itself.   *)
(*   EInv   without damage: exact counts, unique names, and a tree.        *)
(*                                                                         *)
(* LInv, RInv and EInv are about files as they are in memory or else in    *)
(* storage, and about the records that a call is going to write.           *)
(***************************************************************************)
EXTENDS Volume, FiniteSetTheorems, SequenceTheorems, WellFoundedInduction,
        TLAPS

\* All of the file's size is there, and all that its blob counts.
Intact(g) ==
  /\ obj[g].size <= Len(obj[g].recs)
  /\ meta[g] # None => meta[g].size <= Len(obj[g].recs)

\* The mount found a size and no data.
Hollow(g) == obj[g].recs = <<>> /\ obj[g].size > 0

\* What the call in hand is about to create.
Create == {"reg", "dir"}
New(g) == call # <<>> /\ Head(call).op \in Create /\ Head(call).g = g

\* The process has a rootdir, or nothing.
Forgotten ==
  IF mounted
  THEN rootdir \in Guids
  ELSE /\ \A g \in Guids : obj[g] = None
       /\ upload_queue = <<>> /\ task = NoTask /\ call = <<>> /\ hand = NoHand

Files == \A g \in Guids : obj[g] # None => Intact(g) \/ Hollow(g)
Blobs == \A g \in Guids : meta[g] # None => data[g] # None
Given == \A g \in Guids : obj[g] # None \/ data[g] # None => g \in uuids

Waiting ==
  \A i \in DOMAIN upload_queue :
    obj[upload_queue[i]] # None /\ obj[upload_queue[i]].status = "Dirty"

\* What CommitBlocks has written.
Written(o) == IF o.size = 0 THEN <<>> ELSE o.recs

Uploading ==
  task # NoTask =>
    /\ obj[task.g] # None
    /\ Len(task.snap.recs) <= Len(obj[task.g].recs)
    /\ \/ task.snap.size <= Len(task.snap.recs)
       \/ task.snap.recs = <<>> /\ Hollow(task.g)
    /\ task.todo = "blocks" /\ meta[task.g] # None =>
         meta[task.g].size <= Len(task.snap.recs) \/ task.snap.recs = <<>>
    /\ task.todo = "metadata" => data[task.g] = Written(task.snap)

\* What the call still has to do is about files that are there, or the new one.
Entries == [name : EntryNames, g : Guids]
OpenDir(g) == obj[g] # None /\ obj[g].kind = "dir" /\ Intact(g)
Known(g) == obj[g] # None \/ New(g)
KnownDir(g) == OpenDir(g) \/ (New(g) /\ Head(call).op = "dir")
Fresh(u) == obj[u.g] = None /\ data[u.g] = None /\ u.g \in uuids
Sound(u) ==
  /\ u.op \in {"addEntry", "rmEntry"} => KnownDir(u.g)
  /\ u.op = "addEntry" => u.rec \in Entries /\ Known(u.rec.g)
  /\ u.op = "rmEntry" => u.rec \in [name : EntryNames, g : {None}]
  /\ u.op = "container" => u.g = rootdir
Calls ==
  \A i \in DOMAIN call : IF call[i].op \in Create THEN i = 1 /\ Fresh(call[i])
                                                  ELSE Sound(call[i])

\* Where addEntry and rmEntry have come to.
Holding ==
  hand # NoHand =>
    /\ OpenDir(hand.d)
    /\ \A i \in DOMAIN call : call[i].op \notin Create
    /\ hand.step \in {"grow", "place"} =>
         hand.rec \in Entries /\ obj[hand.rec.g] # None
    /\ hand.step \in {"move", "close"} => hand.rec = JunkRecord
    /\ hand.step = "grow" => hand.i = obj[hand.d].size + 1
    /\ hand.step = "move" => hand.i < obj[hand.d].size
    /\ hand.step \in {"place", "close"} => hand.i = obj[hand.d].size

IInv == /\ TypeOK /\ Forgotten /\ Files /\ Blobs /\ Given /\ Waiting
        /\ Uploading /\ Calls /\ Holding /\ SizeWithinData

-----------------------------------------------------------------------------
LEMMA TypeFacts ==
  /\ \A o \in Objects : /\ o # None /\ o.recs \in Seq(Records)
                        /\ o.size \in Nat /\ Len(o.recs) \in Nat
  /\ \A s \in Seq(Records) : s # None /\ Len(s) \in Nat
  /\ \A m \in Metas : m # None /\ m.size \in Nat
  /\ None \notin Guids
  /\ NoTask \notin Tasks
  /\ NoHand \notin Hands
  /\ JunkRecord \in Records
  /\ \A r \in Records : /\ r.name \in EntryNames => r.g \in Guids
                        /\ r.g # None => r \in Entries
                        /\ r.g = None => r = JunkRecord
<1>1. \A s \in Seq(Records) : Len(s) \in Nat
  BY LenProperties
<1>2. \A r \in Records : /\ r.name \in EntryNames => r.g \in Guids
                         /\ r.g # None => r \in Entries
                         /\ r.g = None => r = JunkRecord
  BY VolumeAssumption DEF Records, Entries, JunkRecord, Record
<1>3. NoHand \notin Hands /\ JunkRecord \in Records
  BY DEF NoHand, Hands, Records
<1> QED
  BY <1>1, <1>2, <1>3, VolumeAssumption DEF Objects, Metas, Tasks, NoTask

\* What IInv says of a file in memory, of a blob and of the task.
LEMMA Shape ==
  ASSUME IInv
  PROVE  /\ \A g \in Guids : obj[g] # None =>
              obj[g] \in Objects /\ g \in uuids
         /\ \A g \in Guids : meta[g] # None => meta[g] \in Metas
         /\ \A g \in Guids : data[g] # None => data[g] \in Seq(Records)
         /\ task # NoTask => task \in Tasks /\ task.g \in Guids
                             /\ task.snap \in Objects
BY DEF IInv, TypeOK, Given, Tasks

LEMMA FindFacts ==
  ASSUME NEW d \in Guids, obj[d] \in Objects, Intact(d),
         NEW nm \in EntryNames, Has(d, nm)
  PROVE  LET i == First(Find(d, nm))
         IN /\ i \in 1..obj[d].size
            /\ obj[d].recs[i] \in Records /\ obj[d].recs[i].name = nm
            /\ obj[d].recs[i].g \in Guids
            /\ obj[d].size \in Nat \ {0}
            /\ obj[d].recs[obj[d].size] \in Records
            /\ \A j \in 1..obj[d].size : obj[d].recs[j].name = nm => i <= j
<1> DEFINE S == Find(d, nm)
           i == First(S)
<1>1. obj[d].size \in Nat /\ obj[d].recs \in Seq(Records)
      /\ Len(obj[d].recs) \in Nat /\ obj[d].size <= Len(obj[d].recs)
  BY TypeFacts DEF Intact
<1>2. S \subseteq Nat /\ S # {}
  BY <1>1 DEF Find, Has
<1>3. \E x \in S : \A y \in S : x <= y
  <2> HIDE DEF S
  <2>1. \E x \in S : \A y \in S : ~ (<<y, x>> \in OpToRel(<, Nat))
    BY <1>2, NatLessThanWellFounded, WFMin, Zenon
  <2>2. ASSUME NEW x \in S, NEW y \in S, ~ (<<y, x>> \in OpToRel(<, Nat))
        PROVE  x <= y
    BY <1>2, <2>2 DEF OpToRel
  <2> QED
    BY <2>1, <2>2
<1>4. i \in S /\ \A y \in S : i <= y
  <2> HIDE DEF S
  <2> QED
    BY <1>3 DEF First
<1>5. i \in 1..obj[d].size /\ obj[d].recs[i].name = nm
  BY <1>4 DEF Find
<1>8. \A j \in 1..obj[d].size : obj[d].recs[j].name = nm => i <= j
  BY <1>4 DEF Find
<1>6. i \in 1..Len(obj[d].recs) /\ obj[d].size \in 1..Len(obj[d].recs)
  BY <1>1, <1>5
<1>7. obj[d].recs[i] \in Records /\ obj[d].recs[obj[d].size] \in Records
  BY <1>1, <1>6, ElementOfSeq
<1> QED
  BY <1>1, <1>5, <1>6, <1>7, <1>8, TypeFacts

-----------------------------------------------------------------------------
\* The upload thread and its task.

Statuses == {"Dirty", "Uploading", "Clean"}

LEMMA StatusSet ==
  ASSUME obj \in [Guids -> Objects \cup {None}], NEW g \in Guids,
         obj[g] \in Objects, NEW s \in Statuses,
         obj' = [obj EXCEPT ![g].status = s]
  PROVE  /\ obj' \in [Guids -> Objects \cup {None}]
         /\ \A h \in Guids \ {g} : obj'[h] = obj[h]
         /\ obj'[g] \in Objects /\ obj'[g].status = s
         /\ obj'[g].recs = obj[g].recs /\ obj'[g].size = obj[g].size
         /\ obj'[g].kind = obj[g].kind /\ obj'[g].nlink = obj[g].nlink
         /\ obj'[g].exist = obj[g].exist
<1> DEFINE o == [obj[g] EXCEPT !.status = s]
<1>1. /\ o \in Objects /\ o.status = s /\ o.recs = obj[g].recs
      /\ o.size = obj[g].size /\ o.kind = obj[g].kind
      /\ o.nlink = obj[g].nlink /\ o.exist = obj[g].exist
  BY DEF Objects, Statuses
<1>2. obj' = [obj EXCEPT ![g] = o]
  OBVIOUS
<1> HIDE DEF o
<1> QED
  BY <1>1, <1>2

\* What a step leaves of a file in memory.
Kept(g) ==
  obj[g] # None => /\ obj'[g] # None /\ obj'[g].kind = obj[g].kind
                   /\ Intact(g) => Intact(g)'

LEMMA KeptDir ==
  ASSUME NEW g \in Guids, Kept(g), OpenDir(g)
  PROVE  OpenDir(g)'
BY DEF Kept, OpenDir

\* A step that leaves the call, and the files in memory but for a status.
LEMMA CallsLeft ==
  ASSUME IInv, UNCHANGED <<call, hand, rootdir, uuids>>,
         \A g \in Guids : obj[g] = None => obj'[g] = None /\ data'[g] = data[g],
         \A g \in Guids : Kept(g),
         \A g \in Guids : obj[g] # None => obj'[g].size = obj[g].size
  PROVE  Calls' /\ Holding'
<1>1. \A g \in Guids : Known(g) => Known(g)'
  BY DEF Known, New, Kept
<1>2. \A g \in Guids : KnownDir(g) => KnownDir(g)'
  BY KeptDir DEF KnownDir, New
<1>3. Calls'
  <2> SUFFICES ASSUME NEW i \in DOMAIN call
               PROVE  IF call[i].op \in Create
                      THEN i = 1 /\ Fresh(call[i])' ELSE Sound(call[i])'
    BY DEF Calls
  <2>1. call \in Seq(Updates)
    BY DEF IInv, TypeOK
  <2>2. PICK u \in Updates : u = call[i]
    BY <2>1, ElementOfSeq, LenProperties
  <2>3. u.g \in Guids
    BY DEF Updates
  <2>4. CASE u.op \in Create
    <3>1. i = 1 /\ Fresh(u)
      BY <2>2, <2>4 DEF IInv, Calls
    <3>2. Fresh(u)'
      BY <2>3, <3>1 DEF Fresh
    <3> QED
      BY <2>2, <2>4, <3>1, <3>2
  <2>5. CASE u.op \notin Create
    <3>1. Sound(u)
      BY <2>2, <2>5 DEF IInv, Calls
    <3>2. u.rec \in Entries => u.rec.g \in Guids
      BY DEF Entries
    <3>3. Sound(u)'
      BY <1>1, <1>2, <2>3, <3>1, <3>2 DEF Sound
    <3> QED
      BY <2>2, <2>5, <3>3
  <2> QED
    BY <2>4, <2>5
<1>4. Holding'
  <2> SUFFICES ASSUME hand # NoHand PROVE Holding'
    BY DEF Holding
  <2>1. hand \in Hands /\ Holding
    BY DEF IInv, TypeOK
  <2>2. PICK d \in Guids : d = hand.d
    BY <2>1 DEF Hands
  <2>3. OpenDir(d)' /\ obj'[d].size = obj[d].size
    BY <2>1, <2>2, KeptDir DEF Holding, OpenDir
  <2>4. hand.rec \in Entries => hand.rec.g \in Guids
    BY DEF Entries
  <2> QED
    BY <2>1, <2>2, <2>3, <2>4 DEF Holding, Kept
<1> QED
  BY <1>3, <1>4

LEMMA LaunchKept == ASSUME IInv, Launch PROVE IInv'
<1> DEFINE g == Head(upload_queue)
<1> USE DEF storage, history
<1>1. /\ upload_queue \in Seq(Guids) /\ upload_queue # <<>>
      /\ mounted /\ task = NoTask
  BY DEF Launch, IInv, TypeOK
<1>2. /\ g \in Guids /\ Tail(upload_queue) \in Seq(Guids)
      /\ Len(upload_queue) \in Nat \ {0} /\ g = upload_queue[1]
      /\ DOMAIN upload_queue = 1..Len(upload_queue)
      /\ DOMAIN Tail(upload_queue) = 1..Len(upload_queue) - 1
      /\ \A i \in 1..Len(upload_queue) - 1 :
           Tail(upload_queue)[i] = upload_queue[i + 1]
  BY <1>1, HeadTailProperties, LenProperties, EmptySeq
<1>3. obj[g] # None /\ obj[g].status = "Dirty" /\ obj[g] \in Objects
  BY <1>2 DEF IInv, Waiting, TypeOK
<1>4. /\ obj' = [obj EXCEPT ![g].status = "Uploading"]
      /\ upload_queue' = Tail(upload_queue)
      /\ task' = [g |-> g, todo |-> IF obj[g].exist THEN "blocks" ELSE "delete",
                  snap |-> obj[g]]
      /\ UNCHANGED <<mounted, rootdir, call, hand, container, data, meta, uuids, lost,
                     ops, crashes>>
  BY DEF Launch
<1>5. /\ obj' \in [Guids -> Objects \cup {None}]
      /\ \A h \in Guids \ {g} : obj'[h] = obj[h]
      /\ obj'[g] \in Objects
      /\ obj'[g].recs = obj[g].recs /\ obj'[g].size = obj[g].size
      /\ obj'[g].kind = obj[g].kind
  <2>1. obj \in [Guids -> Objects \cup {None}]
    BY DEF IInv, TypeOK
  <2> HIDE DEF g
  <2> QED
    BY <2>1, <1>2, <1>3, <1>4, StatusSet DEF Statuses
<1>6. task' \in Tasks /\ task'.g = g /\ task'.snap = obj[g]
      /\ task'.todo \in {"blocks", "delete"}
  BY <1>2, <1>3, <1>4 DEF Tasks
<1> HIDE DEF g
<1>7. \A i, j \in DOMAIN upload_queue :
        upload_queue[i] = upload_queue[j] => i = j
  BY DEF IInv, TypeOK
<1>8. \A i \in DOMAIN upload_queue' :
        /\ i + 1 \in DOMAIN upload_queue
        /\ upload_queue'[i] = upload_queue[i + 1]
        /\ upload_queue'[i] # g
  <2> SUFFICES ASSUME NEW i \in 1..Len(upload_queue) - 1
               PROVE  /\ i + 1 \in 1..Len(upload_queue)
                      /\ Tail(upload_queue)[i] = upload_queue[i + 1]
                      /\ Tail(upload_queue)[i] # g
    BY <1>2, <1>4
  <2>1. i + 1 \in 1..Len(upload_queue) /\ 1 \in 1..Len(upload_queue)
        /\ i + 1 # 1
    BY <1>2
  <2>2. upload_queue[i + 1] # upload_queue[1]
    BY <1>2, <1>7, <2>1
  <2> QED
    BY <1>2, <2>1, <2>2
<1>9. \A h \in Guids : /\ obj[h] = None <=> obj'[h] = None
                       /\ obj[h] # None => /\ obj'[h].recs = obj[h].recs
                                        /\ obj'[h].size = obj[h].size
                                        /\ obj'[h].kind = obj[h].kind
  BY <1>3, <1>5, TypeFacts
<1>10. \A h \in Guids : obj[h] # None /\ Intact(h) => Intact(h)'
  BY <1>4, <1>9 DEF Intact
<1>11. \A h \in Guids : obj[h] # None /\ Hollow(h) => Hollow(h)'
  BY <1>4, <1>9 DEF Hollow
<1>12. TypeOK'
  <2>1. \A i, j \in DOMAIN upload_queue' :
          upload_queue'[i] = upload_queue'[j] => i = j
    <3> SUFFICES ASSUME NEW i \in DOMAIN upload_queue',
                        NEW j \in DOMAIN upload_queue',
                        upload_queue'[i] = upload_queue'[j]
                 PROVE  i = j
      OBVIOUS
    <3>1. i + 1 = j + 1
      BY <1>7, <1>8
    <3>2. i \in Nat /\ j \in Nat
      BY <1>2, <1>4
    <3> QED
      BY <3>1, <3>2
  <2> QED
    BY <1>2, <1>4, <1>5, <1>6, <2>1 DEF IInv, TypeOK
<1>13. Forgotten' /\ Files' /\ Blobs' /\ Given' /\ SizeWithinData'
  BY <1>1, <1>4, <1>9, <1>10, <1>11
  DEF IInv, Forgotten, Files, Blobs, Given, SizeWithinData, Loadable
<1>14. Waiting'
  <2> SUFFICES ASSUME NEW i \in DOMAIN upload_queue'
               PROVE  /\ obj'[upload_queue'[i]] # None
                      /\ obj'[upload_queue'[i]].status = "Dirty"
    BY DEF Waiting
  <2>1. /\ upload_queue'[i] \in Guids \ {g}
        /\ obj[upload_queue'[i]] # None
        /\ obj[upload_queue'[i]].status = "Dirty"
    <3>1. upload_queue[i + 1] \in Guids
      BY <1>1, <1>2, <1>8, ElementOfSeq
    <3> QED
      BY <1>8, <3>1 DEF IInv, Waiting
  <2> QED
    BY <1>5, <2>1
<1>15. Uploading'
  <2>1. Intact(g) \/ Hollow(g)
    BY <1>2, <1>3 DEF IInv, Files
  <2>2. obj[g].recs \in Seq(Records) /\ Len(obj[g].recs) \in Nat
    BY <1>3, TypeFacts
  <2>3. obj'[g] # None
    BY <1>2, <1>3, <1>9
  <2> QED
    BY <1>2, <1>3, <1>4, <1>5, <1>6, <1>11, <2>1, <2>2, <2>3
    DEF Uploading, Intact, Hollow
<1>16. Calls' /\ Holding'
  BY <1>4, <1>9, <1>10, CallsLeft DEF Kept
<1> QED
  BY <1>12, <1>13, <1>14, <1>15, <1>16 DEF IInv

\* The end of the task: what it leaves in memory.
LEMMA FinishFacts ==
  ASSUME IInv, task # NoTask, Finish
  PROVE  /\ obj' \in [Guids -> Objects \cup {None}]
         /\ task' = NoTask
         /\ \A h \in Guids : obj[h] = None <=> obj'[h] = None
         /\ \A h \in Guids : obj[h] # None =>
              /\ obj'[h].recs = obj[h].recs /\ obj'[h].size = obj[h].size
              /\ obj'[h].kind = obj[h].kind
              /\ obj[h].status = "Dirty" => obj'[h].status = "Dirty"
<1> DEFINE g == task.g
           s == IF obj[g].status = "Uploading" THEN "Clean" ELSE obj[g].status
<1>1. /\ g \in Guids /\ obj[g] \in Objects /\ obj[g] # None
      /\ obj \in [Guids -> Objects \cup {None}]
  BY Shape DEF IInv, TypeOK, Uploading
<1>2. s \in Statuses
  BY <1>1 DEF Objects, Statuses
<1>3. obj' = [obj EXCEPT ![g].status = s] /\ task' = NoTask
  BY <1>1 DEF Finish
<1>4. obj[g].status = "Dirty" => s = "Dirty"
  OBVIOUS
<1> HIDE DEF g, s
<1>5. /\ obj' \in [Guids -> Objects \cup {None}]
      /\ \A h \in Guids \ {g} : obj'[h] = obj[h]
      /\ obj'[g] \in Objects /\ obj'[g].status = s
      /\ obj'[g].recs = obj[g].recs /\ obj'[g].size = obj[g].size
      /\ obj'[g].kind = obj[g].kind
  BY <1>1, <1>2, <1>3, StatusSet
<1> QED
  BY <1>1, <1>3, <1>4, <1>5, TypeFacts

LEMMA WaitingLeft ==
  ASSUME IInv, upload_queue' = upload_queue,
         \A h \in Guids : obj[h] = None <=> obj'[h] = None,
         \A h \in Guids : obj[h] # None =>
           (obj[h].status = "Dirty" => obj'[h].status = "Dirty")
  PROVE  Waiting'
<1> SUFFICES ASSUME NEW i \in DOMAIN upload_queue
             PROVE  /\ obj'[upload_queue[i]] # None
                    /\ obj'[upload_queue[i]].status = "Dirty"
  BY DEF Waiting
<1>1. upload_queue[i] \in Guids
  BY ElementOfSeq, LenProperties DEF IInv, TypeOK
<1> QED
  BY <1>1 DEF IInv, Waiting

LEMMA DeleteBlobKept == ASSUME IInv, DeleteBlob PROVE IInv'
<1> USE DEF storage, history
<1> DEFINE g == task.g
<1>1. task # NoTask
  BY DEF DeleteBlob, NoTask
<1>2. /\ obj' \in [Guids -> Objects \cup {None}]
      /\ task' = NoTask
      /\ \A h \in Guids : obj[h] = None <=> obj'[h] = None
      /\ \A h \in Guids : obj[h] # None =>
           /\ obj'[h].recs = obj[h].recs /\ obj'[h].size = obj[h].size
              /\ obj'[h].kind = obj[h].kind
           /\ obj[h].status = "Dirty" => obj'[h].status = "Dirty"
  BY <1>1, FinishFacts DEF DeleteBlob
<1>3. /\ data' = [data EXCEPT ![g] = None] /\ meta' = [meta EXCEPT ![g] = None]
      /\ UNCHANGED <<mounted, rootdir, upload_queue, call, hand, container, uuids, lost,
                     ops, crashes>>
  BY DEF DeleteBlob
<1>4. g \in Guids /\ obj[g] # None
  BY <1>1, Shape DEF IInv, Uploading
<1>5. \A h \in Guids : /\ h = g => data'[h] = None /\ meta'[h] = None
                       /\ h # g => data'[h] = data[h] /\ meta'[h] = meta[h]
  BY <1>3, <1>4 DEF IInv, TypeOK
<1> HIDE DEF g
<1>6. TypeOK'
  BY <1>2, <1>3 DEF IInv, TypeOK
<1>7. \A h \in Guids : obj[h] # None /\ Intact(h) => Intact(h)'
  BY <1>2, <1>5 DEF Intact
<1>8. \A h \in Guids : obj[h] # None /\ Hollow(h) => Hollow(h)'
  BY <1>2 DEF Hollow
<1>9. Forgotten' /\ Files' /\ Blobs' /\ Given' /\ SizeWithinData'
  <2>1. mounted
    BY <1>1 DEF IInv, Forgotten
  <2> QED
    BY <2>1, <1>2, <1>3, <1>5, <1>7, <1>8
    DEF IInv, Forgotten, Files, Blobs, Given, SizeWithinData, Loadable
<1>10. Waiting'
  BY <1>2, <1>3, WaitingLeft
<1>11. Calls' /\ Holding'
  BY <1>2, <1>3, <1>4, <1>5, <1>7, CallsLeft DEF Kept
<1> QED
  BY <1>2, <1>6, <1>9, <1>10, <1>11 DEF IInv, Uploading

LEMMA CommitBlocksKept == ASSUME IInv, CommitBlocks PROVE IInv'
<1> USE DEF storage, history
<1> DEFINE g == task.g
           w == Written(task.snap)
<1>1. task # NoTask /\ task.todo = "blocks"
  BY DEF CommitBlocks, NoTask
<1>2. task \in Tasks /\ g \in Guids /\ task.snap \in Objects /\ obj[g] # None
  BY <1>1, Shape DEF IInv, Uploading
<1>3. /\ data' = [data EXCEPT ![g] = w]
      /\ task' = [task EXCEPT !.todo = "metadata"]
      /\ UNCHANGED <<mounted, rootdir, obj, upload_queue, call, hand, container, meta,
                     uuids, lost, ops, crashes>>
  BY DEF CommitBlocks, Written
<1>4. w \in Seq(Records) /\ w # None
      /\ (w = <<>> \/ (w = task.snap.recs /\ w # <<>>))
  BY <1>2, TypeFacts, EmptySeq DEF Written
<1>5. task' \in Tasks /\ task'.g = g /\ task'.snap = task.snap
      /\ task'.todo = "metadata"
  BY <1>2, <1>3 DEF Tasks
<1>6. /\ data'[g] = w /\ \A h \in Guids \ {g} : data'[h] = data[h]
  BY <1>2, <1>3 DEF IInv, TypeOK
<1>7. meta[g] # None /\ w # <<>> => meta[g].size <= Len(w)
  BY <1>1, <1>4 DEF IInv, Uploading
<1>8. task'.todo = "metadata" => data'[task'.g] = Written(task'.snap)
  BY <1>5, <1>6
<1> HIDE DEF g, w
<1>9. TypeOK'
  BY <1>3, <1>4, <1>5 DEF IInv, TypeOK
<1>10. Forgotten' /\ Files' /\ Blobs' /\ Given'
  <2>1. mounted
    BY <1>1 DEF IInv, Forgotten
  <2>2. ASSUME NEW h \in Guids, Intact(h) PROVE Intact(h)'
    BY <2>2, <1>3 DEF Intact
  <2> QED
    BY <2>1, <1>2, <1>3, <1>4, <1>6
    DEF IInv, Forgotten, Files, Blobs, Given, Intact, Hollow
<1>11. SizeWithinData'
  <2>1. \A h \in Guids \ {g} : Loadable(h)' /\ data'[h] # <<>> =>
                                 meta'[h].size <= Len(data'[h])
    BY <1>3, <1>6 DEF IInv, SizeWithinData, Loadable
  <2> QED
    BY <2>1, <1>3, <1>6, <1>7 DEF SizeWithinData, Loadable
<1>12. Waiting'
  BY <1>3 DEF IInv, Waiting
<1>13. Uploading'
  <2>1. /\ Len(task.snap.recs) <= Len(obj[g].recs)
        /\ \/ task.snap.size <= Len(task.snap.recs)
           \/ task.snap.recs = <<>> /\ Hollow(g)
    BY <1>1 DEF IInv, Uploading, g
  <2> QED
    BY <2>1, <1>2, <1>3, <1>5, <1>8 DEF Uploading, Hollow
<1>14. Calls' /\ Holding'
  <2>1. ASSUME NEW h \in Guids, Intact(h) PROVE Intact(h)'
    BY <2>1, <1>3 DEF Intact
  <2>2. \A h \in Guids : obj[h] = None => data'[h] = data[h]
    BY <1>2, <1>6
  <2> QED
    BY <2>1, <2>2, <1>3, CallsLeft DEF Kept
<1> QED
  BY <1>9, <1>10, <1>11, <1>12, <1>13, <1>14 DEF IInv

LEMMA PutMetadataKept == ASSUME IInv, PutMetadata PROVE IInv'
<1> USE DEF storage, history
<1> DEFINE g == task.g
           o == task.snap
<1>1. task # NoTask /\ task.todo = "metadata"
  BY DEF PutMetadata, NoTask
<1>2. g \in Guids /\ o \in Objects /\ obj[g] # None
  BY <1>1, Shape DEF IInv, Uploading
<1>3. /\ meta' = [meta EXCEPT ![g] = MetadataOf(o)]
      /\ UNCHANGED <<mounted, rootdir, upload_queue, call, hand, container, data, uuids,
                     lost, ops, crashes>>
  BY DEF PutMetadata, Metadata
<1>4. /\ obj' \in [Guids -> Objects \cup {None}]
      /\ task' = NoTask
      /\ \A h \in Guids : obj[h] = None <=> obj'[h] = None
      /\ \A h \in Guids : obj[h] # None =>
           /\ obj'[h].recs = obj[h].recs /\ obj'[h].size = obj[h].size
              /\ obj'[h].kind = obj[h].kind
           /\ obj[h].status = "Dirty" => obj'[h].status = "Dirty"
  BY <1>1, FinishFacts DEF PutMetadata
<1>5. MetadataOf(o) \in Metas /\ MetadataOf(o).size = o.size
  BY <1>2 DEF MetadataOf, Objects, Metas
<1>6. /\ Len(o.recs) <= Len(obj[g].recs)
      /\ o.size <= Len(o.recs) \/ (o.recs = <<>> /\ Hollow(g))
      /\ data[g] = Written(o)
  BY <1>1 DEF IInv, Uploading
<1>7. Len(o.recs) \in Nat /\ o.size \in Nat /\ obj[g].size \in Nat
      /\ Len(obj[g].recs) \in Nat
  BY <1>2, Shape, TypeFacts
<1>8. o.recs \in Seq(Records) /\ <<>> \in Seq(Records) /\ Len(<<>>) = 0
  BY <1>2, TypeFacts, EmptySeq
<1> HIDE DEF g, o
<1>9. /\ meta'[g] = MetadataOf(o) /\ \A h \in Guids \ {g} : meta'[h] = meta[h]
  BY <1>2, <1>3 DEF IInv, TypeOK
<1>10. TypeOK'
  BY <1>3, <1>4, <1>5 DEF IInv, TypeOK
<1>11. \A h \in Guids : obj[h] # None /\ Hollow(h) => Hollow(h)'
  BY <1>4 DEF Hollow
<1>12. \A h \in Guids : obj[h] # None /\ Intact(h) => Intact(h)'
  <2> SUFFICES ASSUME NEW h \in Guids, obj[h] # None, Intact(h)
               PROVE  Intact(h)'
    OBVIOUS
  <2>1. CASE h # g
    BY <2>1, <1>4, <1>9 DEF Intact
  <2>2. CASE h = g
    <3>1. ~Hollow(g)
      BY <2>2, <1>7, <1>8 DEF Intact, Hollow
    <3>2. o.size <= Len(obj[g].recs)
      BY <3>1, <1>6, <1>7
    <3> QED
      BY <2>2, <3>2, <1>2, <1>4, <1>5, <1>9 DEF Intact
  <2> QED
    BY <2>1, <2>2
<1>13. data[g] # None
  BY <1>6, <1>8, TypeFacts DEF Written
<1>14. Forgotten' /\ Files' /\ Blobs' /\ Given'
  <2>1. mounted
    BY <1>1 DEF IInv, Forgotten
  <2> QED
    BY <2>1, <1>3, <1>4, <1>9, <1>11, <1>12, <1>13
    DEF IInv, Forgotten, Files, Blobs, Given
<1>15. SizeWithinData'
  <2>1. \A h \in Guids \ {g} : Loadable(h)' /\ data'[h] # <<>> =>
                                 meta'[h].size <= Len(data'[h])
    BY <1>3, <1>9 DEF IInv, SizeWithinData, Loadable
  <2>2. data'[g] # <<>> => meta'[g].size <= Len(data'[g])
    BY <1>3, <1>5, <1>6, <1>7, <1>9 DEF Written
  <2> QED
    BY <2>1, <2>2 DEF SizeWithinData
<1>16. Waiting'
  BY <1>3, <1>4, WaitingLeft
<1>17. Calls' /\ Holding'
  BY <1>3, <1>4, <1>12, CallsLeft DEF Kept
<1> QED
  BY <1>4, <1>10, <1>14, <1>15, <1>16, <1>17 DEF IInv, Uploading

-----------------------------------------------------------------------------
\* Mounting and its end.

LEMMA ForgetKept ==
  ASSUME IInv, Forget, UNCHANGED <<storage, uuids>>,
         lost' \in SUBSET Guids, ops' \in 0..MaxOps, crashes' \in 0..MaxCrashes
  PROVE  IInv'
<1> USE DEF storage
<1>1. /\ mounted' = FALSE /\ rootdir' = None /\ upload_queue' = <<>>
      /\ task' = NoTask /\ call' = <<>> /\ hand' = NoHand
      /\ obj' = [g \in Guids |-> None]
      /\ UNCHANGED <<container, data, meta, uuids>>
  BY DEF Forget
<1>2. <<>> \in Seq(Guids) /\ <<>> \in Seq(Updates) /\ DOMAIN <<>> = {}
  BY EmptySeq
<1>3. TypeOK'
  BY <1>1, <1>2 DEF IInv, TypeOK
<1>4. Waiting' /\ Calls' /\ Holding'
  BY <1>1, <1>2 DEF Waiting, Calls, Holding
<1>5. Uploading'
  BY <1>1 DEF Uploading
<1> QED
  BY <1>1, <1>3, <1>4, <1>5
  DEF IInv, Forgotten, Files, Blobs, Given, SizeWithinData, Loadable

LEMMA UnmountKept == ASSUME IInv, Unmount PROVE IInv'
<1>1. /\ Forget /\ UNCHANGED <<storage, uuids>>
      /\ UNCHANGED <<lost, ops, crashes>>
  BY DEF Unmount, history
<1> QED
  BY <1>1, ForgetKept DEF IInv, TypeOK

LEMMA CrashKept == ASSUME IInv, Crash PROVE IInv'
<1>1. Forget /\ UNCHANGED <<storage, uuids, ops>>
  BY DEF Crash
<1>2. crashes' \in 0..MaxCrashes
  BY VolumeAssumption DEF Crash, IInv, TypeOK
<1>3. lost' = lost \cup Outstanding /\ lost \subseteq Guids
  BY DEF Crash, IInv, TypeOK
<1>4. {upload_queue[i] : i \in DOMAIN upload_queue} \subseteq Guids
  <2>1. upload_queue \in Seq(Guids)
    BY DEF IInv, TypeOK
  <2> QED
    BY <2>1, ElementOfSeq, LenProperties
<1>5. {task.g} \ {None} \subseteq Guids
  BY DEF IInv, TypeOK, Tasks, NoTask
<1>6. {hand.d, hand.rec.g} \ {None} \subseteq Guids
  BY TypeFacts DEF IInv, TypeOK, Hands, NoHand, JunkRecord, Record, Entries
<1>7. ASSUME NEW i \in DOMAIN call
      PROVE  {call[i].g, call[i].rec.g} \ {None} \subseteq Guids
  <2>1. call \in Seq(Updates)
    BY DEF IInv, TypeOK
  <2>2. PICK u \in Updates : u = call[i]
    BY <2>1, ElementOfSeq, LenProperties
  <2>3. u.g \in Guids /\ u.rec.g \in Guids \cup {None}
    BY DEF Updates, JunkRecord, Record
  <2> QED
    BY <2>2, <2>3
<1>8. Outstanding \subseteq Guids
  BY <1>4, <1>5, <1>6, <1>7 DEF Outstanding
<1> QED
  BY <1>1, <1>2, <1>3, <1>8, ForgetKept DEF IInv, TypeOK

LEMMA MountKept == ASSUME IInv, Mount PROVE IInv'
<1> USE DEF storage, history
<1>1. /\ ~mounted /\ container # None /\ mounted' = TRUE
      /\ rootdir' = container /\ obj' = [g \in Guids |-> Loaded(g)]
      /\ UNCHANGED <<upload_queue, task, call, hand, container, data, meta, uuids, lost,
                     ops, crashes>>
  BY DEF Mount
<1>2. upload_queue = <<>> /\ task = NoTask /\ call = <<>> /\ hand = NoHand
  BY <1>1 DEF IInv, Forgotten
<1>3. \A g \in Guids : obj'[g] # None =>
        /\ Loadable(g) /\ obj'[g] \in Objects
        /\ obj'[g].recs = data[g] /\ obj'[g].size = meta[g].size
  <2> SUFFICES ASSUME NEW g \in Guids, Loadable(g)
               PROVE  /\ Loaded(g) \in Objects /\ Loaded(g).recs = data[g]
                      /\ Loaded(g).size = meta[g].size
    BY <1>1 DEF Loaded
  <2>1. data[g] \in Seq(Records) /\ meta[g] \in Metas
    BY Shape DEF Loadable
  <2> QED
    BY <2>1 DEF Loaded, Objects, Metas
<1>4. \A g \in Guids : obj'[g] \in Objects \cup {None}
  BY <1>3
<1>5. obj' \in [Guids -> Objects \cup {None}]
  BY <1>1, <1>4
<1>6. TypeOK'
  BY <1>1, <1>5 DEF IInv, TypeOK
<1>7. Files'
  <2> SUFFICES ASSUME NEW g \in Guids, obj'[g] # None
               PROVE  (Intact(g) \/ Hollow(g))'
    BY DEF Files
  <2>1. /\ Loadable(g) /\ obj'[g].recs = data[g]
        /\ obj'[g].size = meta[g].size /\ meta[g].size \in Nat
    BY <1>3, Shape, TypeFacts DEF Loadable
  <2>2. CASE data[g] = <<>>
    <3>1. Len(data[g]) = 0
      BY <2>2
    <3> QED
      BY <2>1, <2>2, <3>1, <1>1 DEF Intact, Hollow
  <2>3. CASE data[g] # <<>>
    BY <2>1, <2>3, <1>1 DEF IInv, SizeWithinData, Intact
  <2> QED
    BY <2>2, <2>3
<1>8. Given'
  BY <1>1, <1>3 DEF IInv, Given, Loadable
<1>9. Waiting' /\ Calls' /\ Holding' /\ Uploading'
  BY <1>1, <1>2 DEF Waiting, Calls, Holding, Uploading
<1>10. Forgotten' /\ Blobs' /\ SizeWithinData'
  BY <1>1 DEF IInv, TypeOK, Forgotten, Blobs, SizeWithinData, Loadable
<1> QED
  BY <1>6, <1>7, <1>8, <1>9, <1>10 DEF IInv

-----------------------------------------------------------------------------
\* Calls begin.

LEMMA NewGuidFacts ==
  ASSUME IInv, NewUuid
  PROVE  /\ NewGuid \in Guids /\ obj[NewGuid] = None /\ data[NewGuid] = None
         /\ uuids' = uuids \cup {NewGuid}
<1>1. NewGuid \in Unused
  BY DEF NewUuid, NewGuid
<1> QED
  BY <1>1 DEF Unused, NewUuid, IInv, Given

\* The parts of a call are updates, and what they are.
LEMMA UpdateTypes ==
  ASSUME NEW g \in Guids, NEW h \in Guids, NEW nm \in EntryNames, NEW k \in Create
  PROVE  /\ CreateFile(g, k) \in Updates
         /\ CreateFile(g, k).op = k /\ CreateFile(g, k).g = g
         /\ AddEntry(g, nm, h) \in Updates
         /\ AddEntry(g, nm, h).op = "addEntry" /\ AddEntry(g, nm, h).g = g
         /\ AddEntry(g, nm, h).rec = Record(nm, h)
         /\ RmEntry(g, nm) \in Updates
         /\ RmEntry(g, nm).op = "rmEntry" /\ RmEntry(g, nm).g = g
         /\ RmEntry(g, nm).rec = Record(nm, None)
         /\ Update("container", g, JunkRecord) \in Updates
         /\ Record(nm, h) \in Entries /\ Record(nm, None) \in [name : EntryNames, g : {None}]
         /\ Record(nm, h).g = h /\ Record(nm, h).name = nm
<1>1. /\ Record(nm, h) \in Entries
      /\ Record(nm, None) \in [name : EntryNames, g : {None}]
      /\ Record(nm, h).g = h /\ Record(nm, h).name = nm
  BY DEF Record, Entries
<1>2. CreateFile(g, k) = [op |-> k, g |-> g, rec |-> JunkRecord]
  BY DEF CreateFile, Update
<1>3. AddEntry(g, nm, h) = [op |-> "addEntry", g |-> g, rec |-> Record(nm, h)]
  BY DEF AddEntry, Update
<1>4. RmEntry(g, nm) = [op |-> "rmEntry", g |-> g, rec |-> Record(nm, None)]
  BY DEF RmEntry, Update
<1>5. /\ Record(nm, h) \in [name : EntryNames, g : Guids \cup {None}]
      /\ Record(nm, None) \in [name : EntryNames, g : Guids \cup {None}]
  BY DEF Record
<1> QED
  BY <1>1, <1>2, <1>3, <1>4, <1>5 DEF Updates, Update, Create

\* Calls, one update at a time.
Good(u, i) == u \in Updates /\ IF u.op \in Create THEN i = 1 /\ Fresh(u)
                                                 ELSE Sound(u)

LEMMA OneCall ==
  ASSUME NEW u, Good(u, 1)', call' = <<u>>
  PROVE  Calls' /\ call' \in Seq(Updates)
BY DEF Good, Calls

LEMMA TwoCalls ==
  ASSUME NEW u, NEW v, Good(u, 1)', Good(v, 2)', call' = <<u, v>>
  PROVE  Calls' /\ call' \in Seq(Updates)
<1>1. \A i \in 1..2 : i = 1 \/ i = 2
  OBVIOUS
<1> QED
  BY <1>1 DEF Good, Calls

LEMMA ThreeCalls ==
  ASSUME NEW u, NEW v, NEW w, Good(u, 1)', Good(v, 2)', Good(w, 3)',
         call' = <<u, v, w>>
  PROVE  Calls' /\ call' \in Seq(Updates)
<1>1. \A i \in 1..3 : i = 1 \/ i = 2 \/ i = 3
  OBVIOUS
<1> QED
  BY <1>1 DEF Good, Calls

LEMMA FourCalls ==
  ASSUME NEW u, NEW v, NEW w, NEW x, Good(u, 1)', Good(v, 2)', Good(w, 3)',
         Good(x, 4)', call' = <<u, v, w, x>>
  PROVE  Calls' /\ call' \in Seq(Updates)
<1>1. \A i \in 1..4 : i = 1 \/ i = 2 \/ i = 3 \/ i = 4
  OBVIOUS
<1> QED
  BY <1>1 DEF Good, Calls

\* What the beginning of a call leaves.
LEMMA BeginsKept ==
  ASSUME IInv, mounted', Calls', call' \in Seq(Updates),
         hand' = NoHand, rootdir' \in Guids,
         uuids \subseteq uuids', uuids' \in SUBSET Guids,
         UNCHANGED <<obj, upload_queue, task, container, data, meta>>,
         lost' \in SUBSET Guids, ops' \in 0..MaxOps, crashes' \in 0..MaxCrashes
  PROVE  IInv'
<1>1. TypeOK'
  BY DEF IInv, TypeOK
<1>2. Forgotten' /\ Holding'
  BY DEF Forgotten, Holding
<1>3. Files'
  BY DEF IInv, Files, Intact, Hollow
<1>4. Blobs' /\ SizeWithinData' /\ Waiting' /\ Given'
  BY DEF IInv, Blobs, SizeWithinData, Loadable, Waiting, Given
<1>5. Uploading'
  BY DEF IInv, Uploading, Hollow
<1> QED
  BY <1>1, <1>2, <1>3, <1>4, <1>5 DEF IInv

LEMMA BeginFacts ==
  ASSUME IInv, NEW op, NEW used, NEW changed \in SUBSET Guids, NEW updates,
         Begin(op, used, changed, updates)
  PROVE  /\ mounted' /\ rootdir' = rootdir /\ rootdir \in Guids
         /\ call' = updates /\ hand' = NoHand
         /\ UNCHANGED <<obj, upload_queue, task, container, data, meta>>
         /\ lost' \in SUBSET Guids /\ ops' \in 0..MaxOps
         /\ crashes' \in 0..MaxCrashes
<1>1. /\ mounted' /\ rootdir' = rootdir /\ rootdir \in Guids
      /\ call' = updates /\ hand' = NoHand
      /\ UNCHANGED <<obj, upload_queue, task, container, data, meta>>
      /\ crashes' \in 0..MaxCrashes
  BY DEF Begin, storage, IInv, TypeOK, Forgotten
<1>2. lost' \in SUBSET Guids
  BY DEF Begin, IInv, TypeOK
<1>3. ops' \in 0..MaxOps
  <2>1. ops \in 0..MaxOps /\ MaxOps \in Nat
    BY VolumeAssumption DEF IInv, TypeOK
  <2>2. ops' = ops + 1 \/ ops' = ops + 2
    BY DEF Begin
  <2>3. ops' <= MaxOps
    BY DEF Begin
  <2> QED
    BY <2>1, <2>2, <2>3
<1> QED
  BY <1>1, <1>2, <1>3

\* A directory that is opened has all of its records.
LEMMA DirFacts ==
  ASSUME IInv, NEW d \in Guids, HereDir(d)
  PROVE  /\ OpenDir(d) /\ obj[d] \in Objects
         /\ obj[d].size \in Nat
         /\ \A nm \in EntryNames : Has(d, nm) => Child(d, nm) \in Guids
         /\ \A nm \in EntryNames : Under(d, nm) \subseteq Guids
<1>1. obj[d] # None /\ obj[d].size <= Len(obj[d].recs) /\ obj[d].kind = "dir"
  BY DEF HereDir, Here
<1>2. obj[d] \in Objects /\ obj[d].size \in Nat /\ obj[d].recs \in Seq(Records)
      /\ Len(obj[d].recs) \in Nat
  BY <1>1, Shape, TypeFacts
<1>3. Intact(d)
  <2>1. ~Hollow(d)
    <3>1. ASSUME obj[d].recs = <<>> PROVE Len(obj[d].recs) = 0
      BY <3>1
    <3> QED
      BY <1>1, <1>2, <3>1 DEF Hollow
  <2> QED
    BY <1>1, <2>1 DEF IInv, Files
<1>4. ASSUME NEW nm \in EntryNames, Has(d, nm) PROVE Child(d, nm) \in Guids
  BY <1>2, <1>3, <1>4, FindFacts DEF Child
<1>5. ASSUME NEW nm \in EntryNames PROVE Under(d, nm) \subseteq Guids
  <2>1. ASSUME NEW i \in Find(d, nm) PROVE obj[d].recs[i].g \in Guids
    <3>1. i \in 1..Len(obj[d].recs) /\ obj[d].recs[i].name = nm
      BY <1>1, <1>2 DEF Find
    <3>2. obj[d].recs[i] \in Records
      BY <1>2, <3>1, ElementOfSeq
    <3> QED
      BY <3>1, <3>2, TypeFacts
  <2> QED
    BY <2>1 DEF Under
<1> QED
  BY <1>1, <1>2, <1>3, <1>4, <1>5 DEF OpenDir

\* What a callback leaves, whichever it is.
LEMMA SameFiles ==
  ASSUME UNCHANGED <<obj, data, meta>>, NEW g \in Guids
  PROVE  /\ OpenDir(g) => OpenDir(g)'
         /\ obj[g] # None => Known(g)'
         /\ OpenDir(g) => KnownDir(g)'
BY DEF OpenDir, Intact, Known, KnownDir

LEMMA CreateKept ==
  ASSUME IInv, NEW d \in Guids, NEW nm \in Names, azs_create(d, nm)
  PROVE  IInv'
<1>1. HereDir(d) /\ NewUuid /\ OpenDir(d)
  BY DirFacts DEF azs_create
<1>2. PICK g \in Guids : g = NewGuid
  BY <1>1, NewGuidFacts
<1>3. obj[g] = None /\ data[g] = None /\ uuids' = uuids \cup {g}
  BY <1>1, <1>2, NewGuidFacts
<1> DEFINE u == CreateFile(g, "reg")
           v == AddEntry(d, nm, g)
<1>4. Begin("create", {d}, {g}, <<u, v>>)
  BY <1>2 DEF azs_create
<1>5. "reg" \in Create /\ nm \in EntryNames /\ {g} \in SUBSET Guids
  BY DEF Create, EntryNames
<1>6. /\ u \in Updates /\ u.op = "reg" /\ u.g = g
      /\ v \in Updates /\ v.op = "addEntry" /\ v.g = d
      /\ v.rec = Record(nm, g) /\ v.rec \in Entries /\ v.rec.g = g
  BY <1>5, UpdateTypes
<1> HIDE DEF u, v
<1>7. /\ mounted' /\ rootdir' = rootdir /\ rootdir \in Guids
      /\ call' = <<u, v>> /\ hand' = NoHand
      /\ UNCHANGED <<obj, upload_queue, task, container, data, meta>>
      /\ lost' \in SUBSET Guids /\ ops' \in 0..MaxOps
      /\ crashes' \in 0..MaxCrashes
  BY <1>4, <1>5, BeginFacts
<1>8. New(g)'
  BY <1>5, <1>6, <1>7 DEF New
<1>9. Good(u, 1)'
  BY <1>3, <1>5, <1>6, <1>7 DEF Good, Fresh
<1>10. Good(v, 2)'
  <2>1. KnownDir(d)' /\ Known(g)'
    BY <1>1, <1>7, <1>8, SameFiles DEF Known
  <2> QED
    BY <1>6, <2>1 DEF Good, Sound, Create
<1>11. Calls' /\ call' \in Seq(Updates)
  BY <1>7, <1>9, <1>10, TwoCalls
<1>12. uuids \subseteq uuids' /\ uuids' \in SUBSET Guids
  BY <1>3 DEF IInv, TypeOK
<1> QED
  BY <1>7, <1>11, <1>12, BeginsKept

\* A new directory, with its entries.
LEMMA NewDirGood ==
  ASSUME NEW g \in Guids, NEW p \in Guids, NEW u, NEW v, NEW w,
         u = CreateFile(g, "dir"), v = AddEntry(g, Dot, g),
         w = AddEntry(g, DotDot, p),
         call' # <<>>, Head(call') = u, Known(p)', obj'[g] = None,
         data'[g] = None, g \in uuids'
  PROVE  /\ Good(u, 1)' /\ Good(v, 2)' /\ Good(w, 3)'
         /\ New(g)' /\ Known(g)'
<1>1. "dir" \in Create /\ Dot \in EntryNames /\ DotDot \in EntryNames
  BY DEF Create, EntryNames
<1>2. /\ u \in Updates /\ u.op = "dir" /\ u.g = g
      /\ v \in Updates /\ v.op = "addEntry" /\ v.g = g /\ v.rec \in Entries
      /\ w \in Updates /\ w.op = "addEntry" /\ w.g = g /\ w.rec \in Entries
      /\ v.rec.g = g /\ w.rec.g = p
  BY <1>1, UpdateTypes
<1>3. New(g)' /\ KnownDir(g)' /\ Known(g)'
  BY <1>1, <1>2 DEF New, KnownDir, Known
<1> QED
  BY <1>1, <1>2, <1>3 DEF Good, Sound, Create, Fresh

LEMMA MkdirKept ==
  ASSUME IInv, NEW d \in Guids, NEW nm \in Names, azs_mkdir(d, nm)
  PROVE  IInv'
<1>1. HereDir(d) /\ NewUuid /\ OpenDir(d)
  BY DirFacts DEF azs_mkdir
<1>2. PICK g \in Guids : g = NewGuid
  BY <1>1, NewGuidFacts
<1>3. obj[g] = None /\ data[g] = None /\ uuids' = uuids \cup {g}
  BY <1>1, <1>2, NewGuidFacts
<1> DEFINE u == CreateFile(g, "dir")
           v == AddEntry(g, Dot, g)
           w == AddEntry(g, DotDot, d)
           x == AddEntry(d, nm, g)
<1>4. Begin("mkdir", {d}, {g}, <<u, v, w, x>>)
  BY <1>2 DEF azs_mkdir
<1>5. nm \in EntryNames /\ {g} \in SUBSET Guids
  BY DEF EntryNames
<1>6. /\ x \in Updates /\ x.op = "addEntry" /\ x.g = d
      /\ x.rec \in Entries /\ x.rec.g = g
  BY <1>5, UpdateTypes DEF Create
<1>7. /\ mounted' /\ rootdir' = rootdir /\ rootdir \in Guids
      /\ call' = <<u, v, w, x>> /\ hand' = NoHand
      /\ UNCHANGED <<obj, upload_queue, task, container, data, meta>>
      /\ lost' \in SUBSET Guids /\ ops' \in 0..MaxOps
      /\ crashes' \in 0..MaxCrashes
  BY <1>4, <1>5, BeginFacts
<1>8. KnownDir(d)' /\ Known(d)'
  BY <1>1, <1>7, SameFiles DEF OpenDir
<1>9. PICK uu, vv, ww : uu = u /\ vv = v /\ ww = w
  OBVIOUS
<1>10. call' = <<uu, vv, ww, x>>
  BY <1>7, <1>9
<1>11. call' # <<>> /\ Head(call') = uu
  BY <1>10
<1>12. Good(uu, 1)' /\ Good(vv, 2)' /\ Good(ww, 3)' /\ New(g)' /\ Known(g)'
  BY <1>3, <1>7, <1>8, <1>9, <1>11, NewDirGood
<1> HIDE DEF x
<1>13. Good(x, 4)'
  BY <1>6, <1>8, <1>12 DEF Good, Sound, Create
<1>14. Calls' /\ call' \in Seq(Updates)
  BY <1>10, <1>12, <1>13, FourCalls
<1>15. uuids \subseteq uuids' /\ uuids' \in SUBSET Guids
  BY <1>3 DEF IInv, TypeOK
<1> QED
  BY <1>7, <1>14, <1>15, BeginsKept

\* A new rootdir; the container names it last.
LEMMA FirstMountKept == ASSUME IInv, FirstMount PROVE IInv'
<1>1. /\ ~mounted /\ NewUuid /\ NewRoot(NewGuid)
  BY DEF FirstMount
<1>2. PICK g \in Guids : g = NewGuid
  BY <1>1, NewGuidFacts
<1>3. obj[g] = None /\ data[g] = None /\ uuids' = uuids \cup {g}
  BY <1>1, <1>2, NewGuidFacts
<1> DEFINE u == CreateFile(g, "dir")
           v == AddEntry(g, Dot, g)
           w == AddEntry(g, DotDot, g)
           x == Update("container", g, JunkRecord)
<1>4. /\ mounted' /\ rootdir' = g /\ call' = <<u, v, w, x>>
      /\ UNCHANGED <<obj, upload_queue, task, hand, container, data, meta, lost,
                     ops, crashes>>
  BY <1>1, <1>2 DEF NewRoot, storage
<1>5. x \in Updates /\ x.op = "container" /\ x.g = g
  BY DEF Update, Updates
<1>6. PICK uu, vv, ww : uu = u /\ vv = v /\ ww = w
  OBVIOUS
<1>7. call' = <<uu, vv, ww, x>>
  BY <1>4, <1>6
<1>8. call' # <<>> /\ Head(call') = uu
  BY <1>7
<1>9. Known(g)'
  <2>1. uu.op = "dir" /\ uu.g = g
    BY <1>6 DEF CreateFile, Update
  <2> QED
    BY <1>8, <2>1 DEF Known, New, Create
<1>10. Good(uu, 1)' /\ Good(vv, 2)' /\ Good(ww, 3)'
  BY <1>3, <1>4, <1>6, <1>8, <1>9, NewDirGood
<1> HIDE DEF x
<1>11. Good(x, 4)'
  BY <1>4, <1>5 DEF Good, Sound, Create
<1>12. Calls' /\ call' \in Seq(Updates)
  BY <1>7, <1>10, <1>11, FourCalls
<1>13. uuids \subseteq uuids' /\ uuids' \in SUBSET Guids
  BY <1>3 DEF IInv, TypeOK
<1>14. /\ lost' \in SUBSET Guids /\ ops' \in 0..MaxOps
       /\ crashes' \in 0..MaxCrashes /\ hand' = NoHand
  BY <1>1, <1>4 DEF IInv, TypeOK, Forgotten
<1> QED
  BY <1>4, <1>12, <1>13, <1>14, BeginsKept

LEMMA RmGood ==
  ASSUME NEW d \in Guids, NEW nm \in EntryNames, KnownDir(d)', NEW i
  PROVE  Good(RmEntry(d, nm), i)'
<1>1. PICK u : u = RmEntry(d, nm)
  OBVIOUS
<1>2. /\ u \in Updates /\ u.op = "rmEntry" /\ u.g = d
      /\ u.rec \in [name : EntryNames, g : {None}]
  BY <1>1, UpdateTypes DEF Create
<1>3. Good(u, i)'
  BY <1>2 DEF Good, Sound, Create
<1> QED
  BY <1>1, <1>3

LEMMA UnlinkKept ==
  ASSUME IInv, NEW d \in Guids, NEW nm \in Names, azs_unlink(d, nm)
  PROVE  IInv'
<1>1. /\ HereDir(d) /\ uuids' = uuids
      /\ Begin("unlink", {d}, Under(d, nm), <<RmEntry(d, nm)>>)
  BY DEF azs_unlink
<1>2. OpenDir(d) /\ nm \in EntryNames /\ Under(d, nm) \in SUBSET Guids
  BY <1>1, DirFacts DEF EntryNames
<1>3. /\ mounted' /\ rootdir' = rootdir /\ rootdir \in Guids
      /\ call' = <<RmEntry(d, nm)>> /\ hand' = NoHand
      /\ UNCHANGED <<obj, upload_queue, task, container, data, meta>>
      /\ lost' \in SUBSET Guids /\ ops' \in 0..MaxOps
      /\ crashes' \in 0..MaxCrashes
  BY <1>1, <1>2, BeginFacts
<1>4. Good(RmEntry(d, nm), 1)'
  BY <1>2, <1>3, SameFiles, RmGood
<1>5. Calls' /\ call' \in Seq(Updates)
  BY <1>3, <1>4, OneCall
<1> QED
  BY <1>1, <1>3, <1>5, BeginsKept DEF IInv, TypeOK

LEMMA RmdirKept ==
  ASSUME IInv, NEW d \in Guids, NEW nm \in Names, azs_rmdir(d, nm)
  PROVE  IInv'
<1>1. HereDir(d) /\ Has(d, nm) /\ HereDir(Child(d, nm)) /\ uuids' = uuids
  BY DEF azs_rmdir
<1>2. OpenDir(d) /\ nm \in EntryNames /\ Under(d, nm) \in SUBSET Guids
      /\ Child(d, nm) \in Guids
  BY <1>1, DirFacts DEF EntryNames
<1>3. PICK g \in Guids : g = Child(d, nm)
  BY <1>2
<1>4. Dot \in EntryNames /\ DotDot \in EntryNames
  BY DEF EntryNames
<1>5. /\ OpenDir(g) /\ Under(g, Dot) \in SUBSET Guids
      /\ Under(g, DotDot) \in SUBSET Guids
  BY <1>1, <1>3, <1>4, DirFacts
<1> DEFINE changed == Under(d, nm) \cup Under(g, Dot) \cup Under(g, DotDot)
<1>6. Begin("rmdir", {d, g}, changed,
            <<RmEntry(g, DotDot), RmEntry(g, Dot), RmEntry(d, nm)>>)
  BY <1>3 DEF azs_rmdir
<1>7. changed \in SUBSET Guids
  BY <1>2, <1>5
<1> HIDE DEF changed
<1>8. /\ mounted' /\ rootdir' = rootdir /\ rootdir \in Guids
      /\ call' = <<RmEntry(g, DotDot), RmEntry(g, Dot), RmEntry(d, nm)>>
      /\ hand' = NoHand
      /\ UNCHANGED <<obj, upload_queue, task, container, data, meta>>
      /\ lost' \in SUBSET Guids /\ ops' \in 0..MaxOps
      /\ crashes' \in 0..MaxCrashes
  BY <1>6, <1>7, BeginFacts
<1>9. KnownDir(g)' /\ KnownDir(d)'
  BY <1>2, <1>5, <1>8, SameFiles
<1>10. /\ Good(RmEntry(g, DotDot), 1)' /\ Good(RmEntry(g, Dot), 2)'
       /\ Good(RmEntry(d, nm), 3)'
  BY <1>2, <1>4, <1>9, RmGood
<1>11. Calls' /\ call' \in Seq(Updates)
  BY <1>8, <1>10, ThreeCalls
<1> QED
  BY <1>1, <1>8, <1>11, BeginsKept DEF IInv, TypeOK

LEMMA RenameKept ==
  ASSUME IInv, NEW d \in Guids, NEW nm \in Names, NEW e \in Guids,
         NEW to \in Names, azs_rename(d, nm, e, to)
  PROVE  IInv'
<1>1. /\ HereDir(d) /\ Has(d, nm) /\ HereDir(e) /\ Here(Child(d, nm))
      /\ uuids' = uuids
  BY DEF azs_rename
<1>2. OpenDir(d) /\ nm \in EntryNames /\ Under(d, nm) \in SUBSET Guids
      /\ Child(d, nm) \in Guids /\ OpenDir(e) /\ to \in EntryNames
  BY <1>1, DirFacts DEF EntryNames
<1>3. PICK g \in Guids : g = Child(d, nm)
  BY <1>2
<1>4. Begin("rename", {d, e}, Under(d, nm), <<AddEntry(e, to, g), RmEntry(d, nm)>>)
  BY <1>3 DEF azs_rename
<1>5. /\ mounted' /\ rootdir' = rootdir /\ rootdir \in Guids
      /\ call' = <<AddEntry(e, to, g), RmEntry(d, nm)>> /\ hand' = NoHand
      /\ UNCHANGED <<obj, upload_queue, task, container, data, meta>>
      /\ lost' \in SUBSET Guids /\ ops' \in 0..MaxOps
      /\ crashes' \in 0..MaxCrashes
  BY <1>2, <1>4, BeginFacts
<1>6. KnownDir(d)' /\ KnownDir(e)' /\ Known(g)'
  BY <1>1, <1>2, <1>3, <1>5, SameFiles DEF Here
<1>7. Good(RmEntry(d, nm), 2)'
  BY <1>2, <1>6, RmGood
<1>8. PICK u : u = AddEntry(e, to, g)
  OBVIOUS
<1>9. /\ u \in Updates /\ u.op = "addEntry" /\ u.g = e
      /\ u.rec \in Entries /\ u.rec.g = g
  BY <1>2, <1>8, UpdateTypes DEF Create
<1>10. Good(u, 1)'
  BY <1>6, <1>9 DEF Good, Sound, Create
<1>11. Calls' /\ call' \in Seq(Updates)
  BY <1>5, <1>7, <1>8, <1>10, TwoCalls
<1> QED
  BY <1>1, <1>5, <1>11, BeginsKept DEF IInv, TypeOK

-----------------------------------------------------------------------------
\* The updates, one by one.

\* The rest of the call, once its first update is done.
LEMMA Rest ==
  ASSUME IInv, call # <<>>
  PROVE  /\ Head(call) \in Updates /\ Head(call) = call[1]
         /\ 1 \in DOMAIN call
         /\ Tail(call) \in Seq(Updates)
         /\ \A i \in DOMAIN Tail(call) :
              /\ Tail(call)[i] \in Updates
              /\ Tail(call)[i].op \notin Create /\ Sound(Tail(call)[i])
<1>1. call \in Seq(Updates) /\ Len(call) \in Nat \ {0}
      /\ DOMAIN call = 1..Len(call)
  BY LenProperties, EmptySeq DEF IInv, TypeOK
<1>2. /\ Head(call) = call[1] /\ Tail(call) \in Seq(Updates)
      /\ Head(call) \in Updates
      /\ DOMAIN Tail(call) = 1..Len(call) - 1
      /\ \A i \in 1..Len(call) - 1 : Tail(call)[i] = call[i + 1]
  BY <1>1, HeadTailProperties, LenProperties
<1>3. ASSUME NEW i \in DOMAIN Tail(call)
      PROVE  /\ Tail(call)[i] \in Updates
             /\ Tail(call)[i].op \notin Create /\ Sound(Tail(call)[i])
  <2>1. i + 1 \in DOMAIN call /\ i + 1 # 1 /\ Tail(call)[i] = call[i + 1]
    BY <1>1, <1>2
  <2>2. call[i + 1] \in Updates
    BY <1>1, <2>1, ElementOfSeq
  <2>3. PICK v \in Updates : v = call[i + 1]
    BY <2>2
  <2>4. v.op \notin Create /\ Sound(v)
    BY <2>1, <2>3 DEF IInv, Calls
  <2> QED
    BY <2>1, <2>3, <2>4
<1> QED
  BY <1>1, <1>2, <1>3

LEMMA TailCalls ==
  ASSUME IInv, call # <<>>, call' = Tail(call), rootdir' = rootdir,
         \A g \in Guids : Kept(g),
         \A g \in Guids : New(g) =>
           obj'[g] # None /\ obj'[g].kind = Head(call).op /\ Intact(g)'
  PROVE  /\ Calls' /\ call' \in Seq(Updates)
         /\ \A i \in DOMAIN call' : call'[i].op \notin Create
<1>1. PICK t \in Seq(Updates) : t = Tail(call)
  BY Rest
<1>2. \A i \in DOMAIN t : t[i] \in Updates /\ t[i].op \notin Create
                            /\ Sound(t[i])
  BY <1>1, Rest
<1>3. \A g \in Guids : Known(g) => obj'[g] # None
  BY DEF Known, Kept
<1>4. \A g \in Guids : KnownDir(g) => OpenDir(g)'
  BY KeptDir DEF KnownDir, OpenDir
<1>5. ASSUME NEW v \in Updates, v.op \notin Create, Sound(v) PROVE Sound(v)'
  <2>1. v.g \in Guids /\ (v.rec \in Entries => v.rec.g \in Guids)
    BY DEF Updates, Entries
  <2> QED
    BY <1>3, <1>4, <1>5, <2>1 DEF Sound, Known, KnownDir
<1> QED
  BY <1>1, <1>2, <1>5 DEF Calls

\* The call waits while addEntry or rmEntry goes on.
LEMMA CallsWait ==
  ASSUME IInv, hand # NoHand, UNCHANGED <<call, rootdir>>,
         \A g \in Guids : Kept(g)
  PROVE  /\ Calls' /\ call' \in Seq(Updates)
         /\ \A i \in DOMAIN call' : call'[i].op \notin Create
<1>1. /\ call \in Seq(Updates)
      /\ \A i \in DOMAIN call : call[i].op \notin Create
  BY DEF IInv, TypeOK, Holding
<1>2. \A i \in DOMAIN call : call[i] \in Updates /\ Sound(call[i])
  BY <1>1, ElementOfSeq, LenProperties DEF IInv, Calls
<1>3. \A g \in Guids : ~New(g)
  <2>1. ASSUME call # <<>> PROVE 1 \in DOMAIN call /\ Head(call) = call[1]
    BY <1>1, <2>1, LenProperties, EmptySeq, HeadTailProperties
  <2> QED
    BY <1>1, <2>1 DEF New
<1>4. \A g \in Guids : Known(g) => obj'[g] # None
  BY <1>3 DEF Known, Kept
<1>5. \A g \in Guids : KnownDir(g) => OpenDir(g)'
  BY <1>3, KeptDir DEF KnownDir
<1>6. ASSUME NEW v \in Updates, v.op \notin Create, Sound(v) PROVE Sound(v)'
  <2>1. v.g \in Guids /\ (v.rec \in Entries => v.rec.g \in Guids)
    BY DEF Updates, Entries
  <2> QED
    BY <1>4, <1>5, <1>6, <2>1 DEF Sound, Known, KnownDir
<1> QED
  BY <1>1, <1>2, <1>6 DEF Calls

\* A file is created or changed, becomes Dirty and is queued once.
LEMMA ChangeKept ==
  ASSUME IInv, Calls', Holding', call' \in Seq(Updates),
         hand' = NoHand \/ hand' \in Hands, mounted,
         UNCHANGED <<mounted, rootdir, task, container, data, meta, uuids, lost,
                     ops, crashes>>,
         NEW g \in uuids, NEW o \in Objects, o.status = "Dirty",
         obj' = [obj EXCEPT ![g] = o],
         upload_queue' = IF obj[g] # None /\ obj[g].status = "Dirty"
                         THEN upload_queue ELSE Append(upload_queue, g),
         obj[g] = None => Intact(g)',
         obj[g] # None => Len(obj[g].recs) <= Len(o.recs),
         obj[g] # None /\ Intact(g) => Intact(g)',
         obj[g] # None /\ Hollow(g) => Hollow(g)'
  PROVE  IInv'
<1>1. /\ g \in Guids /\ obj \in [Guids -> Objects \cup {None}]
      /\ upload_queue \in Seq(Guids) /\ o # None
  BY TypeFacts DEF IInv, TypeOK
<1>2. obj'[g] = o /\ \A h \in Guids \ {g} : obj'[h] = obj[h]
  BY <1>1
<1>3. \A h \in Guids : obj[h] # None => obj'[h] # None
  BY <1>1, <1>2
<1>4. \A h \in Guids \ {g} : Intact(h) => Intact(h)'
  BY <1>2 DEF Intact
<1>5. \A h \in Guids \ {g} : Hollow(h) => Hollow(h)'
  BY <1>2 DEF Hollow
<1>6. \A h \in Guids : obj[h] # None /\ Intact(h) => Intact(h)'
  BY <1>4
<1>9. /\ \A i \in DOMAIN upload_queue : upload_queue[i] \in Guids
      /\ DOMAIN upload_queue = 1..Len(upload_queue) /\ Len(upload_queue) \in Nat
  BY <1>1, ElementOfSeq, LenProperties
<1>10. /\ upload_queue' \in Seq(Guids)
       /\ \A i, j \in DOMAIN upload_queue' :
            upload_queue'[i] = upload_queue'[j] => i = j
       /\ \A i \in DOMAIN upload_queue' :
            \/ upload_queue'[i] = g
            \/ i \in DOMAIN upload_queue /\ upload_queue'[i] = upload_queue[i]
  <2>1. \A i, j \in DOMAIN upload_queue :
          upload_queue[i] = upload_queue[j] => i = j
    BY DEF IInv, TypeOK
  <2>2. CASE upload_queue' = upload_queue
    BY <1>1, <2>1, <2>2
  <2>3. CASE upload_queue' # upload_queue
    <3>1. upload_queue' = Append(upload_queue, g)
          /\ (obj[g] = None \/ obj[g].status # "Dirty")
      BY <2>3
    <3>2. \A i \in DOMAIN upload_queue : upload_queue[i] # g
      BY <3>1 DEF IInv, Waiting
    <3>3. /\ upload_queue' \in Seq(Guids)
          /\ DOMAIN upload_queue' = 1..Len(upload_queue) + 1
          /\ \A i \in 1..Len(upload_queue) : upload_queue'[i] = upload_queue[i]
          /\ upload_queue'[Len(upload_queue) + 1] = g
      BY <1>1, <3>1, AppendProperties, LenProperties
    <3>4. \A i \in DOMAIN upload_queue' :
            \/ i = Len(upload_queue) + 1 /\ upload_queue'[i] = g
            \/ i \in DOMAIN upload_queue /\ upload_queue'[i] = upload_queue[i]
                /\ upload_queue'[i] # g
      <4>1. \A i \in 1..Len(upload_queue) + 1 :
              i = Len(upload_queue) + 1 \/ i \in 1..Len(upload_queue)
        BY <1>9
      <4> QED
        BY <1>9, <3>2, <3>3, <4>1
    <3> QED
      BY <2>1, <3>3, <3>4
  <2> QED
    BY <2>2, <2>3
<1>11. obj' \in [Guids -> Objects \cup {None}]
  BY <1>1
<1>12. TypeOK'
  <2>1. upload_queue' \in Seq(Guids) /\ call' \in Seq(Updates)
        /\ \A i, j \in DOMAIN upload_queue' :
             upload_queue'[i] = upload_queue'[j] => i = j
    BY <1>10
  <2> QED
    BY <1>11, <2>1 DEF IInv, TypeOK
<1>13. Forgotten'
  BY DEF IInv, Forgotten
<1>14. Files'
  <2> SUFFICES ASSUME NEW h \in Guids, obj'[h] # None
               PROVE  (Intact(h) \/ Hollow(h))'
    BY DEF Files
  <2>1. CASE h = g
    <3>1. (Intact(g) \/ Hollow(g))'
      BY <1>1 DEF IInv, Files
    <3> QED
      BY <2>1, <3>1 DEF Intact, Hollow
  <2>2. CASE h # g
    BY <1>2, <1>4, <1>5, <2>2 DEF IInv, Files
  <2> QED
    BY <2>1, <2>2
<1>15. Blobs' /\ SizeWithinData' /\ Given'
  BY <1>1, <1>2 DEF IInv, Blobs, SizeWithinData, Loadable, Given
<1>16. Waiting'
  <2> SUFFICES ASSUME NEW i \in DOMAIN upload_queue'
               PROVE  /\ obj'[upload_queue'[i]] # None
                      /\ obj'[upload_queue'[i]].status = "Dirty"
    BY DEF Waiting
  <2>1. CASE upload_queue'[i] = g
    BY <1>1, <1>2, <2>1
  <2>2. CASE upload_queue'[i] # g
    <3>1. /\ i \in DOMAIN upload_queue /\ upload_queue'[i] = upload_queue[i]
          /\ upload_queue[i] \in Guids \ {g}
      BY <1>9, <1>10, <2>2
    <3> QED
      BY <1>2, <3>1 DEF IInv, Waiting
  <2> QED
    BY <2>1, <2>2
<1>17. Uploading'
  <2> SUFFICES ASSUME task # NoTask PROVE Uploading'
    BY DEF Uploading
  <2>1. PICK h \in Guids : h = task.g
    BY Shape
  <2>2. /\ obj[h] # None /\ Len(task.snap.recs) <= Len(obj[h].recs)
        /\ \/ task.snap.size <= Len(task.snap.recs)
           \/ task.snap.recs = <<>> /\ Hollow(h)
    BY <2>1 DEF IInv, Uploading, Hollow
  <2>3. obj'[h] # None /\ Len(obj[h].recs) <= Len(obj'[h].recs)
        /\ (Hollow(h) => Hollow(h)')
    <3>1. CASE h = g
      <4>1. obj[g] # None /\ Len(obj[g].recs) <= Len(o.recs)
        BY <2>2, <3>1
      <4>2. Hollow(g) => Hollow(g)'
        BY <4>1
      <4> QED
        BY <1>1, <1>2, <3>1, <4>1, <4>2 DEF Hollow
    <3>2. CASE h # g
      <4>1. obj'[h] = obj[h] /\ Len(obj[h].recs) \in Nat
        BY <1>2, <2>2, <3>2, Shape, TypeFacts
      <4> QED
        BY <2>2, <4>1 DEF Hollow
    <3> QED
      BY <3>1, <3>2
  <2>4. Len(task.snap.recs) <= Len(obj'[h].recs)
    <3>1. /\ Len(task.snap.recs) \in Nat /\ Len(obj[h].recs) \in Nat
          /\ Len(obj'[h].recs) \in Nat
      <4>1. obj[h] \in Objects /\ obj'[h] \in Objects /\ task.snap \in Objects
        BY <1>1, <1>11, <2>2, <2>3, Shape
      <4> QED
        BY <4>1, TypeFacts
    <3> QED
      BY <2>2, <2>3, <3>1
  <2> QED
    BY <2>1, <2>2, <2>3, <2>4 DEF IInv, Uploading, Hollow
<1> QED
  BY <1>12, <1>13, <1>14, <1>15, <1>16, <1>17 DEF IInv

\* Which files a change of g keeps.
LEMMA ChangeKeeps ==
  ASSUME IInv, NEW g \in Guids, NEW o, obj' = [obj EXCEPT ![g] = o], meta' = meta,
         obj[g] # None => o # None /\ o.kind = obj[g].kind,
         obj[g] # None /\ Intact(g) => Intact(g)'
  PROVE  \A h \in Guids : Kept(h)
<1>1. obj'[g] = o /\ \A h \in Guids \ {g} : obj'[h] = obj[h]
  BY DEF IInv, TypeOK
<1>2. Kept(g)
  BY <1>1 DEF Kept
<1>3. ASSUME NEW h \in Guids \ {g} PROVE Kept(h)
  BY <1>1, <1>3 DEF Kept, Intact
<1> QED
  BY <1>2, <1>3

LEMMA DoCreateKept == ASSUME IInv, DoCreate PROVE IInv'
<1> DEFINE u == Head(call)
<1>1. /\ call # <<>> /\ u.op \in Create /\ call' = Tail(call)
      /\ obj' = [obj EXCEPT ![u.g] =
                   [kind |-> u.op, nlink |-> 0, exist |-> TRUE, size |-> 0,
                    recs |-> <<>>, status |-> "Dirty"]]
      /\ upload_queue' = Append(upload_queue, u.g)
      /\ hand = NoHand
      /\ UNCHANGED <<mounted, rootdir, task, hand, container, data, meta, uuids,
                     lost, ops, crashes>>
  BY DEF DoCreate, Doing, Create, storage, history
<1>2. u \in Updates /\ u = call[1] /\ 1 \in DOMAIN call
  BY <1>1, Rest
<1>3. Fresh(u)
  BY <1>1, <1>2 DEF IInv, Calls
<1>4. PICK g \in uuids : g = u.g
  BY <1>3 DEF Fresh
<1>5. g \in Guids /\ obj[g] = None /\ data[g] = None /\ meta[g] = None
  BY <1>3, <1>4 DEF Fresh, IInv, TypeOK, Blobs
<1>6. PICK k \in Create : k = u.op
  BY <1>1
<1> DEFINE o == [kind |-> k, nlink |-> 0, exist |-> TRUE, size |-> 0,
                 recs |-> <<>>, status |-> "Dirty"]
<1>7. o \in Objects /\ o.status = "Dirty" /\ o.size = 0 /\ o.recs = <<>>
      /\ o.kind = k
  BY EmptySeq DEF Objects, Create
<1>8. obj' = [obj EXCEPT ![g] = o] /\ upload_queue' = Append(upload_queue, g)
  BY <1>1, <1>4, <1>6
<1>9. \A h \in Guids : New(h) => h = g
  BY <1>4 DEF New
<1> HIDE DEF u, o
<1>10. Intact(g)'
  <2>1. obj'[g] = o
    BY <1>5, <1>8 DEF IInv, TypeOK
  <2>2. Len(<<>>) = 0
    OBVIOUS
  <2> QED
    BY <1>1, <1>5, <1>7, <2>1, <2>2 DEF Intact
<1>11. \A h \in Guids : Kept(h)
  BY <1>1, <1>5, <1>8, ChangeKeeps
<1>12. obj'[g] # None /\ obj'[g].kind = k
  <2>1. obj'[g] = o
    BY <1>5, <1>8 DEF IInv, TypeOK
  <2> QED
    BY <1>7, <2>1, TypeFacts
<1>13. Calls' /\ call' \in Seq(Updates)
  <2>1. \A h \in Guids : New(h) =>
          obj'[h] # None /\ obj'[h].kind = Head(call).op /\ Intact(h)'
    <3>1. ASSUME NEW h \in Guids, New(h)
          PROVE  obj'[h] # None /\ obj'[h].kind = Head(call).op /\ Intact(h)'
      <4>1. h = g
        BY <1>9, <3>1
      <4> QED
        BY <1>6, <1>10, <1>12, <4>1 DEF Intact, u
    <3> QED
      BY <3>1
  <2> QED
    BY <1>1, <1>11, <2>1, TailCalls
<1>14. Holding' /\ mounted
  BY <1>1 DEF Holding, IInv, Forgotten
<1> QED
  BY <1>1, <1>5, <1>7, <1>8, <1>10, <1>13, <1>14, ChangeKept

\* A file that is there changes: what IInv needs to know of its new value.
LEMMA FileChanged ==
  ASSUME IInv, mounted, NEW g \in Guids, obj[g] # None, NEW o \in Objects,
         o.kind = obj[g].kind, Len(obj[g].recs) <= Len(o.recs),
         Intact(g) => o.size <= Len(o.recs),
         Hollow(g) => o.recs = <<>> /\ o.size > 0,
         Change(g, o), meta' = meta
  PROVE  /\ \A h \in Guids : Kept(h)
         /\ Calls' /\ Holding' /\ call' \in Seq(Updates)
            /\ (hand' = NoHand \/ hand' \in Hands)
            /\ UNCHANGED <<mounted, rootdir, task, container, data, uuids, lost,
                           ops, crashes>>
            => IInv'
         /\ obj'[g] = [o EXCEPT !.status = "Dirty"]
         /\ \A h \in Guids \ {g} : obj'[h] = obj[h]
<1> DEFINE p == [o EXCEPT !.status = "Dirty"]
<1>1. /\ p \in Objects /\ p.status = "Dirty" /\ p.kind = o.kind
      /\ p.size = o.size /\ p.recs = o.recs /\ p # None
  <2>1. /\ p \in Objects /\ p.status = "Dirty" /\ p.kind = o.kind
        /\ p.size = o.size /\ p.recs = o.recs
    BY DEF Objects
  <2> QED
    BY <2>1, TypeFacts
<1>2. /\ obj' = [obj EXCEPT ![g] = p] /\ upload_queue' = Queued(g)
      /\ obj \in [Guids -> Objects \cup {None}]
  BY DEF Change, IInv, TypeOK
<1>3. obj'[g] = p /\ \A h \in Guids \ {g} : obj'[h] = obj[h]
  BY <1>2
<1>4. obj[g] \in Objects /\ g \in uuids
  BY Shape
<1>5. /\ Len(obj[g].recs) \in Nat /\ Len(o.recs) \in Nat
      /\ meta[g] # None => meta[g].size \in Nat
  BY <1>4, Shape, TypeFacts
<1> HIDE DEF p
<1>6. Intact(g) => Intact(g)'
  <2> SUFFICES ASSUME Intact(g) PROVE Intact(g)'
    OBVIOUS
  <2>1. meta[g] # None => meta[g].size <= Len(obj[g].recs)
    BY DEF Intact
  <2>2. p.size <= Len(p.recs) /\ (meta[g] # None => meta[g].size <= Len(p.recs))
    BY <1>1, <1>5, <2>1
  <2> QED
    BY <1>3, <2>2 DEF Intact
<1>7. Hollow(g) => Hollow(g)'
  BY <1>1, <1>3 DEF Hollow
<1>8. \A h \in Guids : Kept(h)
  BY <1>1, <1>2, <1>6, ChangeKeeps
<1>9. upload_queue' = IF obj[g] # None /\ obj[g].status = "Dirty"
                      THEN upload_queue ELSE Append(upload_queue, g)
  BY <1>2 DEF Queued
<1>10. ASSUME Calls', Holding', call' \in Seq(Updates),
              hand' = NoHand \/ hand' \in Hands,
              UNCHANGED <<mounted, rootdir, task, container, data, uuids, lost,
                          ops, crashes>>
       PROVE  IInv'
  <2>1. UNCHANGED <<mounted, rootdir, task, container, data, meta, uuids, lost,
                    ops, crashes>>
    BY <1>10
  <2>2. g \in uuids /\ p \in Objects /\ p.status = "Dirty"
        /\ obj' = [obj EXCEPT ![g] = p]
        /\ Len(obj[g].recs) <= Len(p.recs)
    BY <1>1, <1>2, <1>4
  <2> QED
    BY <1>6, <1>7, <1>9, <1>10, <2>1, <2>2, ChangeKept
<1> QED
  BY <1>3, <1>8, <1>10 DEF p

\* addEntry and rmEntry begin: a count changes.
Counted(g, o, n, b) ==
  /\ obj[g] # None /\ o \in Objects /\ o.kind = obj[g].kind
  /\ o.size = obj[g].size /\ o.recs = obj[g].recs
  /\ Len(obj[g].recs) <= Len(o.recs)
  /\ Intact(g) => o.size <= Len(o.recs)
  /\ Hollow(g) => o.recs = <<>> /\ o.size > 0
  /\ o.nlink = n /\ o.exist = b

LEMMA CountChanged ==
  ASSUME IInv, NEW g \in Guids, Here(g), NEW n \in Int, NEW b \in BOOLEAN, NEW o,
         o = [obj[g] EXCEPT !.nlink = n, !.exist = b]
  PROVE  Counted(g, o, n, b)
<1>1. obj[g] # None /\ obj[g] \in Objects
  BY Shape DEF Here
<1>2. /\ o \in Objects /\ o.kind = obj[g].kind
      /\ o.size = obj[g].size /\ o.recs = obj[g].recs
      /\ o.nlink = n /\ o.exist = b
  BY <1>1 DEF Objects
<1>3. Len(obj[g].recs) \in Nat
  BY <1>1, TypeFacts
<1> QED
  BY <1>1, <1>2, <1>3 DEF Intact, Hollow, Counted

\* What the first update of a call is, if it is addEntry or rmEntry.
LEMMA HeadFacts ==
  ASSUME IInv, call # <<>>, hand = NoHand, NEW u, u = Head(call),
         u.op \in {"addEntry", "rmEntry"}
  PROVE  /\ mounted /\ u \in Updates /\ u.g \in Guids /\ OpenDir(u.g)
         /\ obj[u.g] \in Objects /\ obj[u.g].size \in Nat
         /\ \A h \in Guids : ~New(h)
         /\ u.op = "addEntry" => u.rec \in Entries /\ u.rec.g \in Guids
         /\ u.op = "rmEntry" =>
              u.rec.name \in EntryNames /\ u.rec = Record(u.rec.name, None)
<1>1. u \in Updates /\ u = call[1] /\ 1 \in DOMAIN call
  BY Rest
<1>2. Sound(u) /\ u.g \in Guids
  BY <1>1 DEF IInv, Calls, Create, Updates
<1>3. \A h \in Guids : ~New(h)
  BY DEF New, Create
<1>4. mounted
  BY DEF IInv, Forgotten
<1>5. OpenDir(u.g)
  BY <1>2, <1>3 DEF Sound, KnownDir
<1>6. u.op = "addEntry" => u.rec \in Entries /\ u.rec.g \in Guids
  BY <1>2 DEF Sound, Entries
<1>7. u.op = "rmEntry" =>
        u.rec.name \in EntryNames /\ u.rec = Record(u.rec.name, None)
  BY <1>2 DEF Sound, Record
<1>8. obj[u.g] \in Objects /\ obj[u.g].size \in Nat
  BY <1>2, <1>5, Shape, TypeFacts DEF OpenDir
<1> QED
  BY <1>1, <1>2, <1>3, <1>4, <1>5, <1>6, <1>7, <1>8

LEMMA DoAddEntryKept == ASSUME IInv, DoAddEntry PROVE IInv'
<1>1. PICK u : u = Head(call)
  OBVIOUS
<1>2. /\ call # <<>> /\ hand = NoHand /\ u.op = "addEntry" /\ call' = Tail(call)
      /\ Here(u.rec.g)
      /\ Change(u.rec.g, [obj[u.rec.g] EXCEPT !.nlink = @ + 1])
      /\ hand' = [step |-> "grow", d |-> u.g, i |-> obj[u.g].size + 1,
                  rec |-> u.rec]
      /\ UNCHANGED <<mounted, rootdir, task, container, data, meta, uuids, lost,
                     ops, crashes>>
  BY <1>1 DEF DoAddEntry, Doing, storage, history
<1>3. /\ mounted /\ u \in Updates /\ u.g \in Guids /\ OpenDir(u.g)
      /\ obj[u.g].size \in Nat /\ \A h \in Guids : ~New(h)
      /\ u.rec \in Entries /\ u.rec.g \in Guids
  BY <1>1, <1>2, HeadFacts
<1>4. PICK g \in Guids : g = u.rec.g
  BY <1>3
<1>5. PICK d \in Guids : d = u.g
  BY <1>3
<1>6. obj[g] \in Objects /\ obj[g] # None
  BY <1>2, <1>4, Shape DEF Here
<1>7. PICK n \in Int, b \in BOOLEAN : n = obj[g].nlink + 1 /\ b = obj[g].exist
  BY <1>6 DEF Objects
<1>20. PICK o : o = [obj[g] EXCEPT !.nlink = n, !.exist = b]
  OBVIOUS
<1>8. Change(g, o)
  <2>1. o = [obj[g] EXCEPT !.nlink = @ + 1]
    BY <1>6, <1>7, <1>20 DEF Objects
  <2> QED
    BY <1>2, <1>4, <2>1
<1>9. /\ o \in Objects /\ o.kind = obj[g].kind
      /\ o.size = obj[g].size /\ o.recs = obj[g].recs
      /\ Len(obj[g].recs) <= Len(o.recs)
      /\ Intact(g) => o.size <= Len(o.recs)
      /\ Hollow(g) => o.recs = <<>> /\ o.size > 0
  <2>1. Here(g)
    BY <1>2, <1>4
  <2>2. Counted(g, o, n, b)
    BY <2>1, <1>20, CountChanged
  <2> QED
    BY <2>2 DEF Counted
<1>10. /\ \A h \in Guids : Kept(h)
       /\ Calls' /\ Holding' /\ call' \in Seq(Updates)
            /\ (hand' = NoHand \/ hand' \in Hands)
            /\ UNCHANGED <<mounted, rootdir, task, container, data, uuids, lost,
                           ops, crashes>>
            => IInv'
       /\ obj'[g] = [o EXCEPT !.status = "Dirty"]
       /\ \A h \in Guids \ {g} : obj'[h] = obj[h]
  BY <1>2, <1>3, <1>6, <1>8, <1>9, FileChanged
<1>11. /\ Calls' /\ call' \in Seq(Updates)
       /\ \A i \in DOMAIN call' : call'[i].op \notin Create
  BY <1>2, <1>3, <1>10, TailCalls
<1>12. obj'[d].size = obj[d].size
  <2>1. [o EXCEPT !.status = "Dirty"].size = o.size
    BY <1>9 DEF Objects
  <2> QED
    BY <1>9, <1>10, <2>1
<1>13. hand' \in Hands
  BY <1>2, <1>3, TypeFacts DEF Hands, Entries, Records
<1>14. Holding'
  <2>1. OpenDir(d)' /\ obj'[g] # None
    BY <1>3, <1>5, <1>6, <1>10, KeptDir DEF Kept
  <2> QED
    BY <1>2, <1>3, <1>4, <1>5, <1>11, <1>12, <2>1 DEF Holding, OpenDir
<1> QED
  BY <1>2, <1>10, <1>11, <1>13, <1>14

LEMMA DoRmEntryKept == ASSUME IInv, DoRmEntry PROVE IInv'
<1>1. PICK u : u = Head(call)
  OBVIOUS
<1>2. PICK nm : nm = u.rec.name
  OBVIOUS
<1>3. /\ call # <<>> /\ hand = NoHand /\ u.op = "rmEntry" /\ call' = Tail(call)
      /\ UNCHANGED <<mounted, rootdir, task, container, data, meta, uuids, lost,
                     ops, crashes>>
  BY <1>1 DEF DoRmEntry, Doing, storage, history
<1>4. /\ mounted /\ u \in Updates /\ u.g \in Guids /\ OpenDir(u.g)
      /\ obj[u.g] \in Objects
      /\ obj[u.g].size \in Nat /\ \A h \in Guids : ~New(h)
      /\ nm \in EntryNames
  BY <1>1, <1>2, <1>3, HeadFacts
<1>5. PICK d \in Guids : d = u.g
  BY <1>4
<1>6. CASE ~Has(d, nm)
  <2>1. UNCHANGED <<obj, upload_queue, hand>>
    BY <1>1, <1>2, <1>5, <1>6 DEF DoRmEntry
  <2>2. \A h \in Guids : Kept(h)
    BY <1>3, <2>1 DEF Kept, Intact
  <2>3. Calls' /\ call' \in Seq(Updates)
    BY <1>3, <1>4, <2>2, TailCalls
  <2>4. /\ rootdir' \in Guids /\ uuids' \in SUBSET Guids
        /\ lost' \in SUBSET Guids /\ ops' \in 0..MaxOps
        /\ crashes' \in 0..MaxCrashes
    BY <1>3, <1>4 DEF IInv, TypeOK, Forgotten
  <2> QED
    BY <1>3, <1>4, <2>1, <2>3, <2>4, BeginsKept
<1>7. CASE Has(d, nm)
  <2>1. PICK i : i = First(Find(d, nm))
    OBVIOUS
  <2>2. i \in 1..obj[d].size /\ obj[d].recs[i].g \in Guids
    BY <1>4, <1>5, <1>7, <2>1, FindFacts DEF OpenDir
  <2>3. PICK g \in Guids : g = obj[d].recs[i].g
    BY <2>2
  <2>4. /\ Here(g)
        /\ Change(g, [obj[g] EXCEPT !.nlink = @ - 1, !.exist = obj[g].nlink > 1])
        /\ hand' = [step |-> IF i = obj[d].size THEN "close" ELSE "move",
                    d |-> d, i |-> i, rec |-> JunkRecord]
    BY <1>1, <1>2, <1>5, <1>7, <2>1, <2>3 DEF DoRmEntry
  <2>5. obj[g] \in Objects /\ obj[g] # None
    BY <2>4, Shape DEF Here
  <2> DEFINE n == obj[g].nlink - 1
             b == obj[g].nlink > 1
  <2>6. n \in Int /\ b \in BOOLEAN
    BY <2>5 DEF Objects
  <2>20. PICK o : o = [obj[g] EXCEPT !.nlink = n, !.exist = b]
    OBVIOUS
  <2>7. Change(g, o)
    <3>1. o = [obj[g] EXCEPT !.nlink = @ - 1, !.exist = obj[g].nlink > 1]
      BY <2>5, <2>20 DEF Objects
    <3> QED
      BY <2>4, <3>1
  <2>8. /\ o \in Objects /\ o.kind = obj[g].kind
        /\ o.size = obj[g].size /\ o.recs = obj[g].recs
        /\ Len(obj[g].recs) <= Len(o.recs)
        /\ Intact(g) => o.size <= Len(o.recs)
        /\ Hollow(g) => o.recs = <<>> /\ o.size > 0
    <3>1. Here(g)
      BY <2>4
    <3> HIDE DEF n, b
    <3>2. Counted(g, o, n, b)
      BY <3>1, <2>6, <2>20, CountChanged
    <3> QED
      BY <3>2 DEF Counted
  <2>9. /\ \A h \in Guids : Kept(h)
        /\ Calls' /\ Holding' /\ call' \in Seq(Updates)
             /\ (hand' = NoHand \/ hand' \in Hands)
             /\ UNCHANGED <<mounted, rootdir, task, container, data, uuids, lost,
                            ops, crashes>>
             => IInv'
        /\ obj'[g] = [o EXCEPT !.status = "Dirty"]
        /\ \A h \in Guids \ {g} : obj'[h] = obj[h]
    BY <1>3, <1>4, <2>5, <2>7, <2>8, FileChanged
  <2>10. /\ Calls' /\ call' \in Seq(Updates)
         /\ \A k \in DOMAIN call' : call'[k].op \notin Create
    BY <1>3, <1>4, <2>9, TailCalls
  <2>11. obj'[d].size = obj[d].size
    <3>1. [o EXCEPT !.status = "Dirty"].size = o.size
      BY <2>8 DEF Objects
    <3> QED
      BY <2>8, <2>9, <3>1
  <2>12. hand' \in Hands /\ i \in Nat /\ i <= obj[d].size
    BY <1>4, <1>5, <2>2, <2>4, TypeFacts DEF Hands
  <2>13. Holding'
    <3>1. OpenDir(d)'
      BY <1>4, <1>5, <2>9, KeptDir
    <3>2. i = obj[d].size \/ i < obj[d].size
      BY <1>4, <1>5, <2>12
    <3> QED
      BY <2>4, <2>10, <2>11, <3>1, <3>2 DEF Holding, OpenDir
  <2> QED
    BY <1>3, <2>9, <2>10, <2>12, <2>13
<1> QED
  BY <1>6, <1>7


\* The file g is made or changed and is in the queue, and nothing else is.
Dirtied(g) ==
  /\ obj'[g] # None /\ obj'[g].status = "Dirty"
  /\ \A h \in Guids \ {g} : obj'[h] = obj[h]
  /\ upload_queue' = IF obj[g] # None /\ obj[g].status = "Dirty"
                     THEN upload_queue ELSE Append(upload_queue, g)

LEMMA ChangedFile ==
  ASSUME IInv, NEW g \in Guids, obj[g] # None, NEW o \in Objects, Change(g, o)
  PROVE  /\ Dirtied(g)
         /\ obj'[g].kind = o.kind /\ obj'[g].size = o.size /\ obj'[g].recs = o.recs
         /\ obj'[g].nlink = o.nlink /\ obj'[g].exist = o.exist
<1> DEFINE p == [o EXCEPT !.status = "Dirty"]
<1>1. /\ p \in Objects /\ p.status = "Dirty" /\ p.kind = o.kind
      /\ p.size = o.size /\ p.recs = o.recs /\ p.nlink = o.nlink
      /\ p.exist = o.exist
  BY DEF Objects
<1>2. /\ obj' = [obj EXCEPT ![g] = p] /\ upload_queue' = Queued(g)
      /\ obj \in [Guids -> Objects \cup {None}]
  BY DEF Change, IInv, TypeOK
<1> HIDE DEF p
<1>3. obj'[g] = p /\ \A h \in Guids \ {g} : obj'[h] = obj[h]
  BY <1>2
<1> QED
  BY <1>1, <1>2, <1>3, TypeFacts DEF Dirtied, Queued

\* addEntry and rmEntry go on with the directory in hand.
LEMMA HandFacts ==
  ASSUME IInv, hand # NoHand
  PROVE  /\ mounted /\ hand \in Hands /\ hand.d \in Guids
         /\ hand.i \in Nat \ {0} /\ hand.rec \in Records
         /\ OpenDir(hand.d) /\ obj[hand.d] # None /\ obj[hand.d] \in Objects
         /\ obj[hand.d].size \in Nat /\ obj[hand.d].recs \in Seq(Records)
         /\ Len(obj[hand.d].recs) \in Nat
         /\ obj[hand.d].size <= Len(obj[hand.d].recs)
<1>1. hand \in Hands /\ mounted
  BY DEF IInv, TypeOK, Forgotten
<1>2. hand.d \in Guids /\ hand.i \in Nat \ {0} /\ hand.rec \in Records
  BY <1>1 DEF Hands
<1>3. OpenDir(hand.d)
  BY DEF IInv, Holding
<1>4. obj[hand.d] # None /\ obj[hand.d] \in Objects
  BY <1>2, <1>3, Shape DEF OpenDir
<1> QED
  BY <1>1, <1>2, <1>3, <1>4, TypeFacts DEF OpenDir, Intact

Goes(o) ==
  \/ hand' = NoHand
  \/ /\ hand.step = "grow" /\ hand' = [hand EXCEPT !.step = "place"]
     /\ hand.i = o.size
  \/ /\ hand.step = "move"
     /\ hand' = [hand EXCEPT !.step = "close", !.i = o.size]
     /\ o.size > 0

LEMMA HandStep ==
  ASSUME IInv, hand # NoHand, NEW d \in Guids, d = hand.d,
         NEW o \in Objects, o.kind = obj[d].kind,
         Len(obj[d].recs) <= Len(o.recs), o.size <= Len(o.recs), Change(d, o),
         Goes(o),
         UNCHANGED <<mounted, rootdir, task, call, container, data, meta, uuids,
                     lost, ops, crashes>>
  PROVE  /\ IInv' /\ Dirtied(d) /\ OpenDir(d)'
         /\ obj'[d].kind = o.kind /\ obj'[d].size = o.size /\ obj'[d].recs = o.recs
         /\ obj'[d].nlink = o.nlink /\ obj'[d].exist = o.exist
         /\ \A g \in Guids \ {d} : obj'[g] = obj[g]
<1>1. /\ mounted /\ hand \in Hands /\ d \in Guids /\ obj[d] # None
      /\ OpenDir(d) /\ obj[d] \in Objects
  BY HandFacts
<1>2. ~Hollow(d)
  <2>1. ASSUME obj[d].recs = <<>> PROVE Len(obj[d].recs) = 0
    BY <2>1
  <2>2. obj[d].size \in Nat
    BY <1>1, TypeFacts
  <2> QED
    BY <1>1, <2>1, <2>2 DEF Hollow, OpenDir, Intact
<1>3. /\ \A h \in Guids : Kept(h)
      /\ Calls' /\ Holding' /\ call' \in Seq(Updates)
            /\ (hand' = NoHand \/ hand' \in Hands)
            /\ UNCHANGED <<mounted, rootdir, task, container, data, uuids, lost,
                           ops, crashes>>
            => IInv'
      /\ obj'[d] = [o EXCEPT !.status = "Dirty"]
      /\ \A h \in Guids \ {d} : obj'[h] = obj[h]
  BY <1>1, <1>2, FileChanged
<1>4. /\ Dirtied(d)
      /\ obj'[d].kind = o.kind /\ obj'[d].size = o.size /\ obj'[d].recs = o.recs
      /\ obj'[d].nlink = o.nlink /\ obj'[d].exist = o.exist
  BY <1>1, ChangedFile
<1>5. /\ Calls' /\ call' \in Seq(Updates)
      /\ \A i \in DOMAIN call' : call'[i].op \notin Create
  BY <1>3, CallsWait
<1>6. OpenDir(d)'
  BY <1>1, <1>3, KeptDir
<1>7. hand' = NoHand \/ hand' \in Hands
  <2>1. o.size \in Nat
    BY TypeFacts
  <2>2. ASSUME hand.step = "move", hand' = [hand EXCEPT !.step = "close", !.i = o.size],
               o.size > 0
        PROVE  hand' \in Hands
    <3>1. PICK n \in Nat \ {0} : n = o.size
      BY <2>1, <2>2
    <3>2. hand' = [[hand EXCEPT !.step = "close"] EXCEPT !.i = n]
      BY <2>2, <3>1
    <3> QED
      BY <1>1, <3>2 DEF Hands
  <2>3. ASSUME hand' = [hand EXCEPT !.step = "place"] PROVE hand' \in Hands
    BY <1>1, <2>3 DEF Hands
  <2> QED
    BY <2>2, <2>3 DEF Goes
<1>8. Holding'
  <2> SUFFICES ASSUME hand' # NoHand PROVE Holding'
    BY DEF Holding
  <2>1. /\ hand'.d = d /\ hand'.rec = hand.rec /\ hand'.i = o.size
        /\ \/ hand.step = "grow" /\ hand'.step = "place"
           \/ hand.step = "move" /\ hand'.step = "close"
    BY <1>1 DEF Hands, Goes
  <2>2. /\ hand.step = "grow" => hand.rec \in Entries /\ obj[hand.rec.g] # None
        /\ hand.step = "move" => hand.rec = JunkRecord
    BY DEF IInv, Holding
  <2>3. hand.step = "grow" => obj'[hand.rec.g] # None
    <3> SUFFICES ASSUME hand.step = "grow" PROVE obj'[hand.rec.g] # None
      OBVIOUS
    <3>1. PICK g \in Guids : g = hand.rec.g
      BY <2>2 DEF Entries
    <3> QED
      BY <1>3, <2>2, <3>1 DEF Kept
  <2> QED
    BY <1>4, <1>5, <1>6, <2>1, <2>2, <2>3 DEF Holding
<1> QED
  BY <1>3, <1>4, <1>5, <1>6, <1>7, <1>8

\* What the four steps do to the directory in hand.
Grown(o, i) ==
  [o EXCEPT !.size = i,
            !.recs = IF i <= Len(@) THEN @ ELSE Append(@, JunkRecord)]

LEMMA GrownFacts ==
  ASSUME NEW o \in Objects, o.size <= Len(o.recs), NEW p,
         p = Grown(o, o.size + 1)
  PROVE  /\ p \in Objects /\ p.kind = o.kind /\ p.size = o.size + 1
         /\ p.nlink = o.nlink /\ p.exist = o.exist
         /\ Len(o.recs) <= Len(p.recs) /\ p.size <= Len(p.recs)
         /\ \A j \in 1..o.size : p.recs[j] = o.recs[j]
<1>1. o.size \in Nat /\ o.recs \in Seq(Records) /\ Len(o.recs) \in Nat
  BY TypeFacts
<1> DEFINE i == o.size + 1
           a == Append(o.recs, JunkRecord)
           r == IF i <= Len(o.recs) THEN o.recs ELSE a
<1>2. /\ a \in Seq(Records) /\ Len(a) = Len(o.recs) + 1
      /\ \A j \in 1..Len(o.recs) : a[j] = o.recs[j]
  BY <1>1, TypeFacts, AppendProperties
<1>3. /\ r \in Seq(Records) /\ Len(o.recs) <= Len(r) /\ i <= Len(r)
      /\ \A j \in 1..o.size : r[j] = o.recs[j]
  BY <1>1, <1>2
<1>4. i \in Nat
  BY <1>1
<1>5. p = [o EXCEPT !.size = i, !.recs = r]
  BY DEF Grown, Objects
<1> HIDE DEF i, r
<1>6. /\ p \in Objects /\ p.kind = o.kind /\ p.size = i
      /\ p.nlink = o.nlink /\ p.exist = o.exist /\ p.recs = r
  BY <1>3, <1>4, <1>5 DEF Objects
<1> QED
  BY <1>3, <1>6 DEF i

LEMMA GrowFacts ==
  ASSUME IInv, Grow, NEW d, d = hand.d
  PROVE  /\ IInv' /\ d \in Guids /\ Dirtied(d) /\ hand # NoHand
         /\ OpenDir(d)'
         /\ UNCHANGED <<mounted, rootdir, task, call, container, data, meta,
                        uuids, lost>>
         /\ obj'[d].kind = obj[d].kind /\ obj'[d].nlink = obj[d].nlink
         /\ obj'[d].exist = obj[d].exist /\ obj'[d].size = obj[d].size + 1
         /\ \A j \in 1..obj[d].size : obj'[d].recs[j] = obj[d].recs[j]
         /\ \A g \in Guids \ {d} : obj'[g] = obj[g]
         /\ hand'.d = d /\ hand'.i = hand.i /\ hand'.rec = hand.rec
         /\ hand.i = obj[d].size + 1
<1>1. /\ hand.step = "grow" /\ hand # NoHand
      /\ Change(d, Grown(obj[d], hand.i))
      /\ hand' = [hand EXCEPT !.step = "place"]
      /\ UNCHANGED <<mounted, rootdir, task, call, container, data, meta, uuids,
                     lost, ops, crashes>>
  BY DEF Grow, Grown, NoHand, storage, history
<1>2. /\ d \in Guids /\ obj[d] \in Objects /\ obj[d].size <= Len(obj[d].recs)
      /\ hand \in Hands
  BY <1>1, HandFacts
<1>3. hand.i = obj[d].size + 1
  BY <1>1 DEF IInv, Holding
<1>4. PICK p : p = Grown(obj[d], obj[d].size + 1)
  OBVIOUS
<1>5. /\ p \in Objects /\ p.kind = obj[d].kind /\ p.size = obj[d].size + 1
      /\ p.nlink = obj[d].nlink /\ p.exist = obj[d].exist
      /\ Len(obj[d].recs) <= Len(p.recs) /\ p.size <= Len(p.recs)
      /\ \A j \in 1..obj[d].size : p.recs[j] = obj[d].recs[j]
  BY <1>2, <1>4, GrownFacts
<1>6. Change(d, p)
  BY <1>1, <1>3, <1>4
<1>7. /\ IInv' /\ Dirtied(d) /\ OpenDir(d)' /\ obj'[d].kind = p.kind /\ obj'[d].size = p.size
      /\ obj'[d].recs = p.recs
      /\ obj'[d].nlink = p.nlink /\ obj'[d].exist = p.exist
      /\ \A g \in Guids \ {d} : obj'[g] = obj[g]
  <2>1. Goes(p)
    BY <1>1, <1>3, <1>5 DEF Goes
  <2> QED
    BY <1>1, <1>2, <1>5, <1>6, <2>1, HandStep
<1>8. hand'.d = d /\ hand'.i = hand.i /\ hand'.rec = hand.rec
  BY <1>1, <1>2 DEF Hands
<1> QED
  BY <1>1, <1>2, <1>3, <1>5, <1>7, <1>8

\* A record of the directory is written.
LEMMA RecWritten ==
  ASSUME NEW o \in Objects, NEW i \in 1..Len(o.recs), NEW r \in Records, NEW p,
         p = [o EXCEPT !.recs[i] = r]
  PROVE  /\ p \in Objects /\ p.kind = o.kind /\ p.size = o.size
         /\ p.nlink = o.nlink /\ p.exist = o.exist
         /\ Len(p.recs) = Len(o.recs)
         /\ p.recs[i] = r /\ \A j \in 1..Len(o.recs) : j # i => p.recs[j] = o.recs[j]
<1>1. PICK s \in Seq(Records) : s = o.recs
  BY TypeFacts
<1> DEFINE t == [s EXCEPT ![i] = r]
<1>2. /\ t \in Seq(Records) /\ Len(t) = Len(s) /\ t[i] = r
      /\ \A j \in 1..Len(s) : j # i => t[j] = s[j]
  BY <1>1, ExceptSeq, LenProperties
<1>3. p = [o EXCEPT !.recs = t]
  BY <1>1 DEF Objects
<1> HIDE DEF t
<1>4. /\ p \in Objects /\ p.kind = o.kind /\ p.size = o.size
      /\ p.nlink = o.nlink /\ p.exist = o.exist /\ p.recs = t
  BY <1>2, <1>3 DEF Objects
<1> QED
  BY <1>1, <1>2, <1>4

LEMMA PlaceFacts ==
  ASSUME IInv, Place, NEW d, d = hand.d
  PROVE  /\ IInv' /\ d \in Guids /\ Dirtied(d) /\ hand # NoHand
         /\ OpenDir(d)'
         /\ UNCHANGED <<mounted, rootdir, task, call, container, data, meta,
                        uuids, lost>>
         /\ obj'[d].kind = obj[d].kind /\ obj'[d].nlink = obj[d].nlink
         /\ obj'[d].exist = obj[d].exist /\ obj'[d].size = obj[d].size
         /\ obj'[d].recs[hand.i] = hand.rec
         /\ \A j \in 1..obj[d].size :
              j # hand.i => obj'[d].recs[j] = obj[d].recs[j]
         /\ \A g \in Guids \ {d} : obj'[g] = obj[g]
         /\ hand' = NoHand /\ hand.i = obj[d].size
<1>1. /\ hand.step = "place" /\ hand # NoHand
      /\ Change(d, [obj[d] EXCEPT !.recs[hand.i] = hand.rec])
      /\ hand' = NoHand
      /\ UNCHANGED <<mounted, rootdir, task, call, container, data, meta, uuids,
                     lost, ops, crashes>>
  BY DEF Place, NoHand, storage, history
<1>2. /\ d \in Guids /\ obj[d] \in Objects /\ obj[d].size <= Len(obj[d].recs)
      /\ hand.rec \in Records /\ hand.i \in Nat \ {0}
      /\ obj[d].size \in Nat /\ Len(obj[d].recs) \in Nat
  BY <1>1, HandFacts
<1>3. hand.i = obj[d].size /\ hand.i \in 1..Len(obj[d].recs)
  BY <1>1, <1>2 DEF IInv, Holding
<1>4. PICK p : p = [obj[d] EXCEPT !.recs[hand.i] = hand.rec]
  OBVIOUS
<1>5. /\ p \in Objects /\ p.kind = obj[d].kind /\ p.size = obj[d].size
      /\ p.nlink = obj[d].nlink /\ p.exist = obj[d].exist
      /\ Len(p.recs) = Len(obj[d].recs) /\ p.recs[hand.i] = hand.rec
      /\ \A j \in 1..Len(obj[d].recs) :
           j # hand.i => p.recs[j] = obj[d].recs[j]
  BY <1>2, <1>3, <1>4, RecWritten
<1>6. Change(d, p)
  BY <1>1, <1>4
<1>7. /\ IInv' /\ Dirtied(d) /\ OpenDir(d)' /\ obj'[d].kind = p.kind /\ obj'[d].size = p.size
      /\ obj'[d].recs = p.recs
      /\ obj'[d].nlink = p.nlink /\ obj'[d].exist = p.exist
      /\ \A g \in Guids \ {d} : obj'[g] = obj[g]
  <2>1. Goes(p) /\ Len(obj[d].recs) <= Len(p.recs) /\ p.size <= Len(p.recs)
    BY <1>1, <1>2, <1>5 DEF Goes
  <2> QED
    BY <1>1, <1>2, <1>5, <1>6, <2>1, HandStep
<1>8. 1..obj[d].size \subseteq 1..Len(obj[d].recs)
  BY <1>2
<1> QED
  BY <1>1, <1>2, <1>3, <1>5, <1>7, <1>8

LEMMA MoveFacts ==
  ASSUME IInv, Move, NEW d, d = hand.d
  PROVE  /\ IInv' /\ d \in Guids /\ Dirtied(d) /\ hand # NoHand
         /\ OpenDir(d)'
         /\ UNCHANGED <<mounted, rootdir, task, call, container, data, meta,
                        uuids, lost>>
         /\ obj'[d].kind = obj[d].kind /\ obj'[d].nlink = obj[d].nlink
         /\ obj'[d].exist = obj[d].exist /\ obj'[d].size = obj[d].size
         /\ obj'[d].recs[hand.i] = obj[d].recs[obj[d].size]
         /\ \A j \in 1..obj[d].size :
              j # hand.i => obj'[d].recs[j] = obj[d].recs[j]
         /\ \A g \in Guids \ {d} : obj'[g] = obj[g]
         /\ hand'.d = d /\ hand'.i = obj[d].size /\ hand.rec = JunkRecord
         /\ hand'.rec = JunkRecord
         /\ hand.i \in 1..obj[d].size - 1
<1>1. /\ hand.step = "move" /\ hand # NoHand
      /\ Change(d, [obj[d] EXCEPT !.recs[hand.i] = obj[d].recs[obj[d].size]])
      /\ hand' = [hand EXCEPT !.step = "close", !.i = obj[d].size]
      /\ UNCHANGED <<mounted, rootdir, task, call, container, data, meta, uuids,
                     lost, ops, crashes>>
  BY DEF Move, NoHand, storage, history
<1>2. /\ d \in Guids /\ obj[d] \in Objects /\ obj[d].size <= Len(obj[d].recs)
      /\ hand \in Hands /\ hand.i \in Nat \ {0}
      /\ obj[d].size \in Nat /\ Len(obj[d].recs) \in Nat
      /\ obj[d].recs \in Seq(Records)
  BY <1>1, HandFacts
<1>3. hand.i < obj[d].size /\ hand.rec = JunkRecord
  BY <1>1 DEF IInv, Holding
<1>4. hand.i \in 1..Len(obj[d].recs) /\ obj[d].size \in 1..Len(obj[d].recs)
      /\ obj[d].size > 0 /\ hand.i \in 1..obj[d].size - 1
  BY <1>2, <1>3
<1>5. PICK r \in Records : r = obj[d].recs[obj[d].size]
  BY <1>2, <1>4, ElementOfSeq
<1>6. PICK p : p = [obj[d] EXCEPT !.recs[hand.i] = r]
  OBVIOUS
<1>7. /\ p \in Objects /\ p.kind = obj[d].kind /\ p.size = obj[d].size
      /\ p.nlink = obj[d].nlink /\ p.exist = obj[d].exist
      /\ Len(p.recs) = Len(obj[d].recs) /\ p.recs[hand.i] = r
      /\ \A j \in 1..Len(obj[d].recs) :
           j # hand.i => p.recs[j] = obj[d].recs[j]
  BY <1>2, <1>4, <1>6, RecWritten
<1>8. Change(d, p)
  BY <1>1, <1>5, <1>6
<1>9. /\ IInv' /\ Dirtied(d) /\ OpenDir(d)' /\ obj'[d].kind = p.kind /\ obj'[d].size = p.size
      /\ obj'[d].recs = p.recs
      /\ obj'[d].nlink = p.nlink /\ obj'[d].exist = p.exist
      /\ \A g \in Guids \ {d} : obj'[g] = obj[g]
  <2>1. Goes(p)
    BY <1>1, <1>4, <1>7 DEF Goes
  <2>2. Len(obj[d].recs) <= Len(p.recs) /\ p.size <= Len(p.recs)
    BY <1>2, <1>7
  <2> QED
    BY <1>1, <1>2, <1>7, <1>8, <2>1, <2>2, HandStep
<1>10. 1..obj[d].size \subseteq 1..Len(obj[d].recs)
  BY <1>2
<1>11. hand'.d = d /\ hand'.i = obj[d].size /\ hand'.rec = JunkRecord
  BY <1>1, <1>2, <1>3 DEF Hands
<1> QED
  BY <1>1, <1>2, <1>3, <1>4, <1>5, <1>7, <1>9, <1>10, <1>11

LEMMA CloseFacts ==
  ASSUME IInv, Close, NEW d, d = hand.d
  PROVE  /\ IInv' /\ d \in Guids /\ Dirtied(d) /\ hand # NoHand
         /\ OpenDir(d)'
         /\ UNCHANGED <<mounted, rootdir, task, call, container, data, meta,
                        uuids, lost>>
         /\ obj'[d].kind = obj[d].kind /\ obj'[d].nlink = obj[d].nlink
         /\ obj'[d].exist = obj[d].exist /\ obj'[d].size = obj[d].size - 1
         /\ obj'[d].recs = obj[d].recs
         /\ \A g \in Guids \ {d} : obj'[g] = obj[g]
         /\ hand' = NoHand /\ hand.i = obj[d].size /\ hand.rec = JunkRecord
<1>1. /\ hand.step = "close" /\ hand # NoHand
      /\ Change(d, [obj[d] EXCEPT !.size = @ - 1])
      /\ hand' = NoHand
      /\ UNCHANGED <<mounted, rootdir, task, call, container, data, meta, uuids,
                     lost, ops, crashes>>
  BY DEF Close, NoHand, storage, history
<1>2. /\ d \in Guids /\ obj[d] \in Objects /\ obj[d].size <= Len(obj[d].recs)
      /\ hand.i \in Nat \ {0}
      /\ obj[d].size \in Nat /\ Len(obj[d].recs) \in Nat
  BY <1>1, HandFacts
<1>3. hand.i = obj[d].size /\ hand.rec = JunkRecord
  BY <1>1 DEF IInv, Holding
<1>4. PICK n \in Nat : n = obj[d].size - 1
  BY <1>2, <1>3
<1>5. PICK p : p = [obj[d] EXCEPT !.size = n]
  OBVIOUS
<1>6. /\ p \in Objects /\ p.kind = obj[d].kind /\ p.size = n
      /\ p.nlink = obj[d].nlink /\ p.exist = obj[d].exist
      /\ p.recs = obj[d].recs
  BY <1>2, <1>5 DEF Objects
<1>7. Change(d, p)
  <2>1. p = [obj[d] EXCEPT !.size = @ - 1]
    BY <1>2, <1>4, <1>5 DEF Objects
  <2> QED
    BY <1>1, <2>1
<1>8. /\ IInv' /\ Dirtied(d) /\ OpenDir(d)' /\ obj'[d].kind = p.kind /\ obj'[d].size = p.size
      /\ obj'[d].recs = p.recs
      /\ obj'[d].nlink = p.nlink /\ obj'[d].exist = p.exist
      /\ \A g \in Guids \ {d} : obj'[g] = obj[g]
  <2>1. Goes(p) /\ Len(obj[d].recs) <= Len(p.recs) /\ p.size <= Len(p.recs)
    BY <1>1, <1>2, <1>4, <1>6 DEF Goes
  <2> QED
    BY <1>1, <1>2, <1>6, <1>7, <2>1, HandStep
<1> QED
  BY <1>1, <1>2, <1>3, <1>4, <1>6, <1>8

LEMMA DoContainerKept == ASSUME IInv, DoContainer PROVE IInv'
<1>1. /\ call # <<>> /\ Head(call).op = "container" /\ call' = Tail(call)
      /\ hand = NoHand /\ container' = rootdir
      /\ UNCHANGED <<mounted, rootdir, obj, upload_queue, task, hand, data, meta,
                     uuids, lost, ops, crashes>>
  BY DEF DoContainer, Doing, history
<1>2. mounted /\ rootdir \in Guids
  BY <1>1 DEF IInv, Forgotten
<1>3. \A g \in Guids : ~New(g)
  BY <1>1 DEF New, Create
<1>4. \A g \in Guids : Kept(g)
  BY <1>1 DEF Kept, Intact
<1>5. Calls' /\ call' \in Seq(Updates)
  BY <1>1, <1>3, <1>4, TailCalls
<1>6. TypeOK'
  BY <1>1, <1>2, <1>5 DEF IInv, TypeOK
<1>7. Forgotten' /\ Files' /\ Blobs' /\ Given' /\ Waiting' /\ SizeWithinData'
  BY <1>1, <1>2
  DEF IInv, Forgotten, Files, Intact, Hollow, Blobs, Given, Waiting,
      SizeWithinData, Loadable
<1>8. Uploading' /\ Holding'
  BY <1>1 DEF IInv, Uploading, Hollow, Holding
<1> QED
  BY <1>5, <1>6, <1>7, <1>8 DEF IInv

-----------------------------------------------------------------------------
LEMMA Links0Finite ==
  \A g \in Guids : IsFiniteSet(Links0(g)) /\ Cardinality(Links0(g)) \in Nat
<1> SUFFICES ASSUME NEW g \in Guids
             PROVE  IsFiniteSet(Links0(g)) /\ Cardinality(Links0(g)) \in Nat
  OBVIOUS
<1> DEFINE D == DOMAIN Stored0
           All == UNION {{d} \X DOMAIN Stored0[d] : d \in D}
<1>1. IsFiniteSet(D)
  BY VolumeAssumption, FS_Subset
<1>2. ASSUME NEW d \in D PROVE IsFiniteSet({d} \X DOMAIN Stored0[d])
  <2>1. Stored0[d] \in Seq([name : EntryNames, g : Guids])
    BY VolumeAssumption
  <2>2. DOMAIN Stored0[d] = 1..Len(Stored0[d]) /\ Len(Stored0[d]) \in Nat
    BY <2>1, LenProperties
  <2>3. IsFiniteSet(DOMAIN Stored0[d])
    BY <2>2, FS_Interval
  <2> QED
    BY <2>3, FS_Singleton, FS_Product
<1> DEFINE F == {{d} \X DOMAIN Stored0[d] : d \in D}
           f == [d \in D |-> {d} \X DOMAIN Stored0[d]]
<1>3. IsFiniteSet(F)
  <2>1. f \in Surjection(D, F)
    BY DEF Surjection
  <2> HIDE DEF D, F, f
  <2> QED
    BY <1>1, <2>1, FS_Surjection
<1>4. IsFiniteSet(All)
  <2>1. \A x \in F : IsFiniteSet(x)
    BY <1>2
  <2> HIDE DEF F
  <2>2. IsFiniteSet(UNION F)
    BY <1>3, <2>1, FS_UNION
  <2> QED
    BY <2>2 DEF F
<1>5. Links0(g) \subseteq All
  BY DEF Links0
<1> QED
  BY <1>4, <1>5, FS_Subset, FS_CardinalityType

LEMMA InitInv == ASSUME Init PROVE IInv
<1> DEFINE There(g) == container # None /\ g \in DOMAIN Stored0
           M(g) == [kind  |-> IF IsDir0(g) THEN "dir" ELSE "reg",
                    nlink |-> Cardinality(Links0(g)),
                    size  |-> Len(Stored0[g])]
<1>1. /\ mounted = FALSE /\ rootdir = None /\ upload_queue = <<>>
      /\ task = NoTask /\ call = <<>> /\ hand = NoHand /\ lost = {} /\ ops = 0 /\ crashes = 0
      /\ obj = [g \in Guids |-> None] /\ container \in {None, Root0}
      /\ data = [g \in Guids |-> IF There(g) THEN Stored0[g] ELSE None]
      /\ meta = [g \in Guids |-> IF There(g) THEN M(g) ELSE None]
      /\ uuids = IF container = None THEN {} ELSE DOMAIN Stored0
  BY DEF Init
<1>2. \A g \in DOMAIN Stored0 :
        /\ g \in Guids /\ Stored0[g] \in Seq(Records) /\ Len(Stored0[g]) \in Nat
  <2>1. ASSUME NEW g \in DOMAIN Stored0
        PROVE  g \in Guids /\ Stored0[g] \in Seq([name : EntryNames, g : Guids])
    BY VolumeAssumption
  <2>2. [name : EntryNames, g : Guids] \subseteq Records
    BY DEF Records
  <2>3. ASSUME NEW s \in Seq([name : EntryNames, g : Guids])
        PROVE  s \in Seq(Records) /\ Len(s) \in Nat
    <3>1. /\ s \in [1..Len(s) -> [name : EntryNames, g : Guids]]
          /\ Len(s) \in Nat
      BY LenProperties
    <3>2. s \in [1..Len(s) -> Records]
      BY <2>2, <3>1
    <3> QED
      BY <3>1, <3>2
  <2> QED
    BY <2>1, <2>3
<1>3. \A g \in DOMAIN Stored0 : M(g) \in Metas /\ M(g).size = Len(Stored0[g])
  <2> SUFFICES ASSUME NEW g \in DOMAIN Stored0
               PROVE  M(g) \in Metas /\ M(g).size = Len(Stored0[g])
    OBVIOUS
  <2>1. Cardinality(Links0(g)) \in Int /\ Len(Stored0[g]) \in Nat
    BY <1>2, Links0Finite
  <2> QED
    BY <2>1 DEF Metas
<1> HIDE DEF M
<1>4. data \in [Guids -> Seq(Records) \cup {None}]
  BY <1>1, <1>2
<1>5. meta \in [Guids -> Metas \cup {None}]
  BY <1>1, <1>3
<1>6. <<>> \in Seq(Guids) /\ <<>> \in Seq(Updates) /\ DOMAIN <<>> = {}
  BY EmptySeq
<1>7. Root0 \in Guids /\ DOMAIN Stored0 \subseteq Guids
  BY VolumeAssumption
<1>8. TypeOK
  <2>1. 0 \in 0..MaxOps /\ 0 \in 0..MaxCrashes
    BY VolumeAssumption
  <2> QED
    BY <1>1, <1>4, <1>5, <1>6, <1>7, <2>1 DEF TypeOK
<1>9. Forgotten /\ Files /\ Uploading
  BY <1>1 DEF Forgotten, Files, Uploading
<1>10. Waiting /\ Calls /\ Holding
  BY <1>1, <1>6 DEF Waiting, Calls, Holding
<1>11. \A g \in Guids : meta[g] # None =>
         There(g) /\ data[g] = Stored0[g] /\ meta[g] = M(g)
  BY <1>1
<1>12. Blobs
  BY <1>2, <1>11, TypeFacts DEF Blobs
<1>13. SizeWithinData
  <2> SUFFICES ASSUME NEW g \in Guids, meta[g] # None
               PROVE  meta[g].size <= Len(data[g])
    BY DEF SizeWithinData, Loadable
  <2> QED
    BY <1>2, <1>3, <1>11
<1>14. Given
  BY <1>1, <1>7 DEF Given
<1> QED
  BY <1>8, <1>9, <1>10, <1>12, <1>13, <1>14 DEF IInv

LEMMA StepInv == ASSUME IInv, [Next]_vars PROVE IInv'
<1>1. ASSUME NEW d \in Guids, NEW nm \in Names,
             \/ azs_create(d, nm) \/ azs_mkdir(d, nm)
             \/ azs_unlink(d, nm) \/ azs_rmdir(d, nm)
             \/ \E e \in Guids, to \in Names : azs_rename(d, nm, e, to)
      PROVE  IInv'
  BY <1>1, CreateKept, MkdirKept, UnlinkKept, RmdirKept, RenameKept
<1>2. CASE Callback
  BY <1>1, <1>2, DoCreateKept, DoAddEntryKept, DoRmEntryKept, DoContainerKept,
     GrowFacts, PlaceFacts, MoveFacts, CloseFacts DEF Callback
<1>3. CASE Launch \/ DeleteBlob \/ CommitBlocks \/ PutMetadata
  BY <1>3, LaunchKept, DeleteBlobKept, CommitBlocksKept, PutMetadataKept
<1>4. CASE Mount \/ FirstMount \/ Unmount \/ Crash
  BY <1>4, MountKept, FirstMountKept, UnmountKept, CrashKept
<1>5. CASE UNCHANGED vars
  <2>1. UNCHANGED <<mounted, rootdir, obj, upload_queue, task, call, hand,
                    container, data, meta, uuids, lost, ops, crashes>>
    BY <1>5 DEF vars, memory, storage, history
  <2>2. TypeOK' /\ Forgotten' /\ Files' /\ Blobs' /\ Given'
    BY <2>1 DEF IInv, TypeOK, Forgotten, Files, Intact, Hollow, Blobs, Given
  <2>3. Waiting' /\ SizeWithinData' /\ Uploading'
    BY <2>1 DEF IInv, Waiting, SizeWithinData, Loadable, Uploading, Hollow
  <2>4. Calls' /\ Holding'
    <3>1. \A g \in Guids : Kept(g)
      BY <2>1 DEF Kept, Intact
    <3> QED
      BY <2>1, <3>1, CallsLeft
  <2> QED
    BY <2>2, <2>3, <2>4 DEF IInv
<1> QED
  BY <1>2, <1>3, <1>4, <1>5 DEF Next

\* IInv holds in every reachable state, after any number of crashes and mounts.
THEOREM Inductive == Spec => []IInv
<1>1. Init => IInv
  BY InitInv
<1>2. IInv /\ [Next]_vars => IInv'
  BY StepInv
<1> QED
  BY <1>1, <1>2, PTL DEF Spec

\* Every variable has its type: no file is queued twice, and no update names
\* a file that is not one.
THEOREM TypeCorrect == Spec => []TypeOK
<1>1. IInv => TypeOK
  BY DEF IInv
<1> QED
  BY <1>1, Inductive, PTL

\* upload_block_list and put_metadata in any order of crashes and calls: the
\* size in a blob's metadata never goes beyond its data, unless it was emptied.
THEOREM SizeNeverBeyond == Spec => []SizeWithinData
<1>1. IInv => SizeWithinData
  BY DEF IInv
<1> QED
  BY <1>1, Inductive, PTL

-----------------------------------------------------------------------------
\* What the first steps of an update do.
LEMMA CreateFacts ==
  ASSUME IInv, DoCreate, NEW u, u = Head(call), NEW g, g = u.g
  PROVE  /\ IInv' /\ call # <<>> /\ hand = NoHand /\ u.op \in Create
         /\ u \in Updates
         /\ mounted /\ g \in Guids /\ g \in uuids /\ obj[g] = None
         /\ data[g] = None /\ meta[g] = None
         /\ Dirtied(g) /\ obj'[g].kind = u.op /\ obj'[g].nlink = 0
         /\ obj'[g].exist = TRUE /\ obj'[g].size = 0 /\ obj'[g].recs = <<>>
         /\ call' = Tail(call)
         /\ UNCHANGED <<mounted, rootdir, task, hand, container, data, meta,
                        uuids, lost>>
<1>1. /\ call # <<>> /\ u.op \in Create /\ call' = Tail(call)
      /\ obj' = [obj EXCEPT ![g] =
                   [kind |-> u.op, nlink |-> 0, exist |-> TRUE, size |-> 0,
                    recs |-> <<>>, status |-> "Dirty"]]
      /\ upload_queue' = Append(upload_queue, g)
      /\ hand = NoHand
      /\ UNCHANGED <<mounted, rootdir, task, hand, container, data, meta, uuids,
                     lost>>
  BY DEF DoCreate, Doing, Create, storage, history
<1>2. u \in Updates /\ u = call[1] /\ 1 \in DOMAIN call
  BY <1>1, Rest
<1>3. Fresh(u)
  BY <1>1, <1>2 DEF IInv, Calls
<1>4. /\ g \in uuids /\ g \in Guids /\ obj[g] = None /\ data[g] = None
      /\ meta[g] = None
  BY <1>3 DEF Fresh, IInv, TypeOK, Blobs
<1>5. mounted
  BY <1>1 DEF IInv, Forgotten
<1> DEFINE o == [kind |-> u.op, nlink |-> 0, exist |-> TRUE, size |-> 0,
                 recs |-> <<>>, status |-> "Dirty"]
<1>6. /\ o.kind = u.op /\ o.nlink = 0 /\ o.exist = TRUE /\ o.size = 0
      /\ o.recs = <<>> /\ o.status = "Dirty"
  OBVIOUS
<1>7. o # None
  <2>1. o \in Objects
    BY <1>1, EmptySeq DEF Objects, Create
  <2> QED
    BY <2>1, TypeFacts
<1>8. obj'[g] = o /\ \A h \in Guids \ {g} : obj'[h] = obj[h]
  BY <1>1, <1>4 DEF IInv, TypeOK
<1> HIDE DEF o
<1>9. Dirtied(g)
  BY <1>1, <1>4, <1>6, <1>7, <1>8 DEF Dirtied
<1>10. IInv'
  BY DoCreateKept
<1> QED
  BY <1>1, <1>2, <1>4, <1>5, <1>6, <1>8, <1>9, <1>10

LEMMA AddEntryFacts ==
  ASSUME IInv, DoAddEntry, NEW u, u = Head(call), NEW d, d = u.g,
         NEW g, g = u.rec.g
  PROVE  /\ IInv' /\ call # <<>> /\ hand = NoHand /\ u.op = "addEntry"
         /\ u \in Updates
         /\ mounted /\ d \in Guids /\ g \in Guids /\ u.rec \in Entries
         /\ OpenDir(d) /\ Here(g)
         /\ Dirtied(g) /\ obj'[g].kind = obj[g].kind
         /\ obj'[g].nlink = obj[g].nlink + 1 /\ obj'[g].exist = obj[g].exist
         /\ obj'[g].size = obj[g].size /\ obj'[g].recs = obj[g].recs
         /\ call' = Tail(call)
         /\ hand'.d = d /\ hand'.i = obj[d].size + 1 /\ hand'.rec = u.rec
         /\ UNCHANGED <<mounted, rootdir, task, container, data, meta, uuids,
                        lost>>
<1>1. /\ call # <<>> /\ hand = NoHand /\ u.op = "addEntry" /\ call' = Tail(call)
      /\ Here(g)
      /\ Change(g, [obj[g] EXCEPT !.nlink = @ + 1])
      /\ hand' = [step |-> "grow", d |-> d, i |-> obj[d].size + 1,
                  rec |-> u.rec]
      /\ UNCHANGED <<mounted, rootdir, task, container, data, meta, uuids, lost>>
  BY DEF DoAddEntry, Doing, storage, history
<1>2. /\ mounted /\ u \in Updates /\ d \in Guids /\ OpenDir(d)
      /\ u.rec \in Entries /\ g \in Guids
  BY <1>1, HeadFacts
<1>3. obj[g] \in Objects /\ obj[g] # None
  BY <1>1, <1>2, Shape DEF Here
<1>4. PICK n \in Int : n = obj[g].nlink + 1
  BY <1>3 DEF Objects
<1>5. PICK o : o = [obj[g] EXCEPT !.nlink = n]
  OBVIOUS
<1>6. /\ o \in Objects /\ o.kind = obj[g].kind /\ o.size = obj[g].size
      /\ o.recs = obj[g].recs /\ o.nlink = n /\ o.exist = obj[g].exist
  BY <1>3, <1>5 DEF Objects
<1>7. Change(g, o)
  <2>1. o = [obj[g] EXCEPT !.nlink = @ + 1]
    BY <1>3, <1>4, <1>5 DEF Objects
  <2> QED
    BY <1>1, <2>1
<1>8. /\ Dirtied(g)
      /\ obj'[g].kind = o.kind /\ obj'[g].size = o.size /\ obj'[g].recs = o.recs
      /\ obj'[g].nlink = o.nlink /\ obj'[g].exist = o.exist
  BY <1>2, <1>3, <1>6, <1>7, ChangedFile
<1>9. IInv'
  BY DoAddEntryKept
<1>10. hand'.d = d /\ hand'.i = obj[d].size + 1 /\ hand'.rec = u.rec
  BY <1>1
<1> QED
  BY <1>1, <1>2, <1>4, <1>6, <1>8, <1>9, <1>10

LEMMA RmEntryFacts ==
  ASSUME IInv, DoRmEntry, NEW u, u = Head(call), NEW d, d = u.g,
         NEW nm, nm = u.rec.name
  PROVE  /\ IInv' /\ call # <<>> /\ hand = NoHand /\ u.op = "rmEntry"
         /\ u \in Updates
         /\ mounted /\ d \in Guids /\ OpenDir(d) /\ nm \in EntryNames
         /\ call' = Tail(call)
         /\ UNCHANGED <<mounted, rootdir, task, container, data, meta, uuids,
                        lost>>
         /\ ~Has(d, nm) => UNCHANGED <<obj, upload_queue, hand>>
<1>1. /\ call # <<>> /\ hand = NoHand /\ u.op = "rmEntry" /\ call' = Tail(call)
      /\ UNCHANGED <<mounted, rootdir, task, container, data, meta, uuids, lost>>
      /\ ~Has(d, nm) => UNCHANGED <<obj, upload_queue, hand>>
  BY DEF DoRmEntry, Doing, storage, history
<1>2. /\ mounted /\ u \in Updates /\ d \in Guids /\ OpenDir(d)
      /\ nm \in EntryNames
  BY <1>1, HeadFacts
<1>3. IInv'
  BY DoRmEntryKept
<1> QED
  BY <1>1, <1>2, <1>3

Found(d, nm, i, g) == i = First(Find(d, nm)) /\ g = obj[d].recs[i].g

LEMMA RmEntryFound ==
  ASSUME IInv, DoRmEntry, NEW u, u = Head(call), NEW d, d = u.g,
         NEW nm, nm = u.rec.name, Has(d, nm),
         NEW i, NEW g, Found(d, nm, i, g)
  PROVE  /\ i \in 1..obj[d].size /\ i \in Nat \ {0}
         /\ obj[d].recs[i].name = nm /\ g \in Guids
         /\ Here(g)
         /\ Dirtied(g) /\ obj'[g].kind = obj[g].kind
         /\ obj'[g].nlink = obj[g].nlink - 1
         /\ obj'[g].exist <=> obj[g].nlink > 1
         /\ obj'[g].size = obj[g].size /\ obj'[g].recs = obj[g].recs
         /\ hand'.d = d /\ hand'.i = i /\ hand'.rec = JunkRecord
<1>1. /\ call # <<>> /\ hand = NoHand /\ u.op = "rmEntry"
      /\ d \in Guids /\ OpenDir(d) /\ nm \in EntryNames /\ obj[d] \in Objects
  BY RmEntryFacts, HeadFacts
<1>2. /\ i \in 1..obj[d].size /\ g \in Guids /\ obj[d].recs[i].name = nm
      /\ obj[d].size \in Nat
  <2>1. i = First(Find(d, nm)) /\ g = obj[d].recs[i].g
    BY DEF Found
  <2> QED
    BY <1>1, <2>1, FindFacts DEF OpenDir
<1>3. /\ Here(g)
      /\ Change(g, [obj[g] EXCEPT !.nlink = @ - 1, !.exist = obj[g].nlink > 1])
      /\ hand' = [step |-> IF i = obj[d].size THEN "close" ELSE "move",
                  d |-> d, i |-> i, rec |-> JunkRecord]
  BY DEF DoRmEntry, Found
<1>4. obj[g] \in Objects /\ obj[g] # None
  BY <1>2, <1>3, Shape DEF Here
<1> DEFINE n == obj[g].nlink - 1
           b == obj[g].nlink > 1
<1>5. n \in Int /\ b \in BOOLEAN
  <2>1. PICK x \in Int : x = obj[g].nlink
    BY <1>4 DEF Objects
  <2>2. n \in Int
    <3>1. x - 1 \in Int
      OBVIOUS
    <3>2. n = x - 1
      BY <2>1, Zenon
    <3> HIDE DEF n
    <3> QED
      BY <3>1, <3>2
  <2>3. b \in BOOLEAN
    OBVIOUS
  <2> QED
    BY <2>2, <2>3
<1>6. PICK o : o = [obj[g] EXCEPT !.nlink = n, !.exist = b]
  OBVIOUS
<1>7. Change(g, o)
  <2>1. o = [obj[g] EXCEPT !.nlink = @ - 1, !.exist = obj[g].nlink > 1]
    BY <1>4, <1>6 DEF Objects
  <2> QED
    BY <1>3, <2>1
<1>8. /\ o \in Objects /\ o.kind = obj[g].kind
      /\ o.size = obj[g].size /\ o.recs = obj[g].recs
      /\ o.nlink = n /\ o.exist = b
  <2> HIDE DEF n, b
  <2>1. Counted(g, o, n, b)
    BY <1>2, <1>3, <1>5, <1>6, CountChanged
  <2> QED
    BY <2>1 DEF Counted
<1>9. /\ Dirtied(g)
      /\ obj'[g].kind = o.kind /\ obj'[g].size = o.size /\ obj'[g].recs = o.recs
      /\ obj'[g].nlink = o.nlink /\ obj'[g].exist = o.exist
  <2>1. o \in Objects
    BY <1>8
  <2> HIDE DEF n, b
  <2> QED
    BY <1>2, <1>4, <1>7, <2>1, ChangedFile
<1>10. hand'.d = d /\ hand'.i = i /\ hand'.rec = JunkRecord
  BY <1>3
<1> HIDE DEF b
<1>11. obj'[g].exist <=> b
  BY <1>8, <1>9
<1>12. /\ obj'[g].kind = obj[g].kind /\ obj'[g].nlink = obj[g].nlink - 1
       /\ obj'[g].size = obj[g].size /\ obj'[g].recs = obj[g].recs
  BY <1>8, <1>9
<1>13. obj'[g].exist <=> obj[g].nlink > 1
  BY <1>11 DEF b
<1>14. i \in Nat \ {0}
  BY <1>2
<1> HIDE DEF n
<1> QED
  BY <1>2, <1>3, <1>9, <1>10, <1>12, <1>13, <1>14

-----------------------------------------------------------------------------
(***************************************************************************)
(* Memory and storage: what a file that is Clean, Uploading or Dirty has   *)
(* in the container, and what an end of the process leaves there.          *)
(***************************************************************************)
SameFile(o, p) ==
  /\ o.kind = p.kind /\ o.nlink = p.nlink /\ o.exist = p.exist
  /\ o.size = p.size /\ o.recs = p.recs

\* What an upload of o leaves.
Stored(g, o) ==
  IF o.exist
  THEN /\ data[g] # None /\ meta[g] # None /\ meta[g].kind = o.kind
       /\ meta[g].nlink = o.nlink /\ meta[g].size = o.size
       /\ o.size = 0 \/ data[g] = o.recs
  ELSE data[g] = None /\ meta[g] = None

Saved == \A g \in Guids :
  obj[g] # None /\ obj[g].status = "Clean" => Stored(g, obj[g])
Taken == \A g \in Guids :
  obj[g] # None /\ obj[g].status = "Uploading" =>
    task.g = g /\ SameFile(obj[g], task.snap)
Unsaved == \A g \in Guids :
  obj[g] # None /\ obj[g].status = "Dirty" =>
    \E i \in DOMAIN upload_queue : upload_queue[i] = g
InHand == task # NoTask =>
  /\ obj[task.g].status # "Clean"
  /\ task.todo = "delete" <=> ~task.snap.exist
  /\ ~task.snap.exist => ~obj[task.g].exist

\* Blobs that no file in memory stands for, and blobs without metadata.
Unread == \A g \in Guids :
  mounted /\ obj[g] = None /\ Loadable(g) => g \in lost
Half == \A g \in Guids :
  data[g] # None /\ meta[g] = None => g \in lost \/ g = task.g

\* The rootdir, until the container has it.
Todo == {call[i] : i \in DOMAIN call}
Rootless ==
  container = None =>
    /\ mounted => /\ \E u \in Todo : u.op = "container"
                  /\ \A u \in Todo : u.op \in Create => u.g = rootdir
    /\ \A g \in Guids : obj[g] # None \/ data[g] # None =>
         g \in lost \/ (mounted /\ g = rootdir)

Synced == Saved /\ Taken /\ Unsaved /\ InHand /\ Half
SInv == Synced /\ Unread /\ Rootless

-----------------------------------------------------------------------------
\* The rest of a call, as a set.
LEMMA TodoFacts ==
  ASSUME IInv
  PROVE  /\ \A u \in Todo : /\ u \in Updates /\ u.g \in Guids
                            /\ u.op \in Create => Fresh(u) /\ New(u.g)
                            /\ u.op \notin Create => Sound(u)
         /\ call = <<>> => Todo = {}
         /\ Todo = {} => call = <<>>
<1>1. call \in Seq(Updates)
  BY DEF IInv, TypeOK
<1>2. ASSUME NEW i \in DOMAIN call
      PROVE  /\ call[i] \in Updates /\ call[i].g \in Guids
             /\ call[i].op \in Create => Fresh(call[i]) /\ New(call[i].g)
             /\ call[i].op \notin Create => Sound(call[i])
  <2>1. PICK u \in Updates : u = call[i]
    BY <1>1, ElementOfSeq, LenProperties
  <2>2. u.op \in Create => i = 1 /\ Fresh(u)
    BY <2>1 DEF IInv, Calls
  <2>3. u.op \in Create => New(u.g)
    <3> SUFFICES ASSUME u.op \in Create PROVE New(u.g)
      OBVIOUS
    <3>1. call # <<>> /\ Head(call) = call[1]
      BY <1>1, <2>2, HeadTailProperties, EmptySeq
    <3> QED
      BY <2>1, <2>2, <3>1 DEF New
  <2>4. u.op \notin Create => Sound(u)
    BY <2>1 DEF IInv, Calls
  <2>5. u.g \in Guids
    BY DEF Updates
  <2> QED
    BY <2>1, <2>2, <2>3, <2>4, <2>5
<1>3. call = <<>> => Todo = {}
  BY EmptySeq DEF Todo
<1>4. Todo = {} => call = <<>>
  <2> SUFFICES ASSUME call # <<>> PROVE Todo # {}
    OBVIOUS
  <2>1. 1 \in DOMAIN call
    BY <1>1, LenProperties, EmptySeq
  <2> QED
    BY <2>1 DEF Todo
<1> QED
  BY <1>2, <1>3, <1>4 DEF Todo

LEMMA TodoTail ==
  ASSUME IInv, call # <<>>, call' = Tail(call)
  PROVE  /\ Todo' \subseteq Todo /\ Head(call) \in Todo
         /\ \A u \in Todo : u = Head(call) \/ u \in Todo'
         /\ \A u \in Todo' : u.op \notin Create
<1>1. call \in Seq(Updates) /\ Len(call) \in Nat \ {0}
      /\ DOMAIN call = 1..Len(call)
  BY LenProperties, EmptySeq DEF IInv, TypeOK
<1>2. /\ Head(call) = call[1]
      /\ DOMAIN Tail(call) = 1..Len(call) - 1
      /\ \A i \in 1..Len(call) - 1 : Tail(call)[i] = call[i + 1]
  BY <1>1, HeadTailProperties, LenProperties
<1>3. Todo' = {Tail(call)[i] : i \in 1..Len(call) - 1}
  BY <1>2 DEF Todo
<1>4. \A i \in 1..Len(call) - 1 : i + 1 \in 1..Len(call) /\ i + 1 # 1
  BY <1>1
<1>5. Todo' \subseteq Todo
  BY <1>1, <1>2, <1>3, <1>4 DEF Todo
<1>6. Head(call) \in Todo
  BY <1>1, <1>2 DEF Todo
<1>7. ASSUME NEW i \in DOMAIN call PROVE call[i] = Head(call) \/ call[i] \in Todo'
  <2>1. CASE i = 1
    BY <1>2, <2>1
  <2>2. CASE i # 1
    <3>1. i - 1 \in 1..Len(call) - 1 /\ (i - 1) + 1 = i
      BY <1>1, <2>2
    <3>2. Tail(call)[i - 1] = call[i]
      BY <1>2, <3>1
    <3> QED
      BY <1>3, <3>1, <3>2
  <2> QED
    BY <2>1, <2>2
<1>8. \A u \in Todo' : u.op \notin Create
  BY <1>2, <1>3, Rest
<1> QED
  BY <1>5, <1>6, <1>7, <1>8 DEF Todo

\* A file that is queued.
LEMMA QueueFacts ==
  ASSUME IInv, NEW g, upload_queue' = Append(upload_queue, g)
  PROVE  /\ \A i \in DOMAIN upload_queue :
              i \in DOMAIN upload_queue' /\ upload_queue'[i] = upload_queue[i]
         /\ \E i \in DOMAIN upload_queue' : upload_queue'[i] = g
<1>1. upload_queue \in Seq(Guids) /\ Len(upload_queue) \in Nat
      /\ DOMAIN upload_queue = 1..Len(upload_queue)
  BY LenProperties DEF IInv, TypeOK
<1>2. upload_queue \in Seq(Guids \cup {g})
  <2>1. upload_queue \in [1..Len(upload_queue) -> Guids]
    BY <1>1, LenProperties
  <2> QED
    BY <1>1, <2>1
<1>3. /\ DOMAIN upload_queue' = 1..Len(upload_queue) + 1
      /\ \A i \in 1..Len(upload_queue) : upload_queue'[i] = upload_queue[i]
      /\ upload_queue'[Len(upload_queue) + 1] = g
  BY <1>2, AppendProperties, LenProperties
<1> QED
  BY <1>1, <1>3

LEMMA DirtiedSynced ==
  ASSUME IInv, Synced, NEW g \in Guids, Dirtied(g), UNCHANGED <<task, data, meta, lost>>,
         obj[g] # None /\ obj'[g].exist => obj[g].exist
  PROVE  Synced'
<1>1. /\ obj'[g] # None /\ obj'[g].status = "Dirty"
      /\ \A h \in Guids \ {g} : obj'[h] = obj[h]
  BY DEF Dirtied
<1>2. Saved'
  <2> SUFFICES ASSUME NEW h \in Guids, obj'[h] # None, obj'[h].status = "Clean"
               PROVE  Stored(h, obj[h])'
    BY DEF Saved
  <2>1. h # g /\ obj'[h] = obj[h]
    BY <1>1
  <2>2. Stored(h, obj[h])
    BY <2>1 DEF Synced, Saved
  <2> QED
    BY <2>1, <2>2 DEF Stored
<1>3. Taken'
  <2> SUFFICES ASSUME NEW h \in Guids, obj'[h] # None, obj'[h].status = "Uploading"
               PROVE  task.g = h /\ SameFile(obj'[h], task.snap)
    BY DEF Taken
  <2>1. h # g /\ obj'[h] = obj[h]
    BY <1>1
  <2> QED
    BY <2>1 DEF Synced, Taken
<1>4. Unsaved'
  <2> SUFFICES ASSUME NEW h \in Guids, obj'[h] # None, obj'[h].status = "Dirty"
               PROVE  \E i \in DOMAIN upload_queue' : upload_queue'[i] = h
    BY DEF Unsaved
  <2>1. CASE upload_queue' = upload_queue
    <3>1. obj[h] # None /\ obj[h].status = "Dirty"
      <4>1. CASE h # g
        BY <1>1, <4>1
      <4>2. CASE h = g
        <5>1. ASSUME upload_queue' = Append(upload_queue, g) PROVE FALSE
          <6>1. upload_queue \in Seq(Guids) /\ Len(upload_queue) \in Nat
            BY LenProperties DEF IInv, TypeOK
          <6>2. Len(upload_queue') = Len(upload_queue) + 1
            BY <5>1, <6>1, AppendProperties
          <6> QED
            BY <2>1, <6>1, <6>2
        <5> QED
          BY <4>2, <5>1 DEF Dirtied
      <4> QED
        BY <4>1, <4>2
    <3> QED
      BY <2>1, <3>1 DEF Synced, Unsaved
  <2>2. CASE upload_queue' = Append(upload_queue, g)
    <3>1. CASE h = g
      BY <2>2, <3>1, QueueFacts
    <3>2. CASE h # g
      <4>1. obj[h] # None /\ obj[h].status = "Dirty"
        BY <1>1, <3>2
      <4> QED
        BY <2>2, <4>1, QueueFacts DEF Synced, Unsaved
    <3> QED
      BY <3>1, <3>2
  <2> QED
    BY <2>1, <2>2 DEF Dirtied
<1>5. InHand'
  <2> SUFFICES ASSUME task # NoTask PROVE InHand'
    BY DEF InHand
  <2>1. PICK h \in Guids : h = task.g /\ obj[h] # None
    BY Shape DEF IInv, Uploading
  <2>2. /\ obj[h].status # "Clean" /\ (task.todo = "delete" <=> ~task.snap.exist)
        /\ ~task.snap.exist => ~obj[h].exist
    BY <2>1 DEF Synced, InHand
  <2>3. obj'[h].status # "Clean" /\ (~obj[h].exist => ~obj'[h].exist)
    <3>1. CASE h = g
      BY <1>1, <2>1, <3>1
    <3>2. CASE h # g
      BY <1>1, <2>2, <3>2
    <3> QED
      BY <3>1, <3>2
  <2> QED
    BY <2>1, <2>2, <2>3 DEF InHand
<1>6. Half'
  BY DEF Synced, Half
<1> QED
  BY <1>2, <1>3, <1>4, <1>5, <1>6 DEF Synced

\* The upload thread and its task: nothing of a file but its status changes.
LEMMA LaunchFacts ==
  ASSUME IInv, Launch, NEW g, g = Head(upload_queue)
  PROVE  /\ IInv' /\ g \in Guids /\ obj[g] # None /\ obj[g].status = "Dirty"
         /\ obj'[g] # None /\ obj'[g].status = "Uploading"
         /\ SameFile(obj'[g], obj[g])
         /\ \A h \in Guids \ {g} : obj'[h] = obj[h]
         /\ mounted /\ task = NoTask /\ task' # NoTask /\ task'.g = g
         /\ task'.snap = obj[g] /\ (task'.todo = "delete" <=> ~obj[g].exist)
         /\ UNCHANGED <<mounted, rootdir, call, hand, container, data, meta,
                        uuids, lost>>
         /\ \A i \in DOMAIN upload_queue :
              \/ upload_queue[i] = g
              \/ \E j \in DOMAIN upload_queue' : upload_queue'[j] = upload_queue[i]
<1>1. /\ upload_queue \in Seq(Guids) /\ upload_queue # <<>>
      /\ mounted /\ task = NoTask
      /\ obj' = [obj EXCEPT ![g].status = "Uploading"]
      /\ upload_queue' = Tail(upload_queue)
      /\ task' = [g |-> g, todo |-> IF obj[g].exist THEN "blocks" ELSE "delete",
                  snap |-> obj[g]]
      /\ UNCHANGED <<mounted, rootdir, call, hand, container, data, meta,
                     uuids, lost>>
  BY DEF Launch, IInv, TypeOK, storage, history
<1>2. /\ g \in Guids /\ Len(upload_queue) \in Nat \ {0} /\ g = upload_queue[1]
      /\ DOMAIN upload_queue = 1..Len(upload_queue)
      /\ DOMAIN Tail(upload_queue) = 1..Len(upload_queue) - 1
      /\ \A i \in 1..Len(upload_queue) - 1 :
           Tail(upload_queue)[i] = upload_queue[i + 1]
  BY <1>1, HeadTailProperties, LenProperties, EmptySeq
<1>3. obj[g] # None /\ obj[g].status = "Dirty" /\ obj[g] \in Objects
  BY <1>2 DEF IInv, Waiting, TypeOK
<1>4. /\ \A h \in Guids \ {g} : obj'[h] = obj[h]
      /\ obj'[g] \in Objects /\ obj'[g].status = "Uploading"
      /\ obj'[g].recs = obj[g].recs /\ obj'[g].size = obj[g].size
      /\ obj'[g].kind = obj[g].kind /\ obj'[g].nlink = obj[g].nlink
      /\ obj'[g].exist = obj[g].exist
  <2>1. obj \in [Guids -> Objects \cup {None}]
    BY DEF IInv, TypeOK
  <2>2. PICK h \in Guids : h = g
    BY <1>2
  <2> QED
    BY <2>1, <2>2, <1>1, <1>3, StatusSet DEF Statuses
<1>5. /\ task'.g = g /\ task'.snap = obj[g]
      /\ (task'.todo = "delete" <=> ~obj[g].exist)
  BY <1>1
<1>6. task' # NoTask
  BY <1>2, <1>5, TypeFacts DEF NoTask
<1>7. ASSUME NEW i \in DOMAIN upload_queue
      PROVE  \/ upload_queue[i] = g
             \/ \E j \in DOMAIN upload_queue' : upload_queue'[j] = upload_queue[i]
  <2>1. CASE i = 1
    BY <1>2, <2>1
  <2>2. CASE i # 1
    <3>1. i - 1 \in 1..Len(upload_queue) - 1 /\ (i - 1) + 1 = i
      BY <1>2, <2>2
    <3> QED
      BY <1>1, <1>2, <3>1
  <2> QED
    BY <2>1, <2>2
<1>8. IInv'
  BY LaunchKept
<1> QED
  BY <1>1, <1>2, <1>3, <1>4, <1>5, <1>6, <1>7, <1>8, TypeFacts DEF SameFile

LEMMA Finished ==
  ASSUME IInv, task # NoTask, Finish, NEW g, g = task.g
  PROVE  /\ task' = NoTask /\ g \in Guids /\ obj[g] # None /\ obj'[g] # None
         /\ SameFile(obj'[g], obj[g])
         /\ obj'[g].status = IF obj[g].status = "Uploading" THEN "Clean"
                                                       ELSE obj[g].status
         /\ \A h \in Guids \ {g} : obj'[h] = obj[h]
<1>1. /\ g \in Guids /\ obj[g] \in Objects /\ obj[g] # None
      /\ obj \in [Guids -> Objects \cup {None}]
  BY Shape DEF IInv, TypeOK, Uploading
<1> DEFINE s == IF obj[g].status = "Uploading" THEN "Clean" ELSE obj[g].status
<1>2. s \in Statuses
  BY <1>1 DEF Objects, Statuses
<1>3. obj' = [obj EXCEPT ![g].status = s] /\ task' = NoTask
  BY <1>1 DEF Finish
<1> HIDE DEF s
<1>4. PICK h \in Guids : h = g
  BY <1>1
<1>5. /\ \A x \in Guids \ {g} : obj'[x] = obj[x]
      /\ obj'[g] \in Objects /\ obj'[g].status = s
      /\ obj'[g].recs = obj[g].recs /\ obj'[g].size = obj[g].size
      /\ obj'[g].kind = obj[g].kind /\ obj'[g].nlink = obj[g].nlink
      /\ obj'[g].exist = obj[g].exist
  BY <1>1, <1>2, <1>3, <1>4, StatusSet
<1> QED
  BY <1>1, <1>3, <1>5, TypeFacts DEF SameFile, s

\* One of the three requests of a task.
LEMMA DeleteFacts ==
  ASSUME IInv, DeleteBlob, NEW g, g = task.g
  PROVE  /\ IInv' /\ task # NoTask /\ task.todo = "delete" /\ Finish
         /\ g \in Guids /\ data'[g] = None /\ meta'[g] = None
         /\ \A h \in Guids \ {g} : data'[h] = data[h] /\ meta'[h] = meta[h]
         /\ UNCHANGED <<mounted, rootdir, upload_queue, call, hand, container,
                        uuids, lost>>
<1>1. task # NoTask
  BY DEF DeleteBlob, NoTask
<1>2. g \in Guids
  BY <1>1, Shape
<1>3. IInv'
  BY DeleteBlobKept
<1> QED
  BY <1>1, <1>2, <1>3 DEF DeleteBlob, history, IInv, TypeOK

LEMMA CommitFacts ==
  ASSUME IInv, CommitBlocks, NEW g, g = task.g
  PROVE  /\ IInv' /\ task # NoTask /\ task.todo = "blocks"
         /\ g \in Guids /\ obj[g] # None /\ data'[g] # None
         /\ task' # NoTask /\ task'.g = g /\ task'.snap = task.snap
         /\ task'.todo = "metadata"
         /\ \A h \in Guids \ {g} : data'[h] = data[h]
         /\ UNCHANGED <<mounted, rootdir, obj, upload_queue, call, hand,
                        container, meta, uuids, lost>>
<1>1. task # NoTask /\ task.todo = "blocks"
  BY DEF CommitBlocks, NoTask
<1>2. task \in Tasks /\ g \in Guids /\ task.snap \in Objects /\ obj[g] # None
  BY <1>1, Shape DEF IInv, Uploading
<1>3. IInv'
  BY CommitBlocksKept
<1>4. /\ data' = [data EXCEPT ![g] = Written(task.snap)]
      /\ task' = [task EXCEPT !.todo = "metadata"]
      /\ UNCHANGED <<mounted, rootdir, obj, upload_queue, call, hand, container,
                     meta, uuids, lost>>
  BY DEF CommitBlocks, Written, storage, history
<1>5. Written(task.snap) # None
  <2>1. <<>> \in Seq(Records)
    BY EmptySeq
  <2> QED
    BY <1>2, <2>1, TypeFacts DEF Written
<1>6. /\ task'.g = g /\ task'.snap = task.snap
      /\ task'.todo = "metadata"
  BY <1>2, <1>4 DEF Tasks
<1>7. task' # NoTask
  BY <1>2, <1>6, TypeFacts DEF NoTask
<1>8. data'[g] # None /\ \A h \in Guids \ {g} : data'[h] = data[h]
  BY <1>2, <1>4, <1>5 DEF IInv, TypeOK
<1> QED
  BY <1>1, <1>2, <1>3, <1>4, <1>6, <1>7, <1>8

LEMMA PutFacts ==
  ASSUME IInv, PutMetadata, NEW g, g = task.g
  PROVE  /\ IInv' /\ task # NoTask /\ task.todo = "metadata" /\ Finish
         /\ g \in Guids /\ data[g] = Written(task.snap) /\ data[g] # None
         /\ meta'[g] # None /\ meta'[g].kind = task.snap.kind
         /\ meta'[g].nlink = task.snap.nlink /\ meta'[g].size = task.snap.size
         /\ \A h \in Guids \ {g} : meta'[h] = meta[h]
         /\ UNCHANGED <<mounted, rootdir, upload_queue, call, hand, container,
                        data, uuids, lost>>
<1>1. task # NoTask /\ task.todo = "metadata"
  BY DEF PutMetadata, NoTask
<1>2. /\ g \in Guids /\ task.snap \in Objects
      /\ data[g] = Written(task.snap)
  BY <1>1, Shape DEF IInv, Uploading
<1>3. IInv'
  BY PutMetadataKept
<1>4. data[g] # None
  <2>1. <<>> \in Seq(Records)
    BY EmptySeq
  <2> QED
    BY <1>2, <2>1, TypeFacts DEF Written
<1>5. /\ meta' = [meta EXCEPT ![g] = MetadataOf(task.snap)] /\ Finish
      /\ UNCHANGED <<mounted, rootdir, upload_queue, call, hand, container,
                     data, uuids, lost>>
  BY DEF PutMetadata, Metadata, history
<1> DEFINE m == MetadataOf(task.snap)
<1>6. /\ m \in Metas /\ m.kind = task.snap.kind
      /\ m.nlink = task.snap.nlink /\ m.size = task.snap.size
  BY <1>2 DEF Metas, Objects, MetadataOf
<1> HIDE DEF m
<1>7. meta'[g] = m /\ \A h \in Guids \ {g} : meta'[h] = meta[h]
  BY <1>2, <1>5 DEF IInv, TypeOK, m
<1> QED
  BY <1>1, <1>2, <1>3, <1>4, <1>5, <1>6, <1>7, TypeFacts

-----------------------------------------------------------------------------
LEMMA LaunchSynced == ASSUME IInv, Synced, Launch PROVE Synced'
<1>1. PICK g : g = Head(upload_queue)
  OBVIOUS
<1>2. /\ g \in Guids /\ obj[g] # None
      /\ obj'[g] # None /\ obj'[g].status = "Uploading"
      /\ SameFile(obj'[g], obj[g])
      /\ \A h \in Guids \ {g} : obj'[h] = obj[h]
      /\ task = NoTask /\ task'.g = g
      /\ task'.snap = obj[g] /\ (task'.todo = "delete" <=> ~obj[g].exist)
      /\ UNCHANGED <<data, meta, lost>>
      /\ \A i \in DOMAIN upload_queue :
           \/ upload_queue[i] = g
           \/ \E j \in DOMAIN upload_queue' : upload_queue'[j] = upload_queue[i]
  BY <1>1, LaunchFacts
<1>3. Saved'
  <2> SUFFICES ASSUME NEW h \in Guids, obj'[h] # None, obj'[h].status = "Clean"
               PROVE  Stored(h, obj[h])'
    BY DEF Saved
  <2>1. h # g /\ obj'[h] = obj[h]
    BY <1>2
  <2> QED
    BY <1>2, <2>1 DEF Stored, Synced, Saved
<1>4. Taken'
  <2> SUFFICES ASSUME NEW h \in Guids, obj'[h] # None, obj'[h].status = "Uploading"
               PROVE  task'.g = h /\ SameFile(obj'[h], task'.snap)
    BY DEF Taken
  <2>1. CASE h = g
    BY <1>2, <2>1
  <2>2. CASE h # g
    <3>1. obj'[h] = obj[h]
      BY <1>2, <2>2
    <3>2. task.g = h
      BY <3>1 DEF Synced, Taken
    <3> QED
      BY <1>2, <3>2, TypeFacts DEF NoTask
  <2> QED
    BY <2>1, <2>2
<1>5. Unsaved'
  <2> SUFFICES ASSUME NEW h \in Guids, obj'[h] # None, obj'[h].status = "Dirty"
               PROVE  \E i \in DOMAIN upload_queue' : upload_queue'[i] = h
    BY DEF Unsaved
  <2>1. h # g /\ obj'[h] = obj[h]
    BY <1>2
  <2>2. PICK i \in DOMAIN upload_queue : upload_queue[i] = h
    BY <2>1 DEF Synced, Unsaved
  <2> QED
    BY <1>2, <2>1, <2>2
<1>6. InHand'
  BY <1>2 DEF InHand, SameFile
<1>7. Half'
  BY <1>2, TypeFacts DEF Synced, Half, NoTask
<1> QED
  BY <1>3, <1>4, <1>5, <1>6, <1>7 DEF Synced

\* The end of a task: what it means for the other files.
LEMMA FinishSynced ==
  ASSUME IInv, Synced, task # NoTask, Finish, NEW g, g = task.g,
         UNCHANGED <<upload_queue, lost>>,
         \A h \in Guids \ {g} : data'[h] = data[h] /\ meta'[h] = meta[h],
         data'[g] # None => meta'[g] # None,
         obj[g].status = "Uploading" => Stored(g, obj[g])'
  PROVE  Synced'
<1>1. /\ task' = NoTask /\ g \in Guids /\ obj[g] # None /\ obj'[g] # None
      /\ SameFile(obj'[g], obj[g])
      /\ obj'[g].status = IF obj[g].status = "Uploading" THEN "Clean"
                                                   ELSE obj[g].status
      /\ \A h \in Guids \ {g} : obj'[h] = obj[h]
  BY Finished
<1>2. obj[g].status # "Clean"
  BY DEF Synced, InHand
<1>3. Saved'
  <2> SUFFICES ASSUME NEW h \in Guids, obj'[h] # None, obj'[h].status = "Clean"
               PROVE  Stored(h, obj[h])'
    BY DEF Saved
  <2>1. CASE h = g
    BY <1>1, <1>2, <2>1
  <2>2. CASE h # g
    <3>1. obj'[h] = obj[h] /\ data'[h] = data[h] /\ meta'[h] = meta[h]
      BY <1>1, <2>2
    <3>2. Stored(h, obj[h])
      BY <3>1 DEF Synced, Saved
    <3> QED
      BY <3>1, <3>2 DEF Stored
  <2> QED
    BY <2>1, <2>2
<1>4. Taken'
  <2> SUFFICES ASSUME NEW h \in Guids, obj'[h] # None, obj'[h].status = "Uploading"
               PROVE  FALSE
    BY DEF Taken
  <2>1. h # g
    BY <1>1
  <2> QED
    BY <1>1, <2>1 DEF Synced, Taken
<1>5. Unsaved'
  <2> SUFFICES ASSUME NEW h \in Guids, obj'[h] # None, obj'[h].status = "Dirty"
               PROVE  \E i \in DOMAIN upload_queue : upload_queue[i] = h
    BY DEF Unsaved
  <2>1. obj[h] # None /\ obj[h].status = "Dirty"
    BY <1>1
  <2> QED
    BY <2>1 DEF Synced, Unsaved
<1>6. InHand'
  BY <1>1 DEF InHand
<1>7. Half'
  <2> SUFFICES ASSUME NEW h \in Guids, data'[h] # None, meta'[h] = None
               PROVE  h \in lost
    BY DEF Half
  <2> QED
    BY DEF Synced, Half
<1> QED
  BY <1>3, <1>4, <1>5, <1>6, <1>7 DEF Synced

LEMMA DeleteSynced == ASSUME IInv, Synced, DeleteBlob PROVE Synced'
<1>1. PICK g : g = task.g
  OBVIOUS
<1>2. /\ task # NoTask /\ task.todo = "delete" /\ Finish
      /\ g \in Guids /\ data'[g] = None /\ meta'[g] = None
      /\ \A h \in Guids \ {g} : data'[h] = data[h] /\ meta'[h] = meta[h]
      /\ UNCHANGED <<upload_queue, lost>>
  BY <1>1, DeleteFacts
<1>3. ~obj[g].exist /\ obj'[g].exist = obj[g].exist
  BY <1>1, <1>2, Finished DEF Synced, InHand, SameFile
<1>4. Stored(g, obj[g])'
  BY <1>2, <1>3 DEF Stored
<1> QED
  BY <1>1, <1>2, <1>4, FinishSynced

LEMMA CommitSynced == ASSUME IInv, Synced, CommitBlocks PROVE Synced'
<1>1. PICK g : g = task.g
  OBVIOUS
<1>2. /\ task # NoTask /\ task.todo = "blocks"
      /\ g \in Guids /\ data'[g] # None
      /\ task' # NoTask /\ task'.g = g /\ task'.snap = task.snap
      /\ task'.todo = "metadata"
      /\ \A h \in Guids \ {g} : data'[h] = data[h]
      /\ UNCHANGED <<obj, upload_queue, meta, lost>>
  BY <1>1, CommitFacts
<1>3. Saved'
  <2> SUFFICES ASSUME NEW h \in Guids, obj[h] # None, obj[h].status = "Clean"
               PROVE  Stored(h, obj[h])'
    BY <1>2 DEF Saved
  <2>1. h # g /\ Stored(h, obj[h])
    BY <1>1, <1>2 DEF Synced, InHand, Saved
  <2> QED
    BY <1>2, <2>1 DEF Stored
<1>4. Taken' /\ Unsaved' /\ InHand'
  BY <1>1, <1>2 DEF Synced, Taken, Unsaved, InHand
<1>5. Half'
  BY <1>1, <1>2 DEF Synced, Half
<1> QED
  BY <1>3, <1>4, <1>5 DEF Synced

LEMMA PutSynced == ASSUME IInv, Synced, PutMetadata PROVE Synced'
<1>1. PICK g : g = task.g
  OBVIOUS
<1>2. /\ task # NoTask /\ task.todo = "metadata" /\ Finish
      /\ g \in Guids /\ data[g] = Written(task.snap) /\ data[g] # None
      /\ meta'[g] # None /\ meta'[g].kind = task.snap.kind
      /\ meta'[g].nlink = task.snap.nlink /\ meta'[g].size = task.snap.size
      /\ \A h \in Guids \ {g} : meta'[h] = meta[h]
      /\ UNCHANGED <<upload_queue, data, lost>>
  BY <1>1, PutFacts
<1>3. ASSUME obj[g].status = "Uploading" PROVE Stored(g, obj[g])'
  <2>1. obj[g] # None /\ SameFile(obj'[g], obj[g])
    BY <1>1, <1>2, Finished
  <2>2. SameFile(obj[g], task.snap) /\ task.snap.exist
    BY <1>1, <1>2, <1>3, <2>1 DEF Synced, Taken, InHand
  <2> QED
    BY <1>2, <2>1, <2>2 DEF Stored, SameFile, Written
<1> QED
  BY <1>1, <1>2, <1>3, FinishSynced

\* Steps that leave mounted, rootdir and container, and the call or its rest.
LEMMA StepRooted ==
  ASSUME IInv, SInv, UNCHANGED <<mounted, rootdir, container>>, lost \subseteq lost',
         \A g \in Guids : obj'[g] = None =>
           obj[g] = None /\ data'[g] = data[g] /\ meta'[g] = meta[g],
         \A g \in Guids : obj[g] = None /\ obj'[g] # None => New(g),
         \/ call' = call
         \/ call # <<>> /\ call' = Tail(call) /\ Head(call).op # "container"
  PROVE  Unread' /\ Rootless'
<1>1. Unread'
  BY DEF SInv, Unread, Loadable
<1>2. Todo' \subseteq Todo /\ \A u \in Todo : u.op = "container" => u \in Todo'
  <2>1. CASE call' = call
    BY <2>1 DEF Todo
  <2>2. CASE call # <<>> /\ call' = Tail(call) /\ Head(call).op # "container"
    BY <2>2, TodoTail
  <2> QED
    BY <2>1, <2>2
<1>3. ASSUME container = None, NEW g \in Guids, obj'[g] # None \/ data'[g] # None
      PROVE  g \in lost' \/ (mounted /\ g = rootdir)
  <2>1. CASE obj[g] # None \/ data[g] # None
    BY <1>3, <2>1 DEF SInv, Rootless
  <2>2. CASE obj[g] = None /\ data[g] = None
    <3>1. New(g)
      BY <1>3, <2>2
    <3>2. Head(call) \in Todo
      <4>1. call # <<>> /\ call \in Seq(Updates)
        BY <3>1 DEF New, IInv, TypeOK
      <4>2. Head(call) = call[1] /\ 1 \in DOMAIN call
        BY <4>1, Rest
      <4> QED
        BY <4>2 DEF Todo
    <3>3. mounted
      BY <3>1 DEF New, IInv, Forgotten
    <3> QED
      BY <1>3, <3>1, <3>2, <3>3 DEF SInv, Rootless, New
  <2> QED
    BY <2>1, <2>2
<1>4. Rootless'
  BY <1>2, <1>3 DEF SInv, Rootless
<1> QED
  BY <1>1, <1>4

\* The files and blobs stay, and so does what is under way.
LEMMA SameSynced ==
  ASSUME Synced, UNCHANGED <<obj, upload_queue, task, data, meta>>,
         lost \subseteq lost'
  PROVE  Synced'
BY DEF Synced, Saved, Stored, Taken, Unsaved, InHand, Half

LEMMA BeginSynced ==
  ASSUME IInv, SInv, NEW op, NEW used, NEW changed, NEW updates,
         Begin(op, used, changed, updates)
  PROVE  SInv'
<1>1. /\ mounted /\ call = <<>> /\ lost \subseteq lost'
      /\ UNCHANGED <<mounted, rootdir, obj, upload_queue, task, container, data,
                     meta>>
  BY DEF Begin, storage
<1>2. container # None
  BY <1>1, TodoFacts DEF SInv, Rootless
<1> QED
  BY <1>1, <1>2, SameSynced DEF SInv, Unread, Loadable, Rootless

LEMMA DoContainerSynced == ASSUME IInv, SInv, DoContainer PROVE SInv'
<1>1. /\ mounted /\ rootdir \in Guids /\ container' = rootdir
      /\ UNCHANGED <<mounted, rootdir, obj, upload_queue, task, data, meta, lost>>
  BY DEF DoContainer, Doing, history, IInv, Forgotten
<1> QED
  BY <1>1, SameSynced, TypeFacts DEF SInv, Unread, Loadable, Rootless

\* The process ends.  What it had not saved is lost.
LEMMA ForgetSynced ==
  ASSUME IInv, SInv, Forget, UNCHANGED storage, lost \subseteq lost',
         task = NoTask \/ task.g \in lost',
         container = None => \E u \in Todo : u.g = rootdir /\ u.g \in lost'
  PROVE  SInv'
<1>1. /\ mounted' = FALSE /\ upload_queue' = <<>> /\ task' = NoTask
      /\ \A g \in Guids : obj'[g] = None
      /\ UNCHANGED <<container, data, meta>>
  BY DEF Forget, storage
<1>2. Half'
  <2> SUFFICES ASSUME NEW g \in Guids, data[g] # None, meta[g] = None
               PROVE  g \in lost'
    BY <1>1 DEF Half
  <2> QED
    BY TypeFacts DEF SInv, Synced, Half, NoTask
<1>3. Synced'
  BY <1>1, <1>2 DEF Synced, Saved, Taken, Unsaved, InHand
<1>4. Rootless'
  <2> SUFFICES ASSUME container = None, NEW g \in Guids, data[g] # None
               PROVE  g \in lost'
    BY <1>1 DEF Rootless
  <2> QED
    BY DEF SInv, Rootless
<1> QED
  BY <1>1, <1>3, <1>4 DEF SInv, Unread

\* The container has a rootdir, or a call is about to tell it.
LEMMA RootlessCall ==
  ASSUME IInv, SInv, mounted, container = None
  PROVE  \E u \in Todo : u.op = "container" /\ u.g = rootdir
<1>1. PICK u \in Todo : u.op = "container"
  BY DEF SInv, Rootless
<1>2. u.g = rootdir
  BY <1>1, TodoFacts DEF Sound, Create
<1> QED
  BY <1>1, <1>2

LEMMA UnmountSynced == ASSUME IInv, SInv, Unmount PROVE SInv'
<1>1. /\ mounted /\ call = <<>> /\ task = NoTask /\ Forget
      /\ UNCHANGED <<storage, lost>>
  BY DEF Unmount, history
<1>2. container # None
  BY <1>1, TodoFacts, RootlessCall
<1> QED
  BY <1>1, <1>2, ForgetSynced

LEMMA OutstandingFacts ==
  ASSUME IInv, mounted
  PROVE  /\ \A i \in DOMAIN upload_queue : upload_queue[i] \in Outstanding
         /\ task # NoTask => task.g \in Outstanding
         /\ hand # NoHand => hand.d \in Outstanding
         /\ \A u \in Todo : u.g \in Outstanding
                            /\ (u.rec.g # None => u.rec.g \in Outstanding)
<1>1. task # NoTask => task.g # None
  BY Shape, TypeFacts
<1>2. hand # NoHand => hand.d # None
  BY HandFacts, TypeFacts
<1>3. \A u \in Todo : u.g # None
  BY TodoFacts, TypeFacts
<1>4. ASSUME NEW i \in DOMAIN call
      PROVE  /\ call[i].g \in Outstanding
             /\ (call[i].rec.g # None => call[i].rec.g \in Outstanding)
  <2>1. call[i].g # None
    BY <1>3 DEF Todo
  <2> QED
    BY <2>1 DEF Outstanding
<1> QED
  BY <1>1, <1>2, <1>4 DEF Outstanding, Todo

LEMMA CrashSynced == ASSUME IInv, SInv, Crash PROVE SInv'
<1>1. mounted /\ lost' = lost \cup Outstanding /\ Forget /\ UNCHANGED storage
  BY DEF Crash
<1>2. task = NoTask \/ task.g \in lost'
  BY <1>1, OutstandingFacts
<1>3. container = None => \E u \in Todo : u.g = rootdir /\ u.g \in lost'
  <2> SUFFICES ASSUME container = None
               PROVE  \E u \in Todo : u.g = rootdir /\ u.g \in lost'
    OBVIOUS
  <2>1. PICK u \in Todo : u.op = "container" /\ u.g = rootdir
    BY <1>1, RootlessCall
  <2>2. u.g \in Outstanding
    BY <1>1, OutstandingFacts
  <2> QED
    BY <1>1, <2>1, <2>2
<1> QED
  BY <1>1, <1>2, <1>3, ForgetSynced

\* A mount makes objects of the blobs.
LEMMA LoadedFacts ==
  ASSUME IInv, NEW g \in Guids
  PROVE  /\ Loaded(g) # None => Loadable(g)
         /\ Loadable(g) =>
              /\ Loaded(g) # None /\ Loaded(g).kind = meta[g].kind
              /\ Loaded(g).nlink = meta[g].nlink /\ Loaded(g).exist = TRUE
              /\ Loaded(g).size = meta[g].size /\ Loaded(g).recs = data[g]
              /\ Loaded(g).status = "Clean" /\ Loaded(g) \in Objects
<1>1. Loaded(g) # None => Loadable(g)
  BY DEF Loaded
<1>2. ASSUME Loadable(g)
      PROVE  /\ Loaded(g) # None /\ Loaded(g).kind = meta[g].kind
              /\ Loaded(g).nlink = meta[g].nlink /\ Loaded(g).exist = TRUE
              /\ Loaded(g).size = meta[g].size /\ Loaded(g).recs = data[g]
              /\ Loaded(g).status = "Clean" /\ Loaded(g) \in Objects
  <2>1. data[g] \in Seq(Records) /\ meta[g] \in Metas
    BY <1>2, Shape DEF Loadable
  <2>2. /\ Loaded(g).kind = meta[g].kind
        /\ Loaded(g).nlink = meta[g].nlink /\ Loaded(g).exist = TRUE
        /\ Loaded(g).size = meta[g].size /\ Loaded(g).recs = data[g]
        /\ Loaded(g).status = "Clean" /\ Loaded(g) \in Objects
    BY <1>2, <2>1 DEF Loaded, Objects, Metas
  <2> QED
    BY <2>2, TypeFacts
<1> QED
  BY <1>1, <1>2

LEMMA MountSynced == ASSUME IInv, SInv, Mount PROVE SInv'
<1>1. /\ ~mounted /\ container # None /\ mounted'
      /\ \A g \in Guids : obj'[g] = Loaded(g)
      /\ UNCHANGED <<upload_queue, task, container, data, meta, lost>>
  BY DEF Mount, storage, history
<1>2. task = NoTask
  BY <1>1 DEF IInv, Forgotten
<1>3. \A g \in Guids : obj'[g] # None =>
        obj'[g].status = "Clean" /\ Stored(g, obj[g])'
  BY <1>1, LoadedFacts DEF Stored, Loadable
<1>4. Saved' /\ Taken' /\ Unsaved'
  BY <1>3 DEF Saved, Taken, Unsaved
<1>5. InHand' /\ Half'
  BY <1>1, <1>2 DEF SInv, Synced, InHand, Half
<1>6. Unread' /\ Rootless'
  BY <1>1, LoadedFacts DEF Unread, Rootless, Loadable
<1> QED
  BY <1>4, <1>5, <1>6 DEF SInv, Synced

LEMMA FirstMountSynced == ASSUME IInv, SInv, FirstMount PROVE SInv'
<1>1. PICK g : g = NewGuid
  OBVIOUS
<1> DEFINE u == CreateFile(g, "dir")
           v == AddEntry(g, Dot, g)
           w == AddEntry(g, DotDot, g)
           x == Update("container", g, JunkRecord)
<1>2. /\ ~mounted /\ container = None /\ mounted' /\ rootdir' = g
      /\ call' = <<u, v, w, x>>
      /\ UNCHANGED <<obj, upload_queue, task, container, data, meta, lost>>
  BY <1>1 DEF FirstMount, NewRoot, storage
<1>3. u.g = g /\ v.op = "addEntry" /\ w.op = "addEntry" /\ x.op = "container"
  BY DEF CreateFile, AddEntry, Update
<1> HIDE DEF u, v, w, x
<1>4. Todo' = {u, v, w, x}
  <2>1. DOMAIN <<u, v, w, x>> = {1, 2, 3, 4}
    OBVIOUS
  <2> QED
    BY <1>2, <2>1 DEF Todo
<1>5. Synced'
  BY <1>2, SameSynced DEF SInv
<1>6. Unread'
  BY <1>2 DEF SInv, Rootless, Unread, Loadable
<1>7. Rootless'
  BY <1>2, <1>3, <1>4 DEF SInv, Rootless, Create
<1> QED
  BY <1>5, <1>6, <1>7 DEF SInv

-----------------------------------------------------------------------------
\* The callbacks are the beginnings of calls.
LEMMA CallbackBegins ==
  ASSUME NEW d \in Guids, NEW nm \in Names,
         \/ azs_create(d, nm) \/ azs_mkdir(d, nm)
         \/ azs_unlink(d, nm) \/ azs_rmdir(d, nm)
         \/ \E e \in Guids, to \in Names : azs_rename(d, nm, e, to)
  PROVE  \E op, used, changed, updates : Begin(op, used, changed, updates)
<1>1. ASSUME azs_create(d, nm)
      PROVE  \E op, used, changed, updates : Begin(op, used, changed, updates)
  BY <1>1, Zenon DEF azs_create
<1>2. ASSUME azs_mkdir(d, nm)
      PROVE  \E op, used, changed, updates : Begin(op, used, changed, updates)
  BY <1>2, Zenon DEF azs_mkdir
<1>3. ASSUME azs_unlink(d, nm)
      PROVE  \E op, used, changed, updates : Begin(op, used, changed, updates)
  BY <1>3, Zenon DEF azs_unlink
<1>4. ASSUME azs_rmdir(d, nm)
      PROVE  \E op, used, changed, updates : Begin(op, used, changed, updates)
  BY <1>4, Zenon DEF azs_rmdir
<1>5. ASSUME NEW e \in Guids, NEW to \in Names, azs_rename(d, nm, e, to)
      PROVE  \E op, used, changed, updates : Begin(op, used, changed, updates)
  BY <1>5, Zenon DEF azs_rename
<1> QED
  BY <1>1, <1>2, <1>3, <1>4, <1>5

\* A file that is made or changed by a call.
LEMMA DirtiedStep ==
  ASSUME IInv, SInv, NEW g \in Guids, Dirtied(g),
         UNCHANGED <<mounted, rootdir, task, container, data, meta, lost>>,
         obj[g] # None /\ obj'[g].exist => obj[g].exist,
         obj[g] = None => New(g),
         \/ call' = call
         \/ call # <<>> /\ call' = Tail(call) /\ Head(call).op # "container"
  PROVE  SInv'
<1>1. Synced'
  BY DirtiedSynced DEF SInv
<1>2. /\ \A h \in Guids : obj'[h] = None => obj[h] = None
      /\ \A h \in Guids : obj[h] = None /\ obj'[h] # None => New(h)
  BY DEF Dirtied
<1>3. Unread' /\ Rootless'
  BY <1>2, StepRooted
<1> QED
  BY <1>1, <1>3 DEF SInv

LEMMA SInvStep == ASSUME IInv, SInv, [Next]_vars PROVE SInv'
<1>1. ASSUME NEW d \in Guids, NEW nm \in Names,
             \/ azs_create(d, nm) \/ azs_mkdir(d, nm)
             \/ azs_unlink(d, nm) \/ azs_rmdir(d, nm)
             \/ \E e \in Guids, to \in Names : azs_rename(d, nm, e, to)
      PROVE  SInv'
  BY <1>1, CallbackBegins, BeginSynced
<1>2. CASE DoCreate
  <2>1. PICK u : u = Head(call)
    OBVIOUS
  <2>2. PICK g : g = u.g
    OBVIOUS
  <2>3. /\ g \in Guids /\ Dirtied(g) /\ obj[g] = None
        /\ call # <<>> /\ call' = Tail(call) /\ u.op \in Create
        /\ UNCHANGED <<mounted, rootdir, task, container, data, meta, lost>>
    BY <1>2, <2>1, <2>2, CreateFacts
  <2>4. New(g) /\ Head(call).op # "container"
    BY <2>1, <2>2, <2>3 DEF New, Create
  <2> QED
    BY <2>3, <2>4, DirtiedStep
<1>3. CASE DoAddEntry
  <2>1. PICK u : u = Head(call)
    OBVIOUS
  <2>2. PICK g, d : g = u.rec.g /\ d = u.g
    OBVIOUS
  <2>3. /\ g \in Guids /\ Dirtied(g) /\ Here(g) /\ obj'[g].exist = obj[g].exist
        /\ call # <<>> /\ call' = Tail(call) /\ u.op = "addEntry"
        /\ UNCHANGED <<mounted, rootdir, task, container, data, meta, lost>>
    BY <1>3, <2>1, <2>2, AddEntryFacts
  <2> QED
    BY <2>1, <2>3, DirtiedStep DEF Here
<1>4. CASE DoRmEntry
  <2>1. PICK u : u = Head(call)
    OBVIOUS
  <2>2. PICK d, nm : d = u.g /\ nm = u.rec.name
    OBVIOUS
  <2>3. /\ call # <<>> /\ call' = Tail(call) /\ u.op = "rmEntry"
        /\ UNCHANGED <<mounted, rootdir, task, container, data, meta, lost>>
        /\ ~Has(d, nm) => UNCHANGED <<obj, upload_queue, hand>>
    BY <1>4, <2>1, <2>2, RmEntryFacts
  <2>4. CASE Has(d, nm)
    <3>1. PICK i, g : Found(d, nm, i, g)
      BY DEF Found
    <3>3. g \in Guids /\ Here(g) /\ Dirtied(g)
      BY <1>4, <2>1, <2>2, <2>4, <3>1, RmEntryFound
    <3> QED
      BY <2>1, <2>3, <3>3, DirtiedStep DEF Here
  <2>5. CASE ~Has(d, nm)
    <3>1. Synced'
      BY <2>3, <2>5, SameSynced DEF SInv
    <3>2. Unread' /\ Rootless'
      BY <2>1, <2>3, <2>5, StepRooted
    <3> QED
      BY <3>1, <3>2 DEF SInv
  <2> QED
    BY <2>4, <2>5
<1>5. CASE Grow \/ Place \/ Move \/ Close
  <2>1. PICK d : d = hand.d
    OBVIOUS
  <2>2. /\ d \in Guids /\ Dirtied(d) /\ hand # NoHand
        /\ UNCHANGED <<mounted, rootdir, task, call, container, data, meta, lost>>
        /\ obj'[d].exist = obj[d].exist
    BY <1>5, <2>1, GrowFacts, PlaceFacts, MoveFacts, CloseFacts
  <2>3. obj[d] # None
    BY <2>1, <2>2, HandFacts
  <2> QED
    BY <2>2, <2>3, DirtiedStep
<1>6. CASE Launch
  <2>1. PICK g : g = Head(upload_queue)
    OBVIOUS
  <2>2. /\ g \in Guids /\ obj[g] # None /\ obj'[g] # None
        /\ \A h \in Guids \ {g} : obj'[h] = obj[h]
        /\ UNCHANGED <<mounted, rootdir, call, container, data, meta, lost>>
    BY <1>6, <2>1, LaunchFacts
  <2>3. Unread' /\ Rootless'
    BY <2>2, StepRooted
  <2> QED
    BY <1>6, <2>3, LaunchSynced DEF SInv
<1>7. CASE DeleteBlob \/ CommitBlocks \/ PutMetadata
  <2>1. PICK g : g = task.g
    OBVIOUS
  <2>2. /\ g \in Guids /\ obj[g] # None /\ obj'[g] # None
        /\ \A h \in Guids \ {g} :
             obj'[h] = obj[h] /\ data'[h] = data[h] /\ meta'[h] = meta[h]
        /\ UNCHANGED <<mounted, rootdir, call, container, lost>>
    BY <1>7, <2>1, DeleteFacts, CommitFacts, PutFacts, Finished
  <2>3. Unread' /\ Rootless'
    BY <2>2, StepRooted
  <2>4. Synced'
    BY <1>7, DeleteSynced, CommitSynced, PutSynced DEF SInv
  <2> QED
    BY <2>3, <2>4 DEF SInv
<1>8. CASE UNCHANGED vars
  <2>1. UNCHANGED <<mounted, rootdir, obj, upload_queue, task, call, container,
                    data, meta, lost>>
    BY <1>8 DEF vars, memory, storage, history
  <2> QED
    BY <2>1, SameSynced DEF SInv, Unread, Loadable, Rootless, Todo
<1> QED
  BY <1>1, <1>2, <1>3, <1>4, <1>5, <1>6, <1>7, <1>8, DoContainerSynced,
     MountSynced, FirstMountSynced, UnmountSynced, CrashSynced
  DEF Next, Callback

LEMMA SInvInit == ASSUME Init PROVE SInv
<1> DEFINE M(g) == [kind  |-> IF IsDir0(g) THEN "dir" ELSE "reg",
                    nlink |-> Cardinality(Links0(g)),
                    size  |-> Len(Stored0[g])]
<1>1. ASSUME NEW g \in DOMAIN Stored0 PROVE M(g) \in Metas
  <2>1. g \in Guids /\ Stored0[g] \in Seq([name : EntryNames, g : Guids])
    BY VolumeAssumption
  <2>2. Cardinality(Links0(g)) \in Int /\ Len(Stored0[g]) \in Nat
    BY <2>1, Links0Finite, LenProperties
  <2> QED
    BY <2>2 DEF Metas
<1> HIDE DEF M
<1>2. \A g \in DOMAIN Stored0 : M(g) # None
  BY <1>1, TypeFacts
<1>3. /\ mounted = FALSE /\ task = NoTask /\ \A g \in Guids : obj[g] = None
      /\ \A g \in Guids : data[g] = IF container # None /\ g \in DOMAIN Stored0
                                      THEN Stored0[g] ELSE None
      /\ \A g \in Guids : meta[g] = IF container # None /\ g \in DOMAIN Stored0
                                      THEN M(g) ELSE None
  BY DEF Init, M
<1>4. \A g \in Guids : data[g] # None => container # None /\ meta[g] # None
  BY <1>2, <1>3
<1> QED
  BY <1>3, <1>4 DEF SInv, Synced, Saved, Taken, Unsaved, InHand, Half, Unread, Rootless

-----------------------------------------------------------------------------
(***************************************************************************)
(* Files and links, in memory or else in storage.  A record that addEntry  *)
(* or rmEntry has in hand counts as what it is going to be.                *)
(***************************************************************************)
Slots == Nat \ {0}
Mem(g) == IF mounted THEN obj[g] ELSE Loaded(g)
There(g) == Mem(g) # None
IsDir(d) == There(d) /\ Mem(d).kind = "dir"
Rec(d, i) ==
  IF d = hand.d /\ i = hand.i THEN hand.rec
  ELSE IF IsDir(d) /\ i \in 1..Mem(d).size /\ i \in DOMAIN Mem(d).recs
       THEN Mem(d).recs[i] ELSE JunkRecord

\* Every record of the directory is one, but for the one in hand.
Full(d) ==
  \A i \in Slots : IsDir(d) /\ i \in 1..Mem(d).size =>
    (d = hand.d /\ i = hand.i) \/ Rec(d, i).g # None

\* What a step does to them.
Same(g) ==
  /\ There(g)' <=> There(g)
  /\ There(g) => /\ Mem(g)'.kind = Mem(g).kind
                 /\ Mem(g)'.nlink = Mem(g).nlink
                 /\ Mem(g)'.exist = Mem(g).exist
SameRecs == \A d \in Guids, i \in Slots : Rec(d, i)' = Rec(d, i)
StillFull == \A d \in Guids : Full(d) => Full(d)'
Quiet == (\A g \in Guids : Same(g)) /\ SameRecs
Made(g, k) ==
  /\ ~There(g) /\ There(g)'
  /\ Mem(g)'.kind = k /\ Mem(g)'.nlink = 0 /\ Mem(g)'.exist
  /\ \A h \in Guids \ {g} : Same(h)
  /\ SameRecs
OtherRecs(d, i) ==
  \A e \in Guids, k \in Slots : ~(e = d /\ k = i) => Rec(e, k)' = Rec(e, k)
Linked(d, i, r) ==
  /\ r \in Entries
  /\ There(r.g) /\ Mem(r.g).exist /\ There(r.g)'
  /\ Mem(r.g)'.kind = Mem(r.g).kind /\ Mem(r.g)'.nlink = Mem(r.g).nlink + 1
  /\ Mem(r.g)'.exist
  /\ \A h \in Guids \ {r.g} : Same(h)
  /\ Rec(d, i) = JunkRecord /\ Rec(d, i)' = r /\ OtherRecs(d, i)
Unlinked(d, i, g) ==
  /\ There(g) /\ Mem(g).exist /\ There(g)'
  /\ Mem(g)'.kind = Mem(g).kind /\ Mem(g)'.nlink = Mem(g).nlink - 1
  /\ Mem(g)'.exist <=> Mem(g).nlink > 1
  /\ \A h \in Guids \ {g} : Same(h)
  /\ Rec(d, i).g = g /\ Rec(d, i)' = JunkRecord /\ OtherRecs(d, i)
Moved(d, i, j) ==
  /\ \A h \in Guids : Same(h)
  /\ i # j /\ Rec(d, i) = JunkRecord /\ Rec(d, i)' = Rec(d, j)
  /\ Rec(d, j)' = JunkRecord
  /\ \A e \in Guids, k \in Slots :
       ~(e = d /\ k = i) /\ ~(e = d /\ k = j) => Rec(e, k)' = Rec(e, k)
Ended ==
  /\ lost \subseteq lost'
  /\ \A g \in Guids \ lost' :
       IF There(g) /\ ~Mem(g).exist THEN ~There(g)' ELSE Same(g)
  /\ \A d \in Guids \ lost', i \in Slots :
       Rec(d, i)' = IF There(d) /\ Mem(d).exist THEN Rec(d, i) ELSE JunkRecord
  /\ \A d \in Guids \ lost' : Full(d) => Full(d)'
Begun ==
  /\ \A g \in Guids \ lost : ~There(g)
  /\ \A g \in Guids : ~There(g)'
  /\ \A d \in Guids, i \in Slots : Rec(d, i)' = JunkRecord

-----------------------------------------------------------------------------
LEMMA MemFacts ==
  ASSUME IInv
  PROVE  /\ \A g \in Guids : There(g) =>
              /\ Mem(g) \in Objects /\ Mem(g).size \in Nat /\ Mem(g).nlink \in Int
              /\ Mem(g).exist \in BOOLEAN
              /\ DOMAIN Mem(g).recs = 1..Len(Mem(g).recs)
         /\ \A d \in Guids, i \in Slots :
              /\ Rec(d, i) \in Records
              /\ Rec(d, i).g # None => IsDir(d) /\ Rec(d, i) \in Entries
              /\ Rec(d, i).name \in EntryNames => Rec(d, i) \in Entries
         /\ JunkRecord.g = None /\ JunkRecord.name \notin EntryNames
         /\ \A r \in Entries : r.g \in Guids /\ r.g # None /\ r.name \in EntryNames
<1>1. \A g \in Guids : There(g) => Mem(g) \in Objects
  BY Shape, LoadedFacts DEF There, Mem
<1>2. \A o \in Objects : /\ o.size \in Nat /\ o.nlink \in Int /\ o.exist \in BOOLEAN
                         /\ o.recs \in Seq(Records)
                         /\ DOMAIN o.recs = 1..Len(o.recs)
  BY LenProperties DEF Objects
<1>3. JunkRecord.g = None /\ JunkRecord.name \notin EntryNames
  BY VolumeAssumption DEF JunkRecord, Record
<1>4. ASSUME NEW d \in Guids, NEW i \in Slots
      PROVE  /\ Rec(d, i) \in Records
             /\ Rec(d, i).g # None => IsDir(d)
  <2>1. CASE d = hand.d /\ i = hand.i
    <3>1. hand # NoHand
      BY <2>1, TypeFacts DEF NoHand
    <3>2. hand.rec \in Records /\ mounted /\ OpenDir(hand.d)
      BY <3>1, HandFacts
    <3> QED
      BY <2>1, <3>2 DEF Rec, IsDir, There, Mem, OpenDir
  <2>2. CASE ~(d = hand.d /\ i = hand.i)
    <3>1. CASE IsDir(d) /\ i \in 1..Mem(d).size /\ i \in DOMAIN Mem(d).recs
      <4>1. PICK o \in Objects : o = Mem(d)
        BY <1>1, <3>1 DEF IsDir
      <4>2. i \in DOMAIN o.recs /\ o.recs \in Seq(Records)
        BY <1>2, <3>1, <4>1
      <4>3. o.recs[i] \in Records
        BY <4>2, ElementOfSeq, LenProperties
      <4> QED
        BY <2>2, <3>1, <4>1, <4>3 DEF Rec
    <3>2. CASE ~(IsDir(d) /\ i \in 1..Mem(d).size /\ i \in DOMAIN Mem(d).recs)
      <4>1. Rec(d, i) = JunkRecord
        BY <2>2, <3>2 DEF Rec
      <4> QED
        BY <1>3, <4>1, TypeFacts
    <3> QED
      BY <3>1, <3>2
  <2> QED
    BY <2>1, <2>2
<1>5. \A r \in Records : /\ r.name \in EntryNames => r \in Entries
                         /\ r.g # None => r \in Entries
  BY TypeFacts DEF Records, Entries
<1>6. \A r \in Entries : r.g \in Guids /\ r.g # None /\ r.name \in EntryNames
  BY TypeFacts DEF Entries
<1>7. \A g \in Guids : There(g) =>
              /\ Mem(g) \in Objects /\ Mem(g).size \in Nat /\ Mem(g).nlink \in Int
              /\ Mem(g).exist \in BOOLEAN
              /\ DOMAIN Mem(g).recs = 1..Len(Mem(g).recs)
  BY <1>1, <1>2
<1> QED
  BY <1>3, <1>4, <1>5, <1>6, <1>7

\* With nothing in hand the records are those of the directory.
LEMMA NothingInHand ==
  ASSUME hand = NoHand, NEW d \in Guids, NEW i \in Slots
  PROVE  /\ ~(d = hand.d /\ i = hand.i)
         /\ Rec(d, i) = IF IsDir(d) /\ i \in 1..Mem(d).size
                           /\ i \in DOMAIN Mem(d).recs
                        THEN Mem(d).recs[i] ELSE JunkRecord
BY TypeFacts DEF NoHand, Rec

\* The same files, but for their statuses, and the same in hand.
LEMMA SameFilesQuiet ==
  ASSUME mounted, mounted', hand' = hand,
         \A g \in Guids : obj'[g] = None <=> obj[g] = None,
         \A g \in Guids : obj[g] # None => SameFile(obj'[g], obj[g])
  PROVE  Quiet /\ StillFull
<1>1. \A g \in Guids : Same(g)
  BY DEF Same, There, Mem, SameFile
<1>2. \A d \in Guids : /\ IsDir(d)' <=> IsDir(d)
                       /\ IsDir(d) => /\ Mem(d)'.size = Mem(d).size
                                      /\ Mem(d)'.recs = Mem(d).recs
  BY DEF IsDir, There, Mem, SameFile
<1>3. SameRecs
  BY <1>2 DEF SameRecs, Rec
<1>4. StillFull
  BY <1>2, <1>3 DEF StillFull, Full, SameRecs
<1> QED
  BY <1>1, <1>3, <1>4 DEF Quiet

LEMMA LaunchQuiet == ASSUME IInv, Launch PROVE Quiet /\ StillFull
<1>1. PICK g : g = Head(upload_queue)
  OBVIOUS
<1>2. /\ g \in Guids /\ obj[g] # None /\ obj'[g] # None
      /\ SameFile(obj'[g], obj[g])
      /\ \A h \in Guids \ {g} : obj'[h] = obj[h]
      /\ mounted /\ UNCHANGED <<mounted, hand>>
  BY <1>1, LaunchFacts
<1>3. \A h \in Guids : obj[h] # None => SameFile(obj'[h], obj[h])
  BY <1>2 DEF SameFile
<1> QED
  BY <1>2, <1>3, SameFilesQuiet

LEMMA UploadQuiet ==
  ASSUME IInv, DeleteBlob \/ CommitBlocks \/ PutMetadata
  PROVE  Quiet /\ StillFull
<1>1. PICK g : g = task.g
  OBVIOUS
<1>2. /\ g \in Guids /\ obj[g] # None /\ obj'[g] # None /\ task # NoTask
      /\ SameFile(obj'[g], obj[g])
      /\ \A h \in Guids \ {g} : obj'[h] = obj[h]
      /\ UNCHANGED <<mounted, hand>>
  BY <1>1, DeleteFacts, CommitFacts, PutFacts, Finished DEF SameFile
<1>3. mounted
  BY <1>2 DEF IInv, Forgotten
<1>4. \A h \in Guids : obj[h] # None => SameFile(obj'[h], obj[h])
  BY <1>2 DEF SameFile
<1> QED
  BY <1>2, <1>3, <1>4, SameFilesQuiet

LEMMA SameObjQuiet ==
  ASSUME mounted, UNCHANGED <<mounted, obj, hand>> PROVE Quiet /\ StillFull
BY SameFilesQuiet DEF SameFile

LEMMA IdleQuiet ==
  ASSUME UNCHANGED <<mounted, obj, hand, data, meta>> PROVE Quiet /\ StillFull
<1>1. \A g \in Guids : Mem(g)' = Mem(g)
  BY DEF Mem, Loaded, Loadable
<1>2. Quiet
  BY <1>1 DEF Quiet, Same, SameRecs, There, Rec, IsDir
<1> QED
  BY <1>1, <1>2 DEF Quiet, StillFull, Full, SameRecs, IsDir, There

LEMMA MountQuiet == ASSUME IInv, Mount PROVE Quiet /\ StillFull
<1>1. /\ ~mounted /\ mounted' /\ UNCHANGED <<hand, data, meta>>
      /\ \A g \in Guids : obj'[g] = Loaded(g)
  BY DEF Mount, storage, history
<1>2. \A g \in Guids : Mem(g)' = Mem(g)
  BY <1>1 DEF Mem
<1>3. Quiet
  BY <1>1, <1>2 DEF Quiet, Same, SameRecs, There, Rec, IsDir
<1> QED
  BY <1>1, <1>2, <1>3 DEF Quiet, StillFull, Full, SameRecs, IsDir, There

-----------------------------------------------------------------------------
\* The updates.
LEMMA CreateMade ==
  ASSUME IInv, DoCreate, NEW u, u = Head(call)
  PROVE  Made(u.g, u.op) /\ StillFull
<1>1. PICK g : g = u.g
  OBVIOUS
<1>2. /\ hand = NoHand /\ mounted /\ g \in Guids /\ obj[g] = None
      /\ Dirtied(g) /\ obj'[g].kind = u.op /\ obj'[g].nlink = 0
      /\ obj'[g].exist = TRUE /\ obj'[g].size = 0
      /\ UNCHANGED <<mounted, hand>>
  BY <1>1, CreateFacts
<1>3. obj'[g] # None /\ \A h \in Guids \ {g} : obj'[h] = obj[h]
  BY <1>2 DEF Dirtied
<1>4. /\ ~There(g) /\ There(g)' /\ Mem(g)' = obj'[g]
      /\ \A h \in Guids \ {g} : Mem(h)' = Mem(h)
  BY <1>2, <1>3 DEF There, Mem
<1>5. ASSUME NEW d \in Guids, NEW i \in Slots PROVE Rec(d, i)' = Rec(d, i)
  <2>1. CASE d = g
    <3>1. Rec(g, i) = JunkRecord
      BY <1>2, <1>4, NothingInHand DEF IsDir
    <3>2. ~(i \in 1..Mem(g)'.size)
      BY <1>2, <1>4 DEF Slots
    <3>3. ~(g = hand'.d /\ i = hand'.i)
      BY <1>2, NothingInHand
    <3>4. Rec(g, i)' = JunkRecord
      BY <3>2, <3>3 DEF Rec
    <3> QED
      BY <2>1, <3>1, <3>4
  <2>2. CASE d # g
    BY <1>2, <1>4, <2>2 DEF Rec, IsDir, There
  <2> QED
    BY <2>1, <2>2
<1>6. ASSUME NEW d \in Guids, Full(d) PROVE Full(d)'
  <2>1. CASE d = g
    <3>1. \A i \in Slots : ~(i \in 1..Mem(g)'.size)
      BY <1>2, <1>4 DEF Slots
    <3> QED
      BY <2>1, <3>1 DEF Full
  <2>2. CASE d # g
    BY <1>2, <1>4, <1>5, <1>6, <2>2 DEF Full, IsDir, There
  <2> QED
    BY <2>1, <2>2
<1>7. Made(g, u.op)
  BY <1>2, <1>4, <1>5 DEF Made, Same, There, SameRecs
<1> QED
  BY <1>1, <1>6, <1>7 DEF StillFull

\* A count changes, and a record is in hand that was none before or is none now.
LEMMA CountedRecs ==
  ASSUME IInv, mounted, mounted' = mounted, hand = NoHand,
         NEW g \in Guids, Dirtied(g), obj[g] # None,
         obj'[g].kind = obj[g].kind, obj'[g].size = obj[g].size,
         obj'[g].recs = obj[g].recs,
         NEW d \in Guids, NEW i \in Slots, NEW r,
         hand'.d = d, hand'.i = i, hand'.rec = r
  PROVE  /\ Rec(d, i)' = r /\ OtherRecs(d, i) /\ StillFull
         /\ There(g) /\ There(g)' /\ Mem(g) = obj[g] /\ Mem(g)' = obj'[g]
         /\ \A h \in Guids \ {g} : Same(h)
<1>1. obj'[g] # None /\ \A h \in Guids \ {g} : obj'[h] = obj[h]
  BY DEF Dirtied
<1>2. /\ There(g) /\ There(g)' /\ Mem(g) = obj[g] /\ Mem(g)' = obj'[g]
      /\ \A h \in Guids \ {g} : Mem(h)' = Mem(h)
  BY <1>1 DEF There, Mem
<1>3. \A e \in Guids : /\ IsDir(e)' <=> IsDir(e)
                       /\ IsDir(e) => /\ Mem(e)'.size = Mem(e).size
                                      /\ Mem(e)'.recs = Mem(e).recs
  BY <1>2 DEF IsDir, There
<1>4. Rec(d, i)' = r
  BY DEF Rec
<1>5. OtherRecs(d, i)
  <2> SUFFICES ASSUME NEW e \in Guids, NEW k \in Slots, ~(e = d /\ k = i)
               PROVE  Rec(e, k)' = Rec(e, k)
    BY DEF OtherRecs
  <2>1. ~(e = hand.d /\ k = hand.i)
    BY NothingInHand
  <2> QED
    BY <1>3, <2>1 DEF Rec
<1>6. StillFull
  <2> SUFFICES ASSUME NEW e \in Guids, Full(e), NEW k \in Slots, IsDir(e)',
                      k \in 1..Mem(e)'.size, ~(e = d /\ k = i)
               PROVE  Rec(e, k)'.g # None
    BY DEF StillFull, Full
  <2>1. IsDir(e) /\ k \in 1..Mem(e).size /\ Rec(e, k)' = Rec(e, k)
    BY <1>3, <1>5 DEF OtherRecs
  <2>2. ~(e = hand.d /\ k = hand.i)
    BY NothingInHand
  <2> QED
    BY <2>1, <2>2 DEF Full
<1>7. \A h \in Guids \ {g} : Same(h)
  BY <1>2 DEF Same, There
<1> QED
  BY <1>2, <1>4, <1>5, <1>6, <1>7

LEMMA AddEntryLinked ==
  ASSUME IInv, DoAddEntry, NEW u, u = Head(call), NEW d, d = u.g,
         NEW i, i = obj[d].size + 1
  PROVE  /\ Linked(d, i, u.rec) /\ StillFull /\ IsDir(d)
         /\ d \in Guids /\ i \in Slots
<1>1. PICK g : g = u.rec.g
  OBVIOUS
<1>2. /\ hand = NoHand /\ mounted /\ d \in Guids /\ g \in Guids
      /\ u.rec \in Entries /\ OpenDir(d) /\ Here(g)
      /\ Dirtied(g) /\ obj'[g].kind = obj[g].kind
      /\ obj'[g].nlink = obj[g].nlink + 1 /\ obj'[g].exist = obj[g].exist
      /\ obj'[g].size = obj[g].size /\ obj'[g].recs = obj[g].recs
      /\ hand'.d = d /\ hand'.i = i /\ hand'.rec = u.rec
      /\ mounted' = mounted
  BY <1>1, AddEntryFacts
<1>3. obj[d] \in Objects /\ obj[d] # None /\ obj[d].size \in Nat
  BY <1>2, Shape, TypeFacts DEF OpenDir
<1>4. i \in Slots
  BY <1>3 DEF Slots
<1>5. /\ Rec(d, i)' = u.rec /\ OtherRecs(d, i) /\ StillFull
      /\ There(g) /\ There(g)' /\ Mem(g) = obj[g] /\ Mem(g)' = obj'[g]
      /\ \A h \in Guids \ {g} : Same(h)
  <2>1. obj[g] # None
    BY <1>2 DEF Here
  <2> QED
    BY <1>2, <1>4, <2>1, CountedRecs
<1>6. IsDir(d) /\ Mem(d) = obj[d]
  BY <1>2, <1>3 DEF IsDir, There, Mem, OpenDir
<1>7. Rec(d, i) = JunkRecord
  <2>1. ~(i \in 1..Mem(d).size)
    BY <1>3, <1>6
  <2> QED
    BY <1>2, <1>4, <2>1, NothingInHand
<1>8. Linked(d, i, u.rec)
  BY <1>1, <1>2, <1>5, <1>7 DEF Linked, Here
<1> QED
  BY <1>2, <1>4, <1>5, <1>6, <1>8

LEMMA RmEntryUnlinked ==
  ASSUME IInv, DoRmEntry, NEW u, u = Head(call), NEW d, d = u.g,
         NEW nm, nm = u.rec.name, Has(d, nm),
         NEW i, NEW g, Found(d, nm, i, g)
  PROVE  /\ Unlinked(d, i, g) /\ StillFull /\ d \in Guids /\ i \in Slots
         /\ g \in Guids /\ Rec(d, i).name = nm
<1>1. /\ i \in 1..obj[d].size /\ i \in Slots
      /\ obj[d].recs[i].name = nm /\ g \in Guids
      /\ Here(g)
      /\ Dirtied(g) /\ obj'[g].kind = obj[g].kind
      /\ obj'[g].nlink = obj[g].nlink - 1
      /\ (obj'[g].exist <=> obj[g].nlink > 1)
      /\ obj'[g].size = obj[g].size /\ obj'[g].recs = obj[g].recs
      /\ hand'.d = d /\ hand'.i = i /\ hand'.rec = JunkRecord
  BY RmEntryFound DEF Slots
<1>2. /\ hand = NoHand /\ mounted /\ mounted' = mounted
      /\ d \in Guids /\ OpenDir(d)
  BY RmEntryFacts
<1>3. obj[d] \in Objects /\ obj[d] # None /\ obj[d].size \in Nat
      /\ obj[d].recs \in Seq(Records) /\ Len(obj[d].recs) \in Nat
      /\ obj[d].size <= Len(obj[d].recs)
  BY <1>2, Shape, TypeFacts DEF OpenDir, Intact
<1>4. /\ Rec(d, i)' = JunkRecord /\ OtherRecs(d, i) /\ StillFull
      /\ There(g) /\ There(g)' /\ Mem(g) = obj[g] /\ Mem(g)' = obj'[g]
      /\ \A h \in Guids \ {g} : Same(h)
  <2>1. obj[g] # None
    BY <1>1 DEF Here
  <2> QED
    BY <1>1, <1>2, <2>1, CountedRecs
<1>5. IsDir(d) /\ Mem(d) = obj[d]
  BY <1>2, <1>3 DEF IsDir, There, Mem, OpenDir
<1>6. Rec(d, i) = obj[d].recs[i] /\ Rec(d, i).g = g
  <2>1. i \in 1..Len(obj[d].recs) /\ DOMAIN obj[d].recs = 1..Len(obj[d].recs)
    BY <1>1, <1>3, LenProperties
  <2>2. Rec(d, i) = obj[d].recs[i]
    BY <1>1, <1>2, <1>5, <2>1, NothingInHand
  <2> QED
    BY <2>2 DEF Found
<1>7. Unlinked(d, i, g)
  BY <1>1, <1>4, <1>6 DEF Unlinked, Here
<1> QED
  BY <1>1, <1>2, <1>4, <1>6, <1>7

\* addEntry and rmEntry go on: only the directory in hand changes.
LEMMA HandRecs ==
  ASSUME IInv, hand # NoHand, NEW d, d = hand.d, Dirtied(d),
         OpenDir(d)', IInv', mounted' = mounted,
         obj'[d].kind = obj[d].kind, obj'[d].nlink = obj[d].nlink,
         obj'[d].exist = obj[d].exist, hand'.d = d \/ hand' = NoHand
  PROVE  /\ d \in Guids /\ hand.i \in Slots /\ IsDir(d) /\ IsDir(d)'
         /\ Mem(d) = obj[d] /\ Mem(d)' = obj'[d]
         /\ obj[d].size \in Nat /\ obj'[d].size \in Nat
         /\ \A k \in 1..obj[d].size : k \in DOMAIN obj[d].recs /\ k \in Slots
         /\ \A k \in 1..obj'[d].size : k \in DOMAIN obj'[d].recs /\ k \in Slots
         /\ \A g \in Guids : Same(g)
         /\ \A e \in Guids \ {d} : /\ \A k \in Slots : Rec(e, k)' = Rec(e, k)
                                   /\ Full(e) => Full(e)'
<1>1. /\ mounted /\ d \in Guids /\ hand.i \in Slots /\ OpenDir(d)
      /\ obj[d] # None /\ obj[d] \in Objects
      /\ obj[d].size \in Nat /\ obj[d].recs \in Seq(Records)
      /\ Len(obj[d].recs) \in Nat /\ obj[d].size <= Len(obj[d].recs)
  BY HandFacts DEF Slots
<1>2. obj'[d] # None /\ \A h \in Guids \ {d} : obj'[h] = obj[h]
  BY DEF Dirtied
<1>3. /\ obj'[d].kind = "dir" /\ obj'[d].size <= Len(obj'[d].recs)
      /\ obj'[d].size \in Nat /\ obj'[d].recs \in Seq(Records)
      /\ Len(obj'[d].recs) \in Nat
  <2>1. obj'[d] \in Objects
    BY <1>1, <1>2 DEF IInv, TypeOK
  <2> QED
    BY <2>1, TypeFacts DEF OpenDir, Intact
<1>4. /\ IsDir(d) /\ IsDir(d)' /\ Mem(d) = obj[d] /\ Mem(d)' = obj'[d]
      /\ \A h \in Guids \ {d} : Mem(h)' = Mem(h)
  BY <1>1, <1>2, <1>3 DEF IsDir, There, Mem, OpenDir
<1>5. \A s \in Seq(Records) : DOMAIN s = 1..Len(s)
  BY LenProperties
<1>6. \A k \in 1..obj[d].size : k \in DOMAIN obj[d].recs /\ k \in Slots
  BY <1>1, <1>5 DEF Slots
<1>7. \A k \in 1..obj'[d].size : k \in DOMAIN obj'[d].recs /\ k \in Slots
  BY <1>3, <1>5 DEF Slots
<1>8. \A g \in Guids : Same(g)
  BY <1>1, <1>2, <1>4 DEF Same, There
<1>9. hand.d \notin Guids \ {d} /\ hand'.d \notin Guids \ {d}
  BY TypeFacts DEF NoHand
<1>10. \A e \in Guids \ {d} : \A k \in Slots : Rec(e, k)' = Rec(e, k)
  BY <1>4, <1>9 DEF Rec, IsDir, There
<1>11. \A e \in Guids \ {d} : Full(e) => Full(e)'
  BY <1>4, <1>9, <1>10 DEF Full, IsDir, There
<1> QED
  BY <1>1, <1>3, <1>4, <1>6, <1>7, <1>8, <1>10, <1>11

LEMMA GrowQuiet == ASSUME IInv, Grow PROVE Quiet /\ StillFull
<1>1. PICK d : d = hand.d
  OBVIOUS
<1>2. /\ IInv' /\ d \in Guids /\ Dirtied(d) /\ hand # NoHand /\ OpenDir(d)'
      /\ mounted' = mounted
      /\ obj'[d].kind = obj[d].kind /\ obj'[d].nlink = obj[d].nlink
      /\ obj'[d].exist = obj[d].exist /\ obj'[d].size = obj[d].size + 1
      /\ \A j \in 1..obj[d].size : obj'[d].recs[j] = obj[d].recs[j]
      /\ hand'.d = d /\ hand'.i = hand.i /\ hand'.rec = hand.rec
      /\ hand.i = obj[d].size + 1
  BY <1>1, GrowFacts
<1>3. /\ IsDir(d) /\ IsDir(d)'
      /\ Mem(d) = obj[d] /\ Mem(d)' = obj'[d]
      /\ obj[d].size \in Nat /\ obj'[d].size \in Nat
      /\ \A k \in 1..obj[d].size : k \in DOMAIN obj[d].recs /\ k \in Slots
      /\ \A k \in 1..obj'[d].size : k \in DOMAIN obj'[d].recs /\ k \in Slots
      /\ \A g \in Guids : Same(g)
      /\ \A e \in Guids \ {d} : /\ \A k \in Slots : Rec(e, k)' = Rec(e, k)
                                /\ Full(e) => Full(e)'
  BY <1>1, <1>2, HandRecs
<1>4. \A k \in Slots : k \in 1..obj'[d].size <=>
                         k \in 1..obj[d].size \/ k = hand.i
  BY <1>2, <1>3 DEF Slots
<1>5. ASSUME NEW k \in Slots PROVE Rec(d, k)' = Rec(d, k)
  <2>1. CASE k = hand.i
    BY <1>1, <1>2, <2>1 DEF Rec
  <2>2. CASE k # hand.i
    BY <1>1, <1>2, <1>3, <1>4, <2>2 DEF Rec
  <2> QED
    BY <2>1, <2>2
<1>6. Full(d) => Full(d)'
  BY <1>1, <1>2, <1>3, <1>4, <1>5 DEF Full
<1> QED
  BY <1>3, <1>5, <1>6 DEF Quiet, SameRecs, StillFull

LEMMA PlaceQuiet == ASSUME IInv, Place PROVE Quiet /\ StillFull
<1>1. PICK d : d = hand.d
  OBVIOUS
<1>2. /\ IInv' /\ d \in Guids /\ Dirtied(d) /\ hand # NoHand /\ OpenDir(d)'
      /\ mounted' = mounted
      /\ obj'[d].kind = obj[d].kind /\ obj'[d].nlink = obj[d].nlink
      /\ obj'[d].exist = obj[d].exist /\ obj'[d].size = obj[d].size
      /\ obj'[d].recs[hand.i] = hand.rec
      /\ \A j \in 1..obj[d].size : j # hand.i => obj'[d].recs[j] = obj[d].recs[j]
      /\ hand' = NoHand /\ hand.i = obj[d].size
  BY <1>1, PlaceFacts
<1>3. /\ IsDir(d) /\ IsDir(d)' /\ hand.i \in Slots
      /\ Mem(d) = obj[d] /\ Mem(d)' = obj'[d]
      /\ obj[d].size \in Nat /\ obj'[d].size \in Nat
      /\ \A k \in 1..obj[d].size : k \in DOMAIN obj[d].recs /\ k \in Slots
      /\ \A k \in 1..obj'[d].size : k \in DOMAIN obj'[d].recs /\ k \in Slots
      /\ \A g \in Guids : Same(g)
      /\ \A e \in Guids \ {d} : /\ \A k \in Slots : Rec(e, k)' = Rec(e, k)
                                /\ Full(e) => Full(e)'
  BY <1>1, <1>2, HandRecs
<1>4. hand.i \in 1..obj[d].size
  BY <1>2, <1>3 DEF Slots
<1>5. hand'.d # d
  BY <1>2, TypeFacts DEF NoHand
<1>6. ASSUME NEW k \in Slots PROVE Rec(d, k)' = Rec(d, k)
  <2>1. CASE k = hand.i
    BY <1>1, <1>2, <1>3, <1>4, <1>5, <2>1 DEF Rec
  <2>2. CASE k # hand.i
    BY <1>1, <1>2, <1>3, <1>5, <2>2 DEF Rec
  <2> QED
    BY <2>1, <2>2
<1>7. hand.rec.g # None
  <2>1. hand.step = "place"
    BY DEF Place
  <2>2. hand.rec \in Entries
    BY <1>2, <2>1 DEF IInv, Holding
  <2> QED
    BY <2>2, MemFacts
<1>8. Full(d) => Full(d)'
  <2> SUFFICES ASSUME Full(d), NEW k \in Slots, k \in 1..obj'[d].size
               PROVE  Rec(d, k).g # None
    BY <1>3, <1>6 DEF Full
  <2>1. CASE k = hand.i
    BY <1>1, <1>7, <2>1 DEF Rec
  <2>2. CASE k # hand.i
    BY <1>2, <1>3, <2>2 DEF Full
  <2> QED
    BY <2>1, <2>2
<1> QED
  BY <1>3, <1>6, <1>8 DEF Quiet, SameRecs, StillFull

LEMMA CloseQuiet == ASSUME IInv, Close PROVE Quiet /\ StillFull
<1>1. PICK d : d = hand.d
  OBVIOUS
<1>2. /\ IInv' /\ d \in Guids /\ Dirtied(d) /\ hand # NoHand /\ OpenDir(d)'
      /\ mounted' = mounted
      /\ obj'[d].kind = obj[d].kind /\ obj'[d].nlink = obj[d].nlink
      /\ obj'[d].exist = obj[d].exist /\ obj'[d].size = obj[d].size - 1
      /\ obj'[d].recs = obj[d].recs
      /\ hand' = NoHand /\ hand.i = obj[d].size /\ hand.rec = JunkRecord
  BY <1>1, CloseFacts
<1>3. /\ IsDir(d) /\ IsDir(d)' /\ hand.i \in Slots
      /\ Mem(d) = obj[d] /\ Mem(d)' = obj'[d]
      /\ obj[d].size \in Nat /\ obj'[d].size \in Nat
      /\ \A k \in 1..obj[d].size : k \in DOMAIN obj[d].recs /\ k \in Slots
      /\ \A k \in 1..obj'[d].size : k \in DOMAIN obj'[d].recs /\ k \in Slots
      /\ \A g \in Guids : Same(g)
      /\ \A e \in Guids \ {d} : /\ \A k \in Slots : Rec(e, k)' = Rec(e, k)
                                /\ Full(e) => Full(e)'
  BY <1>1, <1>2, HandRecs
<1>4. \A k \in Slots : k \in 1..obj'[d].size <=>
                         k \in 1..obj[d].size /\ k # hand.i
  BY <1>2, <1>3 DEF Slots
<1>5. hand'.d # d
  BY <1>2, TypeFacts DEF NoHand
<1>6. ASSUME NEW k \in Slots PROVE Rec(d, k)' = Rec(d, k)
  <2>1. CASE k = hand.i
    BY <1>1, <1>2, <1>3, <1>4, <1>5, <2>1 DEF Rec
  <2>2. CASE k # hand.i
    BY <1>1, <1>2, <1>3, <1>4, <1>5, <2>2 DEF Rec
  <2> QED
    BY <2>1, <2>2
<1>7. Full(d) => Full(d)'
  BY <1>1, <1>3, <1>4, <1>6 DEF Full
<1> QED
  BY <1>3, <1>6, <1>7 DEF Quiet, SameRecs, StillFull

LEMMA MoveMoved ==
  ASSUME IInv, Move
  PROVE  /\ StillFull
         /\ \E d \in Guids, i, j \in Slots : Moved(d, i, j)
<1>1. PICK d, i, j : d = hand.d /\ i = hand.i /\ j = obj[d].size
  OBVIOUS
<1>2. /\ IInv' /\ d \in Guids /\ Dirtied(d) /\ hand # NoHand /\ OpenDir(d)'
      /\ mounted' = mounted
      /\ obj'[d].kind = obj[d].kind /\ obj'[d].nlink = obj[d].nlink
      /\ obj'[d].exist = obj[d].exist /\ obj'[d].size = obj[d].size
      /\ obj'[d].recs[i] = obj[d].recs[j]
      /\ \A k \in 1..obj[d].size : k # i => obj'[d].recs[k] = obj[d].recs[k]
      /\ hand'.d = d /\ hand'.i = j /\ hand.rec = JunkRecord
      /\ hand'.rec = JunkRecord
      /\ i \in 1..j - 1
  BY <1>1, MoveFacts
<1>3. /\ IsDir(d) /\ IsDir(d)' /\ i \in Slots
      /\ Mem(d) = obj[d] /\ Mem(d)' = obj'[d]
      /\ obj[d].size \in Nat /\ obj'[d].size \in Nat
      /\ \A k \in 1..obj[d].size : k \in DOMAIN obj[d].recs /\ k \in Slots
      /\ \A k \in 1..obj'[d].size : k \in DOMAIN obj'[d].recs /\ k \in Slots
      /\ \A g \in Guids : Same(g)
      /\ \A e \in Guids \ {d} : /\ \A k \in Slots : Rec(e, k)' = Rec(e, k)
                                /\ Full(e) => Full(e)'
  BY <1>1, <1>2, HandRecs
<1>4. i \in 1..obj[d].size /\ j \in 1..obj[d].size /\ i # j /\ j \in Slots
  BY <1>1, <1>2, <1>3 DEF Slots
<1>5. Rec(d, i) = JunkRecord /\ Rec(d, j)' = JunkRecord
  BY <1>1, <1>2 DEF Rec
<1>6. Rec(d, i)' = Rec(d, j)
  BY <1>1, <1>2, <1>3, <1>4 DEF Rec
<1>7. \A k \in Slots : k # i /\ k # j => Rec(d, k)' = Rec(d, k)
  BY <1>1, <1>2, <1>3 DEF Rec
<1>8. Moved(d, i, j)
  BY <1>3, <1>4, <1>5, <1>6, <1>7 DEF Moved
<1>9. Full(d) => Full(d)'
  <2> SUFFICES ASSUME Full(d), NEW k \in Slots, k \in 1..obj'[d].size, k # j
               PROVE  Rec(d, k)'.g # None
    BY <1>1, <1>2, <1>3 DEF Full
  <2>1. CASE k = i
    <3>1. Rec(d, j).g # None
      BY <1>1, <1>3, <1>4 DEF Full
    <3> QED
      BY <1>6, <2>1, <3>1
  <2>2. CASE k # i
    BY <1>1, <1>2, <1>3, <1>7, <2>2 DEF Full
  <2> QED
    BY <2>1, <2>2
<1>10. StillFull
  BY <1>3, <1>9 DEF StillFull
<1> QED
  BY <1>2, <1>4, <1>3, <1>8, <1>10

-----------------------------------------------------------------------------
\* The process ends.
LEMMA ForgetEnded ==
  ASSUME IInv, SInv, mounted, Forget, UNCHANGED storage, lost \subseteq lost',
         hand = NoHand \/ hand.d \in lost',
         \A g \in Guids \ lost' : obj[g] # None => obj[g].status = "Clean"
  PROVE  Ended
<1>1. /\ ~mounted' /\ hand' = NoHand /\ UNCHANGED <<data, meta>>
  BY DEF Forget, storage
<1>2. \A g \in Guids : Mem(g) = obj[g]
  BY DEF Mem
<1>3. \A g \in Guids : Mem(g)' = Loaded(g)
  BY <1>1 DEF Mem, Loaded, Loadable
<1>4. ASSUME NEW g \in Guids \ lost', There(g) PROVE Stored(g, obj[g])
  BY <1>2, <1>4 DEF SInv, Synced, Saved, There
<1>5. \A g \in Guids \ lost' : ~There(g) => ~There(g)'
  BY <1>2, <1>3 DEF SInv, Unread, Loaded, There
<1>6. \A g \in Guids \ lost' : There(g) /\ ~Mem(g).exist => ~There(g)'
  BY <1>2, <1>3, <1>4 DEF Stored, Loaded, Loadable, There
<1>7. ASSUME NEW g \in Guids \ lost', There(g), Mem(g).exist
      PROVE  /\ There(g)' /\ Mem(g)'.kind = Mem(g).kind
             /\ Mem(g)'.nlink = Mem(g).nlink /\ Mem(g)'.exist = Mem(g).exist
             /\ Mem(g)'.size = Mem(g).size
             /\ Mem(g).size = 0 \/ Mem(g)'.recs = Mem(g).recs
  <2>1. Stored(g, obj[g]) /\ Loadable(g) /\ Mem(g).exist \in BOOLEAN
    BY <1>2, <1>4, <1>7, MemFacts DEF Stored, Loadable
  <2>2. /\ There(g)' /\ Mem(g)' = Loaded(g)
        /\ Loaded(g).kind = meta[g].kind
        /\ Loaded(g).nlink = meta[g].nlink /\ Loaded(g).exist = TRUE
        /\ Loaded(g).size = meta[g].size /\ Loaded(g).recs = data[g]
    BY <1>3, <2>1, LoadedFacts DEF There
  <2> QED
    BY <1>2, <1>7, <2>1, <2>2 DEF Stored
<1>8. \A g \in Guids \ lost' :
        IF There(g) /\ ~Mem(g).exist THEN ~There(g)' ELSE Same(g)
  BY <1>5, <1>6, <1>7 DEF Same
<1>9. ASSUME NEW d \in Guids \ lost', NEW i \in Slots
      PROVE  Rec(d, i)' = IF There(d) /\ Mem(d).exist THEN Rec(d, i) ELSE JunkRecord
  <2>1. d # hand.d /\ d # hand'.d
    BY <1>1, TypeFacts DEF NoHand
  <2>2. CASE There(d) /\ Mem(d).exist
    <3>1. /\ There(d)' /\ Mem(d)'.kind = Mem(d).kind
          /\ Mem(d)'.size = Mem(d).size
          /\ Mem(d).size = 0 \/ Mem(d)'.recs = Mem(d).recs
      BY <1>7, <2>2
    <3>2. CASE Mem(d).size = 0
      <4>1. i \notin 1..Mem(d).size
        BY <3>2 DEF Slots
      <4> QED
        BY <2>1, <2>2, <3>1, <4>1 DEF Rec
    <3>3. CASE Mem(d)'.recs = Mem(d).recs
      BY <2>1, <2>2, <3>1, <3>3 DEF Rec, IsDir
    <3> QED
      BY <3>1, <3>2, <3>3
  <2>3. CASE ~(There(d) /\ Mem(d).exist)
    <3>1. ~There(d)'
      BY <1>5, <1>6, <2>3
    <3> QED
      BY <2>1, <2>3, <3>1 DEF Rec, IsDir
  <2> QED
    BY <2>2, <2>3
<1>10. ASSUME NEW d \in Guids \ lost', Full(d) PROVE Full(d)'
  <2> SUFFICES ASSUME NEW i \in Slots, IsDir(d)', i \in 1..Mem(d)'.size
               PROVE  Rec(d, i)'.g # None
    BY DEF Full
  <2>1. There(d) /\ Mem(d).exist
    BY <1>5, <1>6 DEF IsDir
  <2>2. IsDir(d) /\ i \in 1..Mem(d).size
    BY <1>7, <2>1 DEF IsDir
  <2>3. ~(d = hand.d /\ i = hand.i)
    BY TypeFacts DEF NoHand
  <2>4. Rec(d, i).g # None
    BY <1>10, <2>2, <2>3 DEF Full
  <2> QED
    BY <1>9, <2>1, <2>4
<1> QED
  BY <1>8, <1>9, <1>10 DEF Ended

LEMMA EndEnds ==
  ASSUME IInv, SInv, Unmount \/ Crash
  PROVE  /\ Ended /\ ~mounted' /\ rootdir' = None /\ container' = container
         /\ call' = <<>> /\ hand' = NoHand
         /\ Unmount => lost' = lost
         /\ Crash => lost' = lost \cup Outstanding
         /\ mounted
<1>1. /\ mounted /\ Forget /\ UNCHANGED storage /\ lost \subseteq lost'
      /\ Unmount => lost' = lost
      /\ Crash => lost' = lost \cup Outstanding
  BY DEF Unmount, Crash, history
<1>2. hand = NoHand \/ hand.d \in lost'
  <2>1. CASE Unmount
    BY <2>1 DEF Unmount
  <2>2. CASE Crash
    BY <1>1, <2>2, OutstandingFacts
  <2> QED
    BY <2>1, <2>2
<1>3. ASSUME NEW g \in Guids \ lost', obj[g] # None PROVE obj[g].status = "Clean"
  <2>1. obj[g].status \in {"Dirty", "Uploading", "Clean"}
    BY <1>3, Shape DEF Objects
  <2>2. ASSUME obj[g].status = "Uploading" PROVE FALSE
    <3>1. task.g = g
      BY <1>3, <2>2 DEF SInv, Synced, Taken
    <3>2. task # NoTask
      BY <3>1, TypeFacts DEF NoTask
    <3> QED
      BY <1>1, <3>1, <3>2, OutstandingFacts DEF Unmount
  <2>3. ASSUME obj[g].status = "Dirty" PROVE FALSE
    <3>1. PICK i \in DOMAIN upload_queue : upload_queue[i] = g
      BY <1>3, <2>3 DEF SInv, Synced, Unsaved
    <3>2. upload_queue # <<>>
      BY <3>1, EmptySeq
    <3> QED
      BY <1>1, <3>1, <3>2, OutstandingFacts DEF Unmount
  <2> QED
    BY <2>1, <2>2, <2>3
<1>4. Ended
  BY <1>1, <1>2, <1>3, ForgetEnded
<1> QED
  BY <1>1, <1>4 DEF Forget, storage

LEMMA FirstMountBegun ==
  ASSUME IInv, SInv, FirstMount
  PROVE  /\ Begun /\ StillFull /\ mounted' /\ rootdir' # None
         /\ container = None /\ container' = None /\ ~mounted
         /\ lost' = lost /\ hand' = NoHand
         /\ \E g : /\ g = NewGuid /\ g \in Guids /\ rootdir' = g
                   /\ call' = << CreateFile(g, "dir"), AddEntry(g, Dot, g),
                                 AddEntry(g, DotDot, g),
                                 Update("container", g, JunkRecord) >>
<1>1. PICK g : g = NewGuid
  OBVIOUS
<1>2. /\ ~mounted /\ container = None /\ mounted' /\ rootdir' = g
      /\ call' = << CreateFile(g, "dir"), AddEntry(g, Dot, g),
                    AddEntry(g, DotDot, g), Update("container", g, JunkRecord) >>
      /\ UNCHANGED <<obj, hand, container, data, meta, lost>> /\ NewUuid
  BY <1>1 DEF FirstMount, NewRoot, storage
<1>3. g \in Guids
  BY <1>1, <1>2, NewGuidFacts
<1>4. hand = NoHand /\ \A h \in Guids : obj[h] = None
  BY <1>2 DEF IInv, Forgotten
<1>5. \A h \in Guids \ lost : ~There(h)
  BY <1>2, <1>4 DEF SInv, Rootless, There, Mem, Loaded, Loadable
<1>6. \A h \in Guids : ~There(h)'
  BY <1>2, <1>4 DEF There, Mem
<1>7. ASSUME NEW d \in Guids, NEW i \in Slots
      PROVE  Rec(d, i)' = JunkRecord
  <2>1. d # hand'.d
    BY <1>2, <1>4, TypeFacts DEF NoHand
  <2> QED
    BY <1>6, <2>1 DEF Rec, IsDir
<1>8. StillFull
  BY <1>6 DEF StillFull, Full, IsDir
<1> QED
  BY <1>1, <1>2, <1>3, <1>4, <1>5, <1>6, <1>7, <1>8, TypeFacts DEF Begun

-----------------------------------------------------------------------------
(***************************************************************************)
(* Links: the records that name a file, in directories that no crash has   *)
(* damaged.  A count may stay too high, never too low.                     *)
(***************************************************************************)
Links(g) == {e \in (Guids \ lost) \X Slots : Rec(e[1], e[2]).g = g}

Finite == \A g \in Guids : IsFiniteSet(Links(g))
Leading == \A d \in Guids \ lost, i \in Slots :
  LET g == Rec(d, i).g IN g # None => g \in lost \/ There(g)
NoGap == \A d \in Guids \ lost : Full(d)
Counts == \A g \in Guids \ lost :
  There(g) => Cardinality(Links(g)) <= Mem(g).nlink
Dead == \A g \in Guids \ lost :
  There(g) /\ ~Mem(g).exist => Mem(g).nlink <= 0
Linking == Finite /\ Leading /\ NoGap /\ Counts /\ Dead

LEMMA LinkFacts ==
  ASSUME NEW g
  PROVE  /\ \A d, i : <<d, i>> \in Links(g) <=>
              d \in Guids \ lost /\ i \in Slots /\ Rec(d, i).g = g
         /\ \A e \in Links(g) : \E d \in Guids \ lost, i \in Slots : e = <<d, i>>
BY DEF Links

LEMMA SameLinks ==
  ASSUME NEW g, lost' = lost,
         \A d \in Guids \ lost, i \in Slots : Rec(d, i)'.g = g <=> Rec(d, i).g = g
  PROVE  Links(g)' = Links(g)
<1> DEFINE P == (Guids \ lost) \X Slots
<1>1. \A e \in P : e[1] \in Guids \ lost /\ e[2] \in Slots
  OBVIOUS
<1>2. \A e \in P : Rec(e[1], e[2])'.g = g <=> Rec(e[1], e[2]).g = g
  BY <1>1
<1>3. Links(g)' = {e \in P : Rec(e[1], e[2])'.g = g}
  BY DEF Links
<1>4. Links(g) = {e \in P : Rec(e[1], e[2]).g = g}
  BY DEF Links
<1> HIDE DEF P
<1> QED
  BY <1>2, <1>3, <1>4

LEMMA FewerLinks ==
  ASSUME NEW g, lost \subseteq lost', IsFiniteSet(Links(g)),
         \A d \in Guids \ lost', i \in Slots : Rec(d, i)'.g = g => Rec(d, i).g = g
  PROVE  /\ IsFiniteSet(Links(g)') /\ Links(g)' \subseteq Links(g)
         /\ Cardinality(Links(g)') <= Cardinality(Links(g))
         /\ Cardinality(Links(g)) \in Nat /\ Cardinality(Links(g)') \in Nat
<1>1. \A e \in (Guids \ lost') \X Slots :
        /\ e[1] \in Guids \ lost' /\ e[2] \in Slots
        /\ e \in (Guids \ lost) \X Slots
  OBVIOUS
<1>2. Links(g)' = {e \in (Guids \ lost') \X Slots : Rec(e[1], e[2])'.g = g}
  BY DEF Links
<1>3. Links(g)' \subseteq Links(g)
  <2> SUFFICES ASSUME NEW e \in (Guids \ lost') \X Slots, Rec(e[1], e[2])'.g = g
               PROVE  e \in Links(g)
    BY <1>2
  <2>1. Rec(e[1], e[2]).g = g
    BY <1>1
  <2> QED
    BY <1>1, <2>1 DEF Links
<1> QED
  BY <1>3, FS_Subset, FS_CardinalityType

LEMMA MoreLinks ==
  ASSUME NEW g, lost' = lost, IsFiniteSet(Links(g)),
         NEW d \in Guids \ lost, NEW i \in Slots, OtherRecs(d, i),
         Rec(d, i).g # g, Rec(d, i)'.g = g
  PROVE  /\ IsFiniteSet(Links(g)')
         /\ Cardinality(Links(g)') = Cardinality(Links(g)) + 1
         /\ Cardinality(Links(g)) \in Nat
<1> DEFINE P == (Guids \ lost) \X Slots
<1>1. \A e \in P : e[1] \in Guids /\ e[2] \in Slots
                   /\ (e # <<d, i>> => ~(e[1] = d /\ e[2] = i))
  OBVIOUS
<1>2. \A e \in P : e # <<d, i>> => Rec(e[1], e[2])' = Rec(e[1], e[2])
  BY <1>1 DEF OtherRecs
<1>3. Links(g)' = {e \in P : Rec(e[1], e[2])'.g = g}
  BY DEF Links
<1>4. Links(g) = {e \in P : Rec(e[1], e[2]).g = g}
  BY DEF Links
<1>5. /\ <<d, i>> \in P
      /\ Rec(<<d, i>>[1], <<d, i>>[2])'.g = g
      /\ Rec(<<d, i>>[1], <<d, i>>[2]).g # g
  OBVIOUS
<1> HIDE DEF P
<1>6. Links(g)' = Links(g) \cup {<<d, i>>} /\ <<d, i>> \notin Links(g)
  BY <1>2, <1>3, <1>4, <1>5
<1> QED
  BY <1>6, FS_AddElement, FS_CardinalityType

LEMMA LessLinks ==
  ASSUME NEW g, lost' = lost, IsFiniteSet(Links(g)),
         NEW d \in Guids \ lost, NEW i \in Slots, OtherRecs(d, i),
         Rec(d, i).g = g, Rec(d, i)'.g # g
  PROVE  /\ IsFiniteSet(Links(g)')
         /\ Cardinality(Links(g)') = Cardinality(Links(g)) - 1
         /\ Cardinality(Links(g)) \in Nat
<1> DEFINE P == (Guids \ lost) \X Slots
<1>1. \A e \in P : e[1] \in Guids /\ e[2] \in Slots
                   /\ (e # <<d, i>> => ~(e[1] = d /\ e[2] = i))
  OBVIOUS
<1>2. \A e \in P : e # <<d, i>> => Rec(e[1], e[2])' = Rec(e[1], e[2])
  BY <1>1 DEF OtherRecs
<1>3. Links(g)' = {e \in P : Rec(e[1], e[2])'.g = g}
  BY DEF Links
<1>4. Links(g) = {e \in P : Rec(e[1], e[2]).g = g}
  BY DEF Links
<1>5. /\ <<d, i>> \in P
      /\ Rec(<<d, i>>[1], <<d, i>>[2])'.g # g
      /\ Rec(<<d, i>>[1], <<d, i>>[2]).g = g
  OBVIOUS
<1> HIDE DEF P
<1>6. Links(g)' = Links(g) \ {<<d, i>>} /\ <<d, i>> \in Links(g)
  BY <1>2, <1>3, <1>4, <1>5
<1> QED
  BY <1>6, FS_RemoveElement, FS_CardinalityType

\* A record that has moved is one link still.
LEMMA MovedLinks ==
  ASSUME NEW g, g # None, lost' = lost, IsFiniteSet(Links(g)),
         NEW d \in Guids, NEW i \in Slots, NEW j \in Slots, Moved(d, i, j),
         JunkRecord.g = None
  PROVE  /\ IsFiniteSet(Links(g)')
         /\ Cardinality(Links(g)') = Cardinality(Links(g))
<1>1. CASE d \in lost \/ Rec(d, j).g # g
  <2> SUFFICES ASSUME NEW e \in Guids \ lost, NEW k \in Slots
               PROVE  Rec(e, k)'.g = g <=> Rec(e, k).g = g
    BY SameLinks
  <2>1. CASE e = d /\ k = i
    BY <1>1, <2>1 DEF Moved
  <2>2. CASE e = d /\ k = j
    BY <1>1, <2>2 DEF Moved
  <2>3. CASE ~(e = d /\ k = i) /\ ~(e = d /\ k = j)
    BY <2>3 DEF Moved
  <2> QED
    BY <2>1, <2>2, <2>3
<1>2. CASE d \notin lost /\ Rec(d, j).g = g
  <2> DEFINE P == (Guids \ lost) \X Slots
  <2>1. \A e \in P : /\ e[1] \in Guids /\ e[2] \in Slots
                     /\ e # <<d, i>> => ~(e[1] = d /\ e[2] = i)
                     /\ e # <<d, j>> => ~(e[1] = d /\ e[2] = j)
    OBVIOUS
  <2>2. \A e \in P : e # <<d, i>> /\ e # <<d, j>> =>
                       Rec(e[1], e[2])' = Rec(e[1], e[2])
    BY <2>1 DEF Moved
  <2>3. Links(g)' = {e \in P : Rec(e[1], e[2])'.g = g}
    BY DEF Links
  <2>4. Links(g) = {e \in P : Rec(e[1], e[2]).g = g}
    BY DEF Links
  <2>5. /\ <<d, i>> \in P /\ <<d, j>> \in P
        /\ Rec(<<d, i>>[1], <<d, i>>[2])'.g = g
        /\ Rec(<<d, i>>[1], <<d, i>>[2]).g # g
        /\ Rec(<<d, j>>[1], <<d, j>>[2])'.g # g
        /\ Rec(<<d, j>>[1], <<d, j>>[2]).g = g
    BY <1>2 DEF Moved
  <2> HIDE DEF P
  <2> DEFINE L == Links(g) \ {<<d, j>>}
  <2>6. Links(g)' = L \cup {<<d, i>>} /\ <<d, i>> \notin L
        /\ <<d, j>> \in Links(g)
    BY <2>2, <2>3, <2>4, <2>5
  <2>7. IsFiniteSet(L) /\ Cardinality(L) = Cardinality(Links(g)) - 1
    BY <2>6, FS_RemoveElement
  <2>8. /\ IsFiniteSet(L \cup {<<d, i>>})
        /\ Cardinality(L \cup {<<d, i>>}) = Cardinality(L) + 1
    BY <2>6, <2>7, FS_AddElement
  <2>9. Cardinality(Links(g)) \in Nat
    BY FS_CardinalityType
  <2> HIDE DEF L
  <2> QED
    BY <2>6, <2>7, <2>8, <2>9
<1> QED
  BY <1>1, <1>2

-----------------------------------------------------------------------------
\* Each kind of step keeps the counts.
LEMMA SameKept ==
  ASSUME NEW g, Same(g), There(g) => Mem(g).nlink \in Int
  PROVE  /\ There(g)' <=> There(g)
         /\ There(g)' => /\ Mem(g)'.nlink = Mem(g).nlink
                         /\ Mem(g)'.exist = Mem(g).exist
                         /\ Mem(g)'.kind = Mem(g).kind
BY DEF Same

LEMMA QuietLinking ==
  ASSUME IInv, Linking, Quiet, StillFull, lost \subseteq lost'
  PROVE  Linking'
<1>1. \A g \in Guids : Same(g)
  BY DEF Quiet
<1>2. \A d \in Guids, i \in Slots : Rec(d, i)' = Rec(d, i)
  BY DEF Quiet, SameRecs
<1>3. ASSUME NEW g \in Guids
      PROVE  /\ IsFiniteSet(Links(g)')
             /\ Cardinality(Links(g)') <= Cardinality(Links(g))
             /\ Cardinality(Links(g)) \in Nat /\ Cardinality(Links(g)') \in Nat
  <2>1. IsFiniteSet(Links(g))
    BY DEF Linking, Finite
  <2> QED
    BY <1>2, <2>1, FewerLinks
<1>4. Finite'
  BY <1>3 DEF Finite
<1>5. Leading'
  <2> SUFFICES ASSUME NEW d \in Guids \ lost', NEW i \in Slots, Rec(d, i)'.g # None
               PROVE  Rec(d, i)'.g \in lost' \/ There(Rec(d, i).g)'
    BY DEF Leading
  <2>1. PICK g : g = Rec(d, i).g
    OBVIOUS
  <2>2. Rec(d, i)'.g = g /\ g # None /\ d \in Guids \ lost /\ g \in Guids
    BY <1>2, <2>1, MemFacts
  <2>3. g \in lost \/ There(g)
    BY <2>1, <2>2 DEF Linking, Leading
  <2>4. g \in lost' \/ There(g)'
    BY <1>1, <2>2, <2>3 DEF Same
  <2> QED
    BY <2>1, <2>2, <2>4
<1>6. NoGap'
  BY DEF NoGap, StillFull, Linking
<1>7. Counts'
  <2> SUFFICES ASSUME NEW g \in Guids \ lost', There(g)'
               PROVE  Cardinality(Links(g)') <= Mem(g)'.nlink
    BY DEF Counts
  <2>1. There(g) /\ Mem(g)'.nlink = Mem(g).nlink /\ Mem(g).nlink \in Int
    BY <1>1, MemFacts DEF Same
  <2>2. Cardinality(Links(g)) <= Mem(g).nlink
    BY <2>1 DEF Linking, Counts
  <2> QED
    BY <1>3, <2>1, <2>2
<1>8. Dead'
  <2> SUFFICES ASSUME NEW g \in Guids \ lost', There(g)', ~Mem(g)'.exist
               PROVE  Mem(g)'.nlink <= 0
    BY DEF Dead
  <2>1. There(g) /\ Mem(g)'.nlink = Mem(g).nlink /\ ~Mem(g).exist
    BY <1>1 DEF Same
  <2> QED
    BY <2>1 DEF Linking, Dead
<1> QED
  BY <1>4, <1>5, <1>6, <1>7, <1>8 DEF Linking

LEMMA MadeLinking ==
  ASSUME IInv, Linking, NEW f \in Guids, NEW kind, Made(f, kind), StillFull,
         lost' = lost
  PROVE  Linking'
<1>1. \A g \in Guids \ {f} : Same(g)
  BY DEF Made
<1>2. \A d \in Guids, i \in Slots : Rec(d, i)' = Rec(d, i)
  BY DEF Made, SameRecs
<1>3. \A g : Links(g)' = Links(g)
  BY <1>2, SameLinks
<1>4. \A g \in Guids : There(g) => There(g)'
  BY <1>1 DEF Same, Made
<1>5. Finite'
  BY <1>3 DEF Finite, Linking
<1>6. Leading'
  <2> SUFFICES ASSUME NEW d \in Guids \ lost, NEW i \in Slots, Rec(d, i)'.g # None
               PROVE  Rec(d, i)'.g \in lost' \/ There(Rec(d, i).g)'
    BY DEF Leading
  <2>1. PICK g : g = Rec(d, i).g
    OBVIOUS
  <2>2. Rec(d, i)'.g = g /\ g # None /\ g \in Guids
    BY <1>2, <2>1, MemFacts
  <2>3. g \in lost \/ There(g)
    BY <2>1, <2>2 DEF Linking, Leading
  <2>4. g \in lost' \/ There(g)'
    BY <1>4, <2>2, <2>3
  <2> QED
    BY <2>1, <2>2, <2>4
<1>7. NoGap'
  BY DEF NoGap, StillFull, Linking
<1>8. f \notin lost => Links(f) = {}
  <2> SUFFICES ASSUME f \notin lost, NEW e \in Links(f) PROVE FALSE
    OBVIOUS
  <2>1. PICK d \in Guids \ lost, i \in Slots : e = <<d, i>> /\ Rec(d, i).g = f
    BY LinkFacts
  <2>2. There(f) /\ f # None
    BY <2>1, TypeFacts DEF Linking, Leading
  <2> QED
    BY <2>2 DEF Made
<1>9. Counts'
  <2> SUFFICES ASSUME NEW g \in Guids \ lost, There(g)'
               PROVE  Cardinality(Links(g)') <= Mem(g)'.nlink
    BY DEF Counts
  <2>1. CASE g = f
    <3>1. Cardinality(Links(f)') = 0
      BY <1>3, <1>8, <2>1, FS_EmptySet
    <3>2. Mem(f)'.nlink = 0
      BY DEF Made
    <3> QED
      BY <2>1, <3>1, <3>2
  <2>2. CASE g # f
    BY <1>1, <1>3, <2>2 DEF Same, Linking, Counts
  <2> QED
    BY <2>1, <2>2
<1>10. Dead'
  <2> SUFFICES ASSUME NEW g \in Guids \ lost, There(g)', ~Mem(g)'.exist
               PROVE  Mem(g)'.nlink <= 0
    BY DEF Dead
  <2>1. g # f
    BY DEF Made
  <2> QED
    BY <1>1, <2>1 DEF Same, Linking, Dead
<1> QED
  BY <1>5, <1>6, <1>7, <1>9, <1>10 DEF Linking

LEMMA LinkedLinking ==
  ASSUME IInv, Linking, NEW d \in Guids, NEW i \in Slots, NEW r, Linked(d, i, r),
         StillFull, lost' = lost
  PROVE  Linking'
<1>1. PICK f \in Guids : f = r.g /\ f # None
  BY MemFacts DEF Linked
<1>2. /\ There(f) /\ There(f)' /\ Mem(f)'.nlink = Mem(f).nlink + 1
      /\ Mem(f)'.exist /\ Mem(f).nlink \in Int
      /\ \A h \in Guids \ {f} : Same(h)
      /\ Rec(d, i).g = None /\ Rec(d, i)'.g = f /\ OtherRecs(d, i)
  BY <1>1, MemFacts DEF Linked
<1>3. \A g \in Guids : g # f => Links(g)' = Links(g)
  <2> SUFFICES ASSUME NEW g \in Guids, g # f, NEW e \in Guids \ lost, NEW k \in Slots
               PROVE  Rec(e, k)'.g = g <=> Rec(e, k).g = g
    BY SameLinks
  <2>1. CASE e = d /\ k = i
    BY <1>2, <2>1, TypeFacts
  <2>2. CASE ~(e = d /\ k = i)
    BY <1>2, <2>2 DEF OtherRecs
  <2> QED
    BY <2>1, <2>2
<1>4. /\ IsFiniteSet(Links(f)') /\ Cardinality(Links(f)) \in Nat
      /\ \/ Cardinality(Links(f)') = Cardinality(Links(f)) + 1
         \/ Cardinality(Links(f)') = Cardinality(Links(f))
  <2>1. IsFiniteSet(Links(f))
    BY DEF Linking, Finite
  <2>2. CASE d \in lost
    <3>1. \A e \in Guids \ lost, k \in Slots : Rec(e, k)'.g = f <=> Rec(e, k).g = f
      BY <1>2, <2>2 DEF OtherRecs
    <3>2. Links(f)' = Links(f)
      BY <3>1, SameLinks
    <3> QED
      BY <2>1, <3>2, FS_CardinalityType
  <2>3. CASE d \notin lost
    BY <1>1, <1>2, <2>1, <2>3, MoreLinks
  <2> QED
    BY <2>2, <2>3
<1>5. \A g \in Guids : There(g) => There(g)'
  BY <1>2 DEF Same
<1>6. Finite'
  BY <1>3, <1>4 DEF Finite, Linking
<1>7. Leading'
  <2> SUFFICES ASSUME NEW e \in Guids \ lost, NEW k \in Slots, Rec(e, k)'.g # None
               PROVE  Rec(e, k)'.g \in lost' \/ There(Rec(e, k).g)'
    BY DEF Leading
  <2>1. PICK g : g = Rec(e, k)'.g
    OBVIOUS
  <2>2. CASE e = d /\ k = i
    BY <1>2, <2>2
  <2>3. CASE ~(e = d /\ k = i)
    <3>1. Rec(e, k) = Rec(e, k)'
      BY <1>2, <2>3 DEF OtherRecs
    <3>2. g = Rec(e, k).g /\ g # None /\ g \in Guids
      BY <2>1, <3>1, MemFacts
    <3>3. g \in lost \/ There(g)
      BY <3>2 DEF Linking, Leading
    <3> QED
      BY <1>5, <2>1, <3>2, <3>3
  <2> QED
    BY <2>2, <2>3
<1>8. NoGap'
  BY DEF NoGap, StillFull, Linking
<1>9. Counts'
  <2> SUFFICES ASSUME NEW g \in Guids \ lost, There(g)'
               PROVE  Cardinality(Links(g)') <= Mem(g)'.nlink
    BY DEF Counts
  <2>1. CASE g = f
    <3>1. Cardinality(Links(f)) <= Mem(f).nlink
      BY <1>2, <2>1 DEF Linking, Counts
    <3>2. PICK n \in Int : n = Mem(f).nlink
      BY <1>2
    <3> QED
      BY <1>2, <1>4, <2>1, <3>1, <3>2
  <2>2. CASE g # f
    BY <1>2, <1>3, <2>2 DEF Same, Linking, Counts
  <2> QED
    BY <2>1, <2>2
<1>10. Dead'
  <2> SUFFICES ASSUME NEW g \in Guids \ lost, There(g)', ~Mem(g)'.exist
               PROVE  Mem(g)'.nlink <= 0
    BY DEF Dead
  <2>1. g # f
    BY <1>2
  <2> QED
    BY <1>2, <2>1 DEF Same, Linking, Dead
<1> QED
  BY <1>6, <1>7, <1>8, <1>9, <1>10 DEF Linking

LEMMA UnlinkedLinking ==
  ASSUME IInv, Linking, NEW d \in Guids, NEW i \in Slots, NEW f \in Guids,
         Unlinked(d, i, f), StillFull, lost' = lost, d \in lost => f \in lost
  PROVE  Linking'
<1>1. f # None
  BY TypeFacts
<1>2. /\ There(f) /\ There(f)' /\ Mem(f)'.nlink = Mem(f).nlink - 1
      /\ (Mem(f)'.exist <=> Mem(f).nlink > 1) /\ Mem(f).nlink \in Int
      /\ \A h \in Guids \ {f} : Same(h)
      /\ Rec(d, i).g = f /\ Rec(d, i)'.g = None /\ OtherRecs(d, i)
  BY <1>1, MemFacts DEF Unlinked
<1>3. \A g \in Guids : g # f => Links(g)' = Links(g)
  <2> SUFFICES ASSUME NEW g \in Guids, g # f, NEW e \in Guids \ lost, NEW k \in Slots
               PROVE  Rec(e, k)'.g = g <=> Rec(e, k).g = g
    BY SameLinks
  <2>1. CASE e = d /\ k = i
    BY <1>2, <2>1, TypeFacts
  <2>2. CASE ~(e = d /\ k = i)
    BY <1>2, <2>2 DEF OtherRecs
  <2> QED
    BY <2>1, <2>2
<1>4. /\ IsFiniteSet(Links(f)') /\ Cardinality(Links(f)) \in Nat
      /\ d \notin lost => Cardinality(Links(f)') = Cardinality(Links(f)) - 1
  <2>1. IsFiniteSet(Links(f))
    BY DEF Linking, Finite
  <2>2. CASE d \in lost
    <3>1. \A e \in Guids \ lost, k \in Slots : Rec(e, k)'.g = f <=> Rec(e, k).g = f
      BY <1>2, <2>2 DEF OtherRecs
    <3>2. Links(f)' = Links(f)
      BY <3>1, SameLinks
    <3> QED
      BY <2>1, <2>2, <3>2, FS_CardinalityType
  <2>3. CASE d \notin lost
    BY <1>1, <1>2, <2>1, <2>3, LessLinks
  <2> QED
    BY <2>2, <2>3
<1>5. \A g \in Guids : There(g) => There(g)'
  BY <1>2 DEF Same
<1>6. Finite'
  BY <1>3, <1>4 DEF Finite, Linking
<1>7. Leading'
  <2> SUFFICES ASSUME NEW e \in Guids \ lost, NEW k \in Slots, Rec(e, k)'.g # None
               PROVE  Rec(e, k)'.g \in lost' \/ There(Rec(e, k).g)'
    BY DEF Leading
  <2>1. PICK g : g = Rec(e, k)'.g
    OBVIOUS
  <2>2. Rec(e, k) = Rec(e, k)'
    BY <1>2 DEF OtherRecs
  <2>3. g = Rec(e, k).g /\ g # None /\ g \in Guids
    BY <2>1, <2>2, MemFacts
  <2>4. g \in lost \/ There(g)
    BY <2>3 DEF Linking, Leading
  <2> QED
    BY <1>5, <2>1, <2>3, <2>4
<1>8. NoGap'
  BY DEF NoGap, StillFull, Linking
<1>9. Counts'
  <2> SUFFICES ASSUME NEW g \in Guids \ lost, There(g)'
               PROVE  Cardinality(Links(g)') <= Mem(g)'.nlink
    BY DEF Counts
  <2>1. CASE g = f
    <3>1. Cardinality(Links(f)) <= Mem(f).nlink
      BY <1>2, <2>1 DEF Linking, Counts
    <3>2. PICK n \in Int : n = Mem(f).nlink
      BY <1>2
    <3> QED
      BY <1>2, <1>4, <2>1, <3>1, <3>2
  <2>2. CASE g # f
    BY <1>2, <1>3, <2>2 DEF Same, Linking, Counts
  <2> QED
    BY <2>1, <2>2
<1>10. Dead'
  <2> SUFFICES ASSUME NEW g \in Guids \ lost, There(g)', ~Mem(g)'.exist
               PROVE  Mem(g)'.nlink <= 0
    BY DEF Dead
  <2>1. CASE g = f
    <3>1. PICK n \in Int : n = Mem(f).nlink
      BY <1>2
    <3> QED
      BY <1>2, <2>1, <3>1
  <2>2. CASE g # f
    BY <1>2, <2>2 DEF Same, Linking, Dead
  <2> QED
    BY <2>1, <2>2
<1> QED
  BY <1>6, <1>7, <1>8, <1>9, <1>10 DEF Linking

LEMMA MovedLinking ==
  ASSUME IInv, Linking, NEW d \in Guids, NEW i \in Slots, NEW j \in Slots,
         Moved(d, i, j), StillFull, lost' = lost
  PROVE  Linking'
<1>1. \A g \in Guids : Same(g)
  BY DEF Moved
<1>2. ASSUME NEW g \in Guids
      PROVE  /\ IsFiniteSet(Links(g)')
             /\ Cardinality(Links(g)') = Cardinality(Links(g))
  <2>1. IsFiniteSet(Links(g)) /\ g # None /\ JunkRecord.g = None
    BY TypeFacts, MemFacts DEF Linking, Finite
  <2> QED
    BY <2>1, MovedLinks
<1>3. Finite'
  BY <1>2 DEF Finite
<1>4. Leading'
  <2> SUFFICES ASSUME NEW e \in Guids \ lost, NEW k \in Slots, Rec(e, k)'.g # None
               PROVE  Rec(e, k)'.g \in lost' \/ There(Rec(e, k).g)'
    BY DEF Leading
  <2>1. PICK g : g = Rec(e, k)'.g
    OBVIOUS
  <2>2. \E l \in Slots : Rec(e, l) = Rec(e, k)'
    <3>1. JunkRecord.g = None
      BY MemFacts
    <3> QED
      BY <3>1 DEF Moved
  <2>3. PICK l \in Slots : Rec(e, l) = Rec(e, k)'
    BY <2>2
  <2>4. g = Rec(e, l).g /\ g # None /\ g \in Guids
    BY <2>1, <2>3, MemFacts
  <2>5. g \in lost \/ There(g)
    BY <2>4 DEF Linking, Leading
  <2> QED
    BY <1>1, <2>1, <2>4, <2>5 DEF Same
<1>5. NoGap'
  BY DEF NoGap, StillFull, Linking
<1>6. Counts'
  BY <1>1, <1>2 DEF Same, Linking, Counts
<1>7. Dead'
  BY <1>1 DEF Same, Linking, Dead
<1> QED
  BY <1>3, <1>4, <1>5, <1>6, <1>7 DEF Linking

\* A count of a file that is gone leaves it no link.
LEMMA DeadUnlinked ==
  ASSUME IInv, Linking, NEW g \in Guids \ lost, There(g), ~Mem(g).exist
  PROVE  \A d \in Guids \ lost, i \in Slots : Rec(d, i).g # g
<1> SUFFICES ASSUME NEW d \in Guids \ lost, NEW i \in Slots, Rec(d, i).g = g
             PROVE  FALSE
  OBVIOUS
<1>1. Mem(g).nlink <= 0 /\ Cardinality(Links(g)) <= Mem(g).nlink
      /\ Mem(g).nlink \in Int /\ IsFiniteSet(Links(g))
  BY MemFacts DEF Linking, Dead, Counts, Finite
<1>2. Cardinality(Links(g)) \in Nat
  BY <1>1, FS_CardinalityType
<1>3. Cardinality(Links(g)) = 0
  BY <1>1, <1>2
<1>4. Links(g) = {}
  BY <1>1, <1>3, FS_EmptySet
<1>5. <<d, i>> \in Links(g)
  BY LinkFacts
<1> QED
  BY <1>4, <1>5

LEMMA EndedLinking ==
  ASSUME IInv, Linking, Ended PROVE Linking'
<1>1. /\ lost \subseteq lost'
      /\ \A g \in Guids \ lost' :
           IF There(g) /\ ~Mem(g).exist THEN ~There(g)' ELSE Same(g)
      /\ \A d \in Guids \ lost', i \in Slots :
           Rec(d, i)' = IF There(d) /\ Mem(d).exist THEN Rec(d, i) ELSE JunkRecord
      /\ \A d \in Guids \ lost' : Full(d) => Full(d)'
  BY DEF Ended
<1>2. JunkRecord.g = None
  BY MemFacts
<1>3. ASSUME NEW g \in Guids
      PROVE  /\ IsFiniteSet(Links(g)')
             /\ Cardinality(Links(g)') <= Cardinality(Links(g))
             /\ Cardinality(Links(g)) \in Nat /\ Cardinality(Links(g)') \in Nat
  <2>1. IsFiniteSet(Links(g)) /\ g # None
    BY TypeFacts DEF Linking, Finite
  <2>2. \A d \in Guids \ lost', i \in Slots : Rec(d, i)'.g = g => Rec(d, i).g = g
    BY <1>1, <1>2, <2>1
  <2> QED
    BY <1>1, <2>1, <2>2, FewerLinks
<1>4. Finite'
  BY <1>3 DEF Finite
<1>5. Leading'
  <2> SUFFICES ASSUME NEW d \in Guids \ lost', NEW i \in Slots, Rec(d, i)'.g # None
               PROVE  Rec(d, i)'.g \in lost' \/ There(Rec(d, i).g)'
    BY DEF Leading
  <2>1. PICK g : g = Rec(d, i)'.g
    OBVIOUS
  <2>2. Rec(d, i)' = Rec(d, i)
    BY <1>1, <1>2
  <2>3. g = Rec(d, i).g /\ g # None /\ g \in Guids /\ d \in Guids \ lost
    BY <1>1, <2>1, <2>2, MemFacts
  <2>4. g \in lost \/ There(g)
    BY <2>3 DEF Linking, Leading
  <2>5. g \in lost' \/ There(g)'
    <3> SUFFICES ASSUME g \notin lost' PROVE There(g)'
      OBVIOUS
    <3>1. g \in Guids \ lost /\ There(g)
      BY <1>1, <2>3, <2>4
    <3>2. ~(There(g) /\ ~Mem(g).exist)
      BY <2>3, <3>1, DeadUnlinked
    <3> QED
      BY <1>1, <2>3, <3>1, <3>2 DEF Same
  <2> QED
    BY <2>1, <2>2, <2>5
<1>6. NoGap'
  BY <1>1 DEF NoGap, Linking
<1>7. ASSUME NEW g \in Guids \ lost', There(g)'
      PROVE  /\ There(g) /\ Mem(g)'.nlink = Mem(g).nlink /\ g \in Guids \ lost
             /\ Mem(g)'.exist = Mem(g).exist
  BY <1>1, <1>7 DEF Same
<1>8. Counts'
  <2> SUFFICES ASSUME NEW g \in Guids \ lost', There(g)'
               PROVE  Cardinality(Links(g)') <= Mem(g)'.nlink
    BY DEF Counts
  <2>1. There(g) /\ Mem(g)'.nlink = Mem(g).nlink /\ Mem(g).nlink \in Int
        /\ g \in Guids \ lost
    BY <1>7, MemFacts
  <2>2. Cardinality(Links(g)) <= Mem(g).nlink
    BY <2>1 DEF Linking, Counts
  <2> QED
    BY <1>3, <2>1, <2>2
<1>9. Dead'
  <2> SUFFICES ASSUME NEW g \in Guids \ lost', There(g)', ~Mem(g)'.exist
               PROVE  Mem(g)'.nlink <= 0
    BY DEF Dead
  <2>1. There(g) /\ Mem(g)'.nlink = Mem(g).nlink /\ ~Mem(g).exist
        /\ g \in Guids \ lost
    BY <1>7
  <2> QED
    BY <2>1 DEF Linking, Dead
<1> QED
  BY <1>4, <1>5, <1>6, <1>8, <1>9 DEF Linking

LEMMA BegunLinking ==
  ASSUME IInv, Linking, Begun, StillFull, lost' = lost PROVE Linking'
<1>1. /\ \A g \in Guids : ~There(g)'
      /\ \A d \in Guids, i \in Slots : Rec(d, i)'.g = None
  BY MemFacts DEF Begun
<1>2. ASSUME NEW g \in Guids PROVE IsFiniteSet(Links(g)')
  <2>1. g # None /\ IsFiniteSet(Links(g))
    BY TypeFacts DEF Linking, Finite
  <2> QED
    BY <1>1, <2>1, FewerLinks
<1>3. NoGap'
  BY DEF NoGap, StillFull, Linking
<1> QED
  BY <1>1, <1>2, <1>3 DEF Linking, Finite, Leading, Counts, Dead

-----------------------------------------------------------------------------
\* What a callback finds and what it is going to do.
LEMMA OpenLookup ==
  ASSUME IInv, mounted, hand = NoHand, NEW d \in Guids, OpenDir(d)
  PROVE  /\ IsDir(d) /\ Mem(d) = obj[d]
         /\ \A i \in Slots : Rec(d, i) = IF i \in 1..obj[d].size
                                        THEN obj[d].recs[i] ELSE JunkRecord
         /\ \A i \in 1..obj[d].size : i \in Slots
         /\ \A nm \in EntryNames, i \in Slots :
              Rec(d, i).name = nm => i \in Find(d, nm) /\ Rec(d, i) = obj[d].recs[i]
<1>1. /\ obj[d] \in Objects /\ obj[d].size \in Nat
      /\ obj[d] # None /\ Intact(d) /\ obj[d].kind = "dir"
      /\ obj[d].recs \in Seq(Records) /\ Len(obj[d].recs) \in Nat
      /\ obj[d].size <= Len(obj[d].recs)
  BY Shape, TypeFacts DEF OpenDir, Intact
<1>2. IsDir(d) /\ Mem(d) = obj[d]
  BY <1>1 DEF IsDir, There, Mem
<1>3. \A i \in 1..obj[d].size : i \in DOMAIN obj[d].recs /\ i \in Slots
  BY <1>1, LenProperties DEF Slots
<1>4. \A i \in Slots : Rec(d, i) = IF i \in 1..obj[d].size THEN obj[d].recs[i]
                                                           ELSE JunkRecord
  BY <1>2, <1>3, NothingInHand
<1>5. ASSUME NEW nm \in EntryNames, NEW i \in Slots, Rec(d, i).name = nm
      PROVE  i \in Find(d, nm) /\ Rec(d, i) = obj[d].recs[i]
  <2>1. i \in 1..obj[d].size /\ Rec(d, i) = obj[d].recs[i]
    BY <1>4, <1>5, MemFacts
  <2> QED
    BY <1>5, <2>1 DEF Find
<1> QED
  BY <1>2, <1>3, <1>4, <1>5

LEMMA Lookup ==
  ASSUME IInv, mounted, hand = NoHand, NEW d \in Guids, HereDir(d)
  PROVE  /\ IsDir(d) /\ Mem(d) = obj[d] /\ Mem(d).exist
         /\ \A nm \in EntryNames, i \in Slots :
              Rec(d, i).name = nm => i \in Find(d, nm) /\ Rec(d, i).g \in Under(d, nm)
         /\ \A nm \in EntryNames : Has(d, nm) =>
              /\ Child(d, nm) \in Guids
              /\ \E i \in Slots : Rec(d, i).name = nm /\ Rec(d, i).g = Child(d, nm)
<1>1. OpenDir(d) /\ obj[d] \in Objects /\ Intact(d)
  BY DirFacts DEF OpenDir
<1>2. /\ IsDir(d) /\ Mem(d) = obj[d]
      /\ \A i \in Slots : Rec(d, i) = IF i \in 1..obj[d].size
                                     THEN obj[d].recs[i] ELSE JunkRecord
      /\ \A i \in 1..obj[d].size : i \in Slots
      /\ \A nm \in EntryNames, i \in Slots :
           Rec(d, i).name = nm => i \in Find(d, nm) /\ Rec(d, i) = obj[d].recs[i]
  BY <1>1, OpenLookup
<1>3. Mem(d).exist
  BY <1>2 DEF HereDir, Here
<1>4. ASSUME NEW nm \in EntryNames, NEW i \in Slots, Rec(d, i).name = nm
      PROVE  i \in Find(d, nm) /\ Rec(d, i).g \in Under(d, nm)
  BY <1>2, <1>4 DEF Under
<1>5. ASSUME NEW nm \in EntryNames, Has(d, nm)
      PROVE  /\ Child(d, nm) \in Guids
             /\ \E i \in Slots : Rec(d, i).name = nm /\ Rec(d, i).g = Child(d, nm)
  <2>1. PICK i : i = First(Find(d, nm))
    OBVIOUS
  <2>2. i \in 1..obj[d].size /\ obj[d].recs[i].name = nm
        /\ obj[d].recs[i].g \in Guids
    BY <1>1, <1>5, <2>1, FindFacts
  <2>3. Child(d, nm) = obj[d].recs[i].g
    BY <2>1 DEF Child
  <2> QED
    BY <1>2, <2>2, <2>3
<1> QED
  BY <1>2, <1>3, <1>4, <1>5

\* The beginning of a call, and where its updates stand.
Starts(used, changed) ==
  /\ mounted /\ call = <<>> /\ hand = NoHand
  /\ UNCHANGED <<mounted, rootdir, obj, hand, container, data, meta>>
  /\ lost' = IF used \cap lost # {} THEN lost \cup changed ELSE lost
Listed(d, nm, g) == \E i \in Slots : Rec(d, i).name = nm /\ Rec(d, i).g = g
Nowhere(d, nm) == \A i \in Slots : Rec(d, i).name # nm
\* All that the updates may take away is in changed.
Taking(used, changed) ==
  \A u \in Todo' : u.op = "rmEntry" =>
    /\ u.g \in used
    /\ \A i \in Slots : Rec(u.g, i).name = u.rec.name => Rec(u.g, i).g \in changed
HereIs(g) == There(g) /\ Mem(g).exist
HereIsDir(g) == HereIs(g) /\ IsDir(g)
HereIsFile(g) == HereIs(g) /\ ~IsDir(g)

LEMMA BeginStarts ==
  ASSUME NEW op, NEW used, NEW changed, NEW updates,
         Begin(op, used, changed, updates)
  PROVE  Starts(used, changed) /\ call' = updates
BY DEF Begin, Starts, storage

LEMMA TodoLists ==
  /\ \A u : call' = <<u>> => Todo' = {u}
  /\ \A u, v : call' = <<u, v>> => Todo' = {u, v}
  /\ \A u, v, w : call' = <<u, v, w>> => Todo' = {u, v, w}
  /\ \A u, v, w, x : call' = <<u, v, w, x>> => Todo' = {u, v, w, x}
<1>1. ASSUME NEW u, call' = <<u>> PROVE Todo' = {u}
  <2>1. DOMAIN <<u>> = {1}
    OBVIOUS
  <2> QED
    BY <1>1, <2>1 DEF Todo
<1>2. ASSUME NEW u, NEW v, call' = <<u, v>> PROVE Todo' = {u, v}
  <2>1. DOMAIN <<u, v>> = {1, 2}
    OBVIOUS
  <2> QED
    BY <1>2, <2>1 DEF Todo
<1>3. ASSUME NEW u, NEW v, NEW w, call' = <<u, v, w>> PROVE Todo' = {u, v, w}
  <2>1. DOMAIN <<u, v, w>> = {1, 2, 3}
    OBVIOUS
  <2> QED
    BY <1>3, <2>1 DEF Todo
<1>4. ASSUME NEW u, NEW v, NEW w, NEW x, call' = <<u, v, w, x>>
      PROVE  Todo' = {u, v, w, x}
  <2>1. DOMAIN <<u, v, w, x>> = {1, 2, 3, 4}
    OBVIOUS
  <2> QED
    BY <1>4, <2>1 DEF Todo
<1> QED
  BY <1>1, <1>2, <1>3, <1>4

LEMMA NameFacts ==
  /\ \A nm \in Names : nm \in EntryNames /\ nm # Dot /\ nm # DotDot
  /\ Dot \in EntryNames /\ DotDot \in EntryNames /\ Dot # DotDot
  /\ Dot \notin Names /\ DotDot \notin Names
  /\ JunkRecord.name \notin EntryNames /\ JunkRecord.g = None
BY VolumeAssumption DEF EntryNames, JunkRecord, Record

LEMMA UpdateFields ==
  /\ \A g, k : CreateFile(g, k).op = k /\ CreateFile(g, k).g = g
               /\ CreateFile(g, k).rec = JunkRecord
  /\ \A d, nm, g : /\ AddEntry(d, nm, g).op = "addEntry" /\ AddEntry(d, nm, g).g = d
                   /\ AddEntry(d, nm, g).rec.name = nm
                   /\ AddEntry(d, nm, g).rec.g = g
                   /\ AddEntry(d, nm, g).rec = Record(nm, g)
  /\ \A d, nm : /\ RmEntry(d, nm).op = "rmEntry" /\ RmEntry(d, nm).g = d
                /\ RmEntry(d, nm).rec.name = nm /\ RmEntry(d, nm).rec.g = None
  /\ \A g : Update("container", g, JunkRecord).op = "container"
BY DEF CreateFile, AddEntry, RmEntry, Update, Record

LEMMA CreateStarts ==
  ASSUME IInv, NEW d \in Guids, NEW nm \in Names, azs_create(d, nm),
         NEW g, g = NewGuid
  PROVE  /\ Starts({d}, {g}) /\ g \in Guids /\ ~There(g)
         /\ Todo' = {CreateFile(g, "reg"), AddEntry(d, nm, g)}
         /\ HereIsDir(d) /\ Nowhere(d, nm)
<1>1. /\ HereDir(d) /\ ~Has(d, nm) /\ NewUuid
      /\ Begin("create", {d}, {g}, << CreateFile(g, "reg"), AddEntry(d, nm, g) >>)
  BY DEF azs_create
<1>2. Starts({d}, {g}) /\ call' = << CreateFile(g, "reg"), AddEntry(d, nm, g) >>
  BY <1>1, BeginStarts
<1>3. Todo' = {CreateFile(g, "reg"), AddEntry(d, nm, g)}
  BY <1>2, TodoLists
<1>4. mounted /\ hand = NoHand
  BY <1>2 DEF Starts
<1>5. g \in Guids /\ ~There(g)
  BY <1>1, <1>4, NewGuidFacts DEF There, Mem
<1>6. HereIsDir(d)
  BY <1>1, <1>4, Lookup DEF HereIsDir, HereIs, IsDir
<1>7. Nowhere(d, nm)
  BY <1>1, <1>4, Lookup, NameFacts DEF Nowhere, Has
<1> QED
  BY <1>2, <1>3, <1>5, <1>6, <1>7

LEMMA MkdirStarts ==
  ASSUME IInv, NEW d \in Guids, NEW nm \in Names, azs_mkdir(d, nm),
         NEW g, g = NewGuid
  PROVE  /\ Starts({d}, {g}) /\ g \in Guids /\ ~There(g)
         /\ Todo' = {CreateFile(g, "dir"), AddEntry(g, Dot, g),
                     AddEntry(g, DotDot, d), AddEntry(d, nm, g)}
         /\ HereIsDir(d) /\ Nowhere(d, nm)
<1>1. /\ HereDir(d) /\ ~Has(d, nm) /\ NewUuid
      /\ Begin("mkdir", {d}, {g},
              << CreateFile(g, "dir"), AddEntry(g, Dot, g),
                 AddEntry(g, DotDot, d), AddEntry(d, nm, g) >>)
  BY DEF azs_mkdir
<1>2. /\ Starts({d}, {g})
      /\ call' = << CreateFile(g, "dir"), AddEntry(g, Dot, g),
                    AddEntry(g, DotDot, d), AddEntry(d, nm, g) >>
  BY <1>1, BeginStarts
<1>3. Todo' = {CreateFile(g, "dir"), AddEntry(g, Dot, g),
               AddEntry(g, DotDot, d), AddEntry(d, nm, g)}
  BY <1>2, TodoLists
<1>4. mounted /\ hand = NoHand
  BY <1>2 DEF Starts
<1>5. g \in Guids /\ ~There(g)
  BY <1>1, <1>4, NewGuidFacts DEF There, Mem
<1>6. HereIsDir(d)
  BY <1>1, <1>4, Lookup DEF HereIsDir, HereIs, IsDir
<1>7. Nowhere(d, nm)
  BY <1>1, <1>4, Lookup, NameFacts DEF Nowhere, Has
<1> QED
  BY <1>2, <1>3, <1>5, <1>6, <1>7

LEMMA UnlinkStarts ==
  ASSUME IInv, NEW d \in Guids, NEW nm \in Names, azs_unlink(d, nm),
         NEW g, g = Child(d, nm)
  PROVE  /\ Starts({d}, Under(d, nm)) /\ g \in Guids
         /\ Todo' = {RmEntry(d, nm)} /\ Taking({d}, Under(d, nm))
         /\ HereIsDir(d) /\ HereIsFile(g) /\ Listed(d, nm, g)
<1>1. /\ HereDir(d) /\ Has(d, nm) /\ Here(g) /\ obj[g].kind = "reg"
      /\ Begin("unlink", {d}, Under(d, nm), << RmEntry(d, nm) >>)
  BY DEF azs_unlink
<1>2. Starts({d}, Under(d, nm)) /\ call' = << RmEntry(d, nm) >>
  BY <1>1, BeginStarts
<1>3. Todo' = {RmEntry(d, nm)}
  BY <1>2, TodoLists
<1>4. mounted /\ hand = NoHand /\ nm \in EntryNames
  BY <1>2, NameFacts DEF Starts
<1>5. HereIsDir(d)
  BY <1>1, <1>4, Lookup DEF HereIsDir, HereIs, IsDir
<1>6. HereIsFile(g)
  BY <1>1, <1>4 DEF HereIsFile, HereIs, IsDir, There, Mem, Here
<1>7. Listed(d, nm, g) /\ g \in Guids
  BY <1>1, <1>4, Lookup DEF Listed
<1>8. Taking({d}, Under(d, nm))
  <2>1. \A i \in Slots : Rec(d, i).name = nm => Rec(d, i).g \in Under(d, nm)
    BY <1>1, <1>4, Lookup
  <2> QED
    BY <1>3, <2>1, UpdateFields DEF Taking
<1> QED
  BY <1>2, <1>3, <1>5, <1>6, <1>7, <1>8

LEMMA RmdirStarts ==
  ASSUME IInv, NEW d \in Guids, NEW nm \in Names, azs_rmdir(d, nm),
         NEW g, g = Child(d, nm)
  PROVE  LET changed == Under(d, nm) \cup Under(g, Dot) \cup Under(g, DotDot)
         IN /\ Starts({d, g}, changed) /\ g \in Guids
            /\ Todo' = {RmEntry(g, DotDot), RmEntry(g, Dot), RmEntry(d, nm)}
            /\ Taking({d, g}, changed)
            /\ HereIsDir(d) /\ HereIsDir(g) /\ Listed(d, nm, g)
            /\ Mem(g).size <= 2
<1> DEFINE changed == Under(d, nm) \cup Under(g, Dot) \cup Under(g, DotDot)
<1>1. /\ HereDir(d) /\ Has(d, nm) /\ HereDir(g) /\ obj[g].size <= 2
      /\ Begin("rmdir", {d, g}, changed,
               << RmEntry(g, DotDot), RmEntry(g, Dot), RmEntry(d, nm) >>)
  BY DEF azs_rmdir
<1> HIDE DEF changed
<1>2. /\ Starts({d, g}, changed)
      /\ call' = << RmEntry(g, DotDot), RmEntry(g, Dot), RmEntry(d, nm) >>
  BY <1>1, BeginStarts
<1>3. Todo' = {RmEntry(g, DotDot), RmEntry(g, Dot), RmEntry(d, nm)}
  BY <1>2, TodoLists
<1>4. mounted /\ hand = NoHand /\ nm \in EntryNames /\ Dot \in EntryNames
      /\ DotDot \in EntryNames
  BY <1>2, NameFacts DEF Starts
<1>5. Listed(d, nm, g) /\ g \in Guids
  BY <1>1, <1>4, Lookup DEF Listed
<1>6. HereIsDir(d) /\ HereIsDir(g) /\ Mem(g) = obj[g]
  BY <1>1, <1>4, <1>5, Lookup DEF HereIsDir, HereIs, IsDir
<1>7. Taking({d, g}, changed)
  <2>1. \A i \in Slots : Rec(d, i).name = nm => Rec(d, i).g \in changed
    BY <1>1, <1>4, Lookup DEF changed
  <2>2. \A i \in Slots : /\ Rec(g, i).name = Dot => Rec(g, i).g \in changed
                         /\ Rec(g, i).name = DotDot => Rec(g, i).g \in changed
    BY <1>1, <1>4, <1>5, Lookup DEF changed
  <2> QED
    BY <1>3, <2>1, <2>2, UpdateFields DEF Taking
<1> QED
  BY <1>1, <1>2, <1>3, <1>5, <1>6, <1>7 DEF changed

LEMMA RenameStarts ==
  ASSUME IInv, NEW d \in Guids, NEW nm \in Names, NEW e \in Guids,
         NEW to \in Names, azs_rename(d, nm, e, to), NEW g, g = Child(d, nm)
  PROVE  /\ Starts({d, e}, Under(d, nm)) /\ g \in Guids
         /\ Todo' = {AddEntry(e, to, g), RmEntry(d, nm)}
         /\ Taking({d, e}, Under(d, nm))
         /\ HereIsDir(d) /\ HereIsDir(e) /\ HereIsFile(g) /\ Listed(d, nm, g)
         /\ Nowhere(e, to)
<1>1. /\ HereDir(d) /\ Has(d, nm) /\ HereDir(e) /\ ~Has(e, to)
      /\ Here(g) /\ obj[g].kind = "reg"
      /\ Begin("rename", {d, e}, Under(d, nm),
               << AddEntry(e, to, g), RmEntry(d, nm) >>)
  BY DEF azs_rename
<1>2. /\ Starts({d, e}, Under(d, nm))
      /\ call' = << AddEntry(e, to, g), RmEntry(d, nm) >>
  BY <1>1, BeginStarts
<1>3. Todo' = {AddEntry(e, to, g), RmEntry(d, nm)}
  BY <1>2, TodoLists
<1>4. mounted /\ hand = NoHand /\ nm \in EntryNames
  BY <1>2, NameFacts DEF Starts
<1>5. HereIsDir(d) /\ HereIsDir(e)
  BY <1>1, <1>4, Lookup DEF HereIsDir, HereIs, IsDir
<1>6. HereIsFile(g)
  BY <1>1, <1>4 DEF HereIsFile, HereIs, IsDir, There, Mem, Here
<1>7. Listed(d, nm, g) /\ g \in Guids
  BY <1>1, <1>4, Lookup DEF Listed
<1>8. Nowhere(e, to)
  BY <1>1, <1>4, Lookup, NameFacts DEF Nowhere, Has
<1>9. Taking({d, e}, Under(d, nm))
  <2>1. \A i \in Slots : Rec(d, i).name = nm => Rec(d, i).g \in Under(d, nm)
    BY <1>1, <1>4, Lookup
  <2> QED
    BY <1>3, <2>1, UpdateFields DEF Taking
<1> QED
  BY <1>2, <1>3, <1>5, <1>6, <1>7, <1>8, <1>9

-----------------------------------------------------------------------------
(***************************************************************************)
(* The steps by what they do to the files, the records and the call.       *)
(***************************************************************************)
\* No update is in the call twice; these come last, if at all.
Final(u) == u.op = "container" \/ (u.op = "rmEntry" /\ u.rec.name \in Names)
Once ==
  /\ \A i, j \in DOMAIN call : call[i] = call[j] => i = j
  /\ \A i \in DOMAIN call : Final(call[i]) => i = Len(call)

Process == <<mounted, rootdir, lost>>
Left(u) ==
  /\ u \in Todo /\ Todo' = Todo \ {u} /\ (\A v \in Todo' : v.op \notin Create)
  /\ (Final(u) => Todo' = {}) /\ mounted /\ UNCHANGED Process
Calm == Quiet /\ StillFull /\ Todo' = Todo /\ UNCHANGED <<Process, container>>
Moves ==
  /\ \E d \in Guids, i, j \in Slots : Moved(d, i, j)
  /\ StillFull /\ Todo' = Todo /\ UNCHANGED <<Process, container>>
Mounts ==
  /\ Quiet /\ StillFull /\ Todo = {} /\ Todo' = {} /\ lost' = lost
  /\ ~mounted /\ mounted' /\ rootdir' = container /\ container # None
  /\ container' = container
Creates(u) ==
  /\ Left(u) /\ u.op \in Create /\ Made(u.g, u.op) /\ StillFull
  /\ container' = container
Adds(u, i) ==
  /\ Left(u) /\ u.op = "addEntry" /\ Linked(u.g, i, u.rec) /\ StillFull
  /\ IsDir(u.g) /\ container' = container
Removes(u, i, g) ==
  /\ Left(u) /\ u.op = "rmEntry" /\ Unlinked(u.g, i, g) /\ StillFull
  /\ IsDir(u.g) /\ Rec(u.g, i).name = u.rec.name /\ container' = container
RemovesNone(u) ==
  /\ Left(u) /\ u.op = "rmEntry" /\ Quiet /\ StillFull
  /\ Nowhere(u.g, u.rec.name) /\ container' = container
Roots(u) ==
  /\ Left(u) /\ u.op = "container" /\ Quiet /\ StillFull /\ container' = rootdir

LEMMA OnceTail ==
  ASSUME IInv, Once, call # <<>>, call' = Tail(call), NEW u, u = Head(call)
  PROVE  /\ Once' /\ u \in Todo /\ Todo' = Todo \ {u}
         /\ \A v \in Todo' : v.op \notin Create
         /\ Final(u) => Todo' = {}
<1>1. call \in Seq(Updates) /\ Len(call) \in Nat \ {0}
      /\ DOMAIN call = 1..Len(call)
  BY LenProperties, EmptySeq DEF IInv, TypeOK
<1>2. /\ u = call[1]
      /\ DOMAIN Tail(call) = 1..Len(call) - 1
      /\ \A i \in 1..Len(call) - 1 : Tail(call)[i] = call[i + 1]
  BY <1>1, HeadTailProperties, LenProperties
<1>3. \A i \in 1..Len(call) - 1 : i + 1 \in 1..Len(call) /\ i + 1 # 1 /\ i \in Int
  BY <1>1
<1>4. \A i, j \in DOMAIN call' : call'[i] = call'[j] => i = j
  <2> SUFFICES ASSUME NEW i \in 1..Len(call) - 1, NEW j \in 1..Len(call) - 1,
                      call[i + 1] = call[j + 1]
               PROVE  i = j
    BY <1>2
  <2>1. i + 1 = j + 1
    BY <1>1, <1>3 DEF Once
  <2> QED
    BY <1>3, <2>1
<1>6. Len(Tail(call)) = Len(call) - 1
  BY <1>1, HeadTailProperties
<1>7. \A i \in DOMAIN call' : Final(call'[i]) => i = Len(call')
  <2> SUFFICES ASSUME NEW i \in 1..Len(call) - 1, Final(call[i + 1])
               PROVE  i = Len(call) - 1
    BY <1>2, <1>6
  <2>1. PICK j \in 1..Len(call) : j = i + 1
    BY <1>3
  <2>2. j \in DOMAIN call /\ Final(call[j])
    BY <1>1, <2>1
  <2>3. j = Len(call)
    BY <2>2 DEF Once
  <2>4. \A n, k, l \in Int : k = l + 1 /\ k = n => l = n - 1
    OBVIOUS
  <2>5. i \in Int /\ j \in Int /\ Len(call) \in Int
    BY <1>1, <1>3
  <2> QED
    BY <2>1, <2>3, <2>4, <2>5, Zenon
<1>8. Final(u) => Todo' = {}
  <2> SUFFICES ASSUME Final(u) PROVE Todo' = {}
    OBVIOUS
  <2>0. 1 \in DOMAIN call /\ Final(call[1])
    BY <1>1, <1>2
  <2>1. Len(call) = 1
    BY <2>0 DEF Once
  <2>2. DOMAIN Tail(call) = {}
    BY <1>2, <2>1
  <2> QED
    BY <2>2 DEF Todo
<1>5. u \notin Todo'
  <2> SUFFICES ASSUME NEW i \in 1..Len(call) - 1, u = call[i + 1] PROVE FALSE
    BY <1>2 DEF Todo
  <2>1. PICK j \in 1..Len(call) : j = i + 1 /\ j # 1
    BY <1>3
  <2>2. j \in DOMAIN call /\ 1 \in DOMAIN call /\ j # 1
    BY <1>1, <2>1
  <2>3. call[j] = call[1]
    BY <1>2, <2>1
  <2> QED
    BY <2>2, <2>3 DEF Once
<1> QED
  BY <1>4, <1>5, <1>7, <1>8, TodoTail DEF Once

LEMMA OnceLists ==
  /\ \A u : call' = <<u>> => Once'
  /\ \A u, v : call' = <<u, v>> /\ u # v /\ ~Final(u) => Once'
  /\ \A u, v, w :
       call' = <<u, v, w>> /\ u # v /\ u # w /\ v # w /\ ~Final(u) /\ ~Final(v)
         => Once'
  /\ \A u, v, w, x :
       call' = <<u, v, w, x>> /\ u # v /\ u # w /\ u # x /\ v # w /\ v # x /\ w # x
         /\ ~Final(u) /\ ~Final(v) /\ ~Final(w) => Once'
<1>1. ASSUME NEW u, call' = <<u>> PROVE Once'
  <2>1. DOMAIN <<u>> = {1} /\ Len(<<u>>) = 1
    OBVIOUS
  <2> QED
    BY <1>1, <2>1 DEF Once
<1>2. ASSUME NEW u, NEW v, call' = <<u, v>>, u # v, ~Final(u) PROVE Once'
  <2>1. /\ DOMAIN call' = {1, 2} /\ Len(call') = 2
        /\ call'[1] = u /\ call'[2] = v
    BY <1>2
  <2> QED
    BY <1>2, <2>1 DEF Once
<1>3. ASSUME NEW u, NEW v, NEW w, call' = <<u, v, w>>, u # v, u # w, v # w,
             ~Final(u), ~Final(v)
      PROVE  Once'
  <2>1. /\ DOMAIN call' = {1, 2, 3} /\ Len(call') = 3
        /\ call'[1] = u /\ call'[2] = v /\ call'[3] = w
    BY <1>3
  <2> QED
    BY <1>3, <2>1 DEF Once
<1>4. ASSUME NEW u, NEW v, NEW w, NEW x, call' = <<u, v, w, x>>,
             u # v, u # w, u # x, v # w, v # x, w # x,
             ~Final(u), ~Final(v), ~Final(w)
      PROVE  Once'
  <2>1. /\ DOMAIN call' = {1, 2, 3, 4} /\ Len(call') = 4
        /\ call'[1] = u /\ call'[2] = v /\ call'[3] = w /\ call'[4] = x
    BY <1>4
  <2>2. ASSUME NEW i \in DOMAIN call' PROVE i = 1 \/ i = 2 \/ i = 3 \/ i = 4
    <3>1. i \in {1, 2, 3, 4}
      BY <2>1, Zenon
    <3> QED
      BY <3>1
  <2>3. \A i \in DOMAIN call' : Final(call'[i]) => i = Len(call')
    BY <1>4, <2>1, <2>2
  <2>4. ASSUME NEW i \in DOMAIN call', NEW j \in DOMAIN call', call'[i] = call'[j]
        PROVE  i = j
    <3>1. i = 1 \/ i = 2 \/ i = 3 \/ i = 4
      BY <2>2
    <3>2. j = 1 \/ j = 2 \/ j = 3 \/ j = 4
      BY <2>2
    <3> QED
      BY <1>4, <2>1, <2>4, <3>1, <3>2
  <2> QED
    BY <2>3, <2>4 DEF Once
<1> QED
  BY <1>1, <1>2, <1>3, <1>4

LEMMA OnceCallback ==
  ASSUME NEW d \in Guids, NEW nm \in Names,
         \/ azs_create(d, nm) \/ azs_mkdir(d, nm)
         \/ azs_unlink(d, nm) \/ azs_rmdir(d, nm)
         \/ \E e \in Guids, to \in Names : azs_rename(d, nm, e, to)
  PROVE  Once'
<1>1. ASSUME azs_create(d, nm) PROVE Once'
  <2>1. PICK g : call' = << CreateFile(g, "reg"), AddEntry(d, nm, g) >>
    BY <1>1 DEF azs_create, Begin
  <2>2. CreateFile(g, "reg") # AddEntry(d, nm, g) /\ ~Final(CreateFile(g, "reg"))
    BY UpdateFields DEF Final
  <2> QED
    BY <2>1, <2>2, OnceLists
<1>2. ASSUME azs_mkdir(d, nm) PROVE Once'
  <2>1. PICK g : call' = << CreateFile(g, "dir"), AddEntry(g, Dot, g),
                            AddEntry(g, DotDot, d), AddEntry(d, nm, g) >>
    BY <1>2 DEF azs_mkdir, Begin
  <2>3. /\ CreateFile(g, "dir") # AddEntry(g, Dot, g)
        /\ CreateFile(g, "dir") # AddEntry(g, DotDot, d)
        /\ CreateFile(g, "dir") # AddEntry(d, nm, g)
        /\ AddEntry(g, Dot, g) # AddEntry(g, DotDot, d)
        /\ AddEntry(g, Dot, g) # AddEntry(d, nm, g)
        /\ AddEntry(g, DotDot, d) # AddEntry(d, nm, g)
        /\ ~Final(CreateFile(g, "dir")) /\ ~Final(AddEntry(g, Dot, g))
        /\ ~Final(AddEntry(g, DotDot, d))
    BY UpdateFields, NameFacts DEF Final
  <2> QED
    BY <2>1, <2>3, OnceLists
<1>3. ASSUME azs_unlink(d, nm) PROVE Once'
  BY <1>3, OnceLists DEF azs_unlink, Begin
<1>4. ASSUME azs_rmdir(d, nm) PROVE Once'
  <2>1. PICK g : call' = << RmEntry(g, DotDot), RmEntry(g, Dot), RmEntry(d, nm) >>
    BY <1>4 DEF azs_rmdir, Begin
  <2>2. /\ RmEntry(g, DotDot) # RmEntry(g, Dot)
        /\ RmEntry(g, DotDot) # RmEntry(d, nm) /\ RmEntry(g, Dot) # RmEntry(d, nm)
        /\ ~Final(RmEntry(g, DotDot)) /\ ~Final(RmEntry(g, Dot))
    BY UpdateFields, NameFacts DEF Final
  <2> QED
    BY <2>1, <2>2, OnceLists
<1>5. ASSUME NEW e \in Guids, NEW to \in Names, azs_rename(d, nm, e, to) PROVE Once'
  <2>1. PICK g : call' = << AddEntry(e, to, g), RmEntry(d, nm) >>
    BY <1>5 DEF azs_rename, Begin
  <2>2. AddEntry(e, to, g) # RmEntry(d, nm) /\ ~Final(AddEntry(e, to, g))
    BY UpdateFields DEF Final
  <2> QED
    BY <2>1, <2>2, OnceLists
<1> QED
  BY <1>1, <1>2, <1>3, <1>4, <1>5

LEMMA OnceFirstMount == ASSUME FirstMount PROVE Once'
<1>1. PICK g : call' = << CreateFile(g, "dir"), AddEntry(g, Dot, g),
                          AddEntry(g, DotDot, g), Update("container", g, JunkRecord) >>
  BY DEF FirstMount, NewRoot
<1>2. /\ CreateFile(g, "dir") # AddEntry(g, Dot, g)
      /\ CreateFile(g, "dir") # AddEntry(g, DotDot, g)
      /\ CreateFile(g, "dir") # Update("container", g, JunkRecord)
      /\ AddEntry(g, Dot, g) # AddEntry(g, DotDot, g)
      /\ AddEntry(g, Dot, g) # Update("container", g, JunkRecord)
      /\ AddEntry(g, DotDot, g) # Update("container", g, JunkRecord)
      /\ ~Final(CreateFile(g, "dir")) /\ ~Final(AddEntry(g, Dot, g))
      /\ ~Final(AddEntry(g, DotDot, g))
  BY UpdateFields, NameFacts DEF Final
<1> QED
  BY <1>1, <1>2, OnceLists

LEMMA SameCall ==
  ASSUME UNCHANGED call PROVE Todo' = Todo /\ (Once => Once')
BY DEF Todo, Once

LEMMA LeftTail ==
  ASSUME IInv, Once, call # <<>>, call' = Tail(call), NEW u, u = Head(call),
         UNCHANGED <<mounted, rootdir, lost>>
  PROVE  Left(u) /\ Once'
<1>1. mounted
  BY DEF IInv, Forgotten
<1> QED
  BY <1>1, OnceTail DEF Left, Process

LEMMA CreateKind ==
  ASSUME IInv, Once, DoCreate
  PROVE  Once' /\ \E u : Creates(u)
<1>1. PICK u : u = Head(call)
  OBVIOUS
<1>2. PICK g : g = u.g
  OBVIOUS
<1>3. /\ call # <<>> /\ call' = Tail(call) /\ u.op \in Create
      /\ UNCHANGED <<mounted, rootdir, lost, container>>
  BY <1>1, <1>2, CreateFacts
<1>4. Left(u) /\ Once'
  BY <1>1, <1>3, LeftTail
<1>5. Made(u.g, u.op) /\ StillFull
  BY <1>1, CreateMade
<1> QED
  BY <1>3, <1>4, <1>5 DEF Creates

LEMMA AddEntryKind ==
  ASSUME IInv, Once, DoAddEntry
  PROVE  Once' /\ \E u, i : i \in Slots /\ u.g \in Guids /\ Adds(u, i)
<1>1. PICK u, d, i, g : u = Head(call) /\ d = u.g /\ i = obj[d].size + 1
                        /\ g = u.rec.g
  OBVIOUS
<1>2. /\ call # <<>> /\ call' = Tail(call) /\ u.op = "addEntry"
      /\ UNCHANGED <<mounted, rootdir, lost, container>>
  BY <1>1, AddEntryFacts
<1>3. Left(u) /\ Once'
  BY <1>1, <1>2, LeftTail
<1>4. /\ Linked(d, i, u.rec) /\ StillFull /\ IsDir(d)
      /\ d \in Guids /\ i \in Slots
  BY <1>1, AddEntryLinked
<1> QED
  BY <1>1, <1>2, <1>3, <1>4 DEF Adds

LEMMA RmEntryKind ==
  ASSUME IInv, Once, DoRmEntry
  PROVE  /\ Once'
         /\ \E u : \/ RemovesNone(u)
                   \/ \E i, g : /\ i \in Slots /\ g \in Guids /\ u.g \in Guids
                                /\ Removes(u, i, g)
<1>1. PICK u, d, nm : u = Head(call) /\ d = u.g /\ nm = u.rec.name
  OBVIOUS
<1>2. /\ call # <<>> /\ call' = Tail(call) /\ u.op = "rmEntry" /\ hand = NoHand
      /\ mounted /\ d \in Guids /\ OpenDir(d) /\ nm \in EntryNames
      /\ UNCHANGED <<mounted, rootdir, lost, container>>
      /\ ~Has(d, nm) => UNCHANGED <<obj, upload_queue, hand>>
  BY <1>1, RmEntryFacts
<1>3. Left(u) /\ Once'
  BY <1>1, <1>2, LeftTail
<1>4. CASE ~Has(d, nm)
  <2>1. Quiet /\ StillFull
    BY <1>2, <1>4, SameObjQuiet
  <2>2. Nowhere(d, nm)
    BY <1>2, <1>4, OpenLookup DEF Nowhere, Has
  <2> QED
    BY <1>1, <1>2, <1>3, <2>1, <2>2 DEF RemovesNone
<1>5. CASE Has(d, nm)
  <2>1. PICK i, g : Found(d, nm, i, g)
    BY DEF Found
  <2>2. /\ Unlinked(d, i, g) /\ StillFull /\ i \in Slots
        /\ g \in Guids /\ Rec(d, i).name = nm
    BY <1>1, <1>5, <2>1, RmEntryUnlinked
  <2>3. IsDir(d)
    BY <1>2, OpenLookup
  <2> QED
    BY <1>1, <1>2, <1>3, <2>2, <2>3 DEF Removes
<1> QED
  BY <1>4, <1>5

LEMMA ContainerKind ==
  ASSUME IInv, Once, DoContainer
  PROVE  Once' /\ \E u : Roots(u)
<1>1. PICK u : u = Head(call)
  OBVIOUS
<1>2. /\ call # <<>> /\ call' = Tail(call) /\ u.op = "container"
      /\ container' = rootdir
      /\ UNCHANGED <<mounted, rootdir, obj, hand, lost>>
  BY <1>1 DEF DoContainer, Doing, history
<1>3. mounted
  BY <1>2 DEF IInv, Forgotten
<1>4. Left(u) /\ Once'
  BY <1>1, <1>2, LeftTail
<1>5. Quiet /\ StillFull
  BY <1>2, <1>3, SameObjQuiet
<1> QED
  BY <1>2, <1>4, <1>5 DEF Roots

LEMMA MountKind ==
  ASSUME IInv, Mount PROVE Mounts /\ UNCHANGED call
<1>1. /\ ~mounted /\ mounted' /\ rootdir' = container /\ container # None
      /\ UNCHANGED <<call, container, lost>>
  BY DEF Mount, storage, history
<1>2. call = <<>>
  BY <1>1 DEF IInv, Forgotten
<1>3. Todo = {} /\ Todo' = {}
  BY <1>1, <1>2, EmptySeq DEF Todo
<1>4. Quiet /\ StillFull
  BY MountQuiet
<1> QED
  BY <1>1, <1>3, <1>4 DEF Mounts

Callbacks == \E d \in Guids, nm \in Names :
  \/ azs_create(d, nm) \/ azs_mkdir(d, nm)
  \/ azs_unlink(d, nm) \/ azs_rmdir(d, nm)
  \/ \E e \in Guids, to \in Names : azs_rename(d, nm, e, to)

LEMMA Kinds ==
  ASSUME IInv, SInv, Once, [Next]_vars
  PROVE  /\ Once'
         /\ \/ Calm \/ Moves \/ Mounts \/ Unmount \/ Crash \/ FirstMount
            \/ Callbacks
            \/ \E u : Creates(u) \/ Roots(u) \/ RemovesNone(u)
            \/ \E u, i : i \in Slots /\ u.g \in Guids /\ Adds(u, i)
            \/ \E u, i, g : /\ i \in Slots /\ g \in Guids /\ u.g \in Guids
                            /\ Removes(u, i, g)
<1>1. CASE Callbacks
  BY <1>1, OnceCallback, Zenon DEF Callbacks
<1>2. CASE DoCreate
  BY <1>2, CreateKind
<1>3. CASE DoAddEntry
  BY <1>3, AddEntryKind
<1>4. CASE DoRmEntry
  <2>1. Once'
    BY <1>4, RmEntryKind
  <2>2. PICK u : \/ RemovesNone(u)
                 \/ \E i, g : /\ i \in Slots /\ g \in Guids /\ u.g \in Guids
                              /\ Removes(u, i, g)
    BY <1>4, RmEntryKind
  <2> QED
    BY <2>1, <2>2
<1>5. CASE DoContainer
  BY <1>5, ContainerKind
<1>6. CASE Move
  <2>1. UNCHANGED <<call, Process, container>>
    <3>1. PICK d : d = hand.d
      OBVIOUS
    <3> QED
      BY <1>6, <3>1, MoveFacts DEF Process
  <2>2. Moves
    BY <1>6, <2>1, MoveMoved, SameCall DEF Moves
  <2> QED
    BY <2>1, <2>2, SameCall
<1>7. CASE Grow
  <2>1. UNCHANGED <<call, Process, container>>
    <3>1. PICK d : d = hand.d
      OBVIOUS
    <3> QED
      BY <1>7, <3>1, GrowFacts DEF Process
  <2> QED
    BY <1>7, <2>1, GrowQuiet, SameCall DEF Calm
<1>8. CASE Place
  <2>1. UNCHANGED <<call, Process, container>>
    <3>1. PICK d : d = hand.d
      OBVIOUS
    <3> QED
      BY <1>8, <3>1, PlaceFacts DEF Process
  <2> QED
    BY <1>8, <2>1, PlaceQuiet, SameCall DEF Calm
<1>9. CASE Close
  <2>1. UNCHANGED <<call, Process, container>>
    <3>1. PICK d : d = hand.d
      OBVIOUS
    <3> QED
      BY <1>9, <3>1, CloseFacts DEF Process
  <2> QED
    BY <1>9, <2>1, CloseQuiet, SameCall DEF Calm
<1>10. CASE Launch
  <2>1. UNCHANGED <<call, Process, container>>
    BY <1>10 DEF Launch, storage, history, Process
  <2> QED
    BY <1>10, <2>1, LaunchQuiet, SameCall DEF Calm
<1>11. CASE DeleteBlob \/ CommitBlocks \/ PutMetadata
  <2>1. UNCHANGED <<call, Process, container>>
    BY <1>11 DEF DeleteBlob, CommitBlocks, PutMetadata, history, Process
  <2> QED
    BY <1>11, <2>1, UploadQuiet, SameCall DEF Calm
<1>12. CASE Mount
  BY <1>12, MountKind, SameCall
<1>13. CASE FirstMount
  BY <1>13, OnceFirstMount
<1>14. CASE Unmount \/ Crash
  <2>1. call' = <<>>
    BY <1>14, EndEnds
  <2>2. Once'
    BY <2>1, EmptySeq DEF Once
  <2> QED
    BY <1>14, <2>2
<1>15. CASE UNCHANGED vars
  <2>1. UNCHANGED <<call, Process, container, mounted, obj, hand, data, meta>>
    BY <1>15 DEF vars, memory, storage, history, Process
  <2> QED
    BY <2>1, IdleQuiet, SameCall DEF Calm
<1>16. Callback => \/ Callbacks \/ DoCreate \/ DoAddEntry \/ DoRmEntry
                   \/ DoContainer \/ Grow \/ Place \/ Move \/ Close
  BY Zenon DEF Callback, Callbacks
<1> QED
  BY <1>1, <1>2, <1>3, <1>4, <1>5, <1>6, <1>7, <1>8, <1>9, <1>10, <1>11, <1>12,
     <1>13, <1>14, <1>15, <1>16 DEF Next

LEMMA StartsQuiet ==
  ASSUME NEW used, NEW changed, Starts(used, changed)
  PROVE  /\ Quiet /\ StillFull /\ Todo = {} /\ lost \subseteq lost'
         /\ UNCHANGED <<mounted, rootdir, container>> /\ mounted
<1>1. mounted /\ UNCHANGED <<mounted, rootdir, container, obj, hand>> /\ call = <<>>
      /\ lost \subseteq lost'
  BY DEF Starts
<1>2. Todo = {}
  BY <1>1, EmptySeq DEF Todo
<1> QED
  BY <1>1, <1>2, SameObjQuiet

-----------------------------------------------------------------------------
\* What rmEntry may take out of a damaged directory is damaged too.
Lossy == \A u \in Todo : u.op = "rmEntry" /\ u.g \in lost =>
  \A i \in Slots : Rec(u.g, i).name = u.rec.name => Rec(u.g, i).g \in lost

\* No call takes away a name that it adds.
Apart == \A u, v \in Todo : u.op = "addEntry" /\ v.op = "rmEntry" =>
  ~(u.g = v.g /\ u.rec.name = v.rec.name)

LInv == Linking /\ Lossy /\ Apart /\ Once

LEMMA LossyKept ==
  ASSUME Lossy, Apart, Todo' \subseteq Todo, lost' = lost,
         \A v \in Todo' : v.op = "rmEntry" =>
           \A j \in Slots : Rec(v.g, j)'.name = v.rec.name =>
             \E k \in Slots : Rec(v.g, k) = Rec(v.g, j)'
  PROVE  Lossy' /\ Apart'
<1>1. Apart'
  BY DEF Apart
<1>2. Lossy'
  <2> SUFFICES ASSUME NEW v \in Todo', v.op = "rmEntry", v.g \in lost,
                      NEW j \in Slots, Rec(v.g, j)'.name = v.rec.name
               PROVE  Rec(v.g, j)'.g \in lost
    BY DEF Lossy
  <2>1. PICK k \in Slots : Rec(v.g, k) = Rec(v.g, j)'
    OBVIOUS
  <2>2. Rec(v.g, k).g \in lost
    BY <2>1 DEF Lossy
  <2> QED
    BY <2>1, <2>2
<1> QED
  BY <1>1, <1>2

\* What a pending update is about.
LEMMA TodoKnown ==
  ASSUME IInv, NEW u \in Todo
  PROVE  /\ u.g \in Guids
         /\ u.op = "rmEntry" => u.rec.name \in EntryNames
         /\ u.op = "addEntry" => u.rec \in Entries /\ u.rec.g \in Guids
                                 /\ u.rec.name \in EntryNames
<1>1. u \in Updates /\ u.g \in Guids /\ (u.op \notin Create => Sound(u))
  BY TodoFacts
<1> QED
  BY <1>1 DEF Sound, Create, Entries

LEMMA QuietLossy ==
  ASSUME IInv, Lossy, Apart, Todo' \subseteq Todo, lost' = lost, SameRecs
  PROVE  Lossy' /\ Apart'
<1>1. \A v \in Todo' : v.g \in Guids
  BY TodoKnown
<1>2. \A v \in Todo', j \in Slots : Rec(v.g, j)' = Rec(v.g, j)
  BY <1>1 DEF SameRecs
<1> QED
  BY <1>2, LossyKept

LEMMA BeginLInv ==
  ASSUME IInv, LInv, NEW used \in SUBSET Guids, NEW changed,
         Starts(used, changed), Taking(used, changed), Apart', Once'
  PROVE  LInv'
<1>1. Quiet /\ StillFull /\ lost \subseteq lost'
  BY StartsQuiet
<1>2. Linking'
  BY <1>1, QuietLinking DEF LInv
<1>3. ASSUME NEW u \in Todo', u.op = "rmEntry", u.g \in lost'
      PROVE  \A i \in Slots : Rec(u.g, i)'.name = u.rec.name => Rec(u.g, i)'.g \in lost'
  <2>1. u.g \in used
        /\ \A i \in Slots : Rec(u.g, i).name = u.rec.name => Rec(u.g, i).g \in changed
    BY <1>3 DEF Taking
  <2>2. changed \subseteq lost'
    BY <1>3, <2>1 DEF Starts
  <2>3. \A i \in Slots : Rec(u.g, i)' = Rec(u.g, i)
    BY <1>1, <2>1 DEF Quiet, SameRecs
  <2> QED
    BY <2>1, <2>2, <2>3
<1> QED
  BY <1>2, <1>3 DEF LInv, Lossy

LEMMA CallbackLInv == ASSUME IInv, LInv, Callbacks, Once' PROVE LInv'
<1>1. PICK d \in Guids, nm \in Names :
        \/ azs_create(d, nm) \/ azs_mkdir(d, nm)
        \/ azs_unlink(d, nm) \/ azs_rmdir(d, nm)
        \/ \E e \in Guids, to \in Names : azs_rename(d, nm, e, to)
  BY Zenon DEF Callbacks
<1>2. CASE azs_create(d, nm)
  <2>1. PICK g : g = NewGuid
    OBVIOUS
  <2>2. Starts({d}, {g}) /\ Todo' = {CreateFile(g, "reg"), AddEntry(d, nm, g)}
    BY <1>2, <2>1, CreateStarts
  <2>3. \A u \in Todo' : u.op # "rmEntry"
    BY <2>2, UpdateFields
  <2> QED
    BY <2>2, <2>3, BeginLInv DEF Taking, Apart
<1>3. CASE azs_mkdir(d, nm)
  <2>1. PICK g : g = NewGuid
    OBVIOUS
  <2>2. /\ Starts({d}, {g})
        /\ Todo' = {CreateFile(g, "dir"), AddEntry(g, Dot, g),
                    AddEntry(g, DotDot, d), AddEntry(d, nm, g)}
    BY <1>3, <2>1, MkdirStarts
  <2>3. \A u \in Todo' : u.op # "rmEntry"
    BY <2>2, UpdateFields
  <2> QED
    BY <2>2, <2>3, BeginLInv DEF Taking, Apart
<1>4. CASE azs_unlink(d, nm)
  <2>1. PICK g : g = Child(d, nm)
    OBVIOUS
  <2>2. /\ Starts({d}, Under(d, nm)) /\ Todo' = {RmEntry(d, nm)}
        /\ Taking({d}, Under(d, nm))
    BY <1>4, <2>1, UnlinkStarts
  <2>3. Apart'
    BY <2>2, UpdateFields DEF Apart
  <2> QED
    BY <2>2, <2>3, BeginLInv
<1>5. CASE azs_rmdir(d, nm)
  <2>1. PICK g : g = Child(d, nm)
    OBVIOUS
  <2>2. PICK changed :
          /\ Starts({d, g}, changed) /\ Taking({d, g}, changed) /\ g \in Guids
          /\ Todo' = {RmEntry(g, DotDot), RmEntry(g, Dot), RmEntry(d, nm)}
    BY <1>5, <2>1, RmdirStarts
  <2>3. Apart'
    BY <2>2, UpdateFields DEF Apart
  <2> QED
    BY <2>2, <2>3, BeginLInv
<1>6. ASSUME NEW e \in Guids, NEW to \in Names, azs_rename(d, nm, e, to)
      PROVE  LInv'
  <2>1. PICK g : g = Child(d, nm)
    OBVIOUS
  <2>2. /\ Starts({d, e}, Under(d, nm)) /\ Taking({d, e}, Under(d, nm))
        /\ Todo' = {AddEntry(e, to, g), RmEntry(d, nm)}
        /\ Listed(d, nm, g) /\ Nowhere(e, to)
    BY <1>6, <2>1, RenameStarts
  <2>3. ~(d = e /\ nm = to)
    BY <2>2 DEF Listed, Nowhere
  <2>4. Apart'
    <3> SUFFICES ASSUME NEW u \in Todo', NEW v \in Todo', u.op = "addEntry",
                        v.op = "rmEntry"
                 PROVE  ~(u.g = v.g /\ u.rec.name = v.rec.name)
      BY DEF Apart
    <3>1. u = AddEntry(e, to, g) /\ v = RmEntry(d, nm)
      BY <2>2, UpdateFields
    <3> QED
      BY <2>3, <3>1, UpdateFields
  <2> QED
    BY <2>2, <2>4, BeginLInv
<1> QED
  BY <1>1, <1>2, <1>3, <1>4, <1>5, <1>6

LEMMA LeftFacts ==
  ASSUME IInv, NEW u, Left(u)
  PROVE  /\ u \in Todo /\ Todo' \subseteq Todo /\ lost' = lost /\ mounted
         /\ u \notin Todo' /\ (\A v \in Todo : v = u \/ v \in Todo')
         /\ UNCHANGED <<mounted, rootdir>> /\ u.g \in Guids
BY TodoKnown DEF Left, Process

LEMMA LInvStep == ASSUME IInv, SInv, LInv, [Next]_vars PROVE LInv'
<1>1. /\ Once'
      /\ \/ Calm \/ Moves \/ Mounts \/ Unmount \/ Crash \/ FirstMount
         \/ Callbacks
         \/ \E u : Creates(u) \/ Roots(u) \/ RemovesNone(u)
         \/ \E u, i : i \in Slots /\ u.g \in Guids /\ Adds(u, i)
         \/ \E u, i, g : /\ i \in Slots /\ g \in Guids /\ u.g \in Guids
                         /\ Removes(u, i, g)
  BY Kinds DEF LInv
<1>2. /\ Linking /\ Lossy /\ Apart
  BY DEF LInv
<1>3. JunkRecord.name \notin EntryNames
  BY NameFacts
<1>4. CASE Calm
  <2>1. Quiet /\ StillFull /\ Todo' = Todo /\ lost' = lost /\ SameRecs
    BY <1>4 DEF Calm, Process, Quiet
  <2> QED
    BY <1>1, <1>2, <2>1, QuietLinking, QuietLossy DEF LInv
<1>5. CASE Moves
  <2>1. PICK d \in Guids, i \in Slots, j \in Slots : Moved(d, i, j)
    BY <1>5 DEF Moves
  <2>2. StillFull /\ Todo' = Todo /\ lost' = lost
    BY <1>5 DEF Moves, Process
  <2>3. Linking'
    BY <1>2, <2>1, <2>2, MovedLinking
  <2>4. ASSUME NEW v \in Todo', v.op = "rmEntry", NEW k \in Slots,
               Rec(v.g, k)'.name = v.rec.name
        PROVE  \E l \in Slots : Rec(v.g, l) = Rec(v.g, k)'
    <3>1. v.g \in Guids /\ v.rec.name \in EntryNames
      BY <2>2, <2>4, TodoKnown
    <3>2. CASE v.g = d /\ k = j
      BY <1>3, <2>1, <2>4, <3>1, <3>2 DEF Moved
    <3>3. CASE v.g = d /\ k = i
      BY <2>1, <3>3 DEF Moved
    <3>4. CASE ~(v.g = d /\ k = j) /\ ~(v.g = d /\ k = i)
      BY <2>1, <3>1, <3>4 DEF Moved
    <3> QED
      BY <3>2, <3>3, <3>4
  <2>5. Lossy' /\ Apart'
    BY <1>2, <2>2, <2>4, LossyKept
  <2> QED
    BY <1>1, <2>3, <2>5 DEF LInv
<1>6. CASE Mounts
  <2>1. Quiet /\ StillFull /\ Todo' = {} /\ lost' = lost
    BY <1>6 DEF Mounts
  <2> QED
    BY <1>1, <1>2, <2>1, QuietLinking DEF LInv, Lossy, Apart
<1>7. CASE Unmount \/ Crash
  <2>1. Ended /\ call' = <<>>
    BY <1>7, EndEnds
  <2>2. Todo' = {}
    BY <2>1, EmptySeq DEF Todo
  <2> QED
    BY <1>1, <1>2, <2>1, <2>2, EndedLinking DEF LInv, Lossy, Apart
<1>8. CASE FirstMount
  <2>1. PICK g : g = NewGuid
    OBVIOUS
  <2>2. /\ Begun /\ StillFull /\ lost' = lost
        /\ call' = << CreateFile(g, "dir"), AddEntry(g, Dot, g),
                      AddEntry(g, DotDot, g), Update("container", g, JunkRecord) >>
    BY <1>8, <2>1, FirstMountBegun
  <2>3. \A u \in Todo' : u.op # "rmEntry"
    BY <2>2, TodoLists, UpdateFields
  <2> QED
    BY <1>1, <1>2, <2>2, <2>3, BegunLinking DEF LInv, Lossy, Apart
<1>9. CASE Callbacks
  BY <1>1, <1>9, CallbackLInv
<1>10. ASSUME NEW u, Creates(u) PROVE LInv'
  <2>1. Todo' \subseteq Todo /\ lost' = lost /\ u.g \in Guids
        /\ Made(u.g, u.op) /\ StillFull
    BY <1>10, LeftFacts DEF Creates
  <2>2. Linking'
    BY <1>2, <2>1, MadeLinking
  <2>3. Lossy' /\ Apart'
    BY <1>2, <2>1, QuietLossy DEF Made
  <2> QED
    BY <1>1, <2>2, <2>3 DEF LInv
<1>11. ASSUME NEW u, Roots(u) \/ RemovesNone(u) PROVE LInv'
  <2>1. /\ Todo' \subseteq Todo /\ lost' = lost
        /\ Quiet /\ SameRecs /\ StillFull
    BY <1>11, LeftFacts DEF Roots, RemovesNone, Quiet
  <2> QED
    BY <1>1, <1>2, <2>1, QuietLinking, QuietLossy DEF LInv
<1>12. ASSUME NEW u, NEW i \in Slots, u.g \in Guids, Adds(u, i) PROVE LInv'
  <2>1. /\ Todo' \subseteq Todo /\ lost' = lost /\ u \in Todo
        /\ u.op = "addEntry" /\ Linked(u.g, i, u.rec) /\ StillFull
    BY <1>12, LeftFacts DEF Adds
  <2>2. Linking'
    BY <1>2, <1>12, <2>1, LinkedLinking
  <2>3. ASSUME NEW v \in Todo', v.op = "rmEntry", NEW k \in Slots,
               Rec(v.g, k)'.name = v.rec.name
        PROVE  \E l \in Slots : Rec(v.g, l) = Rec(v.g, k)'
    <3>1. v.g \in Guids /\ v \in Todo
      BY <2>1, <2>3, TodoKnown
    <3>2. ~(v.g = u.g /\ k = i)
      BY <1>2, <2>1, <2>3, <3>1 DEF Apart, Linked
    <3> QED
      BY <2>1, <3>1, <3>2 DEF Linked, OtherRecs
  <2>4. Lossy' /\ Apart'
    BY <1>2, <2>1, <2>3, LossyKept
  <2> QED
    BY <1>1, <2>2, <2>4 DEF LInv
<1>13. ASSUME NEW u, NEW i \in Slots, NEW g \in Guids, u.g \in Guids, Removes(u, i, g)
       PROVE  LInv'
  <2>1. /\ Todo' \subseteq Todo /\ lost' = lost /\ u \in Todo
        /\ u.op = "rmEntry" /\ Unlinked(u.g, i, g) /\ StillFull
        /\ Rec(u.g, i).name = u.rec.name
    BY <1>13, LeftFacts DEF Removes
  <2>2. u.g \in lost => g \in lost
    BY <1>2, <2>1 DEF Lossy, Unlinked
  <2>3. Linking'
    BY <1>2, <1>13, <2>1, <2>2, UnlinkedLinking
  <2>4. ASSUME NEW v \in Todo', v.op = "rmEntry", NEW k \in Slots,
               Rec(v.g, k)'.name = v.rec.name
        PROVE  \E l \in Slots : Rec(v.g, l) = Rec(v.g, k)'
    <3>1. v.g \in Guids /\ v.rec.name \in EntryNames
      BY <2>1, <2>4, TodoKnown
    <3>2. ~(v.g = u.g /\ k = i)
      BY <1>3, <2>1, <2>4, <3>1 DEF Unlinked
    <3> QED
      BY <2>1, <3>1, <3>2 DEF Unlinked, OtherRecs
  <2>5. Lossy' /\ Apart'
    BY <1>2, <2>1, <2>4, LossyKept
  <2> QED
    BY <1>1, <2>3, <2>5 DEF LInv
<1> QED
  BY <1>1, <1>4, <1>5, <1>6, <1>7, <1>8, <1>9, <1>10, <1>11, <1>12, <1>13

-----------------------------------------------------------------------------
\* The tree that is stored at first.
There0(g) == container # None /\ g \in DOMAIN Stored0

LEMMA InitTree ==
  ASSUME Init
  PROVE  /\ ~mounted /\ rootdir = None /\ call = <<>> /\ Todo = {} /\ lost = {}
         /\ hand = NoHand /\ container \in {None, Root0}
         /\ \A g \in Guids : There(g) <=> There0(g)
         /\ \A g \in Guids : There0(g) =>
              /\ Mem(g).kind = IF IsDir0(g) THEN "dir" ELSE "reg"
              /\ Mem(g).nlink = Cardinality(Links0(g)) /\ Mem(g).exist
              /\ Mem(g).size = Len(Stored0[g]) /\ Mem(g).recs = Stored0[g]
         /\ \A d \in Guids, i \in Slots :
              Rec(d, i) = IF There0(d) /\ i \in DOMAIN Stored0[d]
                          THEN Stored0[d][i] ELSE JunkRecord
         /\ \A d \in DOMAIN Stored0 :
              /\ d \in Guids /\ DOMAIN Stored0[d] \subseteq Slots
              /\ \A i \in DOMAIN Stored0[d] : Stored0[d][i] \in Entries
<1>1. IInv
  BY InitInv
<1> DEFINE M(g) == [kind  |-> IF IsDir0(g) THEN "dir" ELSE "reg",
                    nlink |-> Cardinality(Links0(g)),
                    size  |-> Len(Stored0[g])]
<1>2. /\ ~mounted /\ rootdir = None /\ call = <<>> /\ lost = {}
      /\ hand = NoHand /\ container \in {None, Root0}
      /\ \A g \in Guids : data[g] = IF There0(g) THEN Stored0[g] ELSE None
      /\ \A g \in Guids : meta[g] = IF There0(g) THEN M(g) ELSE None
  BY DEF Init, M, There0
<1>3. Todo = {}
  BY <1>2, EmptySeq DEF Todo
<1>4. ASSUME NEW d \in DOMAIN Stored0
      PROVE  /\ d \in Guids /\ Stored0[d] \in Seq(Entries)
             /\ DOMAIN Stored0[d] = 1..Len(Stored0[d]) /\ Len(Stored0[d]) \in Nat
             /\ DOMAIN Stored0[d] \subseteq Slots
             /\ \A i \in DOMAIN Stored0[d] : Stored0[d][i] \in Entries
             /\ M(d).kind = IF IsDir0(d) THEN "dir" ELSE "reg"
             /\ M(d).nlink = Cardinality(Links0(d)) /\ M(d).size = Len(Stored0[d])
  <2>1. d \in Guids /\ Stored0[d] \in Seq(Entries)
    BY VolumeAssumption DEF Entries
  <2>2. DOMAIN Stored0[d] = 1..Len(Stored0[d]) /\ Len(Stored0[d]) \in Nat
    BY <2>1, LenProperties
  <2>3. \A i \in DOMAIN Stored0[d] : Stored0[d][i] \in Entries
    BY <2>1, <2>2, ElementOfSeq
  <2> QED
    BY <2>1, <2>2, <2>3 DEF Slots
<1> HIDE DEF M
<1>5. \A g \in Guids : Loadable(g) <=> There0(g)
  <2> SUFFICES ASSUME NEW g \in Guids PROVE Loadable(g) <=> There0(g)
    OBVIOUS
  <2>1. There0(g) => meta[g] # None /\ data[g] # None
    <3> SUFFICES ASSUME There0(g) PROVE meta[g] # None /\ data[g] # None
      OBVIOUS
    <3>1. g \in DOMAIN Stored0
      BY DEF There0
    <3>2. Stored0[g] \in Seq(Records)
      <4>1. /\ Stored0[g] \in [1..Len(Stored0[g]) -> Entries]
            /\ Len(Stored0[g]) \in Nat
        BY <1>4, <3>1, LenProperties
      <4>2. Entries \subseteq Records
        BY DEF Entries, Records
      <4>3. Stored0[g] \in [1..Len(Stored0[g]) -> Records]
        BY <4>1, <4>2
      <4> QED
        BY <4>1, <4>3
    <3>3. M(g) \in Metas
      <4>1. Cardinality(Links0(g)) \in Int
        BY <1>4, <3>1, Links0Finite
      <4> QED
        BY <1>4, <3>1, <4>1 DEF M, Metas
    <3> QED
      BY <1>2, <3>2, <3>3, TypeFacts
  <2> QED
    BY <1>2, <2>1 DEF Loadable
<1>6. ASSUME NEW g \in Guids
      PROVE  There(g) <=> There0(g)
  BY <1>1, <1>2, <1>5, LoadedFacts DEF There, Mem
<1>7. ASSUME NEW g \in Guids, There0(g)
      PROVE  /\ Mem(g).kind = IF IsDir0(g) THEN "dir" ELSE "reg"
             /\ Mem(g).nlink = Cardinality(Links0(g)) /\ Mem(g).exist
             /\ Mem(g).size = Len(Stored0[g]) /\ Mem(g).recs = Stored0[g]
  <2>1. /\ Mem(g) = Loaded(g) /\ Loaded(g).kind = meta[g].kind
        /\ Loaded(g).nlink = meta[g].nlink /\ Loaded(g).exist = TRUE
        /\ Loaded(g).size = meta[g].size /\ Loaded(g).recs = data[g]
        /\ g \in DOMAIN Stored0
        /\ meta[g] = M(g) /\ data[g] = Stored0[g]
    BY <1>1, <1>2, <1>5, <1>7, LoadedFacts DEF Mem, There0
  <2> QED
    BY <1>4, <2>1
<1>8. ASSUME NEW d \in Guids, NEW i \in Slots
      PROVE  Rec(d, i) = IF There0(d) /\ i \in DOMAIN Stored0[d]
                         THEN Stored0[d][i] ELSE JunkRecord
  <2>1. Rec(d, i) = IF IsDir(d) /\ i \in 1..Mem(d).size /\ i \in DOMAIN Mem(d).recs
                    THEN Mem(d).recs[i] ELSE JunkRecord
    BY <1>2, NothingInHand
  <2>2. CASE There0(d)
    <3>1. d \in DOMAIN Stored0
      BY <2>2 DEF There0
    <3>2. IsDir0(d) \/ DOMAIN Stored0[d] = {}
      BY EmptySeq DEF IsDir0
    <3>3. IsDir0(d) => IsDir(d)
      BY <1>6, <1>7, <2>2 DEF IsDir
    <3> QED
      BY <1>4, <1>7, <2>1, <2>2, <3>1, <3>2, <3>3
  <2>3. CASE ~There0(d)
    BY <1>6, <2>1, <2>3 DEF IsDir
  <2> QED
    BY <2>2, <2>3
<1> QED
  BY <1>2, <1>3, <1>4, <1>6, <1>7, <1>8

LEMMA InitLinks ==
  ASSUME Init, NEW g \in Guids
  PROVE  IsFiniteSet(Links(g)) /\ (There(g) => Links(g) = Links0(g))
<1>1. /\ lost = {}
      /\ There(g) <=> There0(g)
      /\ \A d \in Guids, i \in Slots :
           Rec(d, i) = IF There0(d) /\ i \in DOMAIN Stored0[d]
                       THEN Stored0[d][i] ELSE JunkRecord
      /\ \A d \in DOMAIN Stored0 : d \in Guids /\ DOMAIN Stored0[d] \subseteq Slots
  BY InitTree
<1>2. JunkRecord.g # g
  BY NameFacts, TypeFacts
<1>3. Links(g) \subseteq Links0(g)
  <2> SUFFICES ASSUME NEW e \in Links(g) PROVE e \in Links0(g)
    OBVIOUS
  <2>1. PICK d \in Guids, i \in Slots : e = <<d, i>> /\ Rec(d, i).g = g
    BY LinkFacts
  <2>2. d \in DOMAIN Stored0 /\ i \in DOMAIN Stored0[d] /\ Stored0[d][i].g = g
    BY <1>1, <1>2, <2>1 DEF There0
  <2>3. e \in {d} \X DOMAIN Stored0[d] /\ Stored0[e[1]][e[2]].g = g
    BY <2>1, <2>2
  <2> QED
    BY <2>2, <2>3 DEF Links0
<1>4. There(g) => Links0(g) \subseteq Links(g)
  <2> SUFFICES ASSUME There(g), NEW e \in Links0(g) PROVE e \in Links(g)
    OBVIOUS
  <2>1. PICK d \in DOMAIN Stored0 : e \in {d} \X DOMAIN Stored0[d]
    BY DEF Links0
  <2>2. PICK i \in DOMAIN Stored0[d] : e = <<d, i>>
    BY <2>1
  <2>3. Stored0[d][i].g = g
    BY <2>2 DEF Links0
  <2>4. Rec(d, i).g = g /\ d \in Guids /\ i \in Slots
    BY <1>1, <2>3 DEF There0
  <2> QED
    BY <1>1, <2>2, <2>4, LinkFacts
<1> QED
  BY <1>3, <1>4, Links0Finite, FS_Subset

LEMMA LInvInit == ASSUME Init PROVE LInv
<1>1. /\ call = <<>> /\ Todo = {} /\ lost = {}
      /\ \A g \in Guids : There(g) <=> There0(g)
      /\ \A g \in Guids : There0(g) =>
           /\ Mem(g).nlink = Cardinality(Links0(g)) /\ Mem(g).exist
           /\ Mem(g).size = Len(Stored0[g])
      /\ \A d \in Guids, i \in Slots :
           Rec(d, i) = IF There0(d) /\ i \in DOMAIN Stored0[d]
                       THEN Stored0[d][i] ELSE JunkRecord
      /\ \A d \in DOMAIN Stored0 :
           /\ d \in Guids
           /\ \A i \in DOMAIN Stored0[d] : Stored0[d][i] \in Entries
  BY InitTree
<1>2. Finite
  BY InitLinks DEF Finite
<1>3. Leading
  <2> SUFFICES ASSUME NEW d \in Guids, NEW i \in Slots, Rec(d, i).g # None
               PROVE  There(Rec(d, i).g)
    BY DEF Leading
  <2>1. There0(d) /\ i \in DOMAIN Stored0[d] /\ Rec(d, i) = Stored0[d][i]
        /\ d \in DOMAIN Stored0
    BY <1>1, NameFacts DEF There0
  <2>2. Stored0[d][i].g \in DOMAIN Stored0
    BY <2>1, VolumeAssumption DEF Tree0
  <2>3. PICK g \in Guids : g = Rec(d, i).g
    BY <1>1, <2>1, <2>2
  <2>4. There0(g)
    BY <2>1, <2>2, <2>3 DEF There0
  <2> QED
    BY <1>1, <2>3, <2>4
<1>4. NoGap
  <2> SUFFICES ASSUME NEW d \in Guids, NEW i \in Slots, IsDir(d),
                      i \in 1..Mem(d).size
               PROVE  Rec(d, i).g # None
    BY DEF NoGap, Full
  <2>1. There0(d) /\ d \in DOMAIN Stored0 /\ i \in 1..Len(Stored0[d])
    BY <1>1 DEF IsDir, There0
  <2>2. DOMAIN Stored0[d] = 1..Len(Stored0[d])
    <3>1. Stored0[d] \in Seq([name : EntryNames, g : Guids])
      BY <2>1, VolumeAssumption
    <3> QED
      BY <3>1, LenProperties
  <2>3. Rec(d, i) = Stored0[d][i] /\ Stored0[d][i] \in Entries
    BY <1>1, <2>1, <2>2
  <2>4. \A r \in Entries : r.g # None
    BY TypeFacts DEF Entries
  <2> QED
    BY <2>3, <2>4
<1>5. Counts
  <2> SUFFICES ASSUME NEW g \in Guids, There(g)
               PROVE  Cardinality(Links(g)) <= Mem(g).nlink
    BY DEF Counts
  <2>1. Links(g) = Links0(g) /\ Mem(g).nlink = Cardinality(Links0(g))
    BY <1>1, InitLinks
  <2> QED
    BY <2>1, Links0Finite
<1>6. Dead
  BY <1>1 DEF Dead
<1>7. Once
  BY <1>1, EmptySeq DEF Once
<1> QED
  BY <1>1, <1>2, <1>3, <1>4, <1>5, <1>6, <1>7 DEF LInv, Linking, Lossy, Apart

-----------------------------------------------------------------------------
(***************************************************************************)
(* The root directory: once its entry for itself is in it, nothing takes   *)
(* it away, and it is in no other directory.                               *)
(***************************************************************************)
Root == IF container # None THEN container ELSE rootdir
SelfEntry(u) == u.op = "addEntry" /\ u.g = Root /\ u.rec = Record(Dot, Root)
Dotted == \E i \in Slots : Rec(Root, i) = Record(Dot, Root)

\* The container is named only when it has no rootdir.
NamedOnce == \A u \in Todo : u.op = "container" => container = None
Rooted == Dotted \/ (container = None /\ \E u \in Todo : SelfEntry(u))
Above ==
  \A d \in Guids \ lost, i \in Slots : Rec(d, i).name \in Names => Rec(d, i).g # Root
Spared ==
  \A u \in Todo :
    /\ u.op = "addEntry" /\ u.rec.name \in Names => u.rec.g # Root
    /\ u.op = "rmEntry" /\ u.rec.name = Dot => u.g # Root
RootSafe == Root \notin lost \cup {None} => Rooted /\ Above /\ Spared
RInv == NamedOnce /\ RootSafe

LEMMA RootTypes ==
  ASSUME IInv
  PROVE  /\ Root \in Guids \cup {None} /\ (mounted => Root \in Guids)
         /\ rootdir \in Guids \cup {None} /\ container \in Guids \cup {None}
BY DEF Root, IInv, TypeOK, Forgotten

\* A root directory that names itself exists.
LEMMA DottedHere ==
  ASSUME IInv, LInv, Dotted, Root \notin lost \cup {None}
  PROVE  Root \in Guids \ lost /\ There(Root) /\ Mem(Root).exist /\ IsDir(Root)
<1>1. Root \in Guids \ lost
  BY RootTypes
<1>2. PICK i \in Slots : Rec(Root, i) = Record(Dot, Root)
  BY DEF Dotted
<1>3. Rec(Root, i).g = Root /\ Rec(Root, i).g # None
  BY <1>2 DEF Record
<1>4. IsDir(Root)
  BY <1>1, <1>3, MemFacts
<1>5. Mem(Root).exist
  BY <1>1, <1>3, <1>4, DeadUnlinked DEF LInv, IsDir
<1> QED
  BY <1>1, <1>4, <1>5 DEF IsDir

\* A step that keeps the root, its entry, and what may be taken or added.
LEMMA RootKeptSafe ==
  ASSUME RootSafe, Root' = Root, lost \subseteq lost',
         Dotted => Dotted',
         \A u \in Todo : SelfEntry(u) /\ container = None =>
           Dotted' \/ (u \in Todo' /\ container' = None),
         Todo' \subseteq Todo,
         Root \notin lost' \cup {None} => Above'
  PROVE  RootSafe'
<1> SUFFICES ASSUME Root \notin lost' \cup {None} PROVE (Rooted /\ Above /\ Spared)'
  BY DEF RootSafe
<1>1. Rooted /\ Spared
  BY DEF RootSafe
<1>2. Spared'
  BY <1>1 DEF Spared
<1>3. \A u : SelfEntry(u)' <=> SelfEntry(u)
  BY DEF SelfEntry
<1>4. Rooted'
  BY <1>1, <1>3 DEF Rooted
<1> QED
  BY <1>2, <1>4

LEMMA QuietRoot ==
  ASSUME IInv, RootSafe, SameRecs, Root' = Root, lost' = lost,
         Todo' \subseteq Todo,
         \A u \in Todo : SelfEntry(u) /\ container = None =>
           u \in Todo' /\ container' = None
  PROVE  RootSafe'
<1>1. ASSUME Root \notin lost \cup {None} PROVE Root \in Guids
  BY <1>1, RootTypes
<1>2. Dotted /\ Root \notin lost \cup {None} => Dotted'
  BY <1>1 DEF Dotted, SameRecs
<1>3. Root \notin lost \cup {None} => Above /\ Above'
  BY DEF RootSafe, Above, SameRecs
<1> QED
  BY <1>2, <1>3, RootKeptSafe DEF RootSafe

\* A call: what it is going to add or take away leaves the root alone.
LEMMA BeginRoot ==
  ASSUME IInv, RInv, NEW used \in SUBSET Guids, NEW changed,
         Starts(used, changed),
         Root \notin lost' \cup {None} => Spared',
         \A u \in Todo' : u.op # "container"
  PROVE  RInv'
<1>1. /\ Quiet /\ Todo = {} /\ lost \subseteq lost'
      /\ UNCHANGED <<mounted, rootdir, container>>
  BY StartsQuiet
<1>2. Root' = Root
  BY <1>1 DEF Root
<1>3. NamedOnce'
  BY DEF NamedOnce
<1>4. RootSafe'
  <2> SUFFICES ASSUME Root \notin lost' \cup {None} PROVE (Rooted /\ Above /\ Spared)'
    BY <1>2 DEF RootSafe
  <2>1. Dotted /\ Above /\ Root \in Guids
    BY <1>1, RootTypes DEF RInv, RootSafe, Rooted
  <2>2. Dotted'
    BY <1>1, <1>2, <2>1 DEF Dotted, Quiet, SameRecs
  <2>3. Above'
    BY <1>1, <1>2, <2>1 DEF Above, Quiet, SameRecs
  <2> QED
    BY <2>2, <2>3 DEF Rooted
<1> QED
  BY <1>3, <1>4 DEF RInv

LEMMA CallbackRoot == ASSUME IInv, LInv, RInv, Callbacks PROVE RInv'
<1>1. PICK d \in Guids, nm \in Names :
        \/ azs_create(d, nm) \/ azs_mkdir(d, nm)
        \/ azs_unlink(d, nm) \/ azs_rmdir(d, nm)
        \/ \E e \in Guids, to \in Names : azs_rename(d, nm, e, to)
  BY Zenon DEF Callbacks
<1>2. ASSUME NEW used, NEW changed, Starts(used, changed),
             Root \notin lost' \cup {None}
      PROVE  /\ Root' = Root /\ Root \in Guids \ lost
             /\ There(Root) /\ IsDir(Root) /\ Above
  <2>1. /\ Todo = {} /\ lost \subseteq lost'
        /\ UNCHANGED <<mounted, rootdir, container>>
    BY <1>2, StartsQuiet
  <2>2. Root \notin lost \cup {None} /\ Root' = Root
    BY <1>2, <2>1 DEF Root
  <2>3. Dotted /\ Above
    BY <2>1, <2>2 DEF RInv, RootSafe, Rooted
  <2> QED
    BY <2>2, <2>3, DottedHere
<1>3. CASE azs_create(d, nm)
  <2>1. PICK g : g = NewGuid
    OBVIOUS
  <2>2. /\ Starts({d}, {g}) /\ Todo' = {CreateFile(g, "reg"), AddEntry(d, nm, g)}
        /\ ~There(g)
    BY <1>3, <2>1, CreateStarts
  <2>3. \A u \in Todo' : u.op \notin {"container", "rmEntry"}
                         /\ (u.op = "addEntry" => u.rec.g = g)
    BY <2>2, UpdateFields
  <2>4. Root \notin lost' \cup {None} => Root' = Root /\ Root # g
    BY <1>2, <2>2
  <2>5. Root \notin lost' \cup {None} => Spared'
    BY <2>3, <2>4 DEF Spared
  <2> QED
    BY <2>2, <2>3, <2>5, BeginRoot
<1>4. CASE azs_mkdir(d, nm)
  <2>1. PICK g : g = NewGuid
    OBVIOUS
  <2>2. /\ Starts({d}, {g})
        /\ Todo' = {CreateFile(g, "dir"), AddEntry(g, Dot, g),
                    AddEntry(g, DotDot, d), AddEntry(d, nm, g)}
        /\ ~There(g)
    BY <1>4, <2>1, MkdirStarts
  <2>3. \A u \in Todo' :
          /\ u.op \notin {"container", "rmEntry"}
          /\ u.op = "addEntry" => u.rec.g = g \/ u.rec.name = DotDot
    BY <2>2, UpdateFields
  <2>4. Root \notin lost' \cup {None} => Root' = Root /\ Root # g
    BY <1>2, <2>2
  <2>5. Root \notin lost' \cup {None} => Spared'
    BY <2>3, <2>4, NameFacts DEF Spared
  <2> QED
    BY <2>2, <2>3, <2>5, BeginRoot
<1>5. CASE azs_unlink(d, nm)
  <2>1. PICK g : g = Child(d, nm)
    OBVIOUS
  <2>2. Starts({d}, Under(d, nm)) /\ Todo' = {RmEntry(d, nm)}
    BY <1>5, <2>1, UnlinkStarts
  <2>3. \A u \in Todo' : u.op = "rmEntry" /\ u.rec.name = nm
    BY <2>2, UpdateFields
  <2>4. Spared'
    BY <2>3, NameFacts DEF Spared
  <2> QED
    BY <2>2, <2>3, <2>4, BeginRoot
<1>6. CASE azs_rmdir(d, nm)
  <2>1. PICK g : g = Child(d, nm)
    OBVIOUS
  <2>2. PICK changed :
          /\ Starts({d, g}, changed) /\ Taking({d, g}, changed) /\ g \in Guids
          /\ Todo' = {RmEntry(g, DotDot), RmEntry(g, Dot), RmEntry(d, nm)}
          /\ Listed(d, nm, g)
    BY <1>6, <2>1, RmdirStarts
  <2>3. \A u \in Todo' :
          u.op = "rmEntry" /\ (u.rec.name = Dot => u.g = g)
    BY <2>2, UpdateFields, NameFacts
  <2>4. g \in changed
    BY <2>2, UpdateFields DEF Taking, Listed
  <2>5. ASSUME Root \notin lost' \cup {None} PROVE Root' = Root /\ Root # g
    <3>1. Root' = Root /\ Root \in Guids \ lost /\ Above
      BY <1>2, <2>2, <2>5
    <3>2. CASE d \in lost
      BY <2>2, <2>4, <2>5, <3>1, <3>2 DEF Starts
    <3>3. CASE d \notin lost
      BY <2>2, <3>1, <3>3 DEF Above, Listed
    <3> QED
      BY <3>1, <3>2, <3>3
  <2>6. Root \notin lost' \cup {None} => Spared'
    BY <2>3, <2>5 DEF Spared
  <2> QED
    BY <2>2, <2>3, <2>6, BeginRoot
<1>7. ASSUME NEW e \in Guids, NEW to \in Names, azs_rename(d, nm, e, to)
      PROVE  RInv'
  <2>1. PICK g : g = Child(d, nm)
    OBVIOUS
  <2>2. /\ Starts({d, e}, Under(d, nm))
        /\ Todo' = {AddEntry(e, to, g), RmEntry(d, nm)} /\ HereIsFile(g)
    BY <1>7, <2>1, RenameStarts
  <2>3. \A u \in Todo' : \/ u.op = "rmEntry" /\ u.rec.name = nm
                         \/ u.op = "addEntry" /\ u.rec.g = g
    BY <2>2, UpdateFields
  <2>4. Root \notin lost' \cup {None} => Root' = Root /\ Root # g
    BY <1>2, <2>2 DEF HereIsFile
  <2>5. Root \notin lost' \cup {None} => Spared'
    BY <2>3, <2>4, NameFacts DEF Spared
  <2> QED
    BY <2>2, <2>3, <2>5, BeginRoot
<1> QED
  BY <1>1, <1>3, <1>4, <1>5, <1>6, <1>7

\* The kinds of step.
LEMMA AddsRoot ==
  ASSUME IInv, RInv, NEW u, NEW i \in Slots, u.g \in Guids, Adds(u, i)
  PROVE  RInv'
<1>1. /\ u \in Todo /\ Todo' \subseteq Todo /\ lost' = lost /\ mounted
      /\ (\A v \in Todo : v = u \/ v \in Todo')
      /\ UNCHANGED <<rootdir, container>>
      /\ u.op = "addEntry" /\ Linked(u.g, i, u.rec)
  BY LeftFacts DEF Adds
<1>2. Root' = Root /\ Root \in Guids
  BY <1>1, RootTypes DEF Root
<1>3. Dotted => Dotted'
  <2> SUFFICES ASSUME NEW k \in Slots, Rec(Root, k) = Record(Dot, Root) PROVE Dotted'
    BY DEF Dotted
  <2>1. Rec(Root, k).name \in EntryNames
    BY NameFacts DEF Record
  <2>2. ~(Root = u.g /\ k = i)
    BY <1>1, <2>1, NameFacts DEF Linked
  <2>3. Rec(Root, k)' = Rec(Root, k)
    BY <1>1, <1>2, <2>2 DEF Linked, OtherRecs
  <2> QED
    BY <1>2, <2>3 DEF Dotted
<1>4. ASSUME SelfEntry(u) PROVE Dotted'
  <2>1. Rec(u.g, i)' = u.rec
    BY <1>1 DEF Linked
  <2> QED
    BY <1>2, <1>4, <2>1 DEF SelfEntry, Dotted
<1>5. ASSUME Root \notin lost' \cup {None} PROVE Above'
  <2>1. Above /\ Spared /\ Root \in Guids
    BY <1>1, <1>5, RootTypes DEF RInv, RootSafe
  <2> SUFFICES ASSUME NEW d \in Guids \ lost, NEW k \in Slots,
                      Rec(d, k)'.name \in Names
               PROVE  Rec(d, k)'.g # Root
    BY <1>1, <1>2 DEF Above
  <2>2. CASE d = u.g /\ k = i
    <3>1. Rec(d, k)' = u.rec
      BY <1>1, <2>2 DEF Linked
    <3> QED
      BY <1>1, <2>1, <3>1 DEF Spared
  <2>3. CASE ~(d = u.g /\ k = i)
    <3>1. Rec(d, k)' = Rec(d, k)
      BY <1>1, <2>3 DEF Linked, OtherRecs
    <3> QED
      BY <2>1, <3>1 DEF Above
  <2> QED
    BY <2>2, <2>3
<1>6. NamedOnce'
  BY <1>1 DEF RInv, NamedOnce
<1>7. RootSafe'
  BY <1>1, <1>2, <1>3, <1>4, <1>5, RootKeptSafe DEF RInv
<1> QED
  BY <1>6, <1>7 DEF RInv

LEMMA RemovesRoot ==
  ASSUME IInv, RInv, NEW u, NEW i \in Slots, NEW g \in Guids, u.g \in Guids,
         Removes(u, i, g)
  PROVE  RInv'
<1>1. /\ u \in Todo /\ Todo' \subseteq Todo /\ lost' = lost /\ mounted
      /\ (\A v \in Todo : v = u \/ v \in Todo')
      /\ UNCHANGED <<rootdir, container>>
      /\ u.op = "rmEntry" /\ Unlinked(u.g, i, g) /\ Rec(u.g, i).name = u.rec.name
  BY LeftFacts DEF Removes
<1>2. Root' = Root /\ Root \in Guids
  BY <1>1, RootTypes DEF Root
<1>3. ASSUME Root \notin lost \cup {None} PROVE Dotted => Dotted'
  <2>1. Spared
    BY <1>3 DEF RInv, RootSafe
  <2> SUFFICES ASSUME NEW k \in Slots, Rec(Root, k) = Record(Dot, Root) PROVE Dotted'
    BY DEF Dotted
  <2>2. Rec(Root, k).name = Dot
    BY DEF Record
  <2>3. ~(Root = u.g /\ k = i)
    BY <1>1, <2>1, <2>2 DEF Spared
  <2>4. Rec(Root, k)' = Rec(Root, k)
    BY <1>1, <1>2, <2>3 DEF Unlinked, OtherRecs
  <2> QED
    BY <1>2, <2>4 DEF Dotted
<1>4. ASSUME Root \notin lost' \cup {None} PROVE Above'
  <2>1. Above
    BY <1>1, <1>4 DEF RInv, RootSafe
  <2> SUFFICES ASSUME NEW d \in Guids \ lost, NEW k \in Slots,
                      Rec(d, k)'.name \in Names
               PROVE  Rec(d, k)'.g # Root
    BY <1>1, <1>2 DEF Above
  <2>2. ~(d = u.g /\ k = i)
    BY <1>1, NameFacts DEF Unlinked
  <2>3. Rec(d, k)' = Rec(d, k)
    BY <1>1, <2>2 DEF Unlinked, OtherRecs
  <2> QED
    BY <2>1, <2>3 DEF Above
<1>5. NamedOnce'
  BY <1>1 DEF RInv, NamedOnce
<1>6. \A v \in Todo : SelfEntry(v) => v \in Todo'
  BY <1>1 DEF SelfEntry
<1>7. RootSafe'
  BY <1>1, <1>2, <1>3, <1>4, <1>6, RootKeptSafe DEF RInv, RootSafe
<1> QED
  BY <1>5, <1>7 DEF RInv

LEMMA RootsRoot == ASSUME IInv, RInv, NEW u, Roots(u) PROVE RInv'
<1>1. /\ u \in Todo /\ Todo' = {} /\ lost' = lost /\ Quiet /\ mounted
      /\ (\A v \in Todo : v = u \/ v \in Todo')
      /\ u.op = "container" /\ container' = rootdir /\ rootdir' = rootdir
  BY LeftFacts DEF Roots, Left, Final
<1>2. container = None /\ Root' = Root /\ Root \in Guids
  BY <1>1, RootTypes DEF RInv, NamedOnce, Root
<1>3. NamedOnce'
  BY <1>1 DEF NamedOnce
<1>4. ASSUME Root \notin lost \cup {None} PROVE (Rooted /\ Above /\ Spared)'
  <2>1. Rooted /\ Above
    BY <1>4 DEF RInv, RootSafe
  <2>2. Dotted
    BY <1>1, <2>1 DEF Rooted, SelfEntry
  <2>3. Dotted'
    BY <1>1, <1>2, <2>2 DEF Dotted, Quiet, SameRecs
  <2>4. Above'
    BY <1>1, <1>2, <2>1 DEF Above, Quiet, SameRecs
  <2> QED
    BY <1>1, <2>3, <2>4 DEF Rooted, Spared
<1> QED
  BY <1>1, <1>2, <1>3, <1>4 DEF RInv, RootSafe

LEMMA EndedRoot == ASSUME IInv, SInv, LInv, RInv, Unmount \/ Crash PROVE RInv'
<1>1. /\ Ended /\ rootdir' = None /\ container' = container
      /\ call' = <<>>
  BY EndEnds
<1>2. Todo' = {} /\ lost \subseteq lost'
  BY <1>1, EmptySeq DEF Todo, Ended
<1>3. NamedOnce' /\ Spared'
  BY <1>2 DEF NamedOnce, Spared
<1>4. ASSUME container \notin lost' \cup {None} PROVE Rooted' /\ Above'
  <2>1. Root = container /\ Root' = Root /\ Root \notin lost \cup {None}
    BY <1>1, <1>2, <1>4 DEF Root
  <2>2. Dotted /\ Above
    BY <1>4, <2>1 DEF RInv, RootSafe, Rooted
  <2>3. There(Root) /\ Mem(Root).exist /\ Root \in Guids \ lost'
    BY <1>4, <2>1, <2>2, DottedHere
  <2>4. Dotted'
    BY <1>1, <2>1, <2>2, <2>3 DEF Ended, Dotted
  <2>5. Above'
    BY <1>1, <1>2, <2>1, <2>2, NameFacts DEF Ended, Above
  <2> QED
    BY <2>4, <2>5 DEF Rooted
<1> QED
  BY <1>1, <1>3, <1>4 DEF RInv, RootSafe, Root

LEMMA MountsRoot == ASSUME IInv, RInv, Mounts PROVE RInv'
<1>1. /\ Quiet /\ Todo = {} /\ Todo' = {} /\ lost' = lost
      /\ container' = container /\ container # None
  BY DEF Mounts
<1>2. Root' = Root
  BY <1>1 DEF Root
<1>3. RootSafe'
  BY <1>1, <1>2, QuietRoot DEF RInv, Quiet
<1> QED
  BY <1>1, <1>3 DEF RInv, NamedOnce

LEMMA FirstMountRoot == ASSUME IInv, SInv, FirstMount PROVE RInv'
<1>1. PICK g \in Guids :
        /\ rootdir' = g
        /\ call' = << CreateFile(g, "dir"), AddEntry(g, Dot, g),
                      AddEntry(g, DotDot, g), Update("container", g, JunkRecord) >>
  BY FirstMountBegun
<1>2. Begun /\ container' = None
  BY FirstMountBegun
<1>3. Todo' = {CreateFile(g, "dir"), AddEntry(g, Dot, g),
               AddEntry(g, DotDot, g), Update("container", g, JunkRecord)}
  BY <1>1, TodoLists
<1>4. Root' = g
  BY <1>1, <1>2 DEF Root
<1>5. \A u \in Todo' :
        u.op # "rmEntry" /\ (u.op = "addEntry" => u.rec.name \notin Names)
  BY <1>3, UpdateFields, NameFacts
<1>6. Above'
  BY <1>2, NameFacts DEF Above, Begun
<1>7. Spared'
  BY <1>5 DEF Spared
<1>8. Rooted'
  <2>1. AddEntry(g, Dot, g) \in Todo'
    BY <1>3
  <2> QED
    BY <1>2, <1>4, <2>1, UpdateFields DEF Rooted, SelfEntry
<1> QED
  BY <1>2, <1>6, <1>7, <1>8 DEF RInv, RootSafe, NamedOnce

LEMMA MovesRoot == ASSUME IInv, RInv, Moves PROVE RInv'
<1>1. PICK d \in Guids, i \in Slots, j \in Slots : Moved(d, i, j)
  BY DEF Moves
<1>2. Todo' = Todo /\ UNCHANGED <<lost, rootdir, container>>
  BY DEF Moves, Process
<1>3. Root' = Root
  BY <1>2 DEF Root
<1>4. ASSUME Root \notin lost \cup {None}, NEW k \in Slots,
             Rec(Root, k) = Record(Dot, Root)
      PROVE  Dotted'
  <2>1. Root \in Guids
    BY <1>4, RootTypes
  <2>2. Rec(Root, k).name \in EntryNames
    BY <1>4, NameFacts DEF Record
  <2>3. CASE Root = d /\ k = j
    BY <1>1, <1>3, <1>4, <2>3 DEF Moved, Dotted
  <2>4. CASE ~(Root = d /\ k = j)
    <3>1. ~(Root = d /\ k = i)
      BY <1>1, <2>2, NameFacts DEF Moved
    <3>2. Rec(Root, k)' = Rec(Root, k)
      BY <1>1, <1>3, <2>1, <2>4, <3>1 DEF Moved
    <3> QED
      BY <1>3, <1>4, <3>2 DEF Dotted
  <2> QED
    BY <2>3, <2>4
<1>5. ASSUME Root \notin lost \cup {None} PROVE Above'
  <2>1. Above
    BY <1>5 DEF RInv, RootSafe
  <2> SUFFICES ASSUME NEW e \in Guids \ lost, NEW k \in Slots,
                      Rec(e, k)'.name \in Names
               PROVE  Rec(e, k)'.g # Root
    BY <1>2, <1>3 DEF Above
  <2>2. CASE e = d /\ k = i
    BY <1>1, <2>1, <2>2 DEF Moved, Above
  <2>3. CASE e = d /\ k = j
    BY <1>1, <2>3, NameFacts DEF Moved
  <2>4. CASE ~(e = d /\ k = i) /\ ~(e = d /\ k = j)
    BY <1>1, <2>1, <2>4 DEF Moved, Above
  <2> QED
    BY <2>2, <2>3, <2>4
<1>6. RootSafe'
  <2>1. Root \notin lost \cup {None} /\ Dotted => Dotted'
    BY <1>4 DEF Dotted
  <2> QED
    BY <1>2, <1>3, <1>5, <2>1, RootKeptSafe DEF RInv, RootSafe
<1> QED
  BY <1>2, <1>6 DEF RInv, NamedOnce

LEMMA RInvStep == ASSUME IInv, SInv, LInv, RInv, [Next]_vars PROVE RInv'
<1>1. \/ Calm \/ Moves \/ Mounts \/ Unmount \/ Crash \/ FirstMount
      \/ Callbacks
      \/ \E u : Creates(u) \/ Roots(u) \/ RemovesNone(u)
      \/ \E u, i : i \in Slots /\ u.g \in Guids /\ Adds(u, i)
      \/ \E u, i, g : /\ i \in Slots /\ g \in Guids /\ u.g \in Guids
                      /\ Removes(u, i, g)
  BY Kinds DEF LInv
<1>2. CASE Calm
  <2>1. SameRecs /\ Todo' = Todo /\ UNCHANGED <<lost, rootdir, container>>
    BY <1>2 DEF Calm, Quiet, Process
  <2>2. Root' = Root
    BY <2>1 DEF Root
  <2>3. RootSafe'
    BY <2>1, <2>2, QuietRoot DEF RInv
  <2> QED
    BY <2>1, <2>3 DEF RInv, NamedOnce
<1>3. ASSUME NEW u, Creates(u) \/ RemovesNone(u) PROVE RInv'
  <2>1. /\ Todo' \subseteq Todo /\ lost' = lost /\ SameRecs
        /\ (\A v \in Todo : v = u \/ v \in Todo')
        /\ UNCHANGED <<rootdir, container>> /\ u.op # "addEntry"
    BY <1>3, LeftFacts DEF Creates, RemovesNone, Made, Quiet, Create
  <2>2. Root' = Root
    BY <2>1 DEF Root
  <2>3. \A v \in Todo : SelfEntry(v) => v \in Todo'
    BY <2>1 DEF SelfEntry
  <2>4. RootSafe'
    BY <2>1, <2>2, <2>3, QuietRoot DEF RInv
  <2> QED
    BY <2>1, <2>4 DEF RInv, NamedOnce
<1> QED
  BY <1>1, <1>2, <1>3, MovesRoot, MountsRoot, EndedRoot, FirstMountRoot,
     CallbackRoot, RootsRoot, AddsRoot, RemovesRoot

LEMMA RInvInit == ASSUME Init PROVE RInv
<1>1. /\ Todo = {} /\ rootdir = None /\ container \in {None, Root0}
      /\ \A d \in Guids, i \in Slots :
           Rec(d, i) = IF There0(d) /\ i \in DOMAIN Stored0[d]
                       THEN Stored0[d][i] ELSE JunkRecord
      /\ \A d \in DOMAIN Stored0 :
           /\ d \in Guids /\ DOMAIN Stored0[d] \subseteq Slots
           /\ \A i \in DOMAIN Stored0[d] : Stored0[d][i] \in Entries
  BY InitTree
<1>2. NamedOnce /\ Spared
  BY <1>1 DEF NamedOnce, Spared
<1>3. ASSUME Root # None PROVE Rooted /\ Above
  <2>1. Root = Root0 /\ container # None /\ Root0 \in DOMAIN Stored0
    BY <1>1, <1>3, VolumeAssumption DEF Root
  <2>2. PICK i \in DOMAIN Stored0[Root0] : Stored0[Root0][i].name = Dot
    <3>1. Dot \in {Stored0[Root0][i].name : i \in DOMAIN Stored0[Root0]}
      BY <2>1, VolumeAssumption DEF Tree0
    <3> QED
      BY <3>1
  <2>3. Stored0[Root0][i].g = Root0
    BY <2>1, <2>2, VolumeAssumption DEF Tree0
  <2>4. Stored0[Root0][i] = Record(Dot, Root0)
    <3>1. Stored0[Root0][i] \in Entries
      BY <1>1, <2>1, <2>2
    <3> QED
      BY <2>2, <2>3, <3>1 DEF Entries, Record
  <2>5. Dotted
    <3>1. Root0 \in Guids /\ i \in Slots /\ There0(Root0)
      BY <1>1, <2>1 DEF There0
    <3>2. Rec(Root0, i) = Record(Dot, Root0)
      BY <1>1, <2>4, <3>1
    <3> QED
      BY <2>1, <3>1, <3>2 DEF Dotted
  <2>6. Above
    <3> SUFFICES ASSUME NEW d \in Guids, NEW k \in Slots, Rec(d, k).name \in Names
                 PROVE  Rec(d, k).g # Root0
      BY <2>1 DEF Above
    <3>1. /\ d \in DOMAIN Stored0 /\ k \in DOMAIN Stored0[d]
          /\ Rec(d, k) = Stored0[d][k]
      BY <1>1, NameFacts DEF There0
    <3> QED
      BY <3>1, VolumeAssumption DEF Tree0
  <2> QED
    BY <2>5, <2>6 DEF Rooted
<1> QED
  BY <1>2, <1>3 DEF RInv, RootSafe

-----------------------------------------------------------------------------
\* Who writes to the container.
LEMMA Writers ==
  ASSUME [Next]_vars
  PROVE  /\ DoContainer \/ container' = container
         /\ DeleteBlob \/ CommitBlocks \/ PutMetadata \/ UNCHANGED <<data, meta>>
<1>1. CASE Callbacks
  <2>1. PICK op, used, changed, updates : Begin(op, used, changed, updates)
    BY <1>1, Zenon DEF Callbacks, azs_create, azs_mkdir, azs_unlink, azs_rmdir, azs_rename
  <2> QED
    BY <2>1 DEF Begin, storage
<1>2. CASE DoCreate \/ DoAddEntry \/ DoRmEntry \/ Grow \/ Place \/ Move \/ Close
  BY <1>2 DEF DoCreate, DoAddEntry, DoRmEntry, Grow, Place, Move, Close, storage
<1>3. CASE DoContainer \/ DeleteBlob \/ CommitBlocks \/ PutMetadata
  BY <1>3 DEF DoContainer, DeleteBlob, CommitBlocks, PutMetadata
<1>4. CASE Launch \/ Mount \/ Unmount \/ Crash \/ UNCHANGED vars
  BY <1>4 DEF Launch, Mount, Unmount, Crash, vars, storage
<1>5. CASE FirstMount
  BY <1>5 DEF FirstMount, NewRoot, storage
<1>6. Callback => \/ Callbacks \/ DoCreate \/ DoAddEntry \/ DoRmEntry
                  \/ DoContainer \/ Grow \/ Place \/ Move \/ Close
  BY Zenon DEF Callback, Callbacks
<1> QED
  BY <1>1, <1>2, <1>3, <1>4, <1>5, <1>6 DEF Next

\* The root directory stays in storage, and the container keeps it.
LEMMA RootStays ==
  ASSUME IInv, SInv, LInv, RInv, [Next]_vars,
         container \notin lost \cup {None}, Loadable(container)
  PROVE  container' = container /\ Loadable(container)'
<1>1. PICK g : g = container
  OBVIOUS
<1>2. g \in Guids \ lost /\ g # None /\ Root = g
  BY <1>1, RootTypes DEF Root
<1>3. Dotted
  BY <1>1, <1>2 DEF RInv, RootSafe, Rooted
<1>4. There(g) /\ Mem(g).exist
  BY <1>2, <1>3, DottedHere
<1>5. container' = container
  <2>1. CASE DoContainer
    <3>1. PICK u : Roots(u)
      BY <2>1, ContainerKind DEF LInv
    <3>2. u \in Todo /\ u.op = "container"
      BY <3>1 DEF Roots, Left
    <3> QED
      BY <1>1, <1>2, <3>2 DEF RInv, NamedOnce
  <2>2. CASE ~DoContainer
    BY <2>2, Writers
  <2> QED
    BY <2>1, <2>2
<1>6. Loadable(g)'
  <2>0. PICK h : h = task.g
    OBVIOUS
  <2>1. CASE DeleteBlob
    <3>1. task.g # g
      <4> SUFFICES ASSUME task.g = g PROVE FALSE
        OBVIOUS
      <4>1. task # NoTask
        BY <1>2, TypeFacts DEF NoTask
      <4>2. ~obj[g].exist /\ mounted
        BY <2>1, <4>1 DEF DeleteBlob, SInv, Synced, InHand, IInv, Forgotten
      <4> QED
        BY <1>4, <4>2 DEF Mem
    <3> QED
      BY <1>1, <1>2, <2>1, <3>1, <2>0, DeleteFacts DEF Loadable
  <2>2. CASE CommitBlocks
    BY <1>1, <1>2, <2>2, <2>0, CommitFacts DEF Loadable
  <2>3. CASE PutMetadata
    BY <1>1, <1>2, <2>3, <2>0, PutFacts DEF Loadable
  <2>4. CASE ~DeleteBlob /\ ~CommitBlocks /\ ~PutMetadata
    BY <1>1, <2>4, Writers DEF Loadable
  <2> QED
    BY <2>1, <2>2, <2>3, <2>4
<1> QED
  BY <1>1, <1>5, <1>6

SafeInv == IInv /\ SInv /\ LInv /\ RInv

\* What the following theorems rest on: what memory and storage say of each
\* other, the links that directories without damage hold, and the root.
THEOREM Safe == Spec => []SafeInv
<1>1. Init => SafeInv
  BY InitInv, SInvInit, LInvInit, RInvInit DEF SafeInv
<1>2. SafeInv /\ [Next]_vars => SafeInv'
  BY StepInv, SInvStep, LInvStep, RInvStep DEF SafeInv
<1> QED
  BY <1>1, <1>2, PTL DEF Spec

\* azs_init and the uploads: once the root directory is in storage and no crash
\* has interrupted a change to it, the container keeps naming it and it stays.
THEOREM RootKeptAlways == Spec => RootKept
<1>1. SafeInv /\ [Next]_vars =>
        [container \notin lost \cup {None} /\ Loadable(container) =>
           container' = container /\ Loadable(container)']_vars
  <2> SUFFICES ASSUME SafeInv, [Next]_vars,
                      container \notin lost \cup {None}, Loadable(container)
               PROVE  container' = container /\ Loadable(container)'
    OBVIOUS
  <2> QED
    BY RootStays DEF SafeInv
<1> QED
  BY <1>1, Safe, PTL DEF Spec, RootKept

-----------------------------------------------------------------------------
(***************************************************************************)
(* Without damage the links are exact and the directories are a tree.  The *)
(* entries that the call is going to add count as there.                   *)
(***************************************************************************)
Adding(d, nm, g) ==
  \E u \in Todo : /\ u.op = "addEntry" /\ u.g = d
                  /\ u.rec.name = nm /\ u.rec.g = g
Removing(d, nm) ==
  \E u \in Todo : u.op = "rmEntry" /\ u.g = d /\ u.rec.name = nm
Making(g, kinds) == \E u \in Todo : u.op \in kinds /\ u.g = g
Entry(d, nm, g) == Listed(d, nm, g) \/ Adding(d, nm, g)
\* unlink, rmdir or rename is going to take g's name away.
Leaving(g) == \E d \in Guids, nm \in Names : Removing(d, nm) /\ Listed(d, nm, g)

Exact == \A g \in Guids : There(g) => Cardinality(Links(g)) = Mem(g).nlink

\* A directory has a name once, and gets only names that it does not have.
Unique ==
  \A d \in Guids, i, j \in Slots :
    Rec(d, i).name \in EntryNames /\ Rec(d, i).name = Rec(d, j).name => i = j
Unlisted ==
  /\ \A d \in Guids, nm \in EntryNames, g, h \in Guids :
       Adding(d, nm, g) => ~Listed(d, nm, h)
  /\ \A u, v \in Todo :
       u.op = "addEntry" /\ v.op = "addEntry" /\ u.g = v.g
         /\ u.rec.name = v.rec.name => u = v

\* A directory names itself, and its parent, in which it has its one name.
Self == \A d, g \in Guids : Entry(d, Dot, g) => g = d
OneName ==
  \A d, e, g \in Guids, nm, to \in Names :
    Entry(d, nm, g) /\ Entry(e, to, g) /\ (~There(g) \/ IsDir(g)) =>
      d = e /\ nm = to
Parents ==
  \A g, p \in Guids : Entry(g, DotDot, p) =>
    (g = Root /\ p = Root) \/ \E nm \in Names : Entry(p, nm, g)
Dots ==
  \A d \in Guids : HereIsDir(d) \/ Making(d, {"dir"}) =>
    Leaving(d) \/ (Entry(d, Dot, d) /\ \E p \in Guids : Entry(d, DotDot, p))

\* rmdir: a directory that loses its name loses all it has before; only such
\* a directory loses the other two, and nothing is added meanwhile.
Emptied ==
  \A d, g \in Guids, nm \in EntryNames :
    Leaving(d) /\ IsDir(d) /\ Entry(d, nm, g) => nm \notin Names /\ Removing(d, nm)
Last ==
  \A d \in Guids, nm \in EntryNames \ Names :
    Removing(d, nm) => Leaving(d) /\ IsDir(d)
Alone ==
  \A d, e, g \in Guids, nm \in EntryNames \ Names, to \in EntryNames :
    ~(Removing(d, nm) /\ Adding(e, to, g))

\* What has no links any more has no entries, and all else has a name.
Bare ==
  \A d, g \in Guids, nm \in EntryNames :
    There(d) /\ ~Mem(d).exist => ~Entry(d, nm, g)
Reached ==
  \A g \in Guids : HereIs(g) \/ Making(g, Create) =>
    g = Root \/ \E d \in Guids, nm \in Names : Entry(d, nm, g)

Branches ==
  /\ Unlisted /\ Self /\ OneName /\ Parents /\ Dots
  /\ Emptied /\ Last /\ Alone /\ Bare /\ Reached
EInv == lost = {} => Exact /\ Unique /\ Branches

-----------------------------------------------------------------------------
\* What a step does to the lists.
LEMMA ListedFacts ==
  ASSUME IInv, NEW d \in Guids, NEW nm \in EntryNames, NEW g, Listed(d, nm, g)
  PROVE  g \in Guids /\ IsDir(d) /\ There(d)
<1>1. PICK i \in Slots : Rec(d, i).name = nm /\ Rec(d, i).g = g
  BY DEF Listed
<1> QED
  BY <1>1, MemFacts DEF IsDir

LEMMA ListedThere ==
  ASSUME IInv, LInv, lost = {}, NEW d \in Guids, NEW nm \in EntryNames, NEW g,
         Listed(d, nm, g)
  PROVE  g \in Guids /\ There(g) /\ Mem(g).exist
<1>1. PICK i \in Slots : Rec(d, i).name = nm /\ Rec(d, i).g = g
  BY DEF Listed
<1>2. g \in Guids /\ g # None
  BY <1>1, MemFacts
<1>3. There(g)
  BY <1>1, <1>2 DEF LInv, Linking, Leading
<1>4. Mem(g).exist
  BY <1>1, <1>2, <1>3, DeadUnlinked DEF LInv
<1> QED
  BY <1>2, <1>3, <1>4

LEMMA SameListed ==
  ASSUME SameRecs, NEW d \in Guids, NEW nm, NEW g
  PROVE  Listed(d, nm, g)' <=> Listed(d, nm, g)
<1>1. \A i \in Slots : Rec(d, i)' = Rec(d, i)
  BY DEF SameRecs
<1> QED
  BY <1>1 DEF Listed

LEMMA UniqueListed ==
  ASSUME IInv, Unique, NEW d \in Guids, NEW nm \in EntryNames, NEW g, NEW h,
         Listed(d, nm, g), Listed(d, nm, h)
  PROVE  g = h
BY DEF Unique, Listed

LEMMA MovedListed ==
  ASSUME Unique, NEW d \in Guids, NEW i \in Slots, NEW j \in Slots, Moved(d, i, j)
  PROVE  /\ Unique'
         /\ \A e \in Guids, nm \in EntryNames : \A g :
              Listed(e, nm, g)' <=> Listed(e, nm, g)
<1>1. /\ i # j /\ Rec(d, i) = JunkRecord /\ Rec(d, i)' = Rec(d, j)
      /\ Rec(d, j)' = JunkRecord
      /\ \A e \in Guids, k \in Slots :
           ~(e = d /\ k = i) /\ ~(e = d /\ k = j) => Rec(e, k)' = Rec(e, k)
      /\ JunkRecord.name \notin EntryNames
  BY NameFacts DEF Moved
<1>2. \A e \in Guids, k \in Slots :
        Rec(e, k)'.name \in EntryNames =>
          \/ e = d /\ k = i /\ Rec(e, k)' = Rec(e, j)
          \/ ~(e = d /\ k = j) /\ Rec(e, k)' = Rec(e, k)
  BY <1>1
<1>3. Unique'
  BY <1>1, <1>2 DEF Unique
<1>4. ASSUME NEW e \in Guids, NEW nm \in EntryNames, NEW g
      PROVE  Listed(e, nm, g)' <=> Listed(e, nm, g)
  <2>1. ASSUME NEW k \in Slots, Rec(e, k).name = nm, Rec(e, k).g = g
        PROVE  \E l \in Slots : Rec(e, l)'.name = nm /\ Rec(e, l)'.g = g
    <3>1. CASE e = d /\ k = j
      BY <1>1, <2>1, <3>1
    <3>2. CASE ~(e = d /\ k = j)
      BY <1>1, <2>1, <3>2
    <3> QED
      BY <3>1, <3>2
  <2>2. ASSUME NEW k \in Slots, Rec(e, k)'.name = nm, Rec(e, k)'.g = g
        PROVE  \E l \in Slots : Rec(e, l).name = nm /\ Rec(e, l).g = g
    BY <1>2, <2>2
  <2> QED
    BY <2>1, <2>2 DEF Listed
<1> QED
  BY <1>3, <1>4

LEMMA LinkedListed ==
  ASSUME NEW d \in Guids, NEW i \in Slots, NEW r, Linked(d, i, r),
         NEW e \in Guids, NEW nm \in EntryNames, NEW g
  PROVE  Listed(e, nm, g)' <=>
           Listed(e, nm, g) \/ (e = d /\ nm = r.name /\ g = r.g)
<1>1. /\ Rec(d, i) = JunkRecord /\ Rec(d, i)' = r
      /\ \A k \in Slots : ~(e = d /\ k = i) => Rec(e, k)' = Rec(e, k)
      /\ JunkRecord.name \notin EntryNames
  BY NameFacts DEF Linked, OtherRecs
<1>2. Listed(e, nm, g) => Listed(e, nm, g)'
  BY <1>1 DEF Listed
<1>3. e = d /\ nm = r.name /\ g = r.g => Listed(e, nm, g)'
  BY <1>1 DEF Listed
<1>4. Listed(e, nm, g)' => Listed(e, nm, g) \/ (e = d /\ nm = r.name /\ g = r.g)
  BY <1>1 DEF Listed
<1> QED
  BY <1>2, <1>3, <1>4

LEMMA UnlinkedListed ==
  ASSUME Unique, NEW d \in Guids, NEW i \in Slots, NEW f, Unlinked(d, i, f),
         Rec(d, i).name \in EntryNames,
         NEW e \in Guids, NEW nm \in EntryNames, NEW g
  PROVE  Listed(e, nm, g)' <=>
           Listed(e, nm, g) /\ ~(e = d /\ nm = Rec(d, i).name)
<1>1. /\ Rec(d, i)' = JunkRecord
      /\ \A k \in Slots : ~(e = d /\ k = i) => Rec(e, k)' = Rec(e, k)
      /\ JunkRecord.name \notin EntryNames
  BY NameFacts DEF Unlinked, OtherRecs
<1>2. \A k \in Slots : e = d /\ Rec(e, k).name = Rec(d, i).name => k = i
  BY DEF Unique
<1>3. Listed(e, nm, g) /\ ~(e = d /\ nm = Rec(d, i).name) => Listed(e, nm, g)'
  BY <1>1 DEF Listed
<1>4. Listed(e, nm, g)' => Listed(e, nm, g) /\ ~(e = d /\ nm = Rec(d, i).name)
  BY <1>1, <1>2 DEF Listed
<1> QED
  BY <1>3, <1>4

\* How many links a file has, by the names it has.
LEMMA OneLink ==
  ASSUME IInv, LInv, lost = {}, Unique, NEW d \in Guids, NEW nm \in EntryNames,
         NEW g \in Guids, Listed(d, nm, g)
  PROVE  /\ Cardinality(Links(g)) \in Nat \ {0}
         /\ Cardinality(Links(g)) = 1 <=>
              \A e \in Guids, to \in EntryNames :
                Listed(e, to, g) => e = d /\ to = nm
<1>1. PICK i \in Slots : Rec(d, i).name = nm /\ Rec(d, i).g = g
  BY DEF Listed
<1>2. /\ <<d, i>> \in Links(g)
      /\ \A e, k : <<e, k>> \in Links(g) <=>
           e \in Guids /\ k \in Slots /\ Rec(e, k).g = g
      /\ \A x \in Links(g) : \E e \in Guids, k \in Slots : x = <<e, k>>
  BY <1>1, LinkFacts
<1>3. IsFiniteSet(Links(g))
  BY DEF LInv, Linking, Finite
<1>4. Cardinality(Links(g)) \in Nat \ {0}
  BY <1>2, <1>3, FS_CardinalityType, FS_EmptySet
<1>5. g # None
  BY TypeFacts
<1>6. ASSUME Cardinality(Links(g)) = 1, NEW e \in Guids, NEW to \in EntryNames,
             Listed(e, to, g)
      PROVE  e = d /\ to = nm
  <2>1. PICK k \in Slots : Rec(e, k).name = to /\ Rec(e, k).g = g
    BY <1>6 DEF Listed
  <2>2. <<e, k>> \in Links(g)
    BY <1>2, <2>1
  <2>3. \E x : Links(g) = {x}
    BY <1>3, <1>6, FS_Singleton
  <2>4. <<e, k>> = <<d, i>>
    BY <1>2, <2>2, <2>3
  <2> QED
    BY <1>1, <2>1, <2>4
<1>7. ASSUME \A e \in Guids, to \in EntryNames :
               Listed(e, to, g) => e = d /\ to = nm
      PROVE  Cardinality(Links(g)) = 1
  <2>1. ASSUME NEW x \in Links(g) PROVE x = <<d, i>>
    <3>1. PICK e \in Guids, k \in Slots : x = <<e, k>>
      BY <1>2
    <3>2. Rec(e, k).g = g /\ Rec(e, k).name \in EntryNames
      BY <1>2, <1>5, <2>1, <3>1, MemFacts
    <3>3. Listed(e, Rec(e, k).name, g)
      BY <3>2 DEF Listed
    <3>4. e = d /\ Rec(e, k).name = nm
      BY <1>7, <3>2, <3>3
    <3>5. k = i
      BY <1>1, <3>4 DEF Unique
    <3> QED
      BY <3>1, <3>4, <3>5
  <2>2. Links(g) = {<<d, i>>}
    BY <1>2, <2>1
  <2> QED
    BY <2>2, FS_Singleton
<1> QED
  BY <1>4, <1>6, <1>7

-----------------------------------------------------------------------------
\* What a step does to the call.
LEMMA NonePending ==
  ASSUME Todo = {}
  PROVE  /\ \A d, nm, g : ~Adding(d, nm, g) /\ (Entry(d, nm, g) <=> Listed(d, nm, g))
         /\ \A d, nm : ~Removing(d, nm)
         /\ \A g : ~Leaving(g)
         /\ \A g, kinds : ~Making(g, kinds)
BY DEF Adding, Entry, Removing, Leaving, Making

LEMMA NonePendingNext ==
  ASSUME Todo' = {}
  PROVE  /\ \A d, nm, g : ~Adding(d, nm, g)' /\ (Entry(d, nm, g)' <=> Listed(d, nm, g)')
         /\ \A d, nm : ~Removing(d, nm)'
         /\ \A g : ~Leaving(g)'
         /\ \A g, kinds : ~Making(g, kinds)'
<1>1. \A d, nm, g : ~Adding(d, nm, g)'
  BY DEF Adding
<1>2. \A d, nm : ~Removing(d, nm)'
  BY DEF Removing
<1>3. \A g : ~Leaving(g)'
  BY <1>2 DEF Leaving
<1>4. \A g, kinds : ~Making(g, kinds)'
  BY DEF Making
<1> QED
  BY <1>1, <1>2, <1>3, <1>4 DEF Entry

LEMMA SamePending ==
  ASSUME Todo' = Todo
  PROVE  /\ \A d, nm, g : Adding(d, nm, g)' <=> Adding(d, nm, g)
         /\ \A d, nm : Removing(d, nm)' <=> Removing(d, nm)
         /\ \A g, kinds : Making(g, kinds)' <=> Making(g, kinds)
<1>1. \A d, nm, g : Adding(d, nm, g)' <=> Adding(d, nm, g)
  BY DEF Adding
<1>2. \A d, nm : Removing(d, nm)' <=> Removing(d, nm)
  BY DEF Removing
<1>3. \A g, kinds : Making(g, kinds)' <=> Making(g, kinds)
  BY DEF Making
<1> QED
  BY <1>1, <1>2, <1>3

LEMMA LeftPending ==
  ASSUME IInv, NEW u, Left(u)
  PROVE  /\ \A d, nm, g : /\ Adding(d, nm, g)' => Adding(d, nm, g)
                          /\ Adding(d, nm, g) =>
                               \/ Adding(d, nm, g)'
                               \/ /\ u.op = "addEntry" /\ d = u.g
                                  /\ nm = u.rec.name /\ g = u.rec.g
         /\ \A d, nm : /\ Removing(d, nm)' => Removing(d, nm)
                       /\ Removing(d, nm) =>
                            \/ Removing(d, nm)'
                            \/ u.op = "rmEntry" /\ d = u.g /\ nm = u.rec.name
         /\ \A g : ~Making(g, Create)' /\ ~Making(g, {"dir"})'
<1>1. Todo' \subseteq Todo /\ (\A v \in Todo : v = u \/ v \in Todo')
  BY LeftFacts
<1>2. \A v \in Todo' : v.op \notin Create
  BY DEF Left
<1>3. \A d, nm, g : Adding(d, nm, g)' => Adding(d, nm, g)
  BY <1>1 DEF Adding
<1>4. \A d, nm, g : Adding(d, nm, g) =>
        \/ Adding(d, nm, g)'
        \/ u.op = "addEntry" /\ d = u.g /\ nm = u.rec.name /\ g = u.rec.g
  BY <1>1 DEF Adding
<1>5. \A d, nm : Removing(d, nm)' => Removing(d, nm)
  BY <1>1 DEF Removing
<1>6. \A d, nm : Removing(d, nm) =>
        Removing(d, nm)' \/ (u.op = "rmEntry" /\ d = u.g /\ nm = u.rec.name)
  BY <1>1 DEF Removing
<1>7. \A g : ~Making(g, Create)' /\ ~Making(g, {"dir"})'
  BY <1>2 DEF Making, Create
<1> QED
  BY <1>3, <1>4, <1>5, <1>6, <1>7

\* A step that keeps the entries, but for what is listed already.
LEMMA BranchesKept ==
  ASSUME Branches, Unlisted', Root' = Root,
         \A d, g \in Guids, nm \in EntryNames :
           (Entry(d, nm, g)' <=> Entry(d, nm, g)) /\ (Adding(d, nm, g)' => Adding(d, nm, g)),
         \A d \in Guids, nm \in EntryNames : Removing(d, nm)' <=> Removing(d, nm),
         \A d \in Guids : Leaving(d)' <=> Leaving(d),
         \A d, g \in Guids, nm \in EntryNames :
           Entry(d, nm, g) /\ (~There(g)' \/ IsDir(g)') => ~There(g) \/ IsDir(g),
         \A d \in Guids : Leaving(d) => (IsDir(d)' <=> IsDir(d)),
         \A d \in Guids : There(d)' /\ ~Mem(d)'.exist => There(d) /\ ~Mem(d).exist,
         \A d \in Guids : HereIsDir(d)' \/ Making(d, {"dir"})' =>
                            HereIsDir(d) \/ Making(d, {"dir"}),
         \A g \in Guids : HereIs(g)' \/ Making(g, Create)' =>
                            HereIs(g) \/ Making(g, Create)
  PROVE  Branches'
<1>0. /\ Dot \in EntryNames /\ DotDot \in EntryNames /\ Names \subseteq EntryNames
      /\ EntryNames \ Names \subseteq EntryNames
  BY NameFacts
<1>1. Self'
  BY <1>0 DEF Branches, Self
<1>2. OneName'
  <2> SUFFICES ASSUME NEW d \in Guids, NEW e \in Guids, NEW g \in Guids,
                      NEW nm \in Names, NEW to \in Names,
                      Entry(d, nm, g)', Entry(e, to, g)', ~There(g)' \/ IsDir(g)'
               PROVE  d = e /\ nm = to
    BY DEF OneName
  <2>1. Entry(d, nm, g) /\ Entry(e, to, g)
    BY <1>0
  <2>2. ~There(g) \/ IsDir(g)
    BY <1>0, <2>1
  <2> QED
    BY <2>1, <2>2 DEF Branches, OneName
<1>3. Parents'
  <2> SUFFICES ASSUME NEW g \in Guids, NEW p \in Guids, Entry(g, DotDot, p)'
               PROVE  (g = Root /\ p = Root) \/ \E nm \in Names : Entry(p, nm, g)'
    BY DEF Parents
  <2>1. Entry(g, DotDot, p)
    BY <1>0
  <2>2. (g = Root /\ p = Root) \/ \E nm \in Names : Entry(p, nm, g)
    BY <2>1 DEF Branches, Parents
  <2> QED
    BY <1>0, <2>2
<1>4. Dots'
  <2> SUFFICES ASSUME NEW d \in Guids, HereIsDir(d)' \/ Making(d, {"dir"})'
               PROVE  \/ Leaving(d)'
                      \/ Entry(d, Dot, d)' /\ \E p \in Guids : Entry(d, DotDot, p)'
    BY DEF Dots
  <2>1. Leaving(d) \/ (Entry(d, Dot, d) /\ \E p \in Guids : Entry(d, DotDot, p))
    BY DEF Branches, Dots
  <2> QED
    BY <1>0, <2>1
<1>5. Emptied'
  <2> SUFFICES ASSUME NEW d \in Guids, NEW g \in Guids, NEW nm \in EntryNames,
                      Leaving(d)', IsDir(d)', Entry(d, nm, g)'
               PROVE  nm \notin Names /\ Removing(d, nm)'
    BY DEF Emptied
  <2>1. Leaving(d) /\ IsDir(d) /\ Entry(d, nm, g)
    OBVIOUS
  <2>2. nm \notin Names /\ Removing(d, nm)
    BY <2>1 DEF Branches, Emptied
  <2> QED
    BY <2>2
<1>6. Last'
  <2> SUFFICES ASSUME NEW d \in Guids, NEW nm \in EntryNames \ Names, Removing(d, nm)'
               PROVE  Leaving(d)' /\ IsDir(d)'
    BY DEF Last
  <2>1. Leaving(d) /\ IsDir(d)
    BY DEF Branches, Last
  <2> QED
    BY <2>1
<1>7. Alone'
  BY DEF Branches, Alone
<1>8. Bare'
  BY DEF Branches, Bare
<1>9. Reached'
  <2> SUFFICES ASSUME NEW g \in Guids, HereIs(g)' \/ Making(g, Create)'
               PROVE  g = Root \/ \E d \in Guids, nm \in Names : Entry(d, nm, g)'
    BY DEF Reached
  <2>1. g = Root \/ \E d \in Guids, nm \in Names : Entry(d, nm, g)
    BY DEF Branches, Reached
  <2> QED
    BY <1>0, <2>1
<1> QED
  BY <1>1, <1>2, <1>3, <1>4, <1>5, <1>6, <1>7, <1>8, <1>9 DEF Branches

\* The same links, names and files.
LEMMA QuietBranches ==
  ASSUME Branches, Root' = Root,
         \A g \in Guids : Same(g),
         \A d, g \in Guids, nm \in EntryNames :
           /\ Listed(d, nm, g)' <=> Listed(d, nm, g)
           /\ Adding(d, nm, g)' <=> Adding(d, nm, g),
         Todo' \subseteq Todo,
         \A d \in Guids, nm \in EntryNames : Removing(d, nm)' <=> Removing(d, nm),
         \A g \in Guids : /\ Making(g, Create)' => Making(g, Create)
                          /\ Making(g, {"dir"})' => Making(g, {"dir"})
  PROVE  Branches'
<1>1. Names \subseteq EntryNames
  BY NameFacts
<1>2. \A g \in Guids : /\ There(g)' <=> There(g)
                       /\ IsDir(g)' <=> IsDir(g)
                       /\ There(g) => Mem(g)'.exist = Mem(g).exist
  BY DEF Same, IsDir
<1>3. \A g \in Guids : /\ HereIs(g)' <=> HereIs(g)
                       /\ HereIsDir(g)' <=> HereIsDir(g)
  BY <1>2 DEF HereIs, HereIsDir
<1>4. \A d, g \in Guids, nm \in EntryNames : Entry(d, nm, g)' <=> Entry(d, nm, g)
  BY DEF Entry
<1>5. \A d \in Guids : Leaving(d)' <=> Leaving(d)
  BY <1>1 DEF Leaving
<1>6. Unlisted'
  BY DEF Branches, Unlisted
<1> QED
  BY <1>2, <1>3, <1>4, <1>5, <1>6, BranchesKept

-----------------------------------------------------------------------------
LEMMA AddsBranches ==
  ASSUME IInv, LInv, lost = {}, Unique, Branches,
         NEW u, NEW i \in Slots, u.g \in Guids, Adds(u, i), Root' = Root
  PROVE  Unique' /\ Branches'
<1>1. PICK d, r, nm, g : d = u.g /\ r = u.rec /\ nm = r.name /\ g = r.g
  OBVIOUS
<1>2. /\ u \in Todo /\ Todo' \subseteq Todo /\ u \notin Todo' /\ u.op = "addEntry"
      /\ Linked(d, i, r) /\ d \in Guids /\ Left(u)
  BY <1>1, LeftFacts DEF Adds
<1>3. r \in Entries /\ nm \in EntryNames /\ g \in Guids
  BY <1>1, <1>2, MemFacts DEF Linked
<1>4. /\ \A h \in Guids : /\ There(h)' <=> There(h)
                          /\ IsDir(h)' <=> IsDir(h)
                          /\ HereIs(h)' <=> HereIs(h)
                          /\ HereIsDir(h)' <=> HereIsDir(h)
                          /\ There(h)' /\ ~Mem(h)'.exist => There(h) /\ ~Mem(h).exist
  <2>1. ASSUME NEW h \in Guids
        PROVE  /\ There(h)' <=> There(h)
               /\ There(h) => /\ Mem(h)'.kind = Mem(h).kind
                              /\ Mem(h)'.exist <=> Mem(h).exist
    BY <1>1, <1>2 DEF Linked, Same
  <2> QED
    BY <2>1 DEF IsDir, HereIs, HereIsDir
<1>5. \A e \in Guids, to \in EntryNames : \A h :
        Listed(e, to, h)' <=> Listed(e, to, h) \/ (e = d /\ to = nm /\ h = g)
  BY <1>1, <1>2, LinkedListed
<1>6. /\ \A e, to, h : /\ Adding(e, to, h)' => Adding(e, to, h)
                       /\ Adding(e, to, h) => \/ Adding(e, to, h)'
                                              \/ e = d /\ to = nm /\ h = g
      /\ \A e, to : Removing(e, to)' <=> Removing(e, to)
      /\ \A h : ~Making(h, Create)' /\ ~Making(h, {"dir"})'
  BY <1>1, <1>2, LeftPending
<1>7. Adding(d, nm, g)
  BY <1>1, <1>2 DEF Adding
<1>8. \A e, h \in Guids, to \in EntryNames : Entry(e, to, h)' <=> Entry(e, to, h)
  BY <1>5, <1>6, <1>7 DEF Entry
<1>9. ~Removing(d, nm)
  BY <1>1, <1>2 DEF LInv, Apart, Removing
<1>10. \A x \in Guids : Leaving(x)' <=> Leaving(x)
  <2>1. Names \subseteq EntryNames
    BY NameFacts
  <2> QED
    BY <1>5, <1>6, <1>9, <2>1 DEF Leaving
<1>11. \A h \in Guids : ~Listed(d, nm, h) /\ ~Adding(d, nm, h)'
  <2>1. \A h \in Guids : ~Listed(d, nm, h)
    BY <1>2, <1>3, <1>7 DEF Branches, Unlisted
  <2>2. ASSUME NEW h \in Guids, Adding(d, nm, h)' PROVE FALSE
    <3>1. PICK v \in Todo' : v.op = "addEntry" /\ v.g = d /\ v.rec.name = nm
      BY <2>2 DEF Adding
    <3> QED
      BY <1>1, <1>2, <3>1 DEF Branches, Unlisted
  <2> QED
    BY <2>1, <2>2
<1>12. Unlisted'
  <2>1. \A e, h, k \in Guids, to \in EntryNames :
          Adding(e, to, h)' => ~Listed(e, to, k)'
    BY <1>5, <1>6, <1>11 DEF Branches, Unlisted
  <2> QED
    BY <1>2, <2>1 DEF Branches, Unlisted
<1>13. Unique'
  <2>1. /\ Rec(d, i)' = r
        /\ \A e \in Guids, k \in Slots : ~(e = d /\ k = i) => Rec(e, k)' = Rec(e, k)
    BY <1>2 DEF Linked, OtherRecs
  <2>2. \A k \in Slots : Rec(d, k).name # nm
    BY <1>2, <1>3, <1>11, MemFacts DEF Listed
  <2> QED
    BY <1>1, <2>1, <2>2 DEF Unique
<1>14. Branches'
  BY <1>4, <1>6, <1>8, <1>10, <1>12, BranchesKept
<1> QED
  BY <1>13, <1>14

LEMMA CreatesBranches ==
  ASSUME IInv, LInv, lost = {}, Branches, NEW u, Creates(u), Root' = Root
  PROVE  Branches'
<1>1. PICK g, k : g = u.g /\ k = u.op
  OBVIOUS
<1>2. /\ u \in Todo /\ Todo' \subseteq Todo /\ k \in Create /\ k # "addEntry"
      /\ k # "rmEntry" /\ Made(g, k) /\ g \in Guids /\ Left(u)
  BY <1>1, LeftFacts DEF Creates, Create
<1>3. /\ \A e \in Guids : \A to, h : Listed(e, to, h)' <=> Listed(e, to, h)
      /\ \A e, to, h : Adding(e, to, h)' <=> Adding(e, to, h)
      /\ \A e, to : Removing(e, to)' <=> Removing(e, to)
      /\ \A h : ~Making(h, Create)' /\ ~Making(h, {"dir"})'
  BY <1>1, <1>2, LeftPending, SameListed DEF Made
<1>4. Making(g, Create) /\ (k = "dir" => Making(g, {"dir"}))
  BY <1>1, <1>2 DEF Making
<1>5. /\ ~There(g) /\ There(g)' /\ Mem(g)'.exist /\ (IsDir(g)' => k = "dir")
      /\ \A h \in Guids \ {g} :
           /\ There(h)' <=> There(h)
           /\ There(h) => /\ Mem(h)'.kind = Mem(h).kind
                          /\ Mem(h)'.exist = Mem(h).exist
  BY <1>2 DEF Made, Same, IsDir
<1>6. \A h \in Guids \ {g} : /\ IsDir(h)' <=> IsDir(h)
                             /\ HereIs(h)' <=> HereIs(h)
                             /\ HereIsDir(h)' <=> HereIsDir(h)
  BY <1>5 DEF IsDir, HereIs, HereIsDir
<1>7. \A e, h \in Guids, to \in EntryNames : Entry(e, to, h)' <=> Entry(e, to, h)
  BY <1>3 DEF Entry
<1>8. \A x \in Guids : Leaving(x)' <=> Leaving(x)
  BY <1>3 DEF Leaving
<1>9. ~Leaving(g)
  <2>1. Names \subseteq EntryNames
    BY NameFacts
  <2> QED
    BY <1>5, <2>1, ListedThere DEF Leaving
<1>10. Unlisted'
  BY <1>2, <1>3 DEF Branches, Unlisted
<1>11. \A x \in Guids : HereIsDir(x)' => HereIsDir(x) \/ Making(x, {"dir"})
  BY <1>4, <1>5, <1>6 DEF HereIsDir
<1>12. \A x \in Guids : HereIs(x)' => HereIs(x) \/ Making(x, Create)
  BY <1>4, <1>6
<1>13. \A x \in Guids : Leaving(x) => (IsDir(x)' <=> IsDir(x))
  BY <1>6, <1>9
<1>14. \A e, h \in Guids, to \in EntryNames :
         Entry(e, to, h) /\ (~There(h)' \/ IsDir(h)') => ~There(h) \/ IsDir(h)
  BY <1>5, <1>6
<1>15. \A x \in Guids : There(x)' /\ ~Mem(x)'.exist => There(x) /\ ~Mem(x).exist
  BY <1>5
<1> QED
  BY <1>3, <1>7, <1>8, <1>10, <1>11, <1>12, <1>13, <1>14, <1>15, BranchesKept

-----------------------------------------------------------------------------
\* The directory that rmdir removes has nothing in it any more.
LEMMA NakedLast ==
  ASSUME IInv, Branches, NEW u, Left(u), u.op = "rmEntry", Todo' = {},
         u.rec.name \in Names, u.g \in Guids,
         NEW g \in Guids, Listed(u.g, u.rec.name, g)
  PROVE  \A to \in EntryNames, h \in Guids : ~Listed(g, to, h)
<1> SUFFICES ASSUME NEW to \in EntryNames, NEW h \in Guids, Listed(g, to, h)
             PROVE  FALSE
  OBVIOUS
<1>1. IsDir(g)
  BY ListedFacts
<1>2. Removing(u.g, u.rec.name)
  BY LeftFacts DEF Removing
<1>3. Leaving(g)
  BY <1>2 DEF Leaving
<1>4. to \notin Names /\ Removing(g, to)
  BY <1>1, <1>3 DEF Branches, Emptied, Entry
<1>5. to = u.rec.name
  BY <1>4, LeftPending, NonePendingNext
<1> QED
  BY <1>4, <1>5

\* The end of a name that is not the call's last.
LEMMA EarlyBranches ==
  ASSUME IInv, Branches, NEW u, Left(u), u.op = "rmEntry", Root' = Root,
         NEW d \in Guids, d = u.g,
         NEW nm \in EntryNames, nm = u.rec.name, nm \notin Names,
         \A e, h \in Guids, to \in EntryNames :
           Listed(e, to, h)' <=> Listed(e, to, h) /\ ~(e = d /\ to = nm),
         \A h \in Guids : /\ There(h)' <=> There(h)
                          /\ IsDir(h)' <=> IsDir(h)
                          /\ HereIs(h)' <=> HereIs(h)
  PROVE  Branches'
<1>0. /\ Dot \in EntryNames /\ DotDot \in EntryNames /\ Names \subseteq EntryNames
      /\ EntryNames \ Names \subseteq EntryNames /\ nm \in EntryNames \ Names
  BY NameFacts
<1>1. /\ \A e, to, h : Adding(e, to, h)' <=> Adding(e, to, h)
      /\ \A e, to : /\ Removing(e, to)' => Removing(e, to)
                    /\ Removing(e, to) => Removing(e, to)' \/ (e = d /\ to = nm)
      /\ \A h : ~Making(h, Create)' /\ ~Making(h, {"dir"})'
  BY LeftPending
<1>2. Removing(d, nm)
  BY LeftFacts DEF Removing
<1>3. \A e, h \in Guids, to \in EntryNames : ~Adding(e, to, h) /\ ~Adding(e, to, h)'
  BY <1>0, <1>1, <1>2 DEF Branches, Alone
<1>4. \A e, h \in Guids, to \in EntryNames :
        /\ Entry(e, to, h) <=> Listed(e, to, h)
        /\ Entry(e, to, h)' <=> Listed(e, to, h)'
  BY <1>3 DEF Entry
<1>5. \A x \in Guids : Leaving(x)' <=> Leaving(x)
  BY <1>0, <1>1 DEF Leaving
<1>6. Leaving(d) /\ IsDir(d)
  BY <1>0, <1>2 DEF Branches, Last
<1>7. Unlisted'
  <2>1. Todo' \subseteq Todo
    BY LeftFacts
  <2> QED
    BY <1>3, <2>1 DEF Branches, Unlisted
<1>8. Self'
  BY <1>0, <1>4 DEF Branches, Self
<1>9. OneName'
  BY <1>0, <1>4 DEF Branches, OneName
<1>10. Parents'
  <2> SUFFICES ASSUME NEW g \in Guids, NEW p \in Guids, Listed(g, DotDot, p)'
               PROVE  (g = Root /\ p = Root) \/ \E to \in Names : Listed(p, to, g)'
    BY <1>0, <1>4 DEF Parents
  <2>1. Entry(g, DotDot, p)
    BY <1>0, <1>4
  <2>2. (g = Root /\ p = Root) \/ \E to \in Names : Entry(p, to, g)
    BY <2>1 DEF Branches, Parents
  <2> QED
    BY <1>0, <1>4, <2>2
<1>11. Dots'
  <2> SUFFICES ASSUME NEW x \in Guids, HereIsDir(x)', ~Leaving(x)'
               PROVE  Entry(x, Dot, x)' /\ \E p \in Guids : Entry(x, DotDot, p)'
    BY <1>1 DEF Dots
  <2>1. HereIsDir(x) /\ ~Leaving(x)
    BY <1>5 DEF HereIsDir
  <2>2. Entry(x, Dot, x) /\ \E p \in Guids : Entry(x, DotDot, p)
    BY <2>1 DEF Branches, Dots
  <2>3. x # d
    BY <1>6, <2>1
  <2> QED
    BY <1>0, <1>4, <2>2, <2>3
<1>12. Emptied'
  <2> SUFFICES ASSUME NEW x \in Guids, NEW g \in Guids, NEW to \in EntryNames,
                      Leaving(x)', IsDir(x)', Listed(x, to, g)'
               PROVE  to \notin Names /\ Removing(x, to)'
    BY <1>4 DEF Emptied
  <2>1. Leaving(x) /\ IsDir(x) /\ Entry(x, to, g) /\ ~(x = d /\ to = nm)
    BY <1>4, <1>5
  <2>2. to \notin Names /\ Removing(x, to)
    BY <2>1 DEF Branches, Emptied
  <2> QED
    BY <1>1, <2>1, <2>2
<1>13. Last'
  BY <1>1, <1>5 DEF Branches, Last
<1>14. Alone'
  BY <1>0, <1>3 DEF Alone
<1>15. Bare'
  <2>1. \A x \in Guids : There(x)' /\ ~Mem(x)'.exist => There(x) /\ ~Mem(x).exist
    BY DEF HereIs
  <2> QED
    BY <1>4, <2>1 DEF Branches, Bare
<1>16. Reached'
  <2> SUFFICES ASSUME NEW g \in Guids, HereIs(g)'
               PROVE  g = Root \/ \E e \in Guids, to \in Names : Listed(e, to, g)'
    BY <1>0, <1>1, <1>4 DEF Reached
  <2>1. g = Root \/ \E e \in Guids, to \in Names : Entry(e, to, g)
    BY DEF Branches, Reached
  <2> QED
    BY <1>0, <1>4, <2>1
<1> QED
  BY <1>7, <1>8, <1>9, <1>10, <1>11, <1>12, <1>13, <1>14, <1>15, <1>16 DEF Branches

\* The end of the name that is the call's last.
LEMMA LastBranches ==
  ASSUME IInv, Unique, Branches, NEW u, Left(u), u.op = "rmEntry", Root' = Root,
         NEW d \in Guids, d = u.g, NEW nm \in Names, nm = u.rec.name,
         \A e, h \in Guids, to \in EntryNames :
           Listed(e, to, h)' <=> Listed(e, to, h) /\ ~(e = d /\ to = nm),
         \A h \in Guids : /\ There(h)' <=> There(h)
                          /\ IsDir(h)' <=> IsDir(h)
                          /\ HereIs(h)' => HereIs(h)
                          /\ HereIs(h) /\ ~HereIs(h)' => Listed(d, nm, h)
                          /\ Listed(d, nm, h) /\ IsDir(h) => ~HereIs(h)',
         \A h \in Guids : Listed(d, nm, h) /\ HereIs(h)' =>
           \E e \in Guids, to \in Names : Listed(e, to, h) /\ ~(e = d /\ to = nm)
  PROVE  Branches'
<1>0. /\ Dot \in EntryNames /\ DotDot \in EntryNames /\ Names \subseteq EntryNames
      /\ EntryNames \ Names \subseteq EntryNames
      /\ nm # Dot /\ nm # DotDot /\ nm \in EntryNames
  BY NameFacts
<1>1. Todo' = {}
  BY DEF Left, Final
<1>2. /\ \A e, to, h : ~Adding(e, to, h)
      /\ \A e, to : Removing(e, to) => e = d /\ to = nm
  BY <1>1, LeftPending, NonePendingNext
<1>3. /\ \A e, to, h : ~Adding(e, to, h)'
      /\ \A e, to : ~Removing(e, to)'
      /\ \A x : ~Leaving(x)'
      /\ \A x, kinds : ~Making(x, kinds)'
  BY <1>1, NonePendingNext
<1>4. \A e, h \in Guids, to \in EntryNames :
        /\ Entry(e, to, h) <=> Listed(e, to, h)
        /\ Entry(e, to, h)' <=> Listed(e, to, h)'
  BY <1>2, <1>3 DEF Entry
<1>5. \A g, h \in Guids, to \in EntryNames : Listed(d, nm, g) => ~Listed(g, to, h)
  BY <1>1, NakedLast
<1>6. \A x \in Guids : Leaving(x) => Listed(d, nm, x)
  BY <1>2 DEF Leaving
<1>7. Unlisted'
  BY <1>1, <1>3 DEF Unlisted
<1>8. Self'
  BY <1>0, <1>4 DEF Branches, Self
<1>9. OneName'
  BY <1>0, <1>4 DEF Branches, OneName
<1>10. Parents'
  <2> SUFFICES ASSUME NEW g \in Guids, NEW p \in Guids, Listed(g, DotDot, p)'
               PROVE  (g = Root /\ p = Root) \/ \E to \in Names : Listed(p, to, g)'
    BY <1>0, <1>4 DEF Parents
  <2>1. Listed(g, DotDot, p)
    BY <1>0
  <2>2. (g = Root /\ p = Root) \/ \E to \in Names : Listed(p, to, g)
    BY <1>0, <1>4, <2>1 DEF Branches, Parents
  <2>3. ~Listed(d, nm, g)
    BY <1>0, <1>5, <2>1
  <2> QED
    BY <1>0, <2>2, <2>3
<1>11. Dots'
  <2> SUFFICES ASSUME NEW x \in Guids, HereIsDir(x)'
               PROVE  Entry(x, Dot, x)' /\ \E p \in Guids : Entry(x, DotDot, p)'
    BY <1>3 DEF Dots
  <2>1. HereIs(x)' /\ IsDir(x) /\ HereIsDir(x)
    BY DEF HereIsDir
  <2>2. ~Leaving(x)
    BY <1>6, <2>1
  <2>3. Entry(x, Dot, x) /\ \E p \in Guids : Entry(x, DotDot, p)
    BY <2>1, <2>2 DEF Branches, Dots
  <2> QED
    BY <1>0, <1>4, <2>3
<1>12. Emptied' /\ Last' /\ Alone'
  BY <1>3 DEF Emptied, Last, Alone
<1>13. Bare'
  <2> SUFFICES ASSUME NEW x \in Guids, NEW g \in Guids, NEW to \in EntryNames,
                      There(x)', ~Mem(x)'.exist, Listed(x, to, g)
               PROVE  FALSE
    BY <1>4 DEF Bare
  <2>1. There(x) /\ ~HereIs(x)'
    BY DEF HereIs
  <2>2. CASE HereIs(x)
    BY <1>5, <2>1, <2>2
  <2>3. CASE ~HereIs(x)
    BY <1>4, <2>1, <2>3 DEF HereIs, Branches, Bare
  <2> QED
    BY <2>2, <2>3
<1>14. Reached'
  <2> SUFFICES ASSUME NEW g \in Guids, HereIs(g)', g # Root
               PROVE  \E e \in Guids, to \in Names : Listed(e, to, g)'
    BY <1>0, <1>3, <1>4 DEF Reached
  <2>1. CASE Listed(d, nm, g)
    <3>1. PICK e \in Guids, to \in Names : Listed(e, to, g) /\ ~(e = d /\ to = nm)
      BY <2>1
    <3> QED
      BY <1>0, <3>1
  <2>2. CASE ~Listed(d, nm, g)
    <3>1. PICK e \in Guids, to \in Names : Entry(e, to, g)
      BY DEF Branches, Reached
    <3>2. Listed(e, to, g)
      BY <1>0, <1>4, <3>1
    <3>3. Listed(e, to, g)'
      BY <1>0, <2>2, <3>2
    <3> QED
      BY <3>3
  <2> QED
    BY <2>1, <2>2
<1> QED
  BY <1>7, <1>8, <1>9, <1>10, <1>11, <1>12, <1>13, <1>14 DEF Branches

-----------------------------------------------------------------------------
\* A file that loses a name goes on if it has another.
LEMMA Survival ==
  ASSUME IInv, LInv, lost = {}, Exact, Unique,
         NEW d \in Guids, NEW i \in Slots, NEW nm \in EntryNames, NEW g \in Guids,
         Unlinked(d, i, g), Rec(d, i).name = nm
  PROVE  /\ Listed(d, nm, g)
         /\ HereIs(g)' <=> \E e \in Guids, to \in EntryNames :
                             Listed(e, to, g) /\ ~(e = d /\ to = nm)
<1>1. /\ There(g) /\ There(g)' /\ Rec(d, i).g = g
      /\ Mem(g)'.exist <=> Mem(g).nlink > 1
  BY DEF Unlinked
<1>2. Listed(d, nm, g)
  BY <1>1 DEF Listed
<1>3. PICK n \in Nat \ {0} :
        /\ n = Cardinality(Links(g))
        /\ n = 1 <=> \A e \in Guids, to \in EntryNames :
                       Listed(e, to, g) => e = d /\ to = nm
  BY <1>2, OneLink
<1>4. Mem(g).nlink = n
  BY <1>1, <1>3 DEF Exact
<1>5. Mem(g)'.exist <=> n # 1
  BY <1>1, <1>4
<1> QED
  BY <1>1, <1>2, <1>3, <1>5 DEF HereIs

LEMMA RemovesBranches ==
  ASSUME IInv, LInv, RInv, lost = {}, Exact, Unique, Branches,
         NEW u, NEW i \in Slots, NEW g \in Guids, u.g \in Guids, Removes(u, i, g),
         Root' = Root
  PROVE  Unique' /\ Branches'
<1>1. PICK d, nm : d = u.g /\ nm = u.rec.name
  OBVIOUS
<1>2. /\ u \in Todo /\ u.op = "rmEntry" /\ Left(u) /\ Unlinked(d, i, g)
      /\ Rec(d, i).name = nm /\ d \in Guids
  BY <1>1, LeftFacts DEF Removes
<1>3. nm \in EntryNames
  BY <1>1, <1>2, TodoKnown
<1>4. /\ Listed(d, nm, g)
      /\ HereIs(g)' <=> \E e \in Guids, to \in EntryNames :
                          Listed(e, to, g) /\ ~(e = d /\ to = nm)
  BY <1>2, <1>3, Survival
<1>5. \A h \in Guids : Listed(d, nm, h) => h = g
  BY <1>2, <1>3, <1>4, UniqueListed
<1>6. \A e, h \in Guids, to \in EntryNames :
        Listed(e, to, h)' <=> Listed(e, to, h) /\ ~(e = d /\ to = nm)
  BY <1>2, <1>3, UnlinkedListed
<1>7. Unique'
  <2>1. \A e \in Guids, k \in Slots :
          Rec(e, k)'.name \in EntryNames => Rec(e, k)' = Rec(e, k)
    BY <1>2, NameFacts DEF Unlinked, OtherRecs
  <2> QED
    BY <2>1 DEF Unique
<1>8. /\ \A h \in Guids : /\ There(h)' <=> There(h)
                          /\ IsDir(h)' <=> IsDir(h)
      /\ \A h \in Guids \ {g} : HereIs(h)' <=> HereIs(h)
      /\ HereIs(g)
  <2>1. ASSUME NEW h \in Guids
        PROVE  (There(h)' <=> There(h)) /\ (There(h) => Mem(h)'.kind = Mem(h).kind)
    BY <1>2 DEF Unlinked, Same
  <2>2. ASSUME NEW h \in Guids \ {g}
        PROVE  There(h) => Mem(h)'.exist = Mem(h).exist
    BY <1>2 DEF Unlinked, Same
  <2> QED
    BY <1>2, <2>1, <2>2 DEF IsDir, HereIs, Unlinked
<1>9. /\ EntryNames = Names \cup {Dot, DotDot} /\ Dot \notin Names
      /\ DotDot \notin Names /\ Dot # DotDot
  BY NameFacts DEF EntryNames
<1>10. CASE nm \notin Names
  <2>1. Removing(d, nm) /\ \A e, h \in Guids, to \in EntryNames : ~Adding(e, to, h)
    BY <1>1, <1>2, <1>3, <1>10 DEF Branches, Alone, Removing
  <2>2. Leaving(d) /\ IsDir(d)
    BY <1>2, <1>3, <1>10, <2>1 DEF Branches, Last
  <2>3. PICK e \in Guids, to \in Names : Listed(e, to, d)
    BY <2>2 DEF Leaving
  <2>4. HereIs(g)'
    <3>1. CASE nm = Dot
      <4>1. g = d
        BY <1>2, <1>4, <3>1 DEF Branches, Self, Entry
      <4> QED
        BY <1>4, <1>9, <2>3, <3>1, <4>1
    <3>2. CASE nm = DotDot
      <4>1. Entry(d, DotDot, g)
        BY <1>4, <3>2 DEF Entry
      <4>2. ~(d = Root /\ g = Root)
        <5> SUFFICES ASSUME d = Root PROVE FALSE
          OBVIOUS
        <5>1. Above
          BY <1>2, TypeFacts DEF RInv, RootSafe
        <5> QED
          BY <2>3, <5>1 DEF Above, Listed
      <4>3. PICK k \in Names : Listed(g, k, d)
        BY <1>2, <1>9, <2>1, <4>1, <4>2 DEF Branches, Parents, Entry
      <4>4. HereIsDir(g)
        BY <1>8, <1>9, <4>3, ListedFacts DEF HereIsDir
      <4>5. Leaving(g) \/ Listed(g, Dot, g)
        BY <1>9, <2>1, <4>4 DEF Branches, Dots, Entry
      <4>6. \E f \in Guids, k2 \in Names : Leaving(g) => Listed(f, k2, g)
        BY DEF Leaving
      <4> QED
        BY <1>4, <1>9, <3>2, <4>5, <4>6
    <3> QED
      BY <1>3, <1>9, <1>10, <3>1, <3>2
  <2>5. \A h \in Guids : HereIs(h)' <=> HereIs(h)
    BY <1>8, <2>4
  <2>6. Branches'
    BY <1>1, <1>2, <1>3, <1>6, <1>8, <1>10, <2>5, EarlyBranches
  <2> QED
    BY <1>7, <2>6
<1>11. CASE nm \in Names
  <2>1. Todo' = {}
    BY <1>1, <1>2, <1>11 DEF Left, Final
  <2>2. \A to \in EntryNames, h \in Guids : ~Listed(g, to, h)
    BY <1>1, <1>2, <1>4, <1>11, <2>1, NakedLast
  <2>3. \A e, to, h : ~Adding(e, to, h)
    BY <1>2, <2>1, LeftPending, NonePendingNext
  <2>4. ASSUME NEW e \in Guids, NEW to \in EntryNames, Listed(e, to, g)
        PROVE  to \in Names
    <3>1. CASE to = Dot
      <4>1. g = e
        BY <2>4, <3>1 DEF Branches, Self, Entry
      <4> QED
        BY <2>2, <2>4, <4>1
    <3>2. CASE to = DotDot
      <4>1. (e = Root /\ g = Root) \/ \E k \in Names : Entry(g, k, e)
        BY <2>4, <3>2 DEF Branches, Parents, Entry
      <4>2. \A k \in Names : ~Entry(g, k, e)
        BY <1>9, <2>2, <2>3 DEF Entry
      <4>3. e = g
        BY <4>1, <4>2
      <4> QED
        BY <2>2, <2>4, <4>3
    <3> QED
      BY <1>9, <3>1, <3>2
  <2>5. IsDir(g) => ~HereIs(g)'
    BY <1>2, <1>4, <1>11, <2>4 DEF Branches, OneName, Entry
  <2>6. HereIs(g)' => \E e \in Guids, to \in Names :
                        Listed(e, to, g) /\ ~(e = d /\ to = nm)
    BY <1>4, <2>4
  <2>7. \A h \in Guids : /\ HereIs(h)' => HereIs(h)
                         /\ HereIs(h) /\ ~HereIs(h)' => Listed(d, nm, h)
                         /\ Listed(d, nm, h) /\ IsDir(h) => ~HereIs(h)'
    BY <1>4, <1>5, <1>8, <2>5
  <2>8. Branches'
    BY <1>1, <1>2, <1>5, <1>6, <1>8, <1>11, <2>6, <2>7, LastBranches
  <2> QED
    BY <1>7, <2>8
<1> QED
  BY <1>10, <1>11

LEMMA RemovesNoneBranches ==
  ASSUME IInv, lost = {}, Unique, Branches, NEW u, RemovesNone(u), Root' = Root
  PROVE  Branches'
<1>1. PICK d, nm : d = u.g /\ nm = u.rec.name
  OBVIOUS
<1>2. /\ u \in Todo /\ u.op = "rmEntry" /\ Left(u) /\ Quiet /\ Nowhere(d, nm)
      /\ d \in Guids
  BY <1>1, LeftFacts DEF RemovesNone
<1>3. nm \in EntryNames
  BY <1>1, <1>2, TodoKnown
<1>4. \A h : ~Listed(d, nm, h)
  BY <1>2 DEF Nowhere, Listed
<1>5. \A e, h \in Guids, to \in EntryNames :
        Listed(e, to, h)' <=> Listed(e, to, h) /\ ~(e = d /\ to = nm)
  BY <1>2, <1>4, SameListed DEF Quiet
<1>6. \A h \in Guids : /\ There(h)' <=> There(h)
                       /\ There(h) => /\ Mem(h)'.kind = Mem(h).kind
                                      /\ Mem(h)'.exist = Mem(h).exist
  BY <1>2 DEF Quiet, Same
<1>7. \A h \in Guids : /\ IsDir(h)' <=> IsDir(h)
                       /\ HereIs(h)' <=> HereIs(h)
  BY <1>6 DEF IsDir, HereIs
<1>8. CASE nm \notin Names
  BY <1>1, <1>2, <1>3, <1>5, <1>6, <1>7, <1>8, EarlyBranches
<1>9. CASE nm \in Names
  BY <1>1, <1>2, <1>4, <1>5, <1>6, <1>7, <1>9, LastBranches
<1> QED
  BY <1>8, <1>9

-----------------------------------------------------------------------------
\* The links stay exact.
LEMMA QuietExact == ASSUME Exact, Quiet, lost' = lost PROVE Exact'
<1> SUFFICES ASSUME NEW g \in Guids, There(g)'
             PROVE  Cardinality(Links(g)') = Mem(g)'.nlink
  BY DEF Exact
<1>1. There(g) /\ Mem(g)'.nlink = Mem(g).nlink
  BY DEF Quiet, Same
<1>2. Links(g)' = Links(g)
  BY SameLinks DEF Quiet, SameRecs
<1> QED
  BY <1>1, <1>2 DEF Exact

LEMMA MadeExact ==
  ASSUME IInv, LInv, Exact, lost = {}, lost' = lost,
         NEW f \in Guids, NEW kind, Made(f, kind)
  PROVE  Exact'
<1> SUFFICES ASSUME NEW g \in Guids, There(g)'
             PROVE  Cardinality(Links(g)') = Mem(g)'.nlink
  BY DEF Exact
<1>1. Links(g)' = Links(g)
  BY SameLinks DEF Made, SameRecs
<1>2. CASE g = f
  <2>1. ~There(f) /\ Mem(f)'.nlink = 0 /\ f # None
    BY TypeFacts DEF Made
  <2>2. ASSUME NEW e \in Links(f) PROVE FALSE
    <3>1. PICK d \in Guids, i \in Slots : Rec(d, i).g = f
      BY LinkFacts
    <3> QED
      BY <2>1, <3>1 DEF LInv, Linking, Leading
  <2> QED
    BY <1>1, <1>2, <2>1, <2>2, FS_EmptySet
<1>3. CASE g # f
  BY <1>1, <1>3 DEF Made, Same, Exact
<1> QED
  BY <1>2, <1>3

LEMMA LinkedExact ==
  ASSUME IInv, LInv, Exact, lost = {}, lost' = lost,
         NEW d \in Guids, NEW i \in Slots, NEW r, Linked(d, i, r)
  PROVE  Exact'
<1>1. PICK f : f = r.g
  OBVIOUS
<1>2. /\ f \in Guids /\ f # None /\ There(f) /\ Mem(f)'.nlink = Mem(f).nlink + 1
      /\ \A h \in Guids \ {f} : Same(h)
      /\ Rec(d, i).g = None /\ Rec(d, i)'.g = f /\ OtherRecs(d, i)
  BY <1>1, MemFacts DEF Linked
<1>3. Cardinality(Links(f)') = Cardinality(Links(f)) + 1
  <2>1. IsFiniteSet(Links(f))
    BY <1>2 DEF LInv, Linking, Finite
  <2> QED
    BY <1>2, <2>1, MoreLinks
<1>4. ASSUME NEW g \in Guids, g # f PROVE Links(g)' = Links(g)
  <2> SUFFICES ASSUME NEW e \in Guids \ lost, NEW k \in Slots
               PROVE  Rec(e, k)'.g = g <=> Rec(e, k).g = g
    BY SameLinks
  <2>1. CASE e = d /\ k = i
    BY <1>2, <1>4, <2>1, TypeFacts
  <2>2. CASE ~(e = d /\ k = i)
    BY <1>2, <2>2 DEF OtherRecs
  <2> QED
    BY <2>1, <2>2
<1> SUFFICES ASSUME NEW g \in Guids, There(g)'
             PROVE  Cardinality(Links(g)') = Mem(g)'.nlink
  BY DEF Exact
<1>5. CASE g = f
  BY <1>2, <1>3, <1>5 DEF Exact
<1>6. CASE g # f
  BY <1>2, <1>4, <1>6 DEF Same, Exact
<1> QED
  BY <1>5, <1>6

LEMMA UnlinkedExact ==
  ASSUME IInv, LInv, Exact, lost = {}, lost' = lost,
         NEW d \in Guids, NEW i \in Slots, NEW f \in Guids, Unlinked(d, i, f)
  PROVE  Exact'
<1>2. /\ f # None /\ There(f) /\ Mem(f)'.nlink = Mem(f).nlink - 1
      /\ \A h \in Guids \ {f} : Same(h)
      /\ Rec(d, i).g = f /\ Rec(d, i)'.g = None /\ OtherRecs(d, i)
  BY MemFacts, TypeFacts DEF Unlinked
<1>3. Cardinality(Links(f)') = Cardinality(Links(f)) - 1
  <2>1. IsFiniteSet(Links(f))
    BY DEF LInv, Linking, Finite
  <2> QED
    BY <1>2, <2>1, LessLinks
<1>4. ASSUME NEW g \in Guids, g # f PROVE Links(g)' = Links(g)
  <2> SUFFICES ASSUME NEW e \in Guids \ lost, NEW k \in Slots
               PROVE  Rec(e, k)'.g = g <=> Rec(e, k).g = g
    BY SameLinks
  <2>1. CASE e = d /\ k = i
    BY <1>2, <1>4, <2>1, TypeFacts
  <2>2. CASE ~(e = d /\ k = i)
    BY <1>2, <2>2 DEF OtherRecs
  <2> QED
    BY <2>1, <2>2
<1> SUFFICES ASSUME NEW g \in Guids, There(g)'
             PROVE  Cardinality(Links(g)') = Mem(g)'.nlink
  BY DEF Exact
<1>5. CASE g = f
  BY <1>2, <1>3, <1>5 DEF Exact
<1>6. CASE g # f
  BY <1>2, <1>4, <1>6 DEF Same, Exact
<1> QED
  BY <1>5, <1>6

LEMMA MovedExact ==
  ASSUME IInv, LInv, Exact, lost' = lost,
         NEW d \in Guids, NEW i \in Slots, NEW j \in Slots, Moved(d, i, j)
  PROVE  Exact'
<1> SUFFICES ASSUME NEW g \in Guids, There(g)'
             PROVE  Cardinality(Links(g)') = Mem(g)'.nlink
  BY DEF Exact
<1>1. There(g) /\ Mem(g)'.nlink = Mem(g).nlink
  BY DEF Moved, Same
<1>2. Cardinality(Links(g)') = Cardinality(Links(g))
  <2>1. IsFiniteSet(Links(g)) /\ g # None /\ JunkRecord.g = None
    BY NameFacts, TypeFacts DEF LInv, Linking, Finite
  <2> QED
    BY <2>1, MovedLinks
<1> QED
  BY <1>1, <1>2 DEF Exact

LEMMA SameUnique == ASSUME Unique, SameRecs PROVE Unique'
BY DEF Unique, SameRecs

\* The end of a process that nothing was under way in.
LEMMA EndedSame ==
  ASSUME IInv, Branches, Ended, lost' = {}
  PROVE  /\ lost = {} /\ SameRecs
         /\ \A g \in Guids : /\ There(g)' <=> HereIs(g)
                             /\ HereIs(g) => /\ Mem(g)'.kind = Mem(g).kind
                                             /\ Mem(g)'.nlink = Mem(g).nlink
                                             /\ Mem(g)'.exist = Mem(g).exist
<1>1. lost = {}
  BY DEF Ended
<1>2. ASSUME NEW d \in Guids, NEW i \in Slots, ~(There(d) /\ Mem(d).exist)
      PROVE  Rec(d, i) = JunkRecord
  <2>1. ASSUME Rec(d, i) # JunkRecord PROVE FALSE
    <3>1. Rec(d, i) \in Records
      BY MemFacts
    <3>2. Rec(d, i).g # None
      BY <2>1, <3>1, TypeFacts
    <3>3. PICK nm, g : nm = Rec(d, i).name /\ g = Rec(d, i).g
      OBVIOUS
    <3>4. IsDir(d) /\ nm \in EntryNames /\ g \in Guids
      BY <3>2, <3>3, MemFacts
    <3>5. Entry(d, nm, g)
      BY <3>3 DEF Entry, Listed
    <3> QED
      BY <1>2, <3>4, <3>5 DEF Branches, Bare, IsDir
  <2> QED
    BY <2>1
<1>3. SameRecs
  BY <1>2 DEF Ended, SameRecs
<1>4. ASSUME NEW g \in Guids
      PROVE  /\ There(g)' <=> HereIs(g)
             /\ HereIs(g) => /\ Mem(g)'.kind = Mem(g).kind
                             /\ Mem(g)'.nlink = Mem(g).nlink
                             /\ Mem(g)'.exist = Mem(g).exist
  <2>1. IF There(g) /\ ~Mem(g).exist THEN ~There(g)' ELSE Same(g)
    BY DEF Ended
  <2> QED
    BY <2>1 DEF Same, HereIs
<1> QED
  BY <1>1, <1>3, <1>4

LEMMA EndedExact ==
  ASSUME IInv, Exact, Unique, Branches, Ended, lost' = {} PROVE Exact' /\ Unique'
<1>1. /\ lost = {} /\ SameRecs
      /\ \A g \in Guids : There(g)' => There(g) /\ Mem(g)'.nlink = Mem(g).nlink
  BY EndedSame DEF HereIs
<1>2. \A g : Links(g)' = Links(g)
  BY <1>1, SameLinks DEF SameRecs
<1> QED
  BY <1>1, <1>2, SameUnique DEF Exact

-----------------------------------------------------------------------------
\* What Branches says when no call is under way.
Tree ==
  /\ \A d, g \in Guids : Listed(d, Dot, g) => g = d
  /\ \A d, e, g \in Guids, nm, to \in Names :
       Listed(d, nm, g) /\ Listed(e, to, g) /\ IsDir(g) => d = e /\ nm = to
  /\ \A g, p \in Guids : Listed(g, DotDot, p) =>
       (g = Root /\ p = Root) \/ \E nm \in Names : Listed(p, nm, g)
  /\ \A d \in Guids : HereIsDir(d) =>
       Listed(d, Dot, d) /\ \E p \in Guids : Listed(d, DotDot, p)
  /\ \A d, g \in Guids, nm \in EntryNames : Listed(d, nm, g) => HereIs(d) /\ HereIs(g)
  /\ \A g \in Guids : HereIs(g) =>
       g = Root \/ \E d \in Guids, nm \in Names : Listed(d, nm, g)

LEMMA TreeFacts ==
  ASSUME IInv, LInv, lost = {}, Branches, Todo = {} PROVE Tree
<1>1. /\ \A d, nm, g : ~Adding(d, nm, g) /\ (Entry(d, nm, g) <=> Listed(d, nm, g))
      /\ \A d, nm : ~Removing(d, nm)
      /\ \A g : ~Leaving(g)
      /\ \A g, kinds : ~Making(g, kinds)
  BY NonePending
<1>2. \A d, g \in Guids, nm \in EntryNames : Listed(d, nm, g) => HereIs(d) /\ HereIs(g)
  <2> SUFFICES ASSUME NEW d \in Guids, NEW g \in Guids, NEW nm \in EntryNames,
                      Listed(d, nm, g)
               PROVE  HereIs(d) /\ HereIs(g)
    OBVIOUS
  <2>1. There(d)
    BY ListedFacts
  <2>2. Mem(d).exist
    BY <1>1, <2>1 DEF Branches, Bare
  <2> QED
    BY <2>1, <2>2, ListedThere DEF HereIs
<1>3. \A d, g \in Guids : Listed(d, Dot, g) => g = d
  BY <1>1 DEF Branches, Self
<1>4. \A d, e, g \in Guids, nm, to \in Names :
        Listed(d, nm, g) /\ Listed(e, to, g) /\ IsDir(g) => d = e /\ nm = to
  BY <1>1 DEF Branches, OneName
<1>5. \A g, p \in Guids : Listed(g, DotDot, p) =>
        (g = Root /\ p = Root) \/ \E nm \in Names : Listed(p, nm, g)
  BY <1>1 DEF Branches, Parents
<1>6. \A d \in Guids : HereIsDir(d) =>
        Listed(d, Dot, d) /\ \E p \in Guids : Listed(d, DotDot, p)
  BY <1>1 DEF Branches, Dots
<1>7. \A g \in Guids : HereIs(g) =>
        g = Root \/ \E d \in Guids, nm \in Names : Listed(d, nm, g)
  BY <1>1 DEF Branches, Reached
<1> QED
  BY <1>2, <1>3, <1>4, <1>5, <1>6, <1>7 DEF Tree

LEMMA BranchesOfTree == ASSUME Tree, Todo = {} PROVE Branches
<1>1. /\ \A d, nm, g : ~Adding(d, nm, g) /\ (Entry(d, nm, g) <=> Listed(d, nm, g))
      /\ \A d, nm : ~Removing(d, nm)
      /\ \A g : ~Leaving(g)
      /\ \A g, kinds : ~Making(g, kinds)
  BY NonePending
<1>2. Dot \in EntryNames /\ DotDot \in EntryNames /\ Names \subseteq EntryNames
  BY NameFacts
<1>3. Unlisted
  BY <1>1 DEF Unlisted
<1>4. Self /\ Parents /\ Dots /\ Reached
  BY <1>1 DEF Tree, Self, Parents, Dots, Reached
<1>5. OneName
  BY <1>1, <1>2 DEF Tree, OneName, HereIs
<1>6. Emptied /\ Last /\ Alone
  BY <1>1 DEF Emptied, Last, Alone
<1>7. Bare
  BY <1>1 DEF Tree, Bare, HereIs
<1> QED
  BY <1>3, <1>4, <1>5, <1>6, <1>7 DEF Branches

LEMMA BranchesOfTreeNext == ASSUME Tree', Todo' = {} PROVE Branches'
<1>1. /\ \A d, nm, g : ~Adding(d, nm, g)' /\ (Entry(d, nm, g)' <=> Listed(d, nm, g)')
      /\ \A d, nm : ~Removing(d, nm)'
      /\ \A g : ~Leaving(g)'
      /\ \A g, kinds : ~Making(g, kinds)'
  BY NonePendingNext
<1>2. Dot \in EntryNames /\ DotDot \in EntryNames /\ Names \subseteq EntryNames
  BY NameFacts
<1>3. Unlisted'
  BY <1>1 DEF Unlisted
<1>4. Self' /\ Parents' /\ Dots' /\ Reached'
  BY <1>1 DEF Tree, Self, Parents, Dots, Reached
<1>5. OneName'
  BY <1>1, <1>2 DEF Tree, OneName, HereIs
<1>6. Emptied' /\ Last' /\ Alone'
  BY <1>1 DEF Emptied, Last, Alone
<1>7. Bare'
  BY <1>1 DEF Tree, Bare, HereIs
<1> QED
  BY <1>3, <1>4, <1>5, <1>6, <1>7 DEF Branches

\* The same names, and the files that exist are there.
LEMMA SameTree ==
  ASSUME Tree, SameRecs, Root' = Root,
         \A g \in Guids : /\ HereIs(g)' <=> HereIs(g)
                          /\ HereIs(g) => (IsDir(g)' <=> IsDir(g))
  PROVE  Tree'
<1>1. \A d \in Guids : \A nm, g : Listed(d, nm, g)' <=> Listed(d, nm, g)
  BY SameListed
<1>2. Dot \in EntryNames /\ DotDot \in EntryNames /\ Names \subseteq EntryNames
  BY NameFacts
<1>3. (\A d, g \in Guids : Listed(d, Dot, g) => g = d)'
  BY <1>1 DEF Tree
<1>4. (\A d, e, g \in Guids, nm, to \in Names :
         Listed(d, nm, g) /\ Listed(e, to, g) /\ IsDir(g) => d = e /\ nm = to)'
  <2> SUFFICES ASSUME NEW d \in Guids, NEW e \in Guids, NEW g \in Guids,
                      NEW nm \in Names, NEW to \in Names,
                      Listed(d, nm, g)', Listed(e, to, g)', IsDir(g)'
               PROVE  d = e /\ nm = to
    OBVIOUS
  <2>1. Listed(d, nm, g) /\ Listed(e, to, g)
    BY <1>1
  <2>2. IsDir(g)
    BY <1>2, <2>1 DEF Tree
  <2> QED
    BY <2>1, <2>2 DEF Tree
<1>5. (\A g, p \in Guids : Listed(g, DotDot, p) =>
         (g = Root /\ p = Root) \/ \E nm \in Names : Listed(p, nm, g))'
  BY <1>1 DEF Tree
<1>6. (\A d \in Guids : HereIsDir(d) =>
         Listed(d, Dot, d) /\ \E p \in Guids : Listed(d, DotDot, p))'
  BY <1>1 DEF Tree, HereIsDir
<1>7. (\A d, g \in Guids, nm \in EntryNames :
         Listed(d, nm, g) => HereIs(d) /\ HereIs(g))'
  BY <1>1 DEF Tree
<1>8. (\A g \in Guids : HereIs(g) =>
         g = Root \/ \E d \in Guids, nm \in Names : Listed(d, nm, g))'
  BY <1>1 DEF Tree
<1> QED
  BY <1>3, <1>4, <1>5, <1>6, <1>7, <1>8 DEF Tree

LEMMA QuietTree == ASSUME Tree, Quiet, Root' = Root PROVE Tree'
<1>1. \A g \in Guids : /\ There(g)' <=> There(g)
                       /\ There(g) => /\ Mem(g)'.kind = Mem(g).kind
                                      /\ Mem(g)'.exist = Mem(g).exist
  BY DEF Quiet, Same
<1>2. \A g \in Guids : /\ HereIs(g)' <=> HereIs(g)
                       /\ IsDir(g)' <=> IsDir(g)
  BY <1>1 DEF HereIs, IsDir
<1> QED
  BY <1>2, SameTree DEF Quiet

LEMMA EndedTree ==
  ASSUME IInv, Tree, Branches, Ended, lost' = {}, Root' = Root PROVE Tree'
<1>1. /\ SameRecs
      /\ \A g \in Guids : /\ There(g)' <=> HereIs(g)
                          /\ HereIs(g) => /\ Mem(g)'.kind = Mem(g).kind
                                          /\ Mem(g)'.exist = Mem(g).exist
  BY EndedSame
<1>2. \A g \in Guids : /\ HereIs(g)' <=> HereIs(g)
                       /\ HereIs(g) => (IsDir(g)' <=> IsDir(g))
  BY <1>1 DEF HereIs, IsDir
<1> QED
  BY <1>1, <1>2, SameTree

-----------------------------------------------------------------------------
\* The calls, each of which begins in a tree.
LEMMA CreateBegins ==
  ASSUME Tree', NEW d \in Guids, NEW nm \in Names, NEW g \in Guids,
         Todo' = {CreateFile(g, "reg"), AddEntry(d, nm, g)},
         HereIs(d)', ~There(g)', Nowhere(d, nm)'
  PROVE  Branches'
<1>0. /\ Dot \in EntryNames /\ DotDot \in EntryNames /\ Names \subseteq EntryNames
      /\ nm # Dot /\ nm # DotDot
  BY NameFacts
<1>1. \A e, to, h : Adding(e, to, h)' <=> e = d /\ to = nm /\ h = g
  BY UpdateFields DEF Adding
<1>2. /\ \A e, to : ~Removing(e, to)'
      /\ \A h : ~Making(h, {"dir"})' /\ (Making(h, Create)' <=> h = g)
  BY UpdateFields DEF Removing, Making, Create
<1>3. \A e : ~Leaving(e)'
  BY <1>2 DEF Leaving
<1>4. \A e, to, h : Entry(e, to, h)' <=>
                      Listed(e, to, h)' \/ (e = d /\ to = nm /\ h = g)
  BY <1>1 DEF Entry
<1>5. Unlisted'
  <2>1. \A h : ~Listed(d, nm, h)'
    BY DEF Listed, Nowhere
  <2> QED
    BY <1>1, <2>1, UpdateFields DEF Unlisted
<1>6. \A e \in Guids, to \in EntryNames : ~Listed(e, to, g)'
  BY DEF Tree, HereIs
<1>7. Self' /\ Parents'
  BY <1>0, <1>4 DEF Tree, Self, Parents
<1>8. OneName'
  BY <1>0, <1>4, <1>6 DEF Tree, OneName, HereIs
<1>9. Dots'
  BY <1>2, <1>4 DEF Tree, Dots
<1>10. Emptied' /\ Last' /\ Alone'
  BY <1>2, <1>3 DEF Emptied, Last, Alone
<1>11. Bare'
  BY <1>4 DEF Tree, Bare, HereIs
<1>12. Reached'
  BY <1>2, <1>4 DEF Tree, Reached
<1> QED
  BY <1>5, <1>7, <1>8, <1>9, <1>10, <1>11, <1>12 DEF Branches

LEMMA MkdirBegins ==
  ASSUME Tree', NEW d \in Guids, NEW nm \in Names, NEW g \in Guids,
         Todo' = {CreateFile(g, "dir"), AddEntry(g, Dot, g),
                  AddEntry(g, DotDot, d), AddEntry(d, nm, g)},
         HereIs(d)', ~There(g)', Nowhere(d, nm)'
  PROVE  Branches'
<1>0. /\ Dot \in EntryNames /\ DotDot \in EntryNames /\ Names \subseteq EntryNames
      /\ nm # Dot /\ nm # DotDot /\ Dot # DotDot /\ d # g
      /\ Dot \notin Names /\ DotDot \notin Names
  BY NameFacts DEF HereIs
<1> DEFINE Gets(e, to, h) == \/ (e = g /\ to = Dot /\ h = g)
                             \/ (e = g /\ to = DotDot /\ h = d)
                             \/ (e = d /\ to = nm /\ h = g)
<1>1. \A e, to, h : Adding(e, to, h)' <=> Gets(e, to, h)
  BY UpdateFields DEF Adding
<1>2. /\ \A e, to : ~Removing(e, to)'
      /\ \A h : Making(h, {"dir"})' <=> h = g
      /\ \A h : Making(h, Create)' <=> h = g
  BY UpdateFields DEF Removing, Making, Create
<1>3. \A e : ~Leaving(e)'
  BY <1>2 DEF Leaving
<1>4. \A e, to, h : Entry(e, to, h)' <=> Listed(e, to, h)' \/ Gets(e, to, h)
  BY <1>1 DEF Entry
<1>6. /\ \A e \in Guids, to \in EntryNames : ~Listed(e, to, g)'
      /\ \A h \in Guids, to \in EntryNames : ~Listed(g, to, h)'
  BY DEF Tree, HereIs
<1>5. Unlisted'
  <2>1. \A h : ~Listed(d, nm, h)'
    BY DEF Listed, Nowhere
  <2>2. (\A e \in Guids, to \in EntryNames, h, k \in Guids :
           Adding(e, to, h) => ~Listed(e, to, k))'
    BY <1>1, <1>6, <2>1
  <2>3. (\A u, v \in Todo :
           u.op = "addEntry" /\ v.op = "addEntry" /\ u.g = v.g
             /\ u.rec.name = v.rec.name => u = v)'
    BY <1>0, UpdateFields
  <2> QED
    BY <2>2, <2>3 DEF Unlisted
<1>7. Self'
  BY <1>0, <1>4 DEF Tree, Self
<1>8. Parents'
  <2> SUFFICES ASSUME NEW h \in Guids, NEW p \in Guids, Entry(h, DotDot, p)'
               PROVE  (h = Root /\ p = Root)' \/ \E to \in Names : Entry(p, to, h)'
    BY DEF Parents
  <2>1. CASE Listed(h, DotDot, p)'
    BY <1>4, <2>1 DEF Tree
  <2>2. CASE h = g /\ p = d
    BY <1>4, <2>2
  <2> QED
    BY <1>0, <1>4, <2>1, <2>2
<1>9. OneName'
  <2> SUFFICES ASSUME NEW e \in Guids, NEW f \in Guids, NEW h \in Guids,
                      NEW to \in Names, NEW ti \in Names,
                      Entry(e, to, h)', Entry(f, ti, h)', ~There(h)' \/ IsDir(h)'
               PROVE  e = f /\ to = ti
    BY DEF OneName
  <2>1. CASE h = g
    BY <1>0, <1>4, <1>6, <2>1
  <2>2. CASE h # g
    <3>1. Listed(e, to, h)' /\ Listed(f, ti, h)'
      BY <1>0, <1>4, <2>2
    <3>2. IsDir(h)'
      BY <1>0, <3>1 DEF Tree, HereIs
    <3> QED
      BY <3>1, <3>2 DEF Tree
  <2> QED
    BY <2>1, <2>2
<1>10. Dots'
  BY <1>2, <1>4 DEF Tree, Dots
<1>11. Emptied' /\ Last' /\ Alone'
  BY <1>2, <1>3 DEF Emptied, Last, Alone
<1>12. Bare'
  <2> SUFFICES ASSUME NEW e \in Guids, NEW h \in Guids, NEW to \in EntryNames,
                      There(e)', ~Mem(e)'.exist, Entry(e, to, h)'
               PROVE  FALSE
    BY DEF Bare
  <2>1. CASE Listed(e, to, h)'
    BY <2>1 DEF Tree, HereIs
  <2>2. CASE Gets(e, to, h)
    BY <2>2 DEF HereIs
  <2> QED
    BY <1>4, <2>1, <2>2
<1>13. Reached'
  BY <1>2, <1>4 DEF Tree, Reached
<1> QED
  BY <1>5, <1>7, <1>8, <1>9, <1>10, <1>11, <1>12, <1>13 DEF Branches

LEMMA UnlinkBegins ==
  ASSUME Tree', Unique', NEW d \in Guids, NEW nm \in Names, NEW g \in Guids,
         Todo' = {RmEntry(d, nm)}, ~IsDir(g)', Listed(d, nm, g)'
  PROVE  Branches'
<1>0. /\ Dot \in EntryNames /\ DotDot \in EntryNames /\ Names \subseteq EntryNames
  BY NameFacts
<1>1. /\ \A e, to, h : ~Adding(e, to, h)' /\ (Entry(e, to, h)' <=> Listed(e, to, h)')
      /\ \A e, to : Removing(e, to)' <=> e = d /\ to = nm
      /\ \A h : ~Making(h, {"dir"})' /\ ~Making(h, Create)'
  BY UpdateFields DEF Adding, Entry, Removing, Making, Create
<1>2. \A h \in Guids : Leaving(h)' => ~IsDir(h)'
  <2>1. \A h \in Guids : Listed(d, nm, h)' => h = g
    BY <1>0 DEF Listed, Unique
  <2> QED
    BY <1>1, <2>1 DEF Leaving
<1>3. Unlisted'
  <2>1. \A u \in Todo' : u.op # "addEntry"
    BY UpdateFields
  <2> QED
    BY <1>1, <2>1 DEF Unlisted
<1>4. Self' /\ Parents' /\ Reached'
  BY <1>1 DEF Tree, Self, Parents, Reached
<1>5. OneName'
  BY <1>0, <1>1 DEF Tree, OneName, HereIs
<1>6. Dots'
  BY <1>1 DEF Tree, Dots
<1>7. Emptied' /\ Last' /\ Alone'
  BY <1>1, <1>2 DEF Emptied, Last, Alone
<1>8. Bare'
  BY <1>1 DEF Tree, Bare, HereIs
<1> QED
  BY <1>3, <1>4, <1>5, <1>6, <1>7, <1>8 DEF Branches

LEMMA RenameBegins ==
  ASSUME Tree', Unique', NEW d \in Guids, NEW nm \in Names, NEW g \in Guids,
         NEW e \in Guids, NEW to \in Names,
         Todo' = {AddEntry(e, to, g), RmEntry(d, nm)},
         HereIs(e)', HereIs(g)', ~IsDir(g)', Listed(d, nm, g)', Nowhere(e, to)'
  PROVE  Branches'
<1>0. /\ Dot \in EntryNames /\ DotDot \in EntryNames /\ Names \subseteq EntryNames
      /\ to # Dot /\ to # DotDot
  BY NameFacts
<1>1. \A f, ti, h : Adding(f, ti, h)' <=> f = e /\ ti = to /\ h = g
  BY UpdateFields DEF Adding
<1>2. /\ \A f, ti : Removing(f, ti)' <=> f = d /\ ti = nm
      /\ \A h : ~Making(h, {"dir"})' /\ ~Making(h, Create)'
  BY UpdateFields DEF Removing, Making, Create
<1>3. \A h \in Guids : Leaving(h)' => ~IsDir(h)'
  <2>1. \A h \in Guids : Listed(d, nm, h)' => h = g
    BY <1>0 DEF Listed, Unique
  <2> QED
    BY <1>2, <2>1 DEF Leaving
<1>4. \A f, ti, h : Entry(f, ti, h)' <=>
                      Listed(f, ti, h)' \/ (f = e /\ ti = to /\ h = g)
  BY <1>1 DEF Entry
<1>5. Unlisted'
  <2>1. \A h : ~Listed(e, to, h)'
    BY DEF Listed, Nowhere
  <2>2. \A u \in Todo' : u.op = "addEntry" => u = AddEntry(e, to, g)
    BY UpdateFields
  <2> QED
    BY <1>1, <2>1, <2>2 DEF Unlisted
<1>6. Self' /\ Parents'
  BY <1>0, <1>4 DEF Tree, Self, Parents
<1>7. OneName'
  <2> SUFFICES ASSUME NEW f \in Guids, NEW k \in Guids, NEW h \in Guids,
                      NEW ti \in Names, NEW tk \in Names,
                      Entry(f, ti, h)', Entry(k, tk, h)', ~There(h)' \/ IsDir(h)'
               PROVE  f = k /\ ti = tk
    BY DEF OneName
  <2>1. h # g
    BY DEF HereIs
  <2>2. Listed(f, ti, h)' /\ Listed(k, tk, h)'
    BY <1>4, <2>1
  <2>3. IsDir(h)'
    BY <1>0, <2>2 DEF Tree, HereIs
  <2> QED
    BY <2>2, <2>3 DEF Tree
<1>8. Dots'
  BY <1>2, <1>4 DEF Tree, Dots
<1>9. Emptied' /\ Last' /\ Alone'
  BY <1>2, <1>3 DEF Emptied, Last, Alone
<1>10. Bare'
  BY <1>4 DEF Tree, Bare, HereIs
<1>11. Reached'
  BY <1>2, <1>4 DEF Tree, Reached
<1> QED
  BY <1>5, <1>6, <1>7, <1>8, <1>9, <1>10, <1>11 DEF Branches

LEMMA RmdirBegins ==
  ASSUME Tree', Unique', NEW d \in Guids, NEW nm \in Names, NEW g \in Guids,
         Todo' = {RmEntry(g, DotDot), RmEntry(g, Dot), RmEntry(d, nm)},
         IsDir(g)', Listed(d, nm, g)',
         \A to \in EntryNames, h \in Guids :
           Listed(g, to, h)' => to = Dot \/ to = DotDot
  PROVE  Branches'
<1>0. /\ Dot \in EntryNames /\ DotDot \in EntryNames /\ Names \subseteq EntryNames
      /\ Dot \notin Names /\ DotDot \notin Names
  BY NameFacts
<1>1. /\ \A e, to, h : ~Adding(e, to, h)' /\ (Entry(e, to, h)' <=> Listed(e, to, h)')
      /\ \A e, to : Removing(e, to)' <=>
           (e = d /\ to = nm) \/ (e = g /\ to \in {Dot, DotDot})
      /\ \A h : ~Making(h, {"dir"})' /\ ~Making(h, Create)'
  BY UpdateFields DEF Adding, Entry, Removing, Making, Create
<1>2. \A h \in Guids : Leaving(h)' <=> h = g
  <2>1. \A h \in Guids : Listed(d, nm, h)' => h = g
    BY <1>0 DEF Listed, Unique
  <2> QED
    BY <1>0, <1>1, <2>1 DEF Leaving
<1>3. Unlisted'
  <2>1. \A u \in Todo' : u.op # "addEntry"
    BY UpdateFields
  <2> QED
    BY <1>1, <2>1 DEF Unlisted
<1>4. Self' /\ Parents' /\ Reached'
  BY <1>1 DEF Tree, Self, Parents, Reached
<1>5. OneName'
  BY <1>0, <1>1 DEF Tree, OneName, HereIs
<1>6. Dots'
  BY <1>1 DEF Tree, Dots
<1>7. Emptied'
  BY <1>0, <1>1, <1>2 DEF Emptied
<1>8. Last' /\ Alone'
  BY <1>0, <1>1, <1>2 DEF Last, Alone
<1>9. Bare'
  BY <1>1 DEF Tree, Bare, HereIs
<1> QED
  BY <1>3, <1>4, <1>5, <1>6, <1>7, <1>8, <1>9 DEF Branches

\* The rootdir of an empty container.
LEMMA FirstBegins ==
  ASSUME NEW g \in Guids, Root' = g,
         Todo' = {CreateFile(g, "dir"), AddEntry(g, Dot, g),
                  AddEntry(g, DotDot, g), Update("container", g, JunkRecord)},
         \A h \in Guids : ~There(h)',
         \A h \in Guids, i \in Slots : Rec(h, i)' = JunkRecord
  PROVE  Unique' /\ Branches'
<1>0. /\ Dot \in EntryNames /\ DotDot \in EntryNames /\ Names \subseteq EntryNames
      /\ Dot \notin Names /\ DotDot \notin Names /\ Dot # DotDot
      /\ JunkRecord.name \notin EntryNames
  BY NameFacts
<1>1. \A e, to, h : Adding(e, to, h)' <=> e = g /\ h = g /\ to \in {Dot, DotDot}
  BY UpdateFields DEF Adding
<1>2. /\ \A e, to : ~Removing(e, to)'
      /\ \A h : Making(h, {"dir"})' <=> h = g
      /\ \A h : Making(h, Create)' <=> h = g
  BY UpdateFields DEF Removing, Making, Create
<1>3. \A e \in Guids, to \in EntryNames : \A h : ~Listed(e, to, h)'
  BY <1>0 DEF Listed
<1>4. \A e \in Guids, to \in EntryNames, h \in Guids :
        Entry(e, to, h)' <=> e = g /\ h = g /\ to \in {Dot, DotDot}
  BY <1>1, <1>3 DEF Entry
<1>5. Unlisted'
  <2>1. (\A e \in Guids, to \in EntryNames, h, k \in Guids :
           Adding(e, to, h) => ~Listed(e, to, k))'
    BY <1>3
  <2>2. (\A u, v \in Todo :
           u.op = "addEntry" /\ v.op = "addEntry" /\ u.g = v.g
             /\ u.rec.name = v.rec.name => u = v)'
    BY <1>0, UpdateFields
  <2> QED
    BY <2>1, <2>2 DEF Unlisted
<1>6. Self' /\ Parents' /\ OneName'
  BY <1>0, <1>4 DEF Self, Parents, OneName
<1>7. Dots'
  BY <1>0, <1>2, <1>4 DEF Dots, HereIsDir, HereIs
<1>8. Emptied' /\ Last' /\ Alone' /\ Bare'
  BY <1>2 DEF Emptied, Last, Alone, Leaving, Bare
<1>9. Reached'
  BY <1>2 DEF Reached, HereIs
<1>10. Unique'
  BY <1>0 DEF Unique
<1> QED
  BY <1>5, <1>6, <1>7, <1>8, <1>9, <1>10 DEF Branches

-----------------------------------------------------------------------------
\* A call begins in a tree, which it has not changed yet.
LEMMA StartsTree ==
  ASSUME IInv, LInv, EInv, NEW used, NEW changed, Starts(used, changed), lost' = {}
  PROVE  /\ Exact' /\ Unique' /\ Tree' /\ Unique
         /\ \A g \in Guids : /\ There(g)' <=> There(g)
                             /\ HereIs(g)' <=> HereIs(g)
                             /\ IsDir(g)' <=> IsDir(g)
         /\ \A d \in Guids : \A nm, g : Listed(d, nm, g)' <=> Listed(d, nm, g)
         /\ \A d \in Guids : \A nm : Nowhere(d, nm)' <=> Nowhere(d, nm)
<1>1. /\ Quiet /\ SameRecs /\ Todo = {} /\ lost = {} /\ lost' = lost
      /\ UNCHANGED <<rootdir, container>>
  BY StartsQuiet DEF Quiet
<1>2. Exact /\ Unique /\ Branches
  BY <1>1 DEF EInv
<1>3. Root' = Root
  BY <1>1 DEF Root
<1>4. Tree'
  BY <1>1, <1>2, <1>3, TreeFacts, QuietTree
<1>5. Exact' /\ Unique'
  BY <1>1, <1>2, QuietExact, SameUnique
<1>6. \A g \in Guids : /\ There(g)' <=> There(g)
                       /\ There(g) => /\ Mem(g)'.kind = Mem(g).kind
                                      /\ Mem(g)'.exist = Mem(g).exist
  BY <1>1 DEF Quiet, Same
<1>7. \A g \in Guids : /\ There(g)' <=> There(g)
                       /\ HereIs(g)' <=> HereIs(g)
                       /\ IsDir(g)' <=> IsDir(g)
  BY <1>6 DEF HereIs, IsDir
<1>8. \A d \in Guids : \A nm, g : Listed(d, nm, g)' <=> Listed(d, nm, g)
  BY <1>1, SameListed
<1>9. \A d \in Guids : \A nm : Nowhere(d, nm)' <=> Nowhere(d, nm)
  BY <1>1 DEF Nowhere, SameRecs
<1> QED
  BY <1>2, <1>4, <1>5, <1>7, <1>8, <1>9

\* rmdir: in a directory of two records there is nothing but the two.
LEMMA Smallest ==
  ASSUME IInv, hand = NoHand, NEW g \in Guids, IsDir(g), Mem(g).size <= 2,
         Listed(g, Dot, g), NEW p, Listed(g, DotDot, p),
         NEW to \in EntryNames, NEW h, Listed(g, to, h)
  PROVE  to = Dot \/ to = DotDot
<1>0. Dot \in EntryNames /\ DotDot \in EntryNames /\ Dot # DotDot
      /\ JunkRecord.name \notin EntryNames
  BY NameFacts
<1>1. PICK i \in Slots : Rec(g, i).name = Dot
  BY DEF Listed
<1>2. PICK j \in Slots : Rec(g, j).name = DotDot
  BY DEF Listed
<1>3. PICK k \in Slots : Rec(g, k).name = to
  BY DEF Listed
<1>4. \A l \in Slots : Rec(g, l).name \in EntryNames => l \in 1..Mem(g).size
  BY <1>0, NothingInHand
<1>5. Mem(g).size \in Nat
  BY MemFacts DEF IsDir
<1>6. PICK n \in Nat : n = Mem(g).size
  BY <1>5
<1>7. n <= 2 /\ i \in 1..n /\ j \in 1..n /\ k \in 1..n /\ i # j
  BY <1>0, <1>1, <1>2, <1>3, <1>4, <1>6
<1>8. k = i \/ k = j
  BY <1>6, <1>7
<1> QED
  BY <1>1, <1>2, <1>3, <1>8

LEMMA CallbackTree ==
  ASSUME IInv, LInv, EInv, Callbacks, lost' = {}
  PROVE  Exact' /\ Unique' /\ Branches'
<1>1. PICK d \in Guids, nm \in Names :
        \/ azs_create(d, nm) \/ azs_mkdir(d, nm)
        \/ azs_unlink(d, nm) \/ azs_rmdir(d, nm)
        \/ \E e \in Guids, to \in Names : azs_rename(d, nm, e, to)
  BY Zenon DEF Callbacks
<1>2. CASE azs_create(d, nm)
  <2>1. PICK g : g = NewGuid
    OBVIOUS
  <2>2. /\ Starts({d}, {g}) /\ g \in Guids /\ ~There(g)
        /\ Todo' = {CreateFile(g, "reg"), AddEntry(d, nm, g)}
        /\ HereIsDir(d) /\ Nowhere(d, nm)
    BY <1>2, <2>1, CreateStarts
  <2>3. /\ Exact' /\ Unique' /\ Tree' /\ ~There(g)' /\ HereIs(d)'
        /\ Nowhere(d, nm)'
    BY <2>2, StartsTree DEF HereIsDir
  <2> QED
    BY <2>2, <2>3, CreateBegins
<1>3. CASE azs_mkdir(d, nm)
  <2>1. PICK g : g = NewGuid
    OBVIOUS
  <2>2. /\ Starts({d}, {g}) /\ g \in Guids /\ ~There(g)
        /\ Todo' = {CreateFile(g, "dir"), AddEntry(g, Dot, g),
                    AddEntry(g, DotDot, d), AddEntry(d, nm, g)}
        /\ HereIsDir(d) /\ Nowhere(d, nm)
    BY <1>3, <2>1, MkdirStarts
  <2>3. /\ Exact' /\ Unique' /\ Tree' /\ ~There(g)' /\ HereIs(d)'
        /\ Nowhere(d, nm)'
    BY <2>2, StartsTree DEF HereIsDir
  <2> QED
    BY <2>2, <2>3, MkdirBegins
<1>4. CASE azs_unlink(d, nm)
  <2>1. PICK g : g = Child(d, nm)
    OBVIOUS
  <2>2. /\ Starts({d}, Under(d, nm)) /\ g \in Guids
        /\ Todo' = {RmEntry(d, nm)}
        /\ HereIsFile(g) /\ Listed(d, nm, g)
    BY <1>4, <2>1, UnlinkStarts
  <2>3. Exact' /\ Unique' /\ Tree' /\ ~IsDir(g)' /\ Listed(d, nm, g)'
    BY <2>2, StartsTree DEF HereIsFile
  <2> QED
    BY <2>2, <2>3, UnlinkBegins
<1>5. CASE azs_rmdir(d, nm)
  <2>1. PICK g : g = Child(d, nm)
    OBVIOUS
  <2>2. PICK changed :
          /\ Starts({d, g}, changed) /\ g \in Guids
          /\ Todo' = {RmEntry(g, DotDot), RmEntry(g, Dot), RmEntry(d, nm)}
          /\ HereIsDir(g) /\ Listed(d, nm, g) /\ Mem(g).size <= 2
    BY <1>5, <2>1, RmdirStarts
  <2>3. /\ Exact' /\ Unique' /\ Tree' /\ Listed(d, nm, g)'
        /\ HereIsDir(g)' /\ IsDir(g)' /\ IsDir(g)
        /\ \A to, h : Listed(g, to, h)' <=> Listed(g, to, h)
    BY <2>2, StartsTree DEF HereIsDir
  <2>4. /\ Listed(g, Dot, g)' /\ \E p \in Guids : Listed(g, DotDot, p)'
    BY <2>2, <2>3 DEF Tree
  <2>5. Listed(g, Dot, g) /\ \E p \in Guids : Listed(g, DotDot, p)
    BY <2>3, <2>4
  <2>6. hand = NoHand
    BY <2>2 DEF Starts
  <2>7. \A to \in EntryNames, h \in Guids :
          Listed(g, to, h) => to = Dot \/ to = DotDot
    BY <2>2, <2>3, <2>5, <2>6, Smallest
  <2> QED
    BY <2>2, <2>3, <2>7, RmdirBegins
<1>6. ASSUME NEW e \in Guids, NEW to \in Names, azs_rename(d, nm, e, to)
      PROVE  Exact' /\ Unique' /\ Branches'
  <2>1. PICK g : g = Child(d, nm)
    OBVIOUS
  <2>2. /\ Starts({d, e}, Under(d, nm)) /\ g \in Guids
        /\ Todo' = {AddEntry(e, to, g), RmEntry(d, nm)}
        /\ HereIsDir(e) /\ HereIsFile(g) /\ Listed(d, nm, g) /\ Nowhere(e, to)
    BY <1>6, <2>1, RenameStarts
  <2>3. /\ Exact' /\ Unique' /\ Tree' /\ HereIs(e)' /\ HereIs(g)' /\ ~IsDir(g)'
        /\ Listed(d, nm, g)' /\ Nowhere(e, to)'
    BY <2>2, StartsTree DEF HereIsDir, HereIsFile
  <2> QED
    BY <2>2, <2>3, RenameBegins
<1> QED
  BY <1>1, <1>2, <1>3, <1>4, <1>5, <1>6

\* A process ends with no damage when nothing is under way.
LEMMA EndIdle ==
  ASSUME IInv, SInv, Unmount \/ Crash, lost' = {}
  PROVE  Todo = {} /\ Root' = Root
<1>1. /\ mounted /\ rootdir' = None /\ container' = container
      /\ Unmount => lost' = lost
      /\ Crash => lost' = lost \cup Outstanding
  BY EndEnds
<1>2. Todo = {}
  <2>1. CASE Unmount
    BY <2>1, EmptySeq DEF Unmount, Todo
  <2>2. CASE Crash
    BY <1>1, <2>2, OutstandingFacts
  <2> QED
    BY <2>1, <2>2
<1>3. container # None
  BY <1>1, <1>2, RootlessCall
<1> QED
  BY <1>1, <1>2, <1>3 DEF Root

LEMMA EndedBranches ==
  ASSUME IInv, SInv, LInv, EInv, Unmount \/ Crash, lost' = {}
  PROVE  Exact' /\ Unique' /\ Branches'
<1>1. Ended /\ call' = <<>>
  BY EndEnds
<1>2. lost = {} /\ Todo' = {}
  BY <1>1, EmptySeq DEF Ended, Todo
<1>3. Exact /\ Unique /\ Branches
  BY <1>2 DEF EInv
<1>4. Todo = {} /\ Root' = Root
  BY EndIdle
<1>5. Tree'
  BY <1>1, <1>2, <1>3, <1>4, TreeFacts, EndedTree
<1> QED
  BY <1>1, <1>2, <1>3, <1>5, EndedExact, BranchesOfTreeNext

LEMMA FirstMountBranches ==
  ASSUME IInv, SInv, FirstMount PROVE Exact' /\ Unique' /\ Branches'
<1>1. PICK g \in Guids :
        /\ rootdir' = g
        /\ call' = << CreateFile(g, "dir"), AddEntry(g, Dot, g),
                      AddEntry(g, DotDot, g), Update("container", g, JunkRecord) >>
  BY FirstMountBegun
<1>2. Begun /\ container' = None
  BY FirstMountBegun
<1>3. Todo' = {CreateFile(g, "dir"), AddEntry(g, Dot, g),
               AddEntry(g, DotDot, g), Update("container", g, JunkRecord)}
  BY <1>1, TodoLists
<1>4. Root' = g
  BY <1>1, <1>2 DEF Root
<1>5. /\ \A h \in Guids : ~There(h)'
      /\ \A h \in Guids, i \in Slots : Rec(h, i)' = JunkRecord
  BY <1>2 DEF Begun
<1> QED
  BY <1>3, <1>4, <1>5, FirstBegins DEF Exact

-----------------------------------------------------------------------------
\* The kinds of step.
LEMMA KeptBranches ==
  ASSUME IInv, LInv, RInv, EInv, lost = {}, Calm \/ Moves \/ Mounts
  PROVE  Exact' /\ Unique' /\ Branches'
<1>1. Exact /\ Unique /\ Branches
  BY DEF EInv
<1>2. CASE Calm
  <2>1. Quiet /\ Todo' = Todo /\ UNCHANGED <<rootdir, container, lost>>
    BY <1>2 DEF Calm, Process
  <2>2. Root' = Root
    BY <2>1 DEF Root
  <2>3. /\ \A d \in Guids : \A nm, g : Listed(d, nm, g)' <=> Listed(d, nm, g)
        /\ \A g \in Guids : Same(g)
    BY <2>1, SameListed DEF Quiet
  <2>4. Branches'
    BY <1>1, <2>1, <2>2, <2>3, SamePending, QuietBranches
  <2> QED
    BY <1>1, <2>1, <2>4, QuietExact, SameUnique DEF Quiet
<1>3. CASE Moves
  <2>1. PICK d \in Guids, i \in Slots, j \in Slots : Moved(d, i, j)
    BY <1>3 DEF Moves
  <2>2. Todo' = Todo /\ UNCHANGED <<rootdir, container, lost>>
    BY <1>3 DEF Moves, Process
  <2>3. Root' = Root /\ \A g \in Guids : Same(g)
    BY <2>1, <2>2 DEF Root, Moved
  <2>4. /\ Unique'
        /\ \A e \in Guids, nm \in EntryNames : \A g :
             Listed(e, nm, g)' <=> Listed(e, nm, g)
    BY <1>1, <2>1, MovedListed
  <2>5. Branches'
    BY <1>1, <2>2, <2>3, <2>4, SamePending, QuietBranches
  <2>6. Exact'
    BY <1>1, <2>1, <2>2, MovedExact
  <2> QED
    BY <2>4, <2>5, <2>6
<1>4. CASE Mounts
  <2>1. /\ Quiet /\ Todo = {} /\ Todo' = {} /\ lost' = lost
        /\ container' = container /\ container # None
    BY <1>4 DEF Mounts
  <2>2. Root' = Root
    BY <2>1 DEF Root
  <2>3. Tree'
    BY <1>1, <2>1, <2>2, TreeFacts, QuietTree
  <2> QED
    BY <1>1, <2>1, <2>3, QuietExact, SameUnique, BranchesOfTreeNext DEF Quiet
<1> QED
  BY <1>2, <1>3, <1>4

LEMMA RootsBranches ==
  ASSUME IInv, RInv, EInv, lost = {}, NEW u, Roots(u)
  PROVE  Exact' /\ Unique' /\ Branches'
<1>1. Exact /\ Unique /\ Branches
  BY DEF EInv
<1>2. /\ u \in Todo /\ Todo' \subseteq Todo /\ lost' = lost /\ Quiet /\ mounted
      /\ Left(u) /\ u.op = "container" /\ container' = rootdir /\ rootdir' = rootdir
  BY LeftFacts DEF Roots
<1>3. Root' = Root
  BY <1>2, RootTypes, TypeFacts DEF RInv, NamedOnce, Root
<1>4. /\ \A d \in Guids : \A nm, g : Listed(d, nm, g)' <=> Listed(d, nm, g)
      /\ \A g \in Guids : Same(g)
  BY <1>2, SameListed DEF Quiet
<1>5. /\ \A d, nm, g : Adding(d, nm, g)' <=> Adding(d, nm, g)
      /\ \A d, nm : Removing(d, nm)' <=> Removing(d, nm)
      /\ \A g : ~Making(g, Create)' /\ ~Making(g, {"dir"})'
  BY <1>2, LeftPending
<1>6. Branches'
  BY <1>1, <1>2, <1>3, <1>4, <1>5, QuietBranches
<1> QED
  BY <1>1, <1>2, <1>6, QuietExact, SameUnique DEF Quiet

LEMMA UpdateBranches ==
  ASSUME IInv, LInv, RInv, EInv, lost = {},
         \/ \E u : Creates(u) \/ RemovesNone(u)
         \/ \E u, i : i \in Slots /\ u.g \in Guids /\ Adds(u, i)
         \/ \E u, i, g : /\ i \in Slots /\ g \in Guids /\ u.g \in Guids
                         /\ Removes(u, i, g)
  PROVE  Exact' /\ Unique' /\ Branches'
<1>1. Exact /\ Unique /\ Branches
  BY DEF EInv
<1>2. ASSUME NEW u, Left(u), container' = container
      PROVE  Root' = Root /\ lost' = lost
  BY <1>2 DEF Left, Process, Root
<1>3. ASSUME NEW u, Creates(u) PROVE Exact' /\ Unique' /\ Branches'
  <2>1. Left(u) /\ container' = container /\ Made(u.g, u.op) /\ u.g \in Guids
    BY <1>3, LeftFacts DEF Creates
  <2>2. Root' = Root /\ lost' = lost /\ SameRecs
    BY <1>2, <2>1 DEF Made
  <2> QED
    BY <1>1, <1>3, <2>1, <2>2, CreatesBranches, MadeExact, SameUnique
<1>4. ASSUME NEW u, RemovesNone(u) PROVE Exact' /\ Unique' /\ Branches'
  <2>1. Left(u) /\ container' = container /\ Quiet
    BY <1>4 DEF RemovesNone
  <2>2. Root' = Root /\ lost' = lost /\ SameRecs
    BY <1>2, <2>1 DEF Quiet
  <2> QED
    BY <1>1, <1>4, <2>1, <2>2, RemovesNoneBranches, QuietExact, SameUnique
<1>5. ASSUME NEW u, NEW i \in Slots, u.g \in Guids, Adds(u, i)
      PROVE  Exact' /\ Unique' /\ Branches'
  <2>1. Left(u) /\ container' = container /\ Linked(u.g, i, u.rec)
    BY <1>5 DEF Adds
  <2>2. Root' = Root /\ lost' = lost
    BY <1>2, <2>1
  <2>3. Exact'
    BY <1>1, <1>5, <2>1, <2>2, LinkedExact
  <2> QED
    BY <1>1, <1>5, <2>2, <2>3, AddsBranches
<1>6. ASSUME NEW u, NEW i \in Slots, NEW g \in Guids, u.g \in Guids, Removes(u, i, g)
      PROVE  Exact' /\ Unique' /\ Branches'
  <2>1. Left(u) /\ container' = container /\ Unlinked(u.g, i, g)
    BY <1>6 DEF Removes
  <2>2. Root' = Root /\ lost' = lost
    BY <1>2, <2>1
  <2>3. Exact'
    BY <1>1, <1>6, <2>1, <2>2, UnlinkedExact
  <2> QED
    BY <1>1, <1>6, <2>2, <2>3, RemovesBranches
<1> QED
  BY <1>3, <1>4, <1>5, <1>6

LEMMA EInvStep == ASSUME IInv, SInv, LInv, RInv, EInv, [Next]_vars PROVE EInv'
<1> SUFFICES ASSUME lost' = {} PROVE Exact' /\ Unique' /\ Branches'
  BY DEF EInv
<1>1. \/ Calm \/ Moves \/ Mounts \/ Unmount \/ Crash \/ FirstMount
      \/ Callbacks
      \/ \E u : Creates(u) \/ Roots(u) \/ RemovesNone(u)
      \/ \E u, i : i \in Slots /\ u.g \in Guids /\ Adds(u, i)
      \/ \E u, i, g : /\ i \in Slots /\ g \in Guids /\ u.g \in Guids
                      /\ Removes(u, i, g)
  BY Kinds DEF LInv
<1>2. CASE Unmount \/ Crash
  BY <1>2, EndedBranches
<1>3. CASE FirstMount
  BY <1>3, FirstMountBranches
<1>4. CASE Callbacks
  BY <1>4, CallbackTree
<1>5. CASE Calm \/ Moves \/ Mounts
  <2>1. lost = {}
    BY <1>5 DEF Calm, Moves, Mounts, Process
  <2> QED
    BY <1>5, <2>1, KeptBranches
<1>6. ASSUME NEW u, Roots(u) PROVE Exact' /\ Unique' /\ Branches'
  <2>1. lost = {}
    BY <1>6 DEF Roots, Left, Process
  <2> QED
    BY <1>6, <2>1, RootsBranches
<1>7. CASE \/ \E u : Creates(u) \/ RemovesNone(u)
           \/ \E u, i : i \in Slots /\ u.g \in Guids /\ Adds(u, i)
           \/ \E u, i, g : /\ i \in Slots /\ g \in Guids /\ u.g \in Guids
                           /\ Removes(u, i, g)
  <2>1. \E u : Left(u)
    BY <1>7 DEF Creates, RemovesNone, Adds, Removes
  <2>2. lost = {}
    BY <2>1 DEF Left, Process
  <2> QED
    BY <1>7, <2>2, UpdateBranches
<1> QED
  BY <1>1, <1>2, <1>3, <1>4, <1>5, <1>6, <1>7

\* The tree that is stored at first is one.
LEMMA LinkFacts0 ==
  ASSUME NEW g
  PROVE  /\ \A d, i : <<d, i>> \in Links0(g) <=>
              /\ d \in DOMAIN Stored0 /\ i \in DOMAIN Stored0[d]
              /\ Stored0[d][i].g = g
         /\ \A e \in Links0(g) :
              \E d \in DOMAIN Stored0 : \E i \in DOMAIN Stored0[d] : e = <<d, i>>
<1>1. \A e \in Links0(g) : \E d \in DOMAIN Stored0 : e \in {d} \X DOMAIN Stored0[d]
  BY DEF Links0
<1>2. ASSUME NEW e \in Links0(g)
      PROVE  \E d \in DOMAIN Stored0 : \E i \in DOMAIN Stored0[d] : e = <<d, i>>
  <2>1. PICK d \in DOMAIN Stored0 : e \in {d} \X DOMAIN Stored0[d]
    BY <1>1
  <2>2. e = <<d, e[2]>> /\ e[2] \in DOMAIN Stored0[d]
    BY <2>1
  <2> QED
    BY <2>2
<1>3. ASSUME NEW d, NEW i, <<d, i>> \in Links0(g)
      PROVE  /\ d \in DOMAIN Stored0 /\ i \in DOMAIN Stored0[d]
             /\ Stored0[d][i].g = g
  <2>1. Stored0[<<d, i>>[1]][<<d, i>>[2]].g = g
    BY <1>3 DEF Links0
  <2> QED
    BY <1>2, <1>3, <2>1
<1>4. ASSUME NEW d \in DOMAIN Stored0, NEW i \in DOMAIN Stored0[d],
             Stored0[d][i].g = g
      PROVE  <<d, i>> \in Links0(g)
  <2>1. <<d, i>> \in UNION {{e} \X DOMAIN Stored0[e] : e \in DOMAIN Stored0}
    OBVIOUS
  <2> QED
    BY <1>4, <2>1 DEF Links0
<1> QED
  BY <1>2, <1>3, <1>4

LEMMA EInvInit == ASSUME Init PROVE EInv
<1>1. /\ rootdir = None /\ Todo = {} /\ lost = {} /\ container \in {None, Root0}
      /\ \A g \in Guids : There(g) <=> There0(g)
      /\ \A g \in Guids : There0(g) =>
           /\ Mem(g).kind = IF IsDir0(g) THEN "dir" ELSE "reg"
           /\ Mem(g).nlink = Cardinality(Links0(g)) /\ Mem(g).exist
      /\ \A d \in Guids, i \in Slots :
           Rec(d, i) = IF There0(d) /\ i \in DOMAIN Stored0[d]
                       THEN Stored0[d][i] ELSE JunkRecord
      /\ \A d \in DOMAIN Stored0 :
           /\ d \in Guids /\ DOMAIN Stored0[d] \subseteq Slots
           /\ \A i \in DOMAIN Stored0[d] : Stored0[d][i] \in Entries
  BY InitTree
<1>2. JunkRecord.name \notin EntryNames /\ Names \subseteq EntryNames
      /\ Dot \in EntryNames /\ DotDot \in EntryNames
  BY NameFacts
<1>3. Exact
  BY <1>1, InitLinks DEF Exact
<1>4. \A d \in DOMAIN Stored0 : \A i, j \in DOMAIN Stored0[d] :
        Stored0[d][i].name = Stored0[d][j].name => i = j
  BY VolumeAssumption DEF Tree0
<1>5. Unique
  <2> SUFFICES ASSUME NEW d \in Guids, NEW i \in Slots, NEW j \in Slots,
                      Rec(d, i).name \in EntryNames, Rec(d, i).name = Rec(d, j).name
               PROVE  i = j
    BY DEF Unique
  <2>1. /\ d \in DOMAIN Stored0 /\ i \in DOMAIN Stored0[d] /\ j \in DOMAIN Stored0[d]
        /\ Rec(d, i) = Stored0[d][i] /\ Rec(d, j) = Stored0[d][j]
    BY <1>1, <1>2 DEF There0
  <2> QED
    BY <1>4, <2>1
<1> DEFINE Named(d, i, nm, g) ==
             /\ d \in DOMAIN Stored0 /\ i \in DOMAIN Stored0[d]
             /\ Stored0[d][i].name = nm /\ Stored0[d][i].g = g
<1>6. \A d \in Guids, nm \in EntryNames : \A g :
        Listed(d, nm, g) <=> There0(d) /\ \E i : Named(d, i, nm, g)
  <2> SUFFICES ASSUME NEW d \in Guids, NEW nm \in EntryNames, NEW g
               PROVE  Listed(d, nm, g) <=> There0(d) /\ \E i : Named(d, i, nm, g)
    OBVIOUS
  <2>1. ASSUME NEW i \in Slots, Rec(d, i).name = nm, Rec(d, i).g = g
        PROVE  There0(d) /\ Named(d, i, nm, g)
    BY <1>1, <1>2, <2>1 DEF There0
  <2>2. ASSUME There0(d), NEW i, Named(d, i, nm, g)
        PROVE  i \in Slots /\ Rec(d, i).name = nm /\ Rec(d, i).g = g
    BY <1>1, <2>2
  <2> QED
    BY <2>1, <2>2 DEF Listed
<1>7. \A d, i, nm, g : Named(d, i, nm, g) =>
        /\ nm \in EntryNames /\ g \in DOMAIN Stored0 /\ g \in Guids
        /\ nm = Dot => g = d
        /\ nm = DotDot => IF d = Root0 THEN g = Root0
                          ELSE \E e \in Links0(d) :
                                 e[1] = g /\ Stored0[e[1]][e[2]].name \in Names
        /\ nm \in Names /\ IsDir0(g) =>
             \A e \in Links0(g) :
               Stored0[e[1]][e[2]].name \in Names => e = <<d, i>>
  <2> SUFFICES ASSUME NEW d \in DOMAIN Stored0, NEW i \in DOMAIN Stored0[d],
                      NEW r, r = Stored0[d][i]
               PROVE  /\ r.name \in EntryNames /\ r.g \in DOMAIN Stored0
                      /\ r.g \in Guids
                      /\ r.name = Dot => r.g = d
                      /\ r.name = DotDot =>
                           IF d = Root0 THEN r.g = Root0
                           ELSE \E e \in Links0(d) :
                                  e[1] = r.g /\ Stored0[e[1]][e[2]].name \in Names
                      /\ r.name \in Names /\ IsDir0(r.g) =>
                           \A e \in Links0(r.g) :
                             Stored0[e[1]][e[2]].name \in Names => e = <<d, i>>
    OBVIOUS
  <2>1. r \in Entries
    BY <1>1
  <2>2. r.name \in EntryNames /\ r.g \in Guids
    BY <2>1 DEF Entries
  <2> QED
    BY <2>2, VolumeAssumption DEF Tree0
<1>8. \A e, g : e \in Links0(g) /\ Stored0[e[1]][e[2]].name \in Names =>
        Named(e[1], e[2], Stored0[e[1]][e[2]].name, g)
  <2> SUFFICES ASSUME NEW g, NEW e \in Links0(g)
               PROVE  Named(e[1], e[2], Stored0[e[1]][e[2]].name, g)
    OBVIOUS
  <2>1. PICK d, i : e = <<d, i>>
    BY LinkFacts0
  <2> QED
    BY <2>1, LinkFacts0
<1>9. \A d, i, nm, g : Named(d, i, nm, g) => <<d, i>> \in Links0(g)
  BY LinkFacts0
<1>10. \A d, i, nm, e, j, to, g :
         /\ Named(d, i, nm, g) /\ Named(e, j, to, g) /\ nm \in Names /\ to \in Names
         /\ IsDir0(g)
         => d = e /\ nm = to
  <2> SUFFICES ASSUME NEW d, NEW i, NEW nm \in Names, NEW e, NEW j, NEW to \in Names,
                      NEW g, Named(d, i, nm, g), Named(e, j, to, g), IsDir0(g)
               PROVE  d = e /\ nm = to
    OBVIOUS
  <2>1. <<e, j>> \in Links0(g)
    BY <1>9
  <2>2. Stored0[<<e, j>>[1]][<<e, j>>[2]].name \in Names
    OBVIOUS
  <2>3. <<e, j>> = <<d, i>>
    BY <1>7, <2>1, <2>2
  <2>4. e = d /\ j = i
    BY <2>3
  <2> QED
    BY <2>4
<1>11. \A d \in DOMAIN Stored0 : IsDir0(d) =>
         (\E i, g : Named(d, i, Dot, g)) /\ (\E i, g : Named(d, i, DotDot, g))
  <2> SUFFICES ASSUME NEW d \in DOMAIN Stored0, IsDir0(d)
               PROVE  /\ \E i, g : Named(d, i, Dot, g)
                      /\ \E i, g : Named(d, i, DotDot, g)
    OBVIOUS
  <2>1. {Dot, DotDot} \subseteq {Stored0[d][i].name : i \in DOMAIN Stored0[d]}
    BY VolumeAssumption DEF Tree0
  <2>2. /\ \E i \in DOMAIN Stored0[d] : Stored0[d][i].name = Dot
        /\ \E i \in DOMAIN Stored0[d] : Stored0[d][i].name = DotDot
    BY <2>1
  <2> QED
    BY <2>2
<1>12. \A g \in DOMAIN Stored0 : g = Root0 \/
         \E d, i : \E nm \in Names : Named(d, i, nm, g)
  <2> SUFFICES ASSUME NEW g \in DOMAIN Stored0, g # Root0
               PROVE  \E d, i : \E nm \in Names : Named(d, i, nm, g)
    OBVIOUS
  <2>1. PICK e \in Links0(g) : Stored0[e[1]][e[2]].name \in Names
    BY VolumeAssumption DEF Tree0
  <2> QED
    BY <1>8, <2>1
<1>13. /\ \A g : There0(g) <=> container # None /\ g \in DOMAIN Stored0
       /\ \A g \in Guids : IsDir(g) <=> There0(g) /\ IsDir0(g)
       /\ \A g \in Guids : HereIs(g) <=> There0(g)
       /\ container # None => Root = Root0
       /\ \A d, i, nm, g : Named(d, i, nm, g) => d \in Guids /\ d \in DOMAIN Stored0
  BY <1>1 DEF There0, IsDir, HereIs, Root
<1> HIDE DEF Named
<1>14. \A d, g \in Guids : Listed(d, Dot, g) => g = d
  BY <1>2, <1>6, <1>7
<1>15. \A d, e, g \in Guids, nm, to \in Names :
         Listed(d, nm, g) /\ Listed(e, to, g) /\ IsDir(g) => d = e /\ nm = to
  <2> SUFFICES ASSUME NEW d \in Guids, NEW e \in Guids, NEW g \in Guids,
                      NEW nm \in Names, NEW to \in Names,
                      Listed(d, nm, g), Listed(e, to, g), IsDir(g)
               PROVE  d = e /\ nm = to
    OBVIOUS
  <2>1. PICK i : Named(d, i, nm, g)
    BY <1>2, <1>6
  <2>2. PICK j : Named(e, j, to, g)
    BY <1>2, <1>6
  <2> QED
    BY <1>10, <1>13, <2>1, <2>2
<1>16. \A g, p \in Guids : Listed(g, DotDot, p) =>
         (g = Root /\ p = Root) \/ \E nm \in Names : Listed(p, nm, g)
  <2> SUFFICES ASSUME NEW g \in Guids, NEW p \in Guids, Listed(g, DotDot, p)
               PROVE  (g = Root /\ p = Root) \/ \E nm \in Names : Listed(p, nm, g)
    OBVIOUS
  <2>1. PICK i : There0(g) /\ Named(g, i, DotDot, p)
    BY <1>2, <1>6
  <2>2. CASE g = Root0
    BY <1>7, <1>13, <2>1, <2>2
  <2>3. CASE g # Root0
    <3>1. PICK e \in Links0(g) : e[1] = p /\ Stored0[e[1]][e[2]].name \in Names
      BY <1>7, <2>1, <2>3
    <3>2. PICK nm \in Names : nm = Stored0[e[1]][e[2]].name
      BY <3>1
    <3>3. Named(p, e[2], nm, g)
      BY <1>8, <3>1, <3>2
    <3>4. Listed(p, nm, g)
      BY <1>2, <1>6, <1>13, <2>1, <3>3
    <3> QED
      BY <3>4
  <2> QED
    BY <2>2, <2>3
<1>17. \A d \in Guids : HereIsDir(d) =>
         Listed(d, Dot, d) /\ \E p \in Guids : Listed(d, DotDot, p)
  <2> SUFFICES ASSUME NEW d \in Guids, HereIsDir(d)
               PROVE  Listed(d, Dot, d) /\ \E p \in Guids : Listed(d, DotDot, p)
    OBVIOUS
  <2>1. There0(d) /\ d \in DOMAIN Stored0 /\ IsDir0(d)
    BY <1>13 DEF HereIsDir
  <2>2. PICK i, g : Named(d, i, Dot, g)
    BY <1>11, <2>1
  <2>3. PICK j, p : Named(d, j, DotDot, p)
    BY <1>11, <2>1
  <2> QED
    BY <1>2, <1>6, <1>7, <2>1, <2>2, <2>3
<1>18. \A d, g \in Guids, nm \in EntryNames : Listed(d, nm, g) => HereIs(d) /\ HereIs(g)
  BY <1>6, <1>7, <1>13
<1>19. \A g \in Guids : HereIs(g) =>
         g = Root \/ \E d \in Guids, nm \in Names : Listed(d, nm, g)
  <2> SUFFICES ASSUME NEW g \in Guids, HereIs(g), g # Root
               PROVE  \E d \in Guids, nm \in Names : Listed(d, nm, g)
    OBVIOUS
  <2>1. There0(g) /\ g \in DOMAIN Stored0 /\ g # Root0
    BY <1>13
  <2>2. PICK d, i, nm : nm \in Names /\ Named(d, i, nm, g)
    BY <1>12, <2>1
  <2> QED
    BY <1>2, <1>6, <1>13, <2>1, <2>2
<1>20. Tree
  BY <1>14, <1>15, <1>16, <1>17, <1>18, <1>19 DEF Tree
<1> QED
  BY <1>1, <1>3, <1>5, <1>20, BranchesOfTree DEF EInv

-----------------------------------------------------------------------------
\* What the next mount finds.
LEMMA StoredMem ==
  ASSUME IInv, ~mounted
  PROVE  /\ hand = NoHand /\ task = NoTask /\ Todo = {}
         /\ \A g \in Guids : There(g) <=> Loadable(g)
         /\ \A g \in Guids : There(g) =>
              /\ Mem(g).kind = meta[g].kind /\ Mem(g).nlink = meta[g].nlink
              /\ Mem(g).exist /\ Mem(g).size = meta[g].size
              /\ Mem(g).recs = data[g]
         /\ \A d \in Guids : d \in StoredDirs <=> IsDir(d)
<1>1. hand = NoHand /\ task = NoTask /\ call = <<>>
  BY DEF IInv, Forgotten
<1>2. Todo = {}
  BY <1>1, EmptySeq DEF Todo
<1>3. ASSUME NEW g \in Guids
      PROVE  /\ There(g) <=> Loadable(g)
             /\ There(g) =>
                  /\ Mem(g).kind = meta[g].kind /\ Mem(g).nlink = meta[g].nlink
                  /\ Mem(g).exist /\ Mem(g).size = meta[g].size
                  /\ Mem(g).recs = data[g]
  <2>1. /\ Loaded(g) # None => Loadable(g)
        /\ Loadable(g) =>
             /\ Loaded(g) # None /\ Loaded(g).kind = meta[g].kind
             /\ Loaded(g).nlink = meta[g].nlink /\ Loaded(g).exist = TRUE
             /\ Loaded(g).size = meta[g].size /\ Loaded(g).recs = data[g]
    BY LoadedFacts
  <2>2. Mem(g) = Loaded(g)
    BY DEF Mem
  <2> QED
    BY <2>1, <2>2 DEF There
<1>4. \A d \in Guids : d \in StoredDirs <=> IsDir(d)
  BY <1>3 DEF StoredDirs, IsDir
<1> QED
  BY <1>1, <1>2, <1>3, <1>4

LEMMA StoredRecs ==
  ASSUME IInv, LInv, ~mounted, NEW d \in Guids \ lost, IsDir(d)
  PROVE  /\ \A i \in StoredEntries(d) :
              i \in Slots /\ data[d][i] = Rec(d, i) /\ Rec(d, i).g # None
         /\ \A i \in Slots : Rec(d, i).g # None => i \in StoredEntries(d)
<1>1. /\ hand = NoHand /\ There(d) /\ Loadable(d)
      /\ Mem(d).size = meta[d].size /\ Mem(d).recs = data[d]
  BY StoredMem DEF IsDir
<1>2. StoredEntries(d) = 1..Mem(d).size /\ Mem(d).size \in Nat
  BY <1>1, MemFacts DEF StoredEntries
<1>3. JunkRecord.g = None
  BY NameFacts
<1>4. ASSUME NEW i \in StoredEntries(d)
      PROVE  i \in Slots /\ data[d][i] = Rec(d, i) /\ Rec(d, i).g # None
  <2>1. i \in Slots /\ i \in 1..Mem(d).size
    BY <1>2, <1>4 DEF Slots
  <2>2. Rec(d, i).g # None
    BY <1>1, <2>1, NothingInHand DEF LInv, Linking, NoGap, Full
  <2> QED
    BY <1>1, <1>3, <2>1, <2>2, NothingInHand
<1>5. ASSUME NEW i \in Slots, Rec(d, i).g # None PROVE i \in StoredEntries(d)
  BY <1>1, <1>2, <1>3, <1>5, NothingInHand
<1> QED
  BY <1>4, <1>5

LEMMA StoredLinks ==
  ASSUME IInv, LInv, ~mounted, NEW g \in Guids
  PROVE  Naming(g, StoredDirs \ lost) = Links(g)
<1>0. g # None
  BY TypeFacts
<1> DEFINE Pairs == UNION {{d} \X StoredEntries(d) : d \in StoredDirs \ lost}
<1>1. ASSUME NEW e \in Naming(g, StoredDirs \ lost) PROVE e \in Links(g)
  <2>1. e \in Pairs /\ data[e[1]][e[2]].g = g
    BY <1>1 DEF Naming
  <2>2. PICK d \in StoredDirs \ lost : e \in {d} \X StoredEntries(d)
    BY <2>1
  <2>3. PICK i \in StoredEntries(d) : e = <<d, i>>
    BY <2>2
  <2>4. d \in Guids \ lost /\ IsDir(d)
    BY StoredMem DEF StoredDirs
  <2>5. i \in Slots /\ Rec(d, i).g = g
    BY <2>1, <2>3, <2>4, StoredRecs
  <2> QED
    BY <2>3, <2>4, <2>5, LinkFacts
<1>2. ASSUME NEW e \in Links(g) PROVE e \in Naming(g, StoredDirs \ lost)
  <2>1. PICK d \in Guids \ lost, i \in Slots : e = <<d, i>>
    BY LinkFacts
  <2>2. Rec(d, i).g = g
    BY <2>1, LinkFacts
  <2>3. IsDir(d) /\ d \in StoredDirs \ lost
    BY <1>0, <2>2, MemFacts, StoredMem
  <2>4. i \in StoredEntries(d) /\ data[d][i] = Rec(d, i)
    BY <1>0, <2>2, <2>3, StoredRecs
  <2>5. e \in Pairs
    BY <2>1, <2>3, <2>4
  <2>6. data[e[1]][e[2]].g = g
    BY <2>1, <2>2, <2>4
  <2> QED
    BY <2>5, <2>6 DEF Naming
<1> QED
  BY <1>1, <1>2

LEMMA LocalDamage == ASSUME IInv, LInv, EInv PROVE DamageIsLocal
<1> SUFFICES ASSUME ~mounted PROVE DamageIsLocal
  BY DEF DamageIsLocal
<1>1. ASSUME NEW d \in StoredDirs \ lost, NEW i \in StoredEntries(d),
             NEW g, g = data[d][i].g
      PROVE  g # None /\ (Loadable(g) \/ g \in lost)
  <2>1. d \in Guids \ lost /\ IsDir(d)
    BY StoredMem DEF StoredDirs
  <2>2. i \in Slots /\ g = Rec(d, i).g /\ g # None
    BY <1>1, <2>1, StoredRecs
  <2>3. g \in Guids /\ (g \in lost \/ There(g))
    BY <2>1, <2>2, MemFacts DEF LInv, Linking, Leading
  <2> QED
    BY <2>2, <2>3, StoredMem
<1>2. ASSUME NEW g \in Guids \ lost, Loadable(g)
      PROVE  /\ Cardinality(Naming(g, StoredDirs \ lost)) <= meta[g].nlink
             /\ lost = {} => Cardinality(Naming(g, StoredDirs)) = meta[g].nlink
  <2>1. There(g) /\ Mem(g).nlink = meta[g].nlink
    BY <1>2, StoredMem
  <2>2. Naming(g, StoredDirs \ lost) = Links(g)
    BY StoredLinks
  <2>3. Cardinality(Links(g)) <= Mem(g).nlink
    BY <2>1 DEF LInv, Linking, Counts
  <2>4. ASSUME lost = {} PROVE Cardinality(Naming(g, StoredDirs)) = meta[g].nlink
    <3>1. StoredDirs \ lost = StoredDirs
      BY <2>4
    <3>2. Cardinality(Links(g)) = Mem(g).nlink
      BY <2>1, <2>4 DEF EInv, Exact
    <3> QED
      BY <2>1, <2>2, <3>1, <3>2
  <2> QED
    BY <2>1, <2>2, <2>3, <2>4
<1> QED
  BY <1>1, <1>2 DEF DamageIsLocal

LEMMA NoneLeft == ASSUME IInv, SInv, LInv, RInv, EInv PROVE NothingLeft
<1> SUFFICES ASSUME ~mounted, lost = {}, NEW g \in Guids, data[g] # None
             PROVE  /\ Loadable(g)
                    /\ \/ g = container
                       \/ \E e \in Naming(g, StoredDirs) :
                            data[e[1]][e[2]].name \in Names
  BY DEF NothingLeft
<1>1. Todo = {} /\ task = NoTask
  BY StoredMem
<1>2. Loadable(g)
  <2>1. g # task.g
    BY <1>1, TypeFacts DEF NoTask
  <2> QED
    BY <2>1 DEF SInv, Synced, Half, Loadable
<1>3. HereIs(g)
  BY <1>2, StoredMem DEF HereIs
<1>4. Root = container
  BY DEF SInv, Rootless, Root
<1>5. Tree
  BY <1>1, TreeFacts DEF EInv
<1>6. ASSUME g # container
      PROVE  \E e \in Naming(g, StoredDirs) : data[e[1]][e[2]].name \in Names
  <2>1. PICK d \in Guids, nm \in Names : Listed(d, nm, g)
    BY <1>3, <1>4, <1>5, <1>6 DEF Tree
  <2>2. PICK i \in Slots : Rec(d, i).name = nm /\ Rec(d, i).g = g
    BY <2>1 DEF Listed
  <2>3. <<d, i>> \in Links(g) /\ Rec(d, i).g # None
    BY <2>2, LinkFacts, TypeFacts
  <2>4. StoredDirs \ lost = StoredDirs
    OBVIOUS
  <2>5. <<d, i>> \in Naming(g, StoredDirs)
    BY <2>3, <2>4, StoredLinks
  <2>6. IsDir(d)
    BY <2>3, MemFacts
  <2>7. data[d][i] = Rec(d, i)
    BY <2>3, <2>6, StoredRecs
  <2>8. data[<<d, i>>[1]][<<d, i>>[2]].name \in Names
    BY <2>2, <2>7
  <2> QED
    BY <2>5, <2>8
<1> QED
  BY <1>2, <1>6

\* The names and links of the whole tree, as long as no crash has damaged it:
\* each file has the links it counts, each directory its own two entries and
\* one name, and whatever has no link has no entries.
THEOREM WholeTree == Spec => []EInv
<1>1. Init => SafeInv /\ EInv
  BY InitInv, SInvInit, LInvInit, RInvInit, EInvInit DEF SafeInv
<1>2. SafeInv /\ EInv /\ [Next]_vars => (SafeInv /\ EInv)'
  BY StepInv, SInvStep, LInvStep, RInvStep, EInvStep DEF SafeInv
<1> QED
  BY <1>1, <1>2, PTL DEF Spec

\* What a crash leaves in storage is damaged only where it interrupted a change:
\* everywhere else entries lead to files and counts are never too small, and
\* with no such damage every count is right.
THEOREM DamageStaysLocal == Spec => []DamageIsLocal
<1>1. SafeInv /\ EInv => DamageIsLocal
  BY LocalDamage DEF SafeInv
<1> QED
  BY <1>1, Safe, WholeTree, PTL

\* Uploader::stop and the uploads before it: without a crash every blob that is
\* left in the container can be loaded and has a name that leads to it.
THEOREM NothingLeftBehind == Spec => []NothingLeft
<1>1. SafeInv /\ EInv => NothingLeft
  BY NoneLeft DEF SafeInv
<1> QED
  BY <1>1, Safe, WholeTree, PTL
===============================================================================
