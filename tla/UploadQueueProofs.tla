--------------------------- MODULE UploadQueueProofs ---------------------------
(***************************************************************************)
(* Proofs about UploadQueue, for any files, clients, bounds and failures:  *)
(* types and the queue's order first, then what is saved and deleted, and  *)
(* at the end that UploadQueue implements WriteBack.                       *)
(***************************************************************************)
EXTENDS UploadQueue, TLAPS

\* The helpers that only pass UNCHANGED on, unfolded everywhere.
USE DEF vars, fileVars, loopVars, taskVars

\* run_upload looks at the front of the queue, starts the task and pops the
\* front later; in between, only the callbacks touch the queue, at its end.
FrontIsItem ==
  upc = "launched" => upload_queue # <<>> /\ upload_queue[1] = item

\* What the queue's two operations do to its length and its elements.
LEMMA AppendFacts ==
  ASSUME NEW S, NEW q \in Seq(S), NEW e \in S
  PROVE  /\ Append(q, e) \in Seq(S)
         /\ Append(q, e) # <<>>
         /\ Len(q) \in Nat
         /\ Len(Append(q, e)) = Len(q) + 1
         /\ Append(q, e)[Len(q) + 1] = e
         /\ \A i \in 1..Len(q) : Append(q, e)[i] = q[i]
  OBVIOUS

LEMMA TailFacts ==
  ASSUME NEW S, NEW q \in Seq(S), q # <<>>
  PROVE  /\ Tail(q) \in Seq(S)
         /\ Len(q) \in Nat \ {0}
         /\ Len(Tail(q)) = Len(q) - 1
         /\ \A i \in 1..(Len(q) - 1) : Tail(q)[i] = q[i + 1]
  OBVIOUS

\* Each step of the specification keeps the types.
LEMMA TypeStep ==
  ASSUME TypeOK, FrontIsItem, [Next]_vars
  PROVE  TypeOK'
<1> USE UploadQueueAssumption DEF TypeOK, FileStatus
<1>1. ASSUME NEW f \in Files, Create(f) PROVE TypeOK'
  BY <1>1 DEF Create
<1>2. ASSUME NEW f \in Files, Load(f) PROVE TypeOK'
  <2>1. PICK s \in RawStatus : status' = [status EXCEPT ![f] = s]
    BY <1>2 DEF Load
  <2>2. status' \in [Files -> FileStatus]
    BY <2>1
  <2>3. PICK e \in RawExist : m_exist' = [m_exist EXCEPT ![f] = e]
    BY <1>2 DEF Load
  <2>4. m_exist' \in [Files -> BOOLEAN]
    <3>1. e \in BOOLEAN /\ m_exist \in [Files -> BOOLEAN]
      OBVIOUS
    <3> QED
      BY <2>3, <3>1, Zenon
  <2> QED
    BY <1>2, <2>2, <2>4 DEF Load
<1>3. ASSUME NEW c \in Clients, NEW f \in Files, NEW d \in {-1, 0, 1},
             Update(c, f, d)
      PROVE TypeOK'
  <2>1. nlink[f] + d \in Nat
    BY <1>3 DEF Update, MayLink
  <2>2. nlink' \in [Files -> Nat]
    BY <1>3, <2>1 DEF Update
  <2>3. ver[f] + 1 \in 1..MaxVer
    BY <1>3 DEF Update
  <2>4. ver' \in [Files -> 1..MaxVer]
    BY <1>3, <2>3 DEF Update
  <2>5. m_exist' \in [Files -> BOOLEAN]
    <3> DEFINE e == m_exist[f] /\ ~(d = -1 /\ nlink[f] + d <= 0)
    <3>1. m_exist' = [m_exist EXCEPT ![f] = e] /\ e \in BOOLEAN
      BY <1>3 DEF Update
    <3> HIDE DEF e
    <3> QED
      BY <3>1
  <2>6. status' \in [Files -> FileStatus]
    <3>1. status' = status \/ status' = [status EXCEPT ![f] = "Dirty"]
      BY <1>3 DEF Update
    <3>2. status \in [Files -> FileStatus] /\ "Dirty" \in FileStatus
      OBVIOUS
    <3> HIDE DEF TypeOK, FileStatus
    <3> QED
      BY <3>1, <3>2
  <2>7. m_mutex' \in [Files -> Clients \cup {NoOne}]
    <3>1. m_mutex' = m_mutex \/ m_mutex' = [m_mutex EXCEPT ![f] = c]
      BY <1>3 DEF Update
    <3>2. m_mutex \in [Files -> Clients \cup {NoOne}]
      OBVIOUS
    <3> HIDE DEF TypeOK, FileStatus
    <3> QED
      BY <3>1, <3>2
  <2> QED
    BY <1>3, <2>2, <2>4, <2>5, <2>6, <2>7 DEF Update
<1>4. ASSUME NEW c \in Clients, NEW f \in Files, Enqueue(c, f) PROVE TypeOK'
  BY <1>4 DEF Enqueue
<1>5. CASE Launch
  BY <1>5 DEF Launch
<1>6. CASE Pop
  <2>1. upload_queue' \in Seq(Files)
    <3>1. upload_queue \in Seq(Files) /\ upload_queue # <<>>
      BY <1>6 DEF Pop, FrontIsItem
    <3>2. Tail(upload_queue) \in Seq(Files)
      BY <3>1, TailFacts
    <3> QED
      BY <1>6, <3>2 DEF Pop
  <2> QED
    BY <1>6, <2>1 DEF Pop
<1>7. CASE Join
  BY <1>7 DEF Join
<1>8. CASE Exit
  BY <1>8 DEF Exit
<1>9. CASE TakeSnapshot
  BY <1>9 DEF TakeSnapshot
<1>10. CASE CheckExist
  BY <1>10 DEF CheckExist
<1>11. CASE DeleteBlob
  BY <1>11 DEF DeleteBlob, Succeed, Absent
<1>12. CASE CommitBlocks
  <2>1. Committed \in -1..MaxVer
    BY DEF Committed, Absent, Bare
  <2> QED
    BY <1>12, <2>1 DEF CommitBlocks, Succeed
<1>13. CASE PutMetadata
  BY <1>13 DEF PutMetadata, Succeed
<1>14. CASE RequestFails
  <2>1. Committed \in -1..MaxVer
    BY DEF Committed, Absent, Bare
  <2>2. ASSUME NEW v \in -1..MaxVer, Throw(v) PROVE TypeOK'
    <3>1. blobver' \in [Files -> -1..MaxVer]
      <4>1. blobver' = blobver \/ blobver' = [blobver EXCEPT ![item] = v]
        BY <2>2 DEF Throw
      <4>2. blobver \in [Files -> -1..MaxVer]
        OBVIOUS
      <4> HIDE DEF TypeOK, FileStatus
      <4> QED
        BY <4>1, <4>2
    <3> QED
      BY <2>2, <3>1 DEF Throw
  <2>3. Absent \in -1..MaxVer /\ snapver \in -1..MaxVer
    BY DEF Absent
  <2> HIDE DEF TypeOK
  <2> QED
    BY <1>14, <2>1, <2>2, <2>3 DEF RequestFails
<1>15. CASE Restore
  BY <1>15 DEF Restore
<1>16. CASE StopStep
  BY <1>16 DEF StopStep, StopFlag, StopWait, SpuriousWake
<1>17. CASE UNCHANGED vars
  BY <1>17
<1> HIDE DEF TypeOK, FileStatus, vars
<1> QED
  BY <1>1, <1>2, <1>3, <1>4, <1>5, <1>6, <1>7, <1>8, <1>9, <1>10, <1>11,
     <1>12, <1>13, <1>14, <1>15, <1>16, <1>17
  DEF Next, ClientStep, LoopStep, TaskStep

\* Each step keeps FrontIsItem: Append leaves the front of a queue that is not
\* empty, and Launch is the only way to "launched".
LEMMA FrontStep ==
  ASSUME TypeOK, FrontIsItem, [Next]_vars
  PROVE  FrontIsItem'
<1> USE DEF TypeOK, FrontIsItem
<1>1. ASSUME NEW f \in Files, upload_queue' = Append(upload_queue, f),
             UNCHANGED <<upc, item>>
      PROVE  FrontIsItem'
  <2> SUFFICES ASSUME upc' = "launched"
               PROVE  upload_queue' # <<>> /\ upload_queue'[1] = item'
    OBVIOUS
  <2>1. upload_queue \in Seq(Files) /\ upload_queue # <<>>
    BY <1>1
  <2>2. upload_queue'[1] = upload_queue[1]
    <3>1. 1 \in 1..Len(upload_queue)
      BY <2>1, TailFacts
    <3> QED
      BY <1>1, <2>1, <3>1, AppendFacts
  <2>3. upload_queue' # <<>>
    <3> HIDE DEF FrontIsItem, TypeOK
    <3> QED
      BY <1>1, <2>1, AppendFacts
  <2>4. upload_queue[1] = item /\ item' = item
    BY <1>1
  <2> QED
    BY <2>2, <2>3, <2>4
<1>2. CASE Launch
  BY <1>2 DEF Launch
<1>3. CASE UNCHANGED <<upload_queue, upc, item>>
  BY <1>3
<1>4. CASE upc' # "launched"
  BY <1>4
<1> HIDE DEF FrontIsItem, TypeOK
<1>5. CASE ClientStep
  BY <1>5, <1>1, <1>3 DEF ClientStep, Create, Load, Update, Enqueue
<1>6. CASE LoopStep
  BY <1>6, <1>2, <1>4 DEF LoopStep, Pop, Join, Exit
<1>7. CASE TaskStep
  BY <1>7, <1>3 DEF TaskStep, TakeSnapshot, CheckExist, DeleteBlob,
     CommitBlocks, PutMetadata, RequestFails, Restore, Succeed, Throw
<1>8. CASE StopStep
  BY <1>8, <1>3 DEF StopStep, StopFlag, StopWait, SpuriousWake
<1> QED
  BY <1>3, <1>5, <1>6, <1>7, <1>8 DEF Next

\* The variables keep to their types: no path through the handlers returns a
\* code but -1, 0 and 1, no link count goes below zero, and run_upload pops
\* from no empty queue.
THEOREM TypeCorrect == Spec => [](TypeOK /\ FrontIsItem)
<1>1. Init => TypeOK /\ FrontIsItem
  BY UploadQueueAssumption
  DEF Init, TypeOK, FrontIsItem, FileStatus, Absent
<1>2. TypeOK /\ FrontIsItem /\ [Next]_vars => (TypeOK /\ FrontIsItem)'
  BY TypeStep, FrontStep
<1> QED
  BY <1>1, <1>2, PTL DEF Spec

-----------------------------------------------------------------------------
(***************************************************************************)
(* The queue as run_upload will see it: without the front element while it *)
(* is the one the running task was started for.                            *)
(***************************************************************************)
InRest(f) ==
  \E i \in 1..Len(upload_queue) :
    upload_queue[i] = f /\ (upc = "launched" => i # 1)

\* An append puts its element into the rest and loses none.
LEMMA RestAppend ==
  ASSUME TypeOK, FrontIsItem, NEW x \in Files,
         upload_queue' = Append(upload_queue, x),
         upc' = upc \/ upc' # "launched"
  PROVE  InRest(x)' /\ \A f \in Files : InRest(f) => InRest(f)'
<1>1. upload_queue \in Seq(Files)
  BY DEF TypeOK
<1>2. /\ Len(upload_queue) \in Nat
      /\ Len(upload_queue') = Len(upload_queue) + 1
      /\ upload_queue'[Len(upload_queue) + 1] = x
      /\ \A i \in 1..Len(upload_queue) : upload_queue'[i] = upload_queue[i]
  BY <1>1, AppendFacts
<1>3. upc' = "launched" => Len(upload_queue) # 0
  BY <1>1, TailFacts DEF FrontIsItem
<1>4. InRest(x)'
  BY <1>2, <1>3 DEF InRest
<1>5. ASSUME NEW f \in Files, InRest(f) PROVE InRest(f)'
  <2>1. PICK i \in 1..Len(upload_queue) :
          upload_queue[i] = f /\ (upc = "launched" => i # 1)
    BY <1>5 DEF InRest
  <2>2. i \in 1..Len(upload_queue') /\ upload_queue'[i] = f
    BY <1>2, <2>1
  <2> QED
    BY <2>1, <2>2 DEF InRest
<1> QED
  BY <1>4, <1>5

\* No step loses an element of the rest, but that Launch turns the front into
\* the task's file.
LEMMA RestStep ==
  ASSUME TypeOK, FrontIsItem, [Next]_vars
  PROVE  \A f \in Files :
           InRest(f) => InRest(f)' \/ (tpc' = "snap" /\ item' = f)
<1> SUFFICES ASSUME NEW f \in Files, InRest(f)
             PROVE  InRest(f)' \/ (tpc' = "snap" /\ item' = f)
  OBVIOUS
<1>0. upload_queue \in Seq(Files)
  BY DEF TypeOK
<1>1. ASSUME NEW x \in Files, upload_queue' = Append(upload_queue, x),
             upc' = upc \/ upc' # "launched"
      PROVE  InRest(f)'
  BY <1>1, RestAppend
<1>2. CASE upload_queue' = upload_queue /\ (upc' = upc \/ upc' # "launched")
  BY <1>2 DEF InRest
<1>3. CASE Launch
  <2>1. PICK i \in 1..Len(upload_queue) : upload_queue[i] = f
    BY DEF InRest
  <2>2. CASE i = 1
    <3>1. Head(upload_queue) = f
      BY <1>0, <2>1, <2>2
    <3> QED
      BY <1>3, <3>1 DEF Launch
  <2>3. CASE i # 1
    BY <1>3, <2>1, <2>3 DEF Launch, InRest
  <2> QED
    BY <2>2, <2>3
<1>4. CASE Pop
  <2>1. upload_queue # <<>> /\ upc = "launched" /\ upc' = "joining"
    BY <1>4 DEF Pop, FrontIsItem
  <2>2. /\ Len(upload_queue) \in Nat \ {0}
        /\ Len(upload_queue') = Len(upload_queue) - 1
        /\ \A i \in 1..(Len(upload_queue) - 1) :
             upload_queue'[i] = upload_queue[i + 1]
    BY <1>0, <1>4, <2>1, TailFacts DEF Pop
  <2>3. PICK i \in 1..Len(upload_queue) : upload_queue[i] = f /\ i # 1
    BY <2>1 DEF InRest
  <2>4. i - 1 \in 1..Len(upload_queue') /\ upload_queue'[i - 1] = f
    BY <2>2, <2>3
  <2> QED
    BY <2>1, <2>4 DEF InRest
<1>5. item \in Files
  BY DEF TypeOK
<1>6. CASE ClientStep
  BY <1>6, <1>1, <1>2 DEF ClientStep, Create, Load, Update, Enqueue
<1>7. CASE LoopStep
  BY <1>7, <1>1, <1>2, <1>3, <1>4, <1>5 DEF LoopStep, Join, Exit
<1>8. CASE TaskStep
  BY <1>8, <1>2 DEF TaskStep, TakeSnapshot, CheckExist, DeleteBlob,
     CommitBlocks, PutMetadata, RequestFails, Restore, Succeed, Throw
<1>9. CASE StopStep
  BY <1>9, <1>2 DEF StopStep, StopFlag, StopWait, SpuriousWake
<1>10. CASE UNCHANGED vars
  BY <1>10, <1>2
<1> QED
  BY <1>6, <1>7, <1>8, <1>9, <1>10 DEF Next

-----------------------------------------------------------------------------
(***************************************************************************)
(* DirtyIsQueued.  A Dirty file is in the rest of the queue, or its client *)
(* is on its way to add_to_wait, or the running task has yet to snapshot   *)
(* it.  The front element does not count: Pop is about to take it away.    *)
(***************************************************************************)
DirtyTracked ==
  \A f \in Files :
    status[f] = "Dirty" =>
      \/ InRest(f)
      \/ m_mutex[f] # NoOne
      \/ tpc = "snap" /\ item = f

\* A task runs exactly while run_upload is between Launch and Join.
LoopTask == (upc \in {"poll", "exited"}) <=> (tpc = "none")

LEMMA LoopTaskStep ==
  ASSUME TypeOK, LoopTask, [Next]_vars
  PROVE  LoopTask'
<1> USE DEF LoopTask
<1>1. CASE UNCHANGED <<upc, tpc>>
  BY <1>1
<1>2. CASE ClientStep
  BY <1>1, <1>2 DEF ClientStep, Create, Load, Update, Enqueue
<1>3. CASE LoopStep
  BY <1>3 DEF LoopStep, Launch, Pop, Join, Exit
<1>4. CASE TaskStep
  BY <1>4 DEF TaskStep, TakeSnapshot, CheckExist, DeleteBlob,
     CommitBlocks, PutMetadata, RequestFails, Restore, Succeed, Throw
<1>5. CASE StopStep
  BY <1>1, <1>5 DEF StopStep, StopFlag, StopWait, SpuriousWake
<1> QED
  BY <1>1, <1>2, <1>3, <1>4, <1>5 DEF Next

LEMMA DirtyStep ==
  ASSUME "Dirty" \notin RawStatus,
         TypeOK, FrontIsItem, LoopTask, DirtyTracked, [Next]_vars
  PROVE  DirtyTracked'
<1> SUFFICES ASSUME NEW f \in Files, status'[f] = "Dirty"
             PROVE  \/ InRest(f)'
                    \/ m_mutex'[f] # NoOne
                    \/ tpc' = "snap" /\ item' = f
  BY DEF DirtyTracked
<1> DEFINE Tracked == \/ InRest(f)
                      \/ m_mutex[f] # NoOne
                      \/ tpc = "snap" /\ item = f
<1>1. InRest(f) => InRest(f)' \/ (tpc' = "snap" /\ item' = f)
  BY RestStep
<1>2. status[f] = "Dirty" => Tracked
  BY DEF DirtyTracked
<1>3. CASE UNCHANGED <<status, m_mutex, tpc, item>>
  BY <1>1, <1>2, <1>3
<1>4. ASSUME NEW g \in Files, Create(g) PROVE Tracked'
  <2>1. InRest(g)'
    BY <1>4, RestAppend DEF Create
  <2> QED
    BY <1>1, <1>2, <1>4, <2>1 DEF Create, TypeOK
<1>5. ASSUME NEW g \in Files, Load(g) PROVE Tracked'
  <2>1. f # g
    BY <1>5 DEF Load, TypeOK
  <2> QED
    BY <1>1, <1>2, <1>5, <2>1 DEF Load, TypeOK
<1>6. ASSUME NEW c \in Clients, NEW g \in Files, NEW d \in {-1, 0, 1},
             Update(c, g, d)
      PROVE  Tracked'
  BY <1>1, <1>2, <1>6, UploadQueueAssumption DEF Update, TypeOK
<1>7. ASSUME NEW c \in Clients, NEW g \in Files, Enqueue(c, g) PROVE Tracked'
  <2>1. InRest(g)'
    BY <1>7, RestAppend DEF Enqueue
  <2> QED
    BY <1>1, <1>2, <1>7, <2>1 DEF Enqueue, TypeOK
<1>8. CASE LoopStep
  BY <1>1, <1>2, <1>8 DEF LoopStep, Launch, Pop, Join, Exit, LoopTask
<1>9. CASE TaskStep
  BY <1>1, <1>2, <1>9 DEF TaskStep, TakeSnapshot, CheckExist, DeleteBlob,
     CommitBlocks, PutMetadata, RequestFails, Restore, Succeed, Throw, TypeOK
<1>10. CASE StopStep
  BY <1>3, <1>10 DEF StopStep, StopFlag, StopWait, SpuriousWake
<1>11. CASE UNCHANGED vars
  BY <1>3, <1>11
<1> QED
  BY <1>4, <1>5, <1>6, <1>7, <1>8, <1>9, <1>10, <1>11 DEF Next, ClientStep

\* No change waits for ever outside the queue: whatever the interleaving of
\* callbacks, upload loop and task, a Dirty file is in the queue or about to
\* be, or about to be snapshot.  Assumed: the uninitialised status of a loaded
\* file does not happen to read Dirty.
THEOREM DirtyQueued ==
  ASSUME "Dirty" \notin RawStatus
  PROVE  Spec => []DirtyIsQueued
<1> DEFINE IInv == TypeOK /\ FrontIsItem /\ LoopTask /\ DirtyTracked
<1>1. Init => IInv
  BY UploadQueueAssumption
  DEF Init, TypeOK, FrontIsItem, FileStatus, Absent, LoopTask, DirtyTracked
<1>2. IInv /\ [Next]_vars => IInv'
  BY TypeStep, FrontStep, LoopTaskStep, DirtyStep
<1>3. IInv => DirtyIsQueued
  BY DEF DirtyTracked, DirtyIsQueued, InRest, InQueue
<1> QED
  BY <1>1, <1>2, <1>3, PTL DEF Spec

-----------------------------------------------------------------------------
(***************************************************************************)
(* What is saved and deleted.  The proofs assume that the fields           *)
(* BasicFile::get leaves uninitialised read as a debug build fills them: a *)
(* status that is neither Dirty nor Uploading, m_exist not zero.           *)
(***************************************************************************)
HarmlessHeap == /\ RawStatus \cap {"Dirty", "Uploading"} = {}
                /\ RawExist = {TRUE}

\* From its snapshot to its end a task works on storage.
InUpload == tpc \in {"exist", "delete", "commit", "meta", "restore"}

(***************************************************************************)
(* The parts of the inductive invariant.                                   *)
(***************************************************************************)
\* A client keeps m_mutex only on the way from a Dirty mark to add_to_wait.
HolderMarked == \A f \in Files : m_mutex[f] # NoOne => status[f] = "Dirty"

\* Uploading marks the file of the running task, unchanged since its snapshot.
UploadingIsItem ==
  \A f \in Files :
    status[f] = "Uploading" => InUpload /\ item = f /\ snapver = ver[f]

\* The file of a running task cannot look saved.
ItemUnsaved == InUpload => status[item] \in {"Uploading", "Dirty"}

\* The task's answer to pfile->exist() stands until the file changes again;
\* "no" stands for good.
ExistSeen ==
  /\ tpc = "delete" => ~m_exist[item]
  /\ tpc \in {"commit", "meta"} /\ status[item] = "Uploading" => m_exist[item]

\* After a successful upload the file is saved, unless it changed meanwhile.
ResultSaved ==
  tpc = "restore" /\ result = 0 /\ status[item] = "Uploading" => Synced(item)

\* A file that looks saved is, or it is still to be uploaded, or was dropped.
CleanCovered ==
  \A f \in Files :
    Loaded(f) /\ status[f] \notin {"Dirty", "Uploading"} =>
      \/ Synced(f)
      \/ f \in dropped
      \/ InRest(f)
      \/ item = f /\ tpc = "done" /\ result = 1
      \/ item = f /\ tpc = "snap"

\* What is in storage before the file is loaded.
StoredAsLoaded ==
  \A f \in Files :
    /\ status[f] = "None" => ver[f] = 1
    /\ status[f] = "None" /\ f \in Stored => blobver[f] = 1

SavedInv ==
  /\ HolderMarked
  /\ UploadingIsItem
  /\ ItemUnsaved
  /\ ExistSeen
  /\ ResultSaved
  /\ CleanCovered
  /\ StoredAsLoaded

\* Only objects that were created or loaded are queued and uploaded.
QueuedLoaded ==
  \A f \in Files : InQueue(f) \/ (tpc # "none" /\ item = f) => Loaded(f)

\* A file ceases to exist with its last link.
GoneUnlinked == \A f \in Files : Loaded(f) /\ ~m_exist[f] => nlink[f] = 0

\* Storage lags behind memory, and the snapshot lies between.
VersionsOrdered ==
  /\ \A f \in Files : blobver[f] <= ver[f]
  /\ tpc \in {"exist", "delete", "commit", "meta"} =>
       blobver[item] <= snapver /\ snapver <= ver[item]

\* Nobody holds an m_mutex once azs_destroy runs; run_upload leaves an empty
\* queue; stop() without spurious wake-ups returns after run_upload's end.
StopInv ==
  /\ spc # "mounted" => \A f \in Files : m_mutex[f] = NoOne
  /\ upc = "exited" => upload_queue = <<>> /\ spc # "mounted"
  /\ ~Spurious /\ spc = "returned" => upc = "exited"

-----------------------------------------------------------------------------
LEMMA VersionsStep ==
  ASSUME TypeOK, VersionsOrdered, [Next]_vars
  PROVE  VersionsOrdered'
<1> USE UploadQueueAssumption DEF TypeOK, VersionsOrdered
<1>1. CASE UNCHANGED <<blobver, ver, tpc, item, snapver>>
  BY <1>1
<1>2. ASSUME NEW c \in Clients, NEW f \in Files, NEW d \in {-1, 0, 1},
             Update(c, f, d)
      PROVE  VersionsOrdered'
  BY <1>2 DEF Update
<1>3. CASE ClientStep
  BY <1>1, <1>2, <1>3 DEF ClientStep, Create, Load, Enqueue
<1>4. CASE LoopStep
  BY <1>4 DEF LoopStep, Launch, Pop, Join, Exit
<1>5. CASE TakeSnapshot \/ CheckExist \/ Restore
  BY <1>5 DEF TakeSnapshot, CheckExist, Restore
<1>6. ASSUME NEW v \in -1..MaxVer, NEW t \in {"meta", "restore"},
             tpc \in {"delete", "commit", "meta"}, v <= snapver,
             Succeed(v, t) \/ Throw(v)
      PROVE  VersionsOrdered'
  <2>1. blobver' = blobver \/ blobver' = [blobver EXCEPT ![item] = v]
    BY <1>6 DEF Succeed, Throw
  <2>2. UNCHANGED <<ver, item, snapver>>
    BY <1>6 DEF Succeed, Throw
  <2>3. blobver[item] <= snapver /\ snapver <= ver[item]
    BY <1>6
  <2>4. blobver'[item] <= snapver
    BY <1>6, <2>1, <2>3
  <2>5. ASSUME NEW f \in Files PROVE blobver'[f] <= ver[f]
    <3>1. CASE f = item
      BY <2>1, <2>2, <2>3, <2>4, <3>1
    <3>2. CASE f # item
      <4>1. blobver'[f] = blobver[f]
        BY <2>1, <3>2
      <4> QED
        BY <4>1
    <3> QED
      BY <3>1, <3>2
  <2> QED
    BY <2>2, <2>3, <2>4, <2>5
<1>7. Absent \in -1..MaxVer /\ Absent <= snapver
  BY DEF Absent
<1>8. tpc = "commit" => Committed \in -1..MaxVer /\ Committed <= snapver
  BY DEF Committed, Absent, Bare
<1>9. CASE DeleteBlob \/ CommitBlocks \/ PutMetadata \/ RequestFails
  BY <1>6, <1>7, <1>8, <1>9
  DEF DeleteBlob, CommitBlocks, PutMetadata, RequestFails
<1>10. CASE StopStep
  BY <1>1, <1>10 DEF StopStep, StopFlag, StopWait, SpuriousWake
<1> HIDE DEF TypeOK, VersionsOrdered
<1> QED
  BY <1>1, <1>3, <1>4, <1>5, <1>9, <1>10 DEF Next, TaskStep

\* The metadata in storage never goes back to an older version, however often
\* a task is repeated and whatever its requests had done when they failed.
THEOREM NeverRegresses == Spec => NoRegress
<1> DEFINE IInv == TypeOK /\ FrontIsItem /\ VersionsOrdered
<1>1. Init => IInv
  BY UploadQueueAssumption
  DEF Init, TypeOK, FrontIsItem, FileStatus, Absent, VersionsOrdered
<1>2. IInv /\ [Next]_vars => IInv'
  BY TypeStep, FrontStep, VersionsStep
<1>3. IInv /\ [Next]_vars =>
        [\A f \in Files :
           blobver'[f] # Absent => blobver'[f] >= blobver[f]]_blobver
  <2> SUFFICES ASSUME IInv, [Next]_vars, NEW f \in Files,
                      blobver' # blobver, blobver'[f] # Absent
               PROVE  blobver'[f] >= blobver[f]
    OBVIOUS
  <2> USE UploadQueueAssumption DEF TypeOK, VersionsOrdered
  <2>1. ASSUME NEW v \in -1..MaxVer, v # Absent => v >= blobver[item],
               blobver' = [blobver EXCEPT ![item] = v]
        PROVE  blobver'[f] >= blobver[f]
    BY <2>1
  <2>2. CASE TaskStep
    <3>1. Absent \in -1..MaxVer /\ snapver \in -1..MaxVer
      BY DEF Absent
    <3>2. Committed \in -1..MaxVer /\ Committed >= blobver[item]
      BY DEF Committed, Absent, Bare
    <3> QED
      BY <2>1, <2>2, <3>1, <3>2
      DEF TaskStep, TakeSnapshot, CheckExist, DeleteBlob, CommitBlocks,
          PutMetadata, RequestFails, Restore, Succeed, Throw
  <2>3. CASE ~TaskStep
    BY <2>3 DEF Next, ClientStep, Create, Load, Update, Enqueue, LoopStep,
       Launch, Pop, Join, Exit, StopStep, StopFlag, StopWait, SpuriousWake
  <2> QED
    BY <2>2, <2>3
<1> QED
  BY <1>1, <1>2, <1>3, PTL DEF Spec, NoRegress

-----------------------------------------------------------------------------
\* m_mutex is taken with the Dirty mark and released by add_to_wait, and no
\* task takes a snapshot in between.
LEMMA HolderStep ==
  ASSUME TypeOK, HolderMarked, [Next]_vars
  PROVE  HolderMarked'
<1> USE UploadQueueAssumption DEF TypeOK, HolderMarked
<1>1. CASE UNCHANGED <<status, m_mutex>>
  BY <1>1
<1>2. ASSUME NEW f \in Files, Create(f) \/ Load(f) PROVE HolderMarked'
  <2>1. m_mutex[f] = NoOne
    BY <1>2 DEF Create, Load
  <2> QED
    BY <1>2, <2>1 DEF Create, Load
<1>3. ASSUME NEW c \in Clients, NEW f \in Files, NEW d \in {-1, 0, 1},
             Update(c, f, d)
      PROVE  HolderMarked'
  BY <1>3 DEF Update
<1>4. ASSUME NEW c \in Clients, NEW f \in Files, Enqueue(c, f)
      PROVE  HolderMarked'
  BY <1>4 DEF Enqueue
<1>5. CASE LoopStep
  BY <1>5 DEF LoopStep, Launch, Pop, Join, Exit
<1>6. CASE TaskStep
  BY <1>6 DEF TaskStep, TakeSnapshot, CheckExist, DeleteBlob,
     CommitBlocks, PutMetadata, RequestFails, Restore, Succeed, Throw
<1>7. CASE StopStep
  BY <1>1, <1>7 DEF StopStep, StopFlag, StopWait, SpuriousWake
<1> HIDE DEF TypeOK, HolderMarked
<1> QED
  BY <1>1, <1>2, <1>3, <1>4, <1>5, <1>6, <1>7 DEF Next, ClientStep

LEMMA StaysLoaded ==
  ASSUME TypeOK, [Next]_vars, NEW f \in Files, Loaded(f)
  PROVE  Loaded(f)'
<1> USE DEF TypeOK, Loaded
<1>1. CASE UNCHANGED status
  BY <1>1
<1>2. CASE ClientStep
  BY <1>2 DEF ClientStep, Create, Load, Update, Enqueue
<1>3. CASE LoopStep \/ StopStep
  BY <1>3 DEF LoopStep, Launch, Pop, Join, Exit, StopStep, StopFlag, StopWait,
     SpuriousWake
<1>4. CASE TaskStep
  BY <1>4 DEF TaskStep, TakeSnapshot, CheckExist, DeleteBlob,
     CommitBlocks, PutMetadata, RequestFails, Restore, Succeed, Throw
<1> QED
  BY <1>1, <1>2, <1>3, <1>4 DEF Next

LEMMA QueuedStep ==
  ASSUME TypeOK, FrontIsItem, LoopTask, HolderMarked, QueuedLoaded, [Next]_vars
  PROVE  QueuedLoaded'
<1> SUFFICES ASSUME NEW f \in Files, InQueue(f)' \/ (tpc' # "none" /\ item' = f)
             PROVE  Loaded(f)'
  BY DEF QueuedLoaded
<1>0. upload_queue \in Seq(Files) /\ item \in Files
  BY DEF TypeOK
<1>1. CASE Loaded(f)
  BY <1>1, StaysLoaded
<1>2. ASSUME NEW x \in Files, upload_queue' = Append(upload_queue, x),
             InQueue(f)'
      PROVE  InQueue(f) \/ f = x
  <2>1. PICK i \in 1..Len(upload_queue') : upload_queue'[i] = f
    BY <1>2 DEF InQueue
  <2>2. CASE i = Len(upload_queue) + 1
    BY <1>0, <1>2, <2>1, <2>2, AppendFacts
  <2>3. CASE i \in 1..Len(upload_queue)
    BY <1>0, <1>2, <2>1, <2>3, AppendFacts DEF InQueue
  <2>4. i = Len(upload_queue) + 1 \/ i \in 1..Len(upload_queue)
    BY <1>0, <1>2, <2>1, AppendFacts
  <2> QED
    BY <2>2, <2>3, <2>4
<1>3. CASE UNCHANGED <<upload_queue, tpc, item>>
  BY <1>1, <1>3 DEF QueuedLoaded, InQueue
<1>4. ASSUME NEW x \in Files, Create(x) PROVE Loaded(f)'
  BY <1>1, <1>2, <1>4 DEF Create, QueuedLoaded, Loaded, TypeOK
<1>5. ASSUME NEW c \in Clients, NEW x \in Files, Enqueue(c, x)
      PROVE  Loaded(f)'
  <2>1. Loaded(x)
    BY <1>5, UploadQueueAssumption DEF Enqueue, HolderMarked, Loaded
  <2> QED
    BY <1>1, <1>2, <1>5, <2>1 DEF Enqueue, QueuedLoaded
<1>6. CASE Launch
  <2>1. Len(upload_queue) \in Nat \ {0} /\ upload_queue[1] = Head(upload_queue)
    BY <1>0, <1>6, TailFacts DEF Launch
  <2>2. InQueue(item')
    BY <1>6, <2>1 DEF Launch, InQueue
  <2> QED
    BY <1>1, <1>6, <2>2 DEF Launch, QueuedLoaded, InQueue
<1>7. CASE Pop
  <2>1. upload_queue # <<>>
    BY <1>7 DEF Pop, FrontIsItem
  <2>2. ASSUME NEW i \in 1..Len(upload_queue'), upload_queue'[i] = f
        PROVE  InQueue(f)
    <3>1. i + 1 \in 1..Len(upload_queue) /\ upload_queue[i + 1] = f
      BY <1>0, <1>7, <2>1, <2>2, TailFacts DEF Pop
    <3> QED
      BY <3>1 DEF InQueue
  <2>3. InQueue(f)' => InQueue(f)
    BY <2>2 DEF InQueue
  <2> QED
    BY <1>1, <1>7, <2>3 DEF Pop, QueuedLoaded
<1>8. CASE Join
  BY <1>0, <1>1, <1>2, <1>8 DEF Join, QueuedLoaded, InQueue
<1>9. CASE Exit
  BY <1>3, <1>9 DEF Exit
<1>10. CASE TaskStep
  <2>1. UNCHANGED <<upload_queue, item>> /\ tpc # "none"
    BY <1>10 DEF TaskStep, TakeSnapshot, CheckExist, DeleteBlob,
       CommitBlocks, PutMetadata, RequestFails, Restore, Succeed, Throw
  <2> QED
    BY <1>1, <2>1 DEF QueuedLoaded, InQueue
<1>11. CASE StopStep
  BY <1>3, <1>11 DEF StopStep, StopFlag, StopWait, SpuriousWake
<1>12. CASE UNCHANGED vars
  BY <1>3, <1>12
<1>13. ASSUME NEW x \in Files, Load(x) PROVE Loaded(f)'
  BY <1>3, <1>13 DEF Load
<1>14. ASSUME NEW c \in Clients, NEW x \in Files, NEW d \in {-1, 0, 1},
              Update(c, x, d)
       PROVE  Loaded(f)'
  BY <1>3, <1>14 DEF Update
<1> QED
  BY <1>4, <1>5, <1>6, <1>7, <1>8, <1>9, <1>10, <1>11, <1>12, <1>13, <1>14
  DEF Next, ClientStep, LoopStep

-----------------------------------------------------------------------------
\* The last link is the one whose removal ends a file; a file that has ceased
\* to exist gets no new one.
LEMMA GoneStep ==
  ASSUME RawExist = {TRUE}, TypeOK, QueuedLoaded, GoneUnlinked, [Next]_vars
  PROVE  GoneUnlinked'
<1> USE DEF GoneUnlinked, Loaded
<1>1. CASE UNCHANGED <<status, m_exist, nlink>>
  BY <1>1
<1>2. ASSUME NEW f \in Files, Create(f) \/ Load(f) PROVE GoneUnlinked'
  <2> SUFFICES ASSUME NEW g \in Files, status'[g] # "None", ~m_exist'[g]
               PROVE  nlink'[g] = 0
    OBVIOUS
  <2>1. nlink' = nlink
    BY <1>2 DEF Create, Load
  <2>2. m_exist' = [m_exist EXCEPT ![f] = TRUE]
    BY <1>2 DEF Create, Load
  <2>3. g # f
    BY <2>2 DEF TypeOK
  <2>4. status'[g] = status[g] /\ m_exist'[g] = m_exist[g]
    BY <1>2, <2>2, <2>3 DEF Create, Load, TypeOK
  <2> QED
    BY <2>1, <2>4
<1>3. ASSUME NEW c \in Clients, NEW f \in Files, NEW d \in {-1, 0, 1},
             Update(c, f, d)
      PROVE  GoneUnlinked'
  <2> SUFFICES ASSUME NEW g \in Files, status'[g] # "None", ~m_exist'[g]
               PROVE  nlink'[g] = 0
    OBVIOUS
  <2>1. CASE g # f
    <3>1. m_exist'[g] = m_exist[g]
      BY <1>3, <2>1 DEF Update, TypeOK
    <3>2. status'[g] = status[g] /\ nlink'[g] = nlink[g]
      BY <1>3, <2>1 DEF Update, TypeOK
    <3> QED
      BY <3>1, <3>2
  <2>2. CASE g = f
    <3>1. nlink'[f] = nlink[f] + d /\ nlink[f] \in Nat
      BY <1>3 DEF Update, TypeOK
    <3>2. m_exist'[f] = (m_exist[f] /\ ~(d = -1 /\ nlink[f] + d <= 0))
      BY <1>3 DEF Update, TypeOK
    <3>3. d # 0 => m_exist[f] /\ nlink[f] + d >= 0
      BY <1>3 DEF Update, MayLink
    <3>4. ~m_exist[f] => nlink[f] = 0
      BY <1>3 DEF Update
    <3>5. CASE m_exist[f]
      <4>1. d = -1 /\ nlink[f] + d <= 0
        BY <2>2, <3>2, <3>5
      <4> QED
        BY <2>2, <3>1, <3>3, <4>1
    <3>6. CASE ~m_exist[f]
      BY <2>2, <3>1, <3>3, <3>4, <3>6
    <3> QED
      BY <3>5, <3>6
  <2> QED
    BY <2>1, <2>2
<1>4. ASSUME NEW c \in Clients, NEW f \in Files, Enqueue(c, f)
      PROVE  GoneUnlinked'
  BY <1>1, <1>4 DEF Enqueue
<1>5. CASE LoopStep \/ StopStep
  BY <1>1, <1>5 DEF LoopStep, Launch, Pop, Join, Exit, StopStep, StopFlag,
     StopWait, SpuriousWake
<1>6. CASE TakeSnapshot \/ Restore
  <2>1. status[item] # "None"
    BY <1>6 DEF TakeSnapshot, Restore, QueuedLoaded, TypeOK
  <2>2. UNCHANGED <<m_exist, nlink>>
    BY <1>6 DEF TakeSnapshot, Restore
  <2>3. \A g \in Files : status'[g] # "None" => status[g] # "None"
    BY <1>6, <2>1 DEF TakeSnapshot, Restore, TypeOK
  <2> QED
    BY <2>2, <2>3
<1>7. CASE TaskStep
  BY <1>1, <1>6, <1>7 DEF TaskStep, CheckExist, DeleteBlob,
     CommitBlocks, PutMetadata, RequestFails, Succeed, Throw
<1>8. CASE UNCHANGED vars
  BY <1>1, <1>8
<1> HIDE DEF GoneUnlinked
<1> QED
  BY <1>2, <1>3, <1>4, <1>5, <1>7, <1>8 DEF Next, ClientStep

-----------------------------------------------------------------------------
(***************************************************************************)
(* SavedInv, one lemma for each of its parts that a step can disturb.      *)
(***************************************************************************)
LEMMA UploadingStep ==
  ASSUME HarmlessHeap, TypeOK, LoopTask, HolderMarked, UploadingIsItem,
         ItemUnsaved, [Next]_vars
  PROVE  UploadingIsItem' /\ ItemUnsaved'
<1> USE UploadQueueAssumption
    DEF TypeOK, UploadingIsItem, ItemUnsaved, InUpload, HolderMarked
<1>1. CASE UNCHANGED <<status, ver, tpc, item, snapver>>
  BY <1>1
<1>2. ASSUME NEW f \in Files, Create(f) PROVE UploadingIsItem' /\ ItemUnsaved'
  BY <1>2 DEF Create
<1>3. ASSUME NEW f \in Files, Load(f) PROVE UploadingIsItem' /\ ItemUnsaved'
  <2>1. PICK h \in RawStatus : status' = [status EXCEPT ![f] = h]
    BY <1>3 DEF Load
  <2>2. h \notin {"Dirty", "Uploading"}
    BY DEF HarmlessHeap
  <2>3. status[f] = "None" /\ UNCHANGED <<ver, tpc, item, snapver>>
    BY <1>3 DEF Load
  <2>4. \A g \in Files :
          /\ status'[g] = "Uploading" => status[g] = "Uploading"
          /\ g # f => status'[g] = status[g]
    BY <2>1, <2>2
  <2>5. InUpload => item # f
    BY <2>3
  <2> QED
    BY <2>3, <2>4, <2>5
<1>4. ASSUME NEW c \in Clients, NEW f \in Files, NEW d \in {-1, 0, 1},
             Update(c, f, d)
      PROVE  UploadingIsItem' /\ ItemUnsaved'
  <2>1. UNCHANGED <<tpc, item, snapver>>
    BY <1>4 DEF Update
  <2>2. status'[f] = "Dirty"
    BY <1>4 DEF Update
  <2>3. \A g \in Files \ {f} : status'[g] = status[g] /\ ver'[g] = ver[g]
    BY <1>4 DEF Update
  <2> QED
    BY <2>1, <2>2, <2>3
<1>5. ASSUME NEW c \in Clients, NEW f \in Files, Enqueue(c, f)
      PROVE  UploadingIsItem' /\ ItemUnsaved'
  BY <1>1, <1>5 DEF Enqueue
<1>6. CASE LoopStep
  BY <1>6 DEF LoopStep, Launch, Pop, Join, Exit, LoopTask
<1>7. CASE TakeSnapshot
  BY <1>7 DEF TakeSnapshot
<1>8. CASE Restore
  BY <1>8 DEF Restore
<1>9. CASE TaskStep
  BY <1>7, <1>8, <1>9 DEF TaskStep, CheckExist, DeleteBlob,
     CommitBlocks, PutMetadata, RequestFails, Succeed, Throw
<1>10. CASE StopStep
  BY <1>1, <1>10 DEF StopStep, StopFlag, StopWait, SpuriousWake
<1>11. CASE UNCHANGED vars
  BY <1>1, <1>11
<1> HIDE DEF TypeOK, UploadingIsItem, ItemUnsaved, HolderMarked
<1> QED
  BY <1>2, <1>3, <1>4, <1>5, <1>6, <1>9, <1>10, <1>11
  DEF Next, ClientStep

\* What a request does to the blob of the item; the other blobs stay.
LEMMA RequestFacts ==
  ASSUME TypeOK, DeleteBlob \/ CommitBlocks \/ PutMetadata \/ RequestFails
  PROVE  /\ UNCHANGED <<fileVars, loopVars, snapver, dropped, spc>>
         /\ tpc \in {"delete", "commit", "meta"}
         /\ \A f \in Files \ {item} : blobver'[f] = blobver[f]
         /\ tpc' \in {"meta", "restore"}
         /\ tpc' = "meta" => tpc = "commit"
         /\ tpc' = "restore" /\ result' = 0 =>
              \/ tpc = "delete" /\ blobver'[item] = Absent
              \/ tpc = "meta" /\ blobver'[item] = snapver
<1> USE DEF TypeOK
<1>1. CASE DeleteBlob
  BY <1>1 DEF DeleteBlob, Succeed
<1>2. CASE CommitBlocks
  BY <1>2 DEF CommitBlocks, Succeed
<1>3. CASE PutMetadata
  BY <1>3 DEF PutMetadata, Succeed
<1>4. CASE RequestFails
  <2>1. result' # 0
    BY <1>4, UploadQueueAssumption DEF RequestFails, Throw
  <2> QED
    BY <1>4, <2>1 DEF RequestFails, Throw
<1> QED
  BY <1>1, <1>2, <1>3, <1>4

LEMMA ResultStep ==
  ASSUME TypeOK, LoopTask, UploadingIsItem, ItemUnsaved, ExistSeen,
         ResultSaved, [Next]_vars
  PROVE  ExistSeen' /\ ResultSaved'
<1> USE DEF TypeOK, ItemUnsaved, InUpload
<1> DEFINE Goal == ExistSeen' /\ ResultSaved'
<1>1. CASE UNCHANGED <<status, m_exist, ver, tpc, item, result, blobver>>
  BY <1>1 DEF ExistSeen, ResultSaved, Synced
<1>2. ASSUME NEW f \in Files, Create(f) \/ Load(f) PROVE Goal
  <2>1. UNCHANGED <<ver, tpc, item, result, blobver>> /\ status[f] = "None"
    BY <1>2 DEF Create, Load
  <2>2. InUpload => item # f
    BY <2>1
  <2>3. InUpload => /\ status'[item] = status[item]
                    /\ m_exist'[item] = m_exist[item]
    BY <1>2, <2>2 DEF Create, Load
  <2> QED
    BY <2>1, <2>3 DEF ExistSeen, ResultSaved, Synced
<1>3. ASSUME NEW c \in Clients, NEW f \in Files, NEW d \in {-1, 0, 1},
             Update(c, f, d)
      PROVE  Goal
  <2>1. UNCHANGED <<tpc, item, result, blobver>>
    BY <1>3 DEF Update
  <2>2. CASE item = f
    <3>1. status'[item] = "Dirty"
      BY <1>3, <2>2 DEF Update
    <3>2. ~m_exist[item] => ~m_exist'[item]
      <4>1. m_exist'[f] = (m_exist[f] /\ ~(d = -1 /\ nlink[f] + d <= 0))
        BY <1>3 DEF Update
      <4> QED
        BY <2>1, <2>2, <4>1
    <3> QED
      BY <2>1, <3>1, <3>2 DEF ExistSeen, ResultSaved
  <2>3. CASE item # f
    <3>1. /\ status'[item] = status[item]
          /\ ver'[item] = ver[item]
      BY <1>3, <2>3 DEF Update
    <3>2. m_exist'[item] = m_exist[item]
      BY <1>3, <2>3 DEF Update
    <3> QED
      BY <2>1, <3>1, <3>2 DEF ExistSeen, ResultSaved, Synced
  <2> QED
    BY <2>2, <2>3
<1>4. ASSUME NEW c \in Clients, NEW f \in Files, Enqueue(c, f) PROVE Goal
  BY <1>1, <1>4 DEF Enqueue
<1>5. CASE LoopStep
  BY <1>5 DEF LoopStep, Launch, Pop, Join, Exit, LoopTask, ExistSeen,
     ResultSaved, Synced
<1>6. CASE TakeSnapshot \/ Restore
  BY <1>6 DEF TakeSnapshot, Restore, ExistSeen, ResultSaved
<1>7. CASE CheckExist
  BY <1>7 DEF CheckExist, ExistSeen, ResultSaved
<1>8. CASE DeleteBlob \/ CommitBlocks \/ PutMetadata \/ RequestFails
  <2>1. ExistSeen'
    BY <1>8, RequestFacts DEF ExistSeen
  <2>2. ResultSaved'
    <3> SUFFICES ASSUME tpc' = "restore", result' = 0,
                        status[item] = "Uploading"
                 PROVE  Synced(item)'
      BY <1>8, RequestFacts DEF ResultSaved
    <3>1. UNCHANGED <<m_exist, ver, item>> /\ snapver = ver[item]
      BY <1>8, RequestFacts DEF UploadingIsItem
    <3>2. CASE tpc = "delete" /\ blobver'[item] = Absent
      BY <3>1, <3>2 DEF ExistSeen, Synced
    <3>3. CASE tpc = "meta" /\ blobver'[item] = snapver
      BY <3>1, <3>3 DEF ExistSeen, Synced
    <3> QED
      BY <1>8, <3>2, <3>3, RequestFacts
  <2> QED
    BY <2>1, <2>2
<1>9. CASE StopStep
  BY <1>1, <1>9 DEF StopStep, StopFlag, StopWait, SpuriousWake
<1>10. CASE UNCHANGED vars
  BY <1>1, <1>10
<1> QED
  BY <1>2, <1>3, <1>4, <1>5, <1>6, <1>7, <1>8, <1>9, <1>10
  DEF Next, ClientStep, TaskStep

LEMMA StoredStep ==
  ASSUME HarmlessHeap, TypeOK, QueuedLoaded, StoredAsLoaded, [Next]_vars
  PROVE  StoredAsLoaded'
<1> USE DEF TypeOK, StoredAsLoaded
<1>1. CASE UNCHANGED <<status, ver, blobver>>
  BY <1>1
<1>2. ASSUME NEW f \in Files, Create(f) \/ Load(f) PROVE StoredAsLoaded'
  <2>1. UNCHANGED <<ver, blobver>>
    BY <1>2 DEF Create, Load
  <2>2. \A g \in Files : status'[g] = "None" => status[g] = "None"
    BY <1>2 DEF Create, Load
  <2> QED
    BY <2>1, <2>2
<1>3. ASSUME NEW c \in Clients, NEW f \in Files, NEW d \in {-1, 0, 1},
             Update(c, f, d)
      PROVE  StoredAsLoaded'
  <2>1. /\ status[f] # "None" /\ blobver' = blobver
        /\ \A g \in Files \ {f} : ver'[g] = ver[g] /\ status'[g] = status[g]
        /\ status'[f] # "None"
    BY <1>3 DEF Update, Loaded
  <2> QED
    BY <2>1
<1>4. CASE ClientStep
  BY <1>1, <1>2, <1>3, <1>4 DEF ClientStep, Enqueue
<1>5. CASE LoopStep \/ StopStep
  BY <1>1, <1>5 DEF LoopStep, Launch, Pop, Join, Exit, StopStep, StopFlag,
     StopWait, SpuriousWake
<1>6. CASE TakeSnapshot \/ Restore
  BY <1>6 DEF TakeSnapshot, Restore
<1>7. CASE CheckExist
  BY <1>1, <1>7 DEF CheckExist
<1>8. CASE DeleteBlob \/ CommitBlocks \/ PutMetadata \/ RequestFails
  <2>1. UNCHANGED <<status, ver>> /\ status[item] # "None"
    BY <1>8, RequestFacts DEF QueuedLoaded, Loaded
  <2>2. \A f \in Files \ {item} : blobver'[f] = blobver[f]
    BY <1>8, RequestFacts
  <2> QED
    BY <2>1, <2>2
<1> QED
  BY <1>1, <1>4, <1>5, <1>6, <1>7, <1>8 DEF Next, TaskStep

LEMMA CleanStep ==
  ASSUME HarmlessHeap, TypeOK, FrontIsItem, LoopTask, UploadingIsItem,
         ItemUnsaved, ResultSaved, CleanCovered, StoredAsLoaded, [Next]_vars
  PROVE  CleanCovered'
<1> USE DEF TypeOK
<1> DEFINE Covered(f) == \/ Synced(f)
                         \/ f \in dropped
                         \/ InRest(f)
                         \/ item = f /\ tpc = "done" /\ result = 1
                         \/ item = f /\ tpc = "snap"
<1> SUFFICES ASSUME NEW f \in Files, Loaded(f)',
                    status'[f] \notin {"Dirty", "Uploading"}
             PROVE  Covered(f)'
  BY DEF CleanCovered
<1>1. Loaded(f) /\ status[f] \notin {"Dirty", "Uploading"} => Covered(f)
  BY DEF CleanCovered
<1>2. InRest(f) => InRest(f)' \/ (tpc' = "snap" /\ item' = f)
  BY RestStep
<1>3. CASE /\ UNCHANGED <<dropped, tpc, item, result>>
           /\ status'[f] = status[f] /\ ver'[f] = ver[f]
           /\ m_exist'[f] = m_exist[f] /\ blobver'[f] = blobver[f]
  BY <1>1, <1>2, <1>3 DEF Loaded, Synced
<1>4. ASSUME NEW g \in Files, Create(g) PROVE Covered(f)'
  <2>1. f # g
    BY <1>4 DEF Create
  <2>2. m_exist'[f] = m_exist[f]
    BY <1>4, <2>1 DEF Create
  <2> QED
    BY <1>3, <1>4, <2>1, <2>2 DEF Create
<1>5. ASSUME NEW g \in Files, Load(g) PROVE Covered(f)'
  <2>1. m_exist' = [m_exist EXCEPT ![g] = TRUE]
    BY <1>5 DEF Load, HarmlessHeap
  <2>2. CASE f # g
    <3>1. m_exist'[f] = m_exist[f]
      BY <2>1, <2>2
    <3> QED
      BY <1>3, <1>5, <2>2, <3>1 DEF Load
  <2>3. CASE f = g
    <3>1. m_exist'[f]
      BY <2>1, <2>3
    <3>2. blobver'[f] = ver'[f]
      BY <1>5, <2>3 DEF Load, StoredAsLoaded
    <3> QED
      BY <3>1, <3>2 DEF Synced
  <2> QED
    BY <2>2, <2>3
<1>6. ASSUME NEW c \in Clients, NEW g \in Files, NEW d \in {-1, 0, 1},
             Update(c, g, d)
      PROVE  Covered(f)'
  <2>1. f # g
    BY <1>6 DEF Update
  <2>2. m_exist'[f] = m_exist[f]
    BY <1>6, <2>1 DEF Update
  <2> QED
    BY <1>3, <1>6, <2>1, <2>2 DEF Update
<1>7. ASSUME NEW c \in Clients, NEW g \in Files, Enqueue(c, g)
      PROVE  Covered(f)'
  BY <1>3, <1>7 DEF Enqueue
<1>8. CASE Launch
  BY <1>1, <1>2, <1>8 DEF Launch, LoopTask, Loaded, Synced
<1>9. CASE Pop
  BY <1>3, <1>9 DEF Pop
<1>10. CASE Join
  <2>1. CASE item = f /\ result = 1
    <3>1. InRest(f)'
      BY <1>10, <2>1, RestAppend DEF Join
    <3> QED
      BY <3>1
  <2>2. CASE ~(item = f /\ result = 1)
    BY <1>1, <1>2, <1>10, <2>2 DEF Join, Loaded, Synced
  <2> QED
    BY <2>1, <2>2
<1>11. CASE Exit
  BY <1>3, <1>11 DEF Exit
<1>12. CASE TakeSnapshot
  <2>1. f # item
    BY <1>12 DEF TakeSnapshot
  <2> QED
    BY <1>1, <1>2, <1>12, <2>1 DEF TakeSnapshot, Loaded, Synced
<1>13. CASE CheckExist
  BY <1>1, <1>2, <1>13 DEF CheckExist, Loaded, Synced
<1>14. CASE DeleteBlob \/ CommitBlocks \/ PutMetadata \/ RequestFails
  <2>1. /\ UNCHANGED <<status, m_exist, ver, item, dropped>>
        /\ tpc \in {"delete", "commit", "meta"}
        /\ \A g \in Files \ {item} : blobver'[g] = blobver[g]
    BY <1>14, RequestFacts
  <2>2. f # item
    BY <2>1 DEF ItemUnsaved, InUpload
  <2>3. Synced(f) => Synced(f)'
    BY <2>1, <2>2 DEF Synced
  <2> QED
    BY <1>1, <1>2, <2>1, <2>2, <2>3 DEF Loaded
<1>15. CASE Restore
  <2>1. UNCHANGED <<m_exist, ver, item, blobver, result>> /\ tpc' = "done"
    BY <1>15 DEF Restore
  <2>2. Synced(f) <=> Synced(f)'
    BY <2>1 DEF Synced
  <2>3. CASE f = item
    <3>1. status[f] = "Uploading"
      BY <1>15, <2>3 DEF Restore, ItemUnsaved, InUpload
    <3>2. CASE result = 0
      BY <1>15, <2>2, <2>3, <3>1, <3>2 DEF Restore, ResultSaved
    <3>3. CASE result = 1
      BY <2>1, <2>3, <3>3
    <3>4. CASE result = -1
      BY <1>15, <2>3, <3>4 DEF Restore
    <3> QED
      BY <3>2, <3>3, <3>4
  <2>4. CASE f # item
    <3>1. status'[f] = status[f] /\ (f \in dropped => f \in dropped')
      BY <1>15, <2>4 DEF Restore
    <3> QED
      BY <1>1, <1>2, <2>1, <2>2, <2>4, <3>1 DEF Loaded
  <2> QED
    BY <2>3, <2>4
<1>16. CASE StopStep
  BY <1>3, <1>16 DEF StopStep, StopFlag, StopWait, SpuriousWake
<1>17. CASE UNCHANGED vars
  BY <1>3, <1>17
<1> QED
  BY <1>4, <1>5, <1>6, <1>7, <1>8, <1>9, <1>10, <1>11, <1>12, <1>13, <1>14,
     <1>15, <1>16, <1>17
  DEF Next, ClientStep, LoopStep, TaskStep

-----------------------------------------------------------------------------
LEMMA StopInvStep ==
  ASSUME TypeOK, LoopTask, StopInv, [Next]_vars
  PROVE  StopInv'
<1> USE DEF TypeOK, StopInv, LoopTask
<1>1. CASE UNCHANGED <<m_mutex, upload_queue, upc, spc>>
  BY <1>1
<1>2. CASE ClientStep
  <2>1. spc = "mounted" /\ UNCHANGED <<upc, spc>>
    BY <1>2, UploadQueueAssumption
    DEF ClientStep, Create, Load, Update, Enqueue
  <2> QED
    BY <2>1
<1>3. CASE LoopStep
  BY <1>3 DEF LoopStep, Launch, Pop, Join, Exit, Running
<1>4. CASE TaskStep
  BY <1>4 DEF TaskStep, TakeSnapshot, CheckExist, DeleteBlob,
     CommitBlocks, PutMetadata, RequestFails, Restore, Succeed, Throw
<1>5. CASE StopStep
  BY <1>5 DEF StopStep, StopFlag, StopWait, SpuriousWake, Idle
<1> QED
  BY <1>1, <1>2, <1>3, <1>4, <1>5 DEF Next

(***************************************************************************)
(* The theorems.                                                           *)
(***************************************************************************)
IInv ==
  /\ TypeOK
  /\ FrontIsItem
  /\ LoopTask
  /\ DirtyTracked
  /\ QueuedLoaded
  /\ SavedInv
  /\ GoneUnlinked
  /\ StopInv

THEOREM Invariance ==
  ASSUME HarmlessHeap
  PROVE  Spec => []IInv
<1>1. Init => IInv
  BY UploadQueueAssumption
  DEF Init, IInv, TypeOK, FrontIsItem, FileStatus, Absent, LoopTask,
      DirtyTracked, QueuedLoaded, InQueue, Loaded, SavedInv, HolderMarked,
      UploadingIsItem, ItemUnsaved, InUpload, ExistSeen, ResultSaved,
      CleanCovered, StoredAsLoaded, GoneUnlinked, StopInv
<1>2. IInv /\ [Next]_vars => IInv'
  BY TypeStep, FrontStep, LoopTaskStep, DirtyStep, QueuedStep, HolderStep,
     UploadingStep, ResultStep, CleanStep, StoredStep, GoneStep, StopInvStep
  DEF IInv, SavedInv, HarmlessHeap
<1> QED
  BY <1>1, <1>2, PTL DEF Spec

\* A blob is deleted only after the last link of its file was removed: the
\* unlocked test of m_exist decides for good, since no file comes back.
THEOREM DeletesOnlyUnlinked ==
  ASSUME HarmlessHeap
  PROVE  Spec => []DeleteOnlyUnlinked
<1>1. IInv => DeleteOnlyUnlinked
  BY DEF IInv, TypeOK, QueuedLoaded, SavedInv, ExistSeen, GoneUnlinked,
     DeleteOnlyUnlinked
<1> QED
  BY <1>1, Invariance, PTL

\* Whatever is neither queued nor being worked on is in storage as it is in
\* memory, or its last upload failed for good.
LEMMA RestSaved == IInv => RestIsSaved
<1> SUFFICES ASSUME IInv, NEW f \in Files, AtRest(f)
             PROVE  Synced(f) \/ f \in dropped
  BY DEF RestIsSaved
<1>1. ~InRest(f)
  BY DEF AtRest, InQueue, InRest
<1>2. status[f] # "Dirty"
  BY <1>1 DEF IInv, DirtyTracked, AtRest
<1>3. status[f] # "Uploading"
  BY DEF IInv, SavedInv, UploadingIsItem, InUpload, AtRest
<1> QED
  BY <1>1, <1>2, <1>3 DEF IInv, SavedInv, CleanCovered, AtRest

THEOREM RestIsAlwaysSaved ==
  ASSUME HarmlessHeap
  PROVE  Spec => []RestIsSaved
  BY RestSaved, Invariance, PTL

\* stop() hands azs_destroy a storage that holds everything, if the condition
\* variable wakes it for the notification only.
THEOREM StopDrainsAll ==
  ASSUME HarmlessHeap, ~Spurious
  PROVE  Spec => []StopDrained
<1>1. IInv => StopDrained
  <2> SUFFICES ASSUME IInv, spc = "returned"
               PROVE  /\ upload_queue = <<>>
                      /\ \A f \in Files :
                           Loaded(f) => Synced(f) \/ f \in dropped
    BY DEF StopDrained
  <2>1. upc = "exited" /\ upload_queue = <<>>
    BY DEF IInv, StopInv
  <2>2. tpc = "none" /\ \A f \in Files : m_mutex[f] = NoOne
    BY <2>1 DEF IInv, LoopTask, StopInv
  <2>3. \A f \in Files : ~InQueue(f)
    BY <2>1 DEF InQueue
  <2> QED
    BY <2>1, <2>2, <2>3, RestSaved DEF RestIsSaved, AtRest
<1> QED
  BY <1>1, Invariance, PTL

-----------------------------------------------------------------------------
(***************************************************************************)
(* UploadQueue implements WriteBack, for any files, clients and failures,  *)
(* under the same assumptions and without spurious wake-ups.               *)
(***************************************************************************)
Lives == [f \in Files |-> Life(f)]
Up == spc # "returned"

\* What a step has to do to look like one of WriteBack.
Looks == [Promise!Next]_<<Lives, ver, blobver, dropped, Up>>

\* A client's step that changes the life of one file at most.
LEMMA LifeOf ==
  ASSUME TypeOK, NEW f \in Files, NEW L,
         status' \in [Files -> FileStatus],
         \A g \in Files \ {f} : status'[g] = status[g] /\ m_exist'[g] = m_exist[g],
         Life(f)' = L
  PROVE  Lives' = [Lives EXCEPT ![f] = L]
<1>1. ASSUME NEW g \in Files PROVE Life(g)' = [Lives EXCEPT ![f] = L][g]
  <2>1. CASE g = f
    BY <2>1 DEF Lives
  <2>2. CASE g # f
    BY <2>2 DEF Lives, Life, Loaded
  <2> QED
    BY <2>1, <2>2
<1> QED
  BY <1>1 DEF Lives

\* A step of the uploader leaves every life as it is.
LEMMA SameLives ==
  ASSUME \A f \in Files : status'[f] = "None" <=> status[f] = "None",
         m_exist' = m_exist
  PROVE  Lives' = Lives
  BY DEF Lives, Life, Loaded

LEMMA CreateSim ==
  ASSUME TypeOK, TypeOK', StoredAsLoaded, NEW f \in Files, Create(f)
  PROVE  Promise!Create(f)
<1> USE DEF TypeOK
<1>1. Lives[f] = "unborn"
  BY DEF Create, Lives, Life, Loaded
<1>2. m_exist' = [m_exist EXCEPT ![f] = TRUE]
  BY DEF Create
<1>3. status' = [status EXCEPT ![f] = "Dirty"]
  BY DEF Create
<1>4. m_exist'[f] /\ \A g \in Files \ {f} : m_exist'[g] = m_exist[g]
  BY <1>2
<1>5. Life(f)' = "exists"
  BY <1>3, <1>4 DEF Life, Loaded
<1>6. Lives' = [Lives EXCEPT ![f] = "exists"]
  BY <1>3, <1>4, <1>5, LifeOf
<1>7. spc = "mounted" /\ UNCHANGED <<ver, blobver, dropped, spc>>
  BY DEF Create
<1> QED
  BY <1>1, <1>6, <1>7 DEF Promise!Create, Lives

\* Loading an object changes nothing that matters.
LEMMA LoadSim ==
  ASSUME HarmlessHeap, TypeOK, TypeOK', NEW f \in Files, Load(f)
  PROVE  UNCHANGED <<Lives, ver, blobver, dropped, spc>>
<1> USE DEF TypeOK
<1>1. m_exist' = [m_exist EXCEPT ![f] = TRUE]
  BY DEF Load, HarmlessHeap
<1>2. PICK s \in RawStatus : status' = [status EXCEPT ![f] = s]
  BY DEF Load
<1>3. m_exist'[f] /\ \A g \in Files \ {f} : m_exist'[g] = m_exist[g]
  BY <1>1
<1>4. s # "None"
  BY UploadQueueAssumption
<1>5. Life(f)' = "exists" /\ Life(f) = "exists"
  BY <1>2, <1>3, <1>4 DEF Life, Loaded, Load
<1>6. Lives' = [Lives EXCEPT ![f] = "exists"]
  BY <1>2, <1>3, <1>5, LifeOf
<1>7. Lives' = Lives
  BY <1>5, <1>6 DEF Lives
<1> QED
  BY <1>7 DEF Load

LEMMA UpdateSim ==
  ASSUME TypeOK, TypeOK', NEW c \in Clients, NEW f \in Files,
         NEW d \in {-1, 0, 1}, Update(c, f, d)
  PROVE  Promise!Change(f)
<1> USE DEF TypeOK
<1>1. Loaded(f) /\ Loaded(f)'
  BY DEF Update, Loaded
<1>2. Lives[f] # "unborn"
  BY <1>1 DEF Lives, Life
<1>3. m_exist' = [m_exist EXCEPT ![f] = @ /\ ~(d = -1 /\ nlink[f] + d <= 0)]
  BY DEF Update
<1>4. \A g \in Files \ {f} : status'[g] = status[g] /\ m_exist'[g] = m_exist[g]
  <2>1. \A g \in Files \ {f} : status'[g] = status[g]
    BY DEF Update
  <2>2. \A g \in Files \ {f} : m_exist'[g] = m_exist[g]
    BY <1>3
  <2> QED
    BY <2>1, <2>2
<1>5. m_exist'[f] => m_exist[f]
  BY <1>3
<1>6. Life(f)' = Life(f) \/ Life(f)' = "gone"
  <2>1. CASE m_exist'[f]
    BY <1>1, <1>5, <2>1 DEF Life
  <2>2. CASE ~m_exist'[f]
    BY <1>1, <2>2 DEF Life
  <2> QED
    BY <2>1, <2>2
<1>7. Lives' \in {Lives, [Lives EXCEPT ![f] = "gone"]}
  <2>1. Lives' = [Lives EXCEPT ![f] = Life(f)']
    BY <1>4, LifeOf
  <2>2. [Lives EXCEPT ![f] = Life(f)] = Lives
    BY DEF Lives
  <2> QED
    BY <1>6, <2>1, <2>2
<1>8. /\ spc = "mounted" /\ UNCHANGED <<blobver, dropped, spc>>
      /\ ver' = [ver EXCEPT ![f] = @ + 1]
  BY DEF Update
<1> QED
  BY <1>2, <1>7, <1>8 DEF Promise!Change, Lives
\* A request that takes effect moves the blob between its version and memory's,
\* or deletes it for a file that has gone; one that does not is no step at all.
LEMMA RequestSim ==
  ASSUME TypeOK, TypeOK', QueuedLoaded, ExistSeen, VersionsOrdered,
         DeleteBlob \/ CommitBlocks \/ PutMetadata \/ RequestFails
  PROVE  Looks
<1> USE DEF TypeOK
<1>1. /\ tpc \in {"delete", "commit", "meta"}
      /\ UNCHANGED <<fileVars, dropped, spc>>
  BY RequestFacts
<1>2. Lives' = Lives
  BY <1>1, SameLives
<1>3. Up /\ Up' = Up
  BY <1>1 DEF Up, DeleteBlob, CommitBlocks, PutMetadata, RequestFails,
     Succeed, Throw, Running
<1>4. item \in Files /\ Loaded(item)
  BY <1>1 DEF QueuedLoaded
<1>5. Lives[item] # "unborn"
  BY <1>4 DEF Lives, Life
<1>6. CASE blobver' = blobver
  BY <1>1, <1>2, <1>3, <1>6 DEF Looks
<1>7. CASE tpc = "delete" /\ blobver' = [blobver EXCEPT ![item] = Absent]
  <2>1. Lives[item] = "gone"
    BY <1>4, <1>7 DEF Lives, Life, ExistSeen
  <2>2. Promise!Remove(item)
    BY <1>1, <1>2, <1>3, <1>7, <2>1 DEF Promise!Remove, Lives, Up, Absent
  <2> QED
    BY <1>4, <2>2 DEF Looks, Promise!Next
<1>8. ASSUME NEW v \in 0..ver[item], blobver[item] <= v,
             blobver' = [blobver EXCEPT ![item] = v]
      PROVE  Looks
  <2>1. Promise!Save(item, v)
    BY <1>1, <1>2, <1>3, <1>5, <1>8 DEF Promise!Save, Lives, Up
  <2> QED
    BY <1>4, <2>1 DEF Looks, Promise!Next
<1>9. CASE tpc = "commit" /\ blobver' = [blobver EXCEPT ![item] = Committed]
  <2>1. Committed \in 0..ver[item] /\ blobver[item] <= Committed
    <3>1. blobver[item] \in -1..MaxVer /\ ver[item] \in 1..MaxVer
      BY <1>4
    <3>2. blobver[item] <= ver[item]
      BY <1>4 DEF VersionsOrdered
    <3> QED
      BY <3>1, <3>2, UploadQueueAssumption DEF Committed, Absent, Bare
  <2> QED
    BY <1>8, <1>9, <2>1
<1>10. CASE tpc = "meta" /\ blobver' = [blobver EXCEPT ![item] = snapver]
  <2>1. snapver \in 0..ver[item] /\ blobver[item] <= snapver
    BY <1>4, <1>10 DEF VersionsOrdered
  <2> QED
    BY <1>8, <1>10, <2>1
<1> QED
  BY <1>6, <1>7, <1>9, <1>10
  DEF DeleteBlob, CommitBlocks, PutMetadata, RequestFails, Succeed, Throw

LEMMA RestoreSim ==
  ASSUME TypeOK, TypeOK', Restore
  PROVE  Looks
<1> USE DEF TypeOK
<1>1. Lives' = Lives
  BY SameLives DEF Restore
<1>2. /\ Up /\ Up' = Up
      /\ item \in Files
      /\ dropped' \in {dropped \cup {item}, dropped \ {item}, dropped}
      /\ UNCHANGED <<ver, blobver, spc>>
  BY DEF Restore, Running, Up
<1>3. CASE dropped' = dropped
  BY <1>1, <1>2, <1>3 DEF Looks
<1>4. CASE dropped' \in {dropped \cup {item}, dropped \ {item}}
  <2>1. Promise!GiveUp(item)
    BY <1>1, <1>2, <1>4 DEF Promise!GiveUp, Lives, Up
  <2> QED
    BY <1>2, <2>1 DEF Looks, Promise!Next
<1> QED
  BY <1>2, <1>3, <1>4

\* run_upload lets stop() return only when nothing is left to save.
LEMMA ExitSim ==
  ASSUME IInv, TypeOK', Exit
  PROVE  Looks
<1> USE DEF IInv, TypeOK
<1>1. Lives' = Lives /\ UNCHANGED <<ver, blobver, dropped>> /\ Up
  <2>1. UNCHANGED <<fileVars, blobver, dropped>> /\ Up
    BY DEF Exit, Running, Up
  <2> QED
    BY <2>1, SameLives
<1>2. CASE spc' = spc
  BY <1>1, <1>2 DEF Looks, Up
<1>3. CASE spc = "waiting" /\ spc' = "returned"
  <2>1. upload_queue = <<>> /\ upc = "poll"
    BY DEF Exit
  <2>2. tpc = "none" /\ \A f \in Files : m_mutex[f] = NoOne /\ ~InQueue(f)
    BY <1>3, <2>1 DEF LoopTask, StopInv, InQueue
  <2>3. ASSUME NEW f \in Files PROVE Promise!Saved(f) \/ f \in dropped
    <3>1. CASE Loaded(f)
      <4>1. Synced(f) \/ f \in dropped
        BY <2>2, <3>1, RestSaved DEF RestIsSaved, AtRest
      <4>2. Lives[f] = IF m_exist[f] THEN "exists" ELSE "gone"
        BY <3>1 DEF Lives, Life
      <4>3. CASE m_exist[f]
        BY <4>1, <4>2, <4>3 DEF Synced, Promise!Saved, Lives
      <4>4. CASE ~m_exist[f]
        BY <4>1, <4>2, <4>4 DEF Synced, Promise!Saved, Absent, Lives
      <4> QED
        BY <4>3, <4>4
    <3>2. CASE ~Loaded(f)
      BY <3>2 DEF Lives, Life, Promise!Saved, Loaded, SavedInv, StoredAsLoaded
    <3> QED
      BY <3>1, <3>2
  <2>4. Promise!Unmount
    BY <1>1, <1>3, <2>3 DEF Promise!Unmount, Up, Lives
  <2> QED
    BY <2>4 DEF Looks, Promise!Next
<1> QED
  BY <1>2, <1>3 DEF Exit
LEMMA StepSim ==
  ASSUME HarmlessHeap, ~Spurious, IInv, IInv', VersionsOrdered, [Next]_vars
  PROVE  Looks
<1> USE DEF IInv
<1>1. CASE UNCHANGED <<Lives, ver, blobver, dropped, spc>>
  BY <1>1 DEF Looks, Up
<1>2. CASE UNCHANGED <<status, m_exist, ver, blobver, dropped, spc>>
  BY <1>1, <1>2, SameLives
<1>3. ASSUME NEW f \in Files, Create(f) PROVE Looks
  BY <1>3, CreateSim DEF SavedInv, Looks, Promise!Next
<1>4. ASSUME NEW f \in Files, Load(f) PROVE Looks
  BY <1>1, <1>4, LoadSim
<1>5. ASSUME NEW c \in Clients, NEW f \in Files, NEW d \in {-1, 0, 1},
             Update(c, f, d)
      PROVE  Looks
  BY <1>5, UpdateSim DEF Looks, Promise!Next
<1>6. ASSUME NEW c \in Clients, NEW f \in Files, Enqueue(c, f) PROVE Looks
  BY <1>2, <1>6 DEF Enqueue
<1>7. CASE Launch \/ Pop \/ Join
  BY <1>2, <1>7 DEF Launch, Pop, Join
<1>8. CASE Exit
  BY <1>8, ExitSim
<1>9. CASE TakeSnapshot
  <2>1. status[item] # "None" /\ m_exist' = m_exist
    BY <1>9 DEF TakeSnapshot, QueuedLoaded, Loaded, TypeOK
  <2>2. \A f \in Files : status'[f] = "None" <=> status[f] = "None"
    BY <1>9, <2>1 DEF TakeSnapshot, TypeOK
  <2> QED
    BY <1>1, <1>9, <2>1, <2>2, SameLives DEF TakeSnapshot
<1>10. CASE CheckExist
  BY <1>2, <1>10 DEF CheckExist
<1>11. CASE DeleteBlob \/ CommitBlocks \/ PutMetadata \/ RequestFails
  BY <1>11, RequestSim DEF SavedInv
<1>12. CASE Restore
  BY <1>12, RestoreSim
<1>13. CASE StopStep
  <2>1. UNCHANGED <<status, m_exist, ver, blobver, dropped>> /\ Up /\ Up'
    BY <1>13 DEF StopStep, StopFlag, StopWait, SpuriousWake, Up
  <2>2. Up' = Up
    BY <2>1
  <2> QED
    BY <2>1, <2>2, SameLives DEF Looks
<1>14. CASE UNCHANGED vars
  BY <1>2, <1>14
<1> QED
  BY <1>3, <1>4, <1>5, <1>6, <1>7, <1>8, <1>9, <1>10, <1>11, <1>12, <1>13,
     <1>14
  DEF Next, ClientStep, LoopStep, TaskStep

\* The upload queue, its loop, its tasks and the callbacks implement write-back:
\* whatever the interleaving, the retries and the requests that fail after
\* their effect, storage only moves forward towards memory, blobs go only with
\* their files, and stop() returns only when all is saved or given up.
THEOREM ImplementsWriteBack ==
  ASSUME HarmlessHeap, ~Spurious
  PROVE  Spec => KeepsPromise
<1>1. Init => Promise!Init
  <2> SUFFICES ASSUME Init PROVE Promise!Init
    OBVIOUS
  <2>1. [f \in Files |-> Life(f)] =
          [f \in Files |-> IF f \in Stored THEN "exists" ELSE "unborn"]
    BY DEF Init, Life, Loaded
  <2>2. (spc # "returned") = TRUE
    BY DEF Init
  <2> QED
    BY <2>1, <2>2 DEF Init, Promise!Init, Absent
<1>2. Init => VersionsOrdered
  BY UploadQueueAssumption DEF Init, VersionsOrdered, Absent
<1>3. IInv /\ VersionsOrdered /\ [Next]_vars => VersionsOrdered'
  BY VersionsStep DEF IInv
<1>4. IInv /\ IInv' /\ VersionsOrdered /\ [Next]_vars => Looks
  BY StepSim
<1>5. Looks => [Promise!Next]_(Promise!wbVars)
  BY DEF Looks, Lives, Up, Promise!wbVars
<1>6. Spec => []IInv
  BY Invariance
<1> QED
  BY <1>1, <1>2, <1>3, <1>4, <1>5, <1>6, PTL DEF Spec, KeepsPromise, Promise!Spec
=============================================================================
