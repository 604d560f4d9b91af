----------------------------- MODULE UploadQueue -----------------------------
(***************************************************************************)
(* The upload loop of blobfs at the level of whole files: BasicFile's      *)
(* status, link count and m_exist flag, the FIFO of the Uploader, its one  *)
(* thread (run_upload), the task it starts for a file                      *)
(* (BlockBlobUploadHelper::generate_task with the Snapshot it takes) and   *)
(* the stop handshake of azs_destroy.  Blocks and the cache are the        *)
(* subject of BlockStore.                                                  *)
(*                                                                         *)
(* A file's metadata (l_filesize, l_nlink) is abstracted to a version      *)
(* number: ver[f] counts the changes made in memory, blobver[f] is the     *)
(* version stored with the blob.                                           *)
(***************************************************************************)
EXTENDS Integers, Sequences

CONSTANTS
  Files,         \* the BasicFile objects
  Stored,        \* those whose blob exists when the file system is mounted
  Clients,       \* the FUSE callback threads
  NoOne,         \* "this m_mutex is free"
  MaxVer,        \* bound on the metadata changes of one file
  Results,       \* the values generate_task may return besides 0
  RawStatus,     \* what BasicFile::get may leave in the uninitialised status
  RawExist,      \* what BasicFile::get may leave in the uninitialised m_exist
  Spurious       \* whether condition_variable::wait may wake unnotified

ASSUME UploadQueueAssumption ==
  /\ Stored \subseteq Files
  /\ NoOne \notin Clients
  /\ MaxVer \in Nat \ {0}
  /\ Results \subseteq {-1, 1}
  /\ RawStatus \subseteq {"Expired", "Clean", "Ready", "Dirty", "Uploading",
                           "Junk"}
  /\ RawStatus # {}
  /\ RawExist \subseteq BOOLEAN
  /\ RawExist # {}
  /\ Spurious \in BOOLEAN

VARIABLES
  status,        \* BasicFile::status; "None" before the object exists
  m_exist,       \* BasicFile::m_exist
  nlink,         \* BasicFile::nlink
  ver,           \* version of the in-memory metadata
  m_mutex,       \* BasicFile::m_mutex: the client that holds it on its way to
                 \*   add_to_wait, or NoOne
  upload_queue,  \* Uploader::upload_queue, positions only
  upc,           \* run_upload: "poll", "launched", "joining", "exited"
  item,          \* the file run_upload took from the front of the queue
  tpc,           \* the task: "none", "snap", "exist", "delete", "commit",
                 \*   "meta", "restore", "done"
  result,        \* the value the task is going to return
  snapver,       \* Snapshot::metadata, as a version
  blobver,       \* storage: -1 no blob, 0 blob without metadata, else version
  dropped,       \* history: files whose last attempt ended with -1
  spc            \* azs_destroy: "mounted", "flagged", "waiting", "returned"

fileVars   == <<status, m_exist, nlink, ver, m_mutex>>
loopVars   == <<upload_queue, upc, item>>
taskVars   == <<tpc, result, snapver>>
vars == <<fileVars, loopVars, taskVars, blobver, dropped, spc>>

Absent == -1
Bare   == 0
FileStatus == {"None", "Expired", "Clean", "Ready", "Dirty", "Uploading",
               "Junk"}

Init ==
  /\ status  = [f \in Files |-> "None"]
  /\ m_exist = [f \in Files |-> FALSE]
  /\ nlink   = [f \in Files |-> IF f \in Stored THEN 1 ELSE 0]
  /\ ver     = [f \in Files |-> 1]
  /\ m_mutex = [f \in Files |-> NoOne]
  /\ upload_queue = <<>>
  /\ upc = "poll"
  /\ item \in Files
  /\ tpc = "none"
  /\ result = 0
  /\ snapver = 0
  /\ blobver = [f \in Files |-> IF f \in Stored THEN 1 ELSE Absent]
  /\ dropped = {}
  /\ spc = "mounted"

Loaded(f) == status[f] # "None"
Idle(c)   == \A f \in Files : m_mutex[f] # c

(***************************************************************************)
(* FUSE side.  Callbacks run only while the file system is mounted.        *)
(***************************************************************************)

\* BasicFile::create: a new object is Dirty and queued before anyone sees it.
Create(f) ==
  /\ spc = "mounted"
  /\ status[f] = "None"
  /\ f \notin Stored
  /\ status'  = [status EXCEPT ![f] = "Dirty"]
  /\ m_exist' = [m_exist EXCEPT ![f] = TRUE]
  /\ upload_queue' = Append(upload_queue, f)
  /\ UNCHANGED <<nlink, ver, m_mutex, upc, item, taskVars,
                 blobver, dropped, spc>>

\* BasicFile::get: size, link count and type come from the blob's metadata;
\* status and m_exist are left as the heap had them.
Load(f) ==
  /\ spc = "mounted"
  /\ status[f] = "None"
  /\ f \in Stored
  /\ \E s \in RawStatus : status' = [status EXCEPT ![f] = s]
  /\ \E e \in RawExist : m_exist' = [m_exist EXCEPT ![f] = e]
  /\ UNCHANGED <<nlink, ver, m_mutex, loopVars, taskVars,
                 blobver, dropped, spc>>

\* What the metadata change of a client does to the link count: resize and
\* the end of write_bytes leave it (0), inc_nlink and dec_nlink move it.
\* Directory reaches the last two through FileMap::get, which returns no file
\* that has ceased to exist, and removes only links that are there.
MayLink(f, d) == d # 0 => m_exist[f] /\ nlink[f] + d >= 0

\* A slip: the last but one link removed ends the file.
UpdateOffByOne(c, f, d) ==
  /\ spc = "mounted"
  /\ Idle(c)
  /\ Loaded(f)
  /\ m_mutex[f] = NoOne
  /\ ver[f] < MaxVer
  /\ MayLink(f, d)
  /\ ver'   = [ver EXCEPT ![f] = @ + 1]
  /\ nlink' = [nlink EXCEPT ![f] = @ + d]
  /\ m_exist' = [m_exist EXCEPT ![f] = @ /\ ~(d = -1 /\ nlink[f] + d <= 1)]
  /\ status'  = [status EXCEPT ![f] = "Dirty"]
  /\ m_mutex' = IF status[f] = "Dirty" THEN m_mutex
                ELSE [m_mutex EXCEPT ![f] = c]
  /\ UNCHANGED <<loopVars, taskVars, blobver, dropped, spc>>

\* resize, write_bytes (its last section), inc_nlink and dec_nlink: change
\* the metadata under m_mutex, then mark the file Dirty unless it is so.
Update(c, f, d) ==
  /\ spc = "mounted"
  /\ Idle(c)
  /\ Loaded(f)
  /\ m_mutex[f] = NoOne
  /\ ver[f] < MaxVer
  /\ MayLink(f, d)
  /\ ver'   = [ver EXCEPT ![f] = @ + 1]
  /\ nlink' = [nlink EXCEPT ![f] = @ + d]
  /\ m_exist' = [m_exist EXCEPT ![f] = @ /\ ~(d = -1 /\ nlink[f] + d <= 0)]
  /\ \/ /\ status[f] = "Dirty"
        /\ UNCHANGED <<status, m_mutex>>
     \/ /\ status[f] # "Dirty"
        /\ status'  = [status EXCEPT ![f] = "Dirty"]
        /\ m_mutex' = [m_mutex EXCEPT ![f] = c]
  /\ UNCHANGED <<loopVars, taskVars, blobver, dropped, spc>>

\* A slip: a file is not queued again while it is the one being uploaded.
EnqueueOnce(c, f) ==
  /\ m_mutex[f] = c
  /\ upload_queue' = IF upc = "joining" /\ item = f THEN upload_queue
                     ELSE Append(upload_queue, f)
  /\ m_mutex' = [m_mutex EXCEPT ![f] = NoOne]
  /\ UNCHANGED <<status, m_exist, nlink, ver, upc, item, taskVars, blobver,
                 dropped, spc>>

\* Uploader::add_to_wait, still under m_mutex, which is then released.
Enqueue(c, f) ==
  /\ m_mutex[f] = c
  /\ upload_queue' = Append(upload_queue, f)
  /\ m_mutex' = [m_mutex EXCEPT ![f] = NoOne]
  /\ UNCHANGED <<status, m_exist, nlink, ver, upc, item, taskVars, blobver,
                 dropped, spc>>

-----------------------------------------------------------------------------
(***************************************************************************)
(* Uploader::run_upload.  The process, and its detached thread, are gone   *)
(* once stop has returned.                                                 *)
(***************************************************************************)
Running == spc # "returned"

\* The front item is old enough: start its task.  It is popped later.
Launch ==
  /\ Running
  /\ upc = "poll"
  /\ upload_queue # <<>>
  /\ item' = Head(upload_queue)
  /\ upc' = "launched"
  /\ tpc' = "snap"
  /\ UNCHANGED <<fileVars, upload_queue, result, snapver,
                 blobver, dropped, spc>>

Pop ==
  /\ Running
  /\ upc = "launched"
  /\ upload_queue' = Tail(upload_queue)
  /\ upc' = "joining"
  /\ UNCHANGED <<fileVars, item, taskVars, blobver, dropped, spc>>

\* Two slips in the test of the result: no retry, or a retry of a success.
JoinRequeue(again) ==
  /\ Running
  /\ upc = "joining"
  /\ tpc = "done"
  /\ upload_queue' = IF again THEN Append(upload_queue, item) ELSE upload_queue
  /\ upc' = "poll"
  /\ tpc' = "none"
  /\ result' = 0
  /\ snapver' = 0
  /\ UNCHANGED <<fileVars, item, blobver, dropped, spc>>
JoinNoRetry == JoinRequeue(FALSE)
JoinRetryZero == JoinRequeue(result >= 0)

\* t.get() returns; a positive result puts the file back in the queue.
Join ==
  /\ Running
  /\ upc = "joining"
  /\ tpc = "done"
  /\ upload_queue' = IF result > 0 THEN Append(upload_queue, item)
                                   ELSE upload_queue
  /\ upc' = "poll"
  /\ tpc' = "none"
  /\ result' = 0
  /\ snapver' = 0
  /\ UNCHANGED <<fileVars, item, blobver, dropped, spc>>

\* A slip: stop_flag is obeyed whatever is left in the queue.
ExitEarly ==
  /\ Running
  /\ upc = "poll"
  /\ spc # "mounted"
  /\ upc' = "exited"
  /\ spc' = IF spc = "waiting" THEN "returned" ELSE spc
  /\ UNCHANGED <<fileVars, upload_queue, item, taskVars, blobver,
                 dropped>>

\* Empty queue and stop_flag set: notify_one and leave.  The notification
\* reaches stop() only if it is waiting already.
Exit ==
  /\ Running
  /\ upc = "poll"
  /\ upload_queue = <<>>
  /\ spc # "mounted"
  /\ upc' = "exited"
  /\ spc' = IF spc = "waiting" THEN "returned" ELSE spc
  /\ UNCHANGED <<fileVars, upload_queue, item, taskVars, blobver,
                 dropped>>

-----------------------------------------------------------------------------
(***************************************************************************)
(* generate_task for the file item.                                        *)
(***************************************************************************)

\* A slip: the status stays Dirty, and an update during the upload is taken
\* for one that is queued already.
TakeSnapshotDirty ==
  /\ Running
  /\ tpc = "snap"
  /\ m_mutex[item] = NoOne
  /\ snapver' = ver[item]
  /\ tpc' = "exist"
  /\ UNCHANGED <<fileVars, loopVars, result, blobver, dropped, spc>>

\* create_snap: the Snapshot constructor, under m_mutex.
TakeSnapshot ==
  /\ Running
  /\ tpc = "snap"
  /\ m_mutex[item] = NoOne
  /\ status' = [status EXCEPT ![item] = "Uploading"]
  /\ snapver' = ver[item]
  /\ tpc' = "exist"
  /\ UNCHANGED <<m_exist, nlink, ver, m_mutex, loopVars, result,
                 blobver, dropped, spc>>

\* pfile->exist(), read without a lock.
CheckExist ==
  /\ Running
  /\ tpc = "exist"
  /\ tpc' = IF m_exist[item] THEN "commit" ELSE "delete"
  /\ UNCHANGED <<fileVars, loopVars, result, snapver, blobver,
                 dropped, spc>>

\* A request to storage that leaves the blob at version v: it succeeds and the
\* task goes on to next, ...
Succeed(v, next) ==
  /\ Running
  /\ blobver' = [blobver EXCEPT ![item] = v]
  /\ result' = 0
  /\ tpc' = next
  /\ UNCHANGED <<fileVars, loopVars, snapver, dropped, spc>>

\* A slip: the handler returns the HTTP status of the failure.
ThrowCode(v) ==
  /\ Running
  /\ Results # {}
  /\ result' = 503
  /\ blobver' \in {blobver, [blobver EXCEPT ![item] = v]}
  /\ tpc' = "restore"
  /\ UNCHANGED <<fileVars, loopVars, snapver, dropped, spc>>

\* ... or it throws, with or without having taken effect, and the handlers
\* turn the exception into 1 (retryable) or -1.
Throw(v) ==
  /\ Running
  /\ \E r \in Results : result' = r
  /\ blobver' \in {blobver, [blobver EXCEPT ![item] = v]}
  /\ tpc' = "restore"
  /\ UNCHANGED <<fileVars, loopVars, snapver, dropped, spc>>

\* A slip: the commit goes through a fresh reference and wipes the metadata.
CommittedBare == Bare

\* The version of the blob after upload_block_list: it exists from then on,
\* its metadata stays what it was.
Committed == IF blobver[item] = Absent THEN Bare ELSE blobver[item]

DeleteBlob   == tpc = "delete" /\ Succeed(Absent, "restore")
CommitBlocks == tpc = "commit" /\ Succeed(Committed, "meta")
PutMetadata  == tpc = "meta"   /\ Succeed(snapver, "restore")
RequestFails ==
  \/ tpc = "delete" /\ Throw(Absent)
  \/ tpc = "commit" /\ Throw(Committed)
  \/ tpc = "meta"   /\ Throw(snapver)

\* ~Snapshot, on every path out of the try block.
Restore ==
  /\ Running
  /\ tpc = "restore"
  /\ m_mutex[item] = NoOne
  /\ status' = [status EXCEPT ![item] = IF @ = "Uploading" THEN "Clean" ELSE @]
  /\ dropped' = IF result = -1 THEN dropped \cup {item}
                ELSE IF result = 0 THEN dropped \ {item} ELSE dropped
  /\ tpc' = "done"
  /\ UNCHANGED <<m_exist, nlink, ver, m_mutex, loopVars, result,
                 snapver, blobver, spc>>

-----------------------------------------------------------------------------
(***************************************************************************)
(* azs_destroy, called when no callback is running any more: Uploader::stop*)
(* sets stop_flag and then waits on stop_condition.                        *)
(***************************************************************************)
StopFlag ==
  /\ spc = "mounted"
  /\ \A c \in Clients : Idle(c)
  /\ spc' = "flagged"
  /\ UNCHANGED <<fileVars, loopVars, taskVars, blobver, dropped>>

StopWait ==
  /\ spc = "flagged"
  /\ spc' = "waiting"
  /\ UNCHANGED <<fileVars, loopVars, taskVars, blobver, dropped>>

SpuriousWake ==
  /\ Spurious
  /\ spc = "waiting"
  /\ spc' = "returned"
  /\ UNCHANGED <<fileVars, loopVars, taskVars, blobver, dropped>>

-----------------------------------------------------------------------------
ClientStep ==
  \/ \E f \in Files : Create(f) \/ Load(f)
  \/ \E c \in Clients, f \in Files, d \in {-1, 0, 1} : Update(c, f, d)
  \/ \E c \in Clients, f \in Files : Enqueue(c, f)

LoopStep == Launch \/ Pop \/ Join \/ Exit

TaskStep ==
  \/ TakeSnapshot \/ CheckExist
  \/ DeleteBlob \/ CommitBlocks \/ PutMetadata \/ RequestFails
  \/ Restore

StopStep == StopFlag \/ StopWait \/ SpuriousWake

Next == ClientStep \/ LoopStep \/ TaskStep \/ StopStep

Spec == Init /\ [][Next]_vars

\* The threads keep running: the upload loop, its task, a client that holds an
\* m_mutex, the thread in stop().  Storage is not out of order for ever: a
\* request made again and again succeeds in the end.
Fairness ==
  /\ WF_vars(LoopStep)
  /\ WF_vars(TaskStep)
  /\ SF_vars(DeleteBlob)
  /\ SF_vars(CommitBlocks)
  /\ SF_vars(PutMetadata)
  /\ \A c \in Clients, f \in Files : WF_vars(Enqueue(c, f))
  /\ WF_vars(StopWait)

FairSpec == Spec /\ Fairness

-----------------------------------------------------------------------------
TypeOK ==
  /\ status \in [Files -> FileStatus]
  /\ m_exist \in [Files -> BOOLEAN]
  /\ nlink \in [Files -> Nat]
  /\ ver \in [Files -> 1..MaxVer]
  /\ m_mutex \in [Files -> Clients \cup {NoOne}]
  /\ upload_queue \in Seq(Files)
  /\ upc \in {"poll", "launched", "joining", "exited"}
  /\ item \in Files
  /\ tpc \in {"none", "snap", "exist", "delete", "commit", "meta", "restore",
              "done"}
  /\ result \in {-1, 0, 1}
  /\ snapver \in 0..MaxVer
  /\ blobver \in [Files -> -1..MaxVer]
  /\ dropped \subseteq Files
  /\ spc \in {"mounted", "flagged", "waiting", "returned"}

InQueue(f) == \E i \in 1..Len(upload_queue) : upload_queue[i] = f

\* Storage holds the file as memory has it: its last metadata, or no blob for
\* a file that no longer exists.
Synced(f) == IF m_exist[f] THEN blobver[f] = ver[f] ELSE blobver[f] = Absent

\* No wake-up is lost between the callbacks and run_upload: a Dirty file is in
\* the queue, or its client is about to put it there, or the task is about to
\* take its snapshot.  add_to_wait is skipped for a file that is Dirty already
\* and the queue is popped after the task has started, so a flag and a queue
\* under two different mutexes have to agree.
DirtyIsQueued ==
  \A f \in Files :
    status[f] = "Dirty" =>
      \/ InQueue(f)
      \/ m_mutex[f] # NoOne
      \/ tpc = "snap" /\ item = f

\* At rest nothing is forgotten: a file nobody is working on is in storage as
\* it is in memory, whatever retries, failures after effect and updates during
\* an upload went before, unless its last attempt failed for good.
AtRest(f) ==
  /\ Loaded(f)
  /\ ~InQueue(f)
  /\ m_mutex[f] = NoOne
  /\ tpc # "none" => item # f
RestIsSaved == \A f \in Files : AtRest(f) => Synced(f) \/ f \in dropped

\* Uploader::stop returns to azs_destroy only after run_upload has emptied the
\* queue and every file is in storage, or failed for good.
StopDrained ==
  spc = "returned" =>
    /\ upload_queue = <<>>
    /\ \A f \in Files : Loaded(f) => Synced(f) \/ f \in dropped

\* A blob is deleted only for a file whose last link was removed.
DeleteOnlyUnlinked == tpc = "delete" => nlink[item] = 0

\* Retries and overlapping updates never put an older version of the metadata
\* over a newer one.
NoRegress ==
  [][\A f \in Files : blobver'[f] # Absent => blobver'[f] >= blobver[f]]_blobver

\* Under storage that answers in the end, every change reaches storage.
DirtyIsSaved ==
  \A f \in Files : status[f] = "Dirty" ~> Synced(f) \/ f \in dropped

\* Once azs_destroy has set stop_flag the upload loop comes to its end.
LoopEnds == spc = "flagged" ~> upc = "exited"

\* azs_destroy un-mounts the file system (BlobAdapter.h): Uploader::stop
\* returns.
StopReturns == spc = "flagged" ~> spc = "returned"

\* What a file is to those who do not know of objects that are still to load.
Life(f) == IF Loaded(f) THEN IF m_exist[f] THEN "exists" ELSE "gone"
                        ELSE IF f \in Stored THEN "exists" ELSE "unborn"

Promise == INSTANCE WriteBack
             WITH life <- [f \in Files |-> Life(f)], latest <- ver,
                  stored <- blobver, given_up <- dropped,
                  mounted <- spc # "returned"

\* The uploader, its tasks and the callbacks implement write-back.
KeepsPromise == Promise!Spec
=============================================================================
