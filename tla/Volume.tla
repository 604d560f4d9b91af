-------------------------------- MODULE Volume --------------------------------
(***************************************************************************)
(* What the uploads have left in the container when the process ends, and  *)
(* what the next mount makes of it.                                        *)
(*                                                                         *)
(* A name operation is a list of creations, addEntry and rmEntry; the      *)
(* latter change a count, then a directory's size and records, one by one, *)
(* and each change makes its file Dirty and queues it.  The upload thread  *)
(* takes files from the queue one by one and stores each in two requests,  *)
(* its blocks and its metadata.  A crash may fall between any two of these *)
(* steps.  One callback runs at a time, storage does not fail, and a       *)
(* directory has its records in one block; the races are the subject of    *)
(* Namespace and UploadQueue.                                              *)
(***************************************************************************)
EXTENDS Integers, Sequences, FiniteSets

CONSTANTS
  Guids,
  None,          \* nothing in memory, nothing in storage, no guid
  Names, Dot, DotDot,
  Junk,          \* the name in a record that has not been written yet
  Stored0,       \* a tree that may be stored at first: directories and ...
  Root0,         \* ... their records, files without; its rootdir
  Ops,           \* the operations callers use
  MaxOps,        \* bound on the calls; mkdir, which is long, counts twice
  MaxCrashes     \* bound on the crashes

Record(nm, g) == [name |-> nm, g |-> g]
JunkRecord == Record(Junk, None)
EntryNames == Names \cup {Dot, DotDot}
Records == [name : EntryNames, g : Guids] \cup {JunkRecord}

\* BasicFile.  size counts records, recs has those beyond it as well.
Objects == [kind : {"reg", "dir"}, nlink : Int, exist : BOOLEAN, size : Nat,
            recs : Seq(Records), status : {"Dirty", "Uploading", "Clean"}]
Metas == [kind : {"reg", "dir"}, nlink : Int, size : Nat]
Tasks == [g : Guids, todo : {"blocks", "metadata", "delete"}, snap : Objects]
Updates == [op  : {"reg", "dir", "addEntry", "rmEntry", "container"},
            g   : Guids,
            rec : [name : EntryNames, g : Guids \cup {None}] \cup {JunkRecord}]
Hands == [step : {"grow", "place", "move", "close"}, d : Guids, i : Nat \ {0},
          rec : Records]

\* Links0: the records that name g.
Links0(g) == {e \in UNION {{d} \X DOMAIN Stored0[d] : d \in DOMAIN Stored0} :
                Stored0[e[1]][e[2]].g = g}
IsDir0(g) == Stored0[g] # <<>>

\* Every directory names itself and its parent, and has one name; a file one
\* name at least; no directory has the same name twice.
Tree0 ==
  /\ IsDir0(Root0)
  /\ \A d \in DOMAIN Stored0 : \A i \in DOMAIN Stored0[d] :
       LET r == Stored0[d][i]
       IN /\ r.g \in DOMAIN Stored0
          /\ r.name = Dot => r.g = d
          /\ r.name = DotDot =>
               IF d = Root0 THEN r.g = Root0
               ELSE \E e \in Links0(d) :
                      e[1] = r.g /\ Stored0[e[1]][e[2]].name \in Names
          /\ r.name \in Names => r.g # Root0
          /\ r.name \in Names /\ IsDir0(r.g) =>
               \A e \in Links0(r.g) :
                 Stored0[e[1]][e[2]].name \in Names => e = <<d, i>>
  /\ \A d \in DOMAIN Stored0 : \A i, j \in DOMAIN Stored0[d] :
       Stored0[d][i].name = Stored0[d][j].name => i = j
  /\ \A d \in DOMAIN Stored0 : IsDir0(d) =>
       {Dot, DotDot} \subseteq {Stored0[d][i].name : i \in DOMAIN Stored0[d]}
  /\ \A g \in DOMAIN Stored0 \ {Root0} :
       \E e \in Links0(g) : Stored0[e[1]][e[2]].name \in Names

ASSUME VolumeAssumption ==
  /\ Root0 \in DOMAIN Stored0 /\ DOMAIN Stored0 \subseteq Guids
  /\ Stored0 \in [DOMAIN Stored0 -> Seq([name : EntryNames, g : Guids])]
  /\ IsFiniteSet(Guids)
  /\ None \notin Guids \cup Records \cup Seq(Records) \cup Objects \cup Metas
  /\ Dot # DotDot /\ {Dot, DotDot} \cap Names = {} /\ Junk \notin EntryNames
  /\ Tree0
  /\ MaxOps \in Nat /\ MaxCrashes \in Nat

VARIABLES
  \* the process
  mounted,
  rootdir,
  obj,           \* FileMap: Objects or None
  upload_queue,
  task,          \* generate_task: Tasks or NoTask
  call,          \* the Updates the running callback has yet to make
  hand,          \* what addEntry or rmEntry has yet to do: Hands or NoHand;
                 \*   i is the record it is about, rec what that counts as
  \* the container
  container,     \* its metadata: the rootdir, or None
  data,          \* per blob its records, or None
  meta,          \* per blob its Metas, or None
  \* history
  uuids,         \* the guids that new_uuid has returned
  lost,          \* files with changes that a crash has undone, and files
                 \*   that calls have reached through them
  ops, crashes

memory  == <<rootdir, obj, upload_queue, task, call, hand>>
storage == <<container, data, meta>>
history == <<uuids, lost, ops, crashes>>
vars == <<mounted, memory, storage, history>>

NoTask == [g |-> None, todo |-> "nothing", snap |-> None]

NoHand == [step |-> "none", d |-> None, i |-> 0, rec |-> JunkRecord]

Forget ==
  /\ mounted' = FALSE
  /\ rootdir' = None
  /\ obj' = [g \in Guids |-> None]
  /\ upload_queue' = <<>>
  /\ task' = NoTask
  /\ call' = <<>>
  /\ hand' = NoHand

\* An empty container, or one with the tree.
Init ==
  /\ mounted = FALSE
  /\ rootdir = None
  /\ obj = [g \in Guids |-> None]
  /\ upload_queue = <<>>
  /\ task = NoTask
  /\ call = <<>>
  /\ hand = NoHand
  /\ container \in {None, Root0}
  /\ data = [g \in Guids |-> IF container # None /\ g \in DOMAIN Stored0
                             THEN Stored0[g] ELSE None]
  /\ meta = [g \in Guids |->
               IF container # None /\ g \in DOMAIN Stored0
               THEN [kind  |-> IF IsDir0(g) THEN "dir" ELSE "reg",
                     nlink |-> Cardinality(Links0(g)),
                     size  |-> Len(Stored0[g])]
               ELSE None]
  /\ uuids = IF container = None THEN {} ELSE DOMAIN Stored0
  /\ lost = {}
  /\ ops = 0
  /\ crashes = 0

-----------------------------------------------------------------------------
(***************************************************************************)
(* Updates.  Where FileMap::get finds no file the process ends, as it does *)
(* in Crash.                                                               *)
(***************************************************************************)
Update(op, g, rec) == [op |-> op, g |-> g, rec |-> rec]
CreateFile(g, kind) == Update(kind, g, JunkRecord)
AddEntry(d, nm, g) == Update("addEntry", d, Record(nm, g))
RmEntry(d, nm) == Update("rmEntry", d, Record(nm, None))

\* new_uuid: never the same guid again; which one it is does not matter.
Unused == Guids \ uuids
NewGuid == CHOOSE g \in Unused : TRUE
NewUuid == Unused # {} /\ uuids' = uuids \cup {NewGuid}

\* FileMap::get has the file, and it exists.
Here(g) == obj[g] # None /\ obj[g].exist
HereDir(g) ==
  /\ Here(g) /\ obj[g].kind = "dir"
  /\ obj[g].size <= Len(obj[g].recs)   \* or the download throws

Find(d, nm) ==
  {i \in 1..obj[d].size : obj[d].recs[i].name = nm}
Has(d, nm) == Find(d, nm) # {}
First(S) == CHOOSE i \in S : \A j \in S : i <= j
Child(d, nm) == obj[d].recs[First(Find(d, nm))].g

\* Slips: a file is queued again while it is Dirty, or not while it is being
\* uploaded.
QueuedAlways(g) == Append(upload_queue, g)
QueuedIdle(g) == IF obj[g].status = "Clean" THEN Append(upload_queue, g)
                                            ELSE upload_queue
Queued(g) == IF obj[g].status = "Dirty" THEN upload_queue
                                        ELSE Append(upload_queue, g)

\* A change to the file g, after which it is Dirty and queued.
Change(g, o) ==
  /\ obj' = [obj EXCEPT ![g] = [o EXCEPT !.status = "Dirty"]]
  /\ upload_queue' = Queued(g)

\* The next update of the call, with nothing in hand.
Doing(op) == call # <<>> /\ hand = NoHand /\ Head(call).op = op

\* BasicFile::create.
DoCreate ==
  LET u == Head(call)
  IN /\ Doing("reg") \/ Doing("dir")
     /\ obj' = [obj EXCEPT ![u.g] =
                  [kind |-> u.op, nlink |-> 0, exist |-> TRUE, size |-> 0,
                   recs |-> <<>>, status |-> "Dirty"]]
     /\ upload_queue' = Append(upload_queue, u.g)
     /\ call' = Tail(call)
     /\ UNCHANGED <<mounted, rootdir, task, hand, storage, history>>

\* addEntry: inc_nlink of the file, then write_bytes of a record at the end,
\* which makes the directory longer (Grow) before it copies it (Place).
DoAddEntry ==
  LET d == Head(call).g
      g == Head(call).rec.g
  IN /\ Doing("addEntry")
     /\ Here(g)
     /\ Change(g, [obj[g] EXCEPT !.nlink = @ + 1])
     /\ hand' = [step |-> "grow", d |-> d, i |-> obj[d].size + 1,
                 rec |-> Head(call).rec]
     /\ call' = Tail(call)
     /\ UNCHANGED <<mounted, rootdir, task, storage, history>>

\* rmEntry: dec_nlink of the file; the last record takes the place of its
\* entry (Move), and the directory becomes shorter (Close).
DoRmEntry ==
  LET d == Head(call).g
      i == First(Find(d, Head(call).rec.name))
      g == obj[d].recs[i].g
  IN /\ Doing("rmEntry")
     /\ IF Has(d, Head(call).rec.name)
        THEN /\ Here(g)
             /\ Change(g, [obj[g] EXCEPT !.nlink = @ - 1,
                                         !.exist = obj[g].nlink > 1])
             /\ hand' = [step |-> IF i = obj[d].size THEN "close" ELSE "move",
                         d |-> d, i |-> i, rec |-> JunkRecord]
        ELSE UNCHANGED <<obj, upload_queue, hand>>
     /\ call' = Tail(call)
     /\ UNCHANGED <<mounted, rootdir, task, storage, history>>

\* resize; a record that is new is whatever is there.
Grow ==
  LET o == obj[hand.d]
  IN /\ hand.step = "grow"
     /\ Change(hand.d, [o EXCEPT !.size = hand.i,
                                 !.recs = IF hand.i <= Len(@) THEN @
                                          ELSE Append(@, JunkRecord)])
     /\ hand' = [hand EXCEPT !.step = "place"]
     /\ UNCHANGED <<mounted, rootdir, task, call, storage, history>>

Place ==
  /\ hand.step = "place"
  /\ Change(hand.d, [obj[hand.d] EXCEPT !.recs[hand.i] = hand.rec])
  /\ hand' = NoHand
  /\ UNCHANGED <<mounted, rootdir, task, call, storage, history>>

Move ==
  LET o == obj[hand.d]
  IN /\ hand.step = "move"
     /\ Change(hand.d, [o EXCEPT !.recs[hand.i] = o.recs[o.size]])
     /\ hand' = [hand EXCEPT !.step = "close", !.i = o.size]
     /\ UNCHANGED <<mounted, rootdir, task, call, storage, history>>

Close ==
  /\ hand.step = "close"
  /\ Change(hand.d, [obj[hand.d] EXCEPT !.size = @ - 1])
  /\ hand' = NoHand
  /\ UNCHANGED <<mounted, rootdir, task, call, storage, history>>

\* azs_init in a container without a rootdir, at its end.
DoContainer ==
  /\ Doing("container")
  /\ container' = rootdir
  /\ call' = Tail(call)
  /\ UNCHANGED <<mounted, rootdir, obj, upload_queue, task, hand, data, meta,
                 history>>

-----------------------------------------------------------------------------
(***************************************************************************)
(* The callbacks: the guards are those of the code and what the system has *)
(* looked up before.                                                       *)
(***************************************************************************)
\* A call that works on the files in used; if one of them is damaged, what it
\* does to those in changed is not to be relied on.
Begin(op, used, changed, updates) ==
  /\ mounted
  /\ call = <<>> /\ hand = NoHand
  /\ op \in Ops
  /\ ops' = ops + (IF op = "mkdir" THEN 2 ELSE 1)
  /\ ops' <= MaxOps
  /\ call' = updates
  /\ lost' = IF used \cap lost # {} THEN lost \cup changed ELSE lost
  /\ UNCHANGED <<mounted, rootdir, obj, upload_queue, task, hand, storage,
                 crashes>>

\* The files with that name.
Under(d, nm) == {obj[d].recs[i].g : i \in Find(d, nm)}

azs_create(d, nm) ==
  /\ HereDir(d) /\ ~Has(d, nm) /\ NewUuid
  /\ LET g == NewGuid
     IN Begin("create", {d}, {g}, << CreateFile(g, "reg"), AddEntry(d, nm, g) >>)

azs_mkdir(d, nm) ==
  /\ HereDir(d) /\ ~Has(d, nm) /\ NewUuid
  /\ LET g == NewGuid
     IN Begin("mkdir", {d}, {g},
              << CreateFile(g, "dir"), AddEntry(g, Dot, g),
                 AddEntry(g, DotDot, d), AddEntry(d, nm, g) >>)

azs_unlink(d, nm) ==
  /\ HereDir(d) /\ Has(d, nm)
  /\ Here(Child(d, nm)) /\ obj[Child(d, nm)].kind = "reg"
  /\ Begin("unlink", {d}, Under(d, nm), << RmEntry(d, nm) >>)
  /\ UNCHANGED uuids

azs_rmdir(d, nm) ==
  /\ HereDir(d) /\ Has(d, nm) /\ HereDir(Child(d, nm))
  /\ LET g == Child(d, nm)
     IN /\ obj[g].size <= 2
        /\ Begin("rmdir", {d, g},
                 Under(d, nm) \cup Under(g, Dot) \cup Under(g, DotDot),
                 << RmEntry(g, DotDot), RmEntry(g, Dot), RmEntry(d, nm) >>)
        /\ UNCHANGED uuids

azs_rename(d, nm, e, to) ==
  /\ HereDir(d) /\ Has(d, nm) /\ HereDir(e) /\ ~Has(e, to)
  /\ Here(Child(d, nm)) /\ obj[Child(d, nm)].kind = "reg"
  /\ Begin("rename", {d, e}, Under(d, nm),
           << AddEntry(e, to, Child(d, nm)), RmEntry(d, nm) >>)
  /\ UNCHANGED uuids

-----------------------------------------------------------------------------
(***************************************************************************)
(* The uploads.                                                            *)
(***************************************************************************)
\* A task begins: the snapshot of the file at the front.
Launch ==
  /\ mounted
  /\ task = NoTask
  /\ upload_queue # <<>>
  /\ LET g == Head(upload_queue)
     IN /\ obj' = [obj EXCEPT ![g].status = "Uploading"]
        /\ task' = [g |-> g, todo |-> IF obj[g].exist THEN "blocks" ELSE "delete",
                    snap |-> obj[g]]
  /\ upload_queue' = Tail(upload_queue)
  /\ UNCHANGED <<mounted, rootdir, call, hand, storage, history>>

\* The task is done: ~Snapshot.
Finish ==
  /\ task' = NoTask
  /\ obj' = [obj EXCEPT ![task.g].status = IF @ = "Uploading" THEN "Clean"
                                                              ELSE @]

DeleteBlob ==
  /\ task.todo = "delete"
  /\ data' = [data EXCEPT ![task.g] = None]
  /\ meta' = [meta EXCEPT ![task.g] = None]
  /\ Finish
  /\ UNCHANGED <<mounted, rootdir, upload_queue, call, hand, container,
                 history>>

\* upload_block_list: whole blocks, none if the file is empty.
CommitBlocks ==
  /\ task.todo = "blocks"
  /\ data' = [data EXCEPT ![task.g] =
                IF task.snap.size = 0 THEN <<>> ELSE task.snap.recs]
  /\ task' = [task EXCEPT !.todo = "metadata"]
  /\ UNCHANGED <<mounted, rootdir, obj, upload_queue, call, hand, container, meta,
                 history>>

\* What goes with them.  (A slip: the values the file has by now.)
MetadataOf(o) == [kind |-> o.kind, nlink |-> o.nlink, size |-> o.size]
MetadataNow == MetadataOf(obj[task.g])
Metadata == MetadataOf(task.snap)

PutMetadata ==
  /\ task.todo = "metadata"
  /\ meta' = [meta EXCEPT ![task.g] = Metadata]
  /\ Finish
  /\ UNCHANGED <<mounted, rootdir, upload_queue, call, hand, container, data,
                 history>>

-----------------------------------------------------------------------------
(***************************************************************************)
(* Mounting and its end.                                                   *)
(***************************************************************************)
\* BasicFile::get makes an object of the blob; without the metadata stoll
\* throws.  Objects are made on demand, but nobody changes a blob before.
Loadable(g) == data[g] # None /\ meta[g] # None
Loaded(g) ==
  IF Loadable(g)
  THEN [kind |-> meta[g].kind, nlink |-> meta[g].nlink, exist |-> TRUE,
        size |-> meta[g].size, recs |-> data[g], status |-> "Clean"]
  ELSE None

\* azs_init: the rootdir that the container names, ...
Mount ==
  /\ ~mounted
  /\ container # None
  /\ mounted' = TRUE
  /\ rootdir' = container
  /\ obj' = [g \in Guids |-> Loaded(g)]
  /\ UNCHANGED <<upload_queue, task, call, hand, storage, history>>

\* ... or a new one.  (A slip: always.)
NewRoot(g) ==
  /\ mounted' = TRUE
  /\ rootdir' = g
  /\ call' = << CreateFile(g, "dir"), AddEntry(g, Dot, g),
                AddEntry(g, DotDot, g), Update("container", g, JunkRecord) >>
  /\ UNCHANGED <<obj, upload_queue, task, hand, storage, lost, ops, crashes>>

FirstMountAlways ==
  /\ ~mounted
  /\ NewUuid /\ NewRoot(NewGuid)
FirstMount ==
  /\ ~mounted
  /\ container = None
  /\ NewUuid /\ NewRoot(NewGuid)

\* Uploader::stop waits for an empty queue.  (A slip: it does not.)
UnmountEarly ==
  /\ mounted
  /\ call = <<>> /\ hand = NoHand
  /\ task = NoTask
  /\ Forget
  /\ UNCHANGED <<storage, history>>
Unmount ==
  /\ mounted
  /\ call = <<>> /\ hand = NoHand
  /\ upload_queue = <<>>
  /\ task = NoTask
  /\ Forget
  /\ UNCHANGED <<storage, history>>

\* The files with changes that are not in storage, or not all of them.
Outstanding ==
  {upload_queue[i] : i \in DOMAIN upload_queue} \cup ({task.g} \ {None})
    \cup ({hand.d, hand.rec.g} \ {None})
    \cup UNION {{call[i].g, call[i].rec.g} \ {None} : i \in DOMAIN call}

\* The process ends where it is.
Crash ==
  /\ mounted
  /\ crashes < MaxCrashes
  /\ crashes' = crashes + 1
  /\ lost' = lost \cup Outstanding
  /\ Forget
  /\ UNCHANGED <<storage, uuids, ops>>

-----------------------------------------------------------------------------
Callback ==
  \/ \E d \in Guids, nm \in Names :
       \/ azs_create(d, nm) \/ azs_mkdir(d, nm)
       \/ azs_unlink(d, nm) \/ azs_rmdir(d, nm)
       \/ \E e \in Guids, to \in Names : azs_rename(d, nm, e, to)
  \/ DoCreate \/ DoAddEntry \/ DoRmEntry \/ DoContainer
  \/ Grow \/ Place \/ Move \/ Close

Next ==
  \/ Callback
  \/ Launch \/ DeleteBlob \/ CommitBlocks \/ PutMetadata
  \/ Mount \/ FirstMount \/ Unmount \/ Crash

Spec == Init /\ [][Next]_vars

-----------------------------------------------------------------------------
TypeOK ==
  /\ mounted \in BOOLEAN
  /\ rootdir \in Guids \cup {None} /\ container \in Guids \cup {None}
  /\ obj \in [Guids -> Objects \cup {None}]
  /\ upload_queue \in Seq(Guids)
  /\ \A i, j \in DOMAIN upload_queue :
       upload_queue[i] = upload_queue[j] => i = j
  /\ task = NoTask \/ task \in Tasks
  /\ call \in Seq(Updates)
  /\ hand = NoHand \/ hand \in Hands
  /\ data \in [Guids -> Seq(Records) \cup {None}]
  /\ meta \in [Guids -> Metas \cup {None}]
  /\ uuids \subseteq Guids /\ lost \subseteq Guids
  /\ ops \in 0..MaxOps /\ crashes \in 0..MaxCrashes

\* The records of a directory in storage, and those that name g.
StoredEntries(d) == IF Loadable(d) THEN 1..meta[d].size ELSE {}
Naming(g, dirs) == {e \in UNION {{d} \X StoredEntries(d) : d \in dirs} :
                      data[e[1]][e[2]].g = g}
StoredDirs == {d \in Guids : Loadable(d) /\ meta[d].kind = "dir"}

\* The size in a blob's metadata never goes beyond its data, whichever request
\* was the last: what the next mount reads is there.  A file that was emptied
\* is the exception: its blocks are gone before its old size is.
SizeWithinData ==
  \A g \in Guids :
    Loadable(g) /\ data[g] # <<>> => meta[g].size <= Len(data[g])

\* A crash damages only what it interrupted.  Of the files without changes
\* under way each directory's entries lead to files, and a file has the
\* links it counts; only the directories that were interrupted may have more
\* or fewer of them.
DamageIsLocal ==
  ~mounted =>
    /\ \A d \in StoredDirs \ lost : \A i \in StoredEntries(d) :
         LET g == data[d][i].g IN g # None /\ (Loadable(g) \/ g \in lost)
    /\ \A g \in Guids \ lost : Loadable(g) =>
         /\ Cardinality(Naming(g, StoredDirs \ lost)) <= meta[g].nlink
         /\ lost = {} => Cardinality(Naming(g, StoredDirs)) = meta[g].nlink

\* Without a crash nothing is left behind: each blob has its metadata and a
\* name in some directory, but for the rootdir, which the container names.
NothingLeft ==
  ~mounted /\ lost = {} =>
    \A g \in Guids : data[g] # None =>
      /\ Loadable(g)
      /\ \/ g = container
         \/ \E e \in Naming(g, StoredDirs) : data[e[1]][e[2]].name \in Names

\* Once the root directory is in storage every later mount finds it, unless a
\* crash has left it there with too few links.
RootKept ==
  [][container \notin lost \cup {None} /\ Loadable(container) =>
       container' = container /\ Loadable(container)']_vars

\* The container names no root directory that is not there.
MountHasRoot == ~mounted /\ container # None => Loadable(container)
=============================================================================
