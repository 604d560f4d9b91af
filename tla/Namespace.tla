------------------------------- MODULE Namespace -------------------------------
(***************************************************************************)
(* The name tree of blobfs: the FUSE callbacks create, mkdir, unlink,      *)
(* rmdir and rename, the Directory operations they are made of, the link   *)
(* counts of BasicFile and FileMap::get, which hides a file whose count    *)
(* has come down to nothing.                                               *)
(*                                                                         *)
(* A directory is a function from names to guids; that its entries are     *)
(* records in a file, kept dense by rmEntry, is left to the data path.     *)
(* Every file is in FileMap already (UploadQueue has the loading).  A step *)
(* is what happens under one lock, or between two; a directory whose       *)
(* inner_f_mutex is held from one step to the next is in dlock.            *)
(***************************************************************************)
EXTENDS Integers, Sequences, FiniteSets

CONSTANTS
  Ids,           \* the guids
  Root, Null,    \* rootdir; guid_t() and nullptr
  Names,         \* the names callers use
  Dot, DotDot,   \* "." and ".."
  Parents,       \* the paths of directories callers use: sequences of names
  Threads,       \* the FUSE callback threads
  NoOne,         \* "this inner_f_mutex is free"
  Tree0,         \* the directories at first: guid -> its entries
  Files0,        \* the regular files at first
  Movable,       \* what callers rename: "reg", "dir"
  MaxOps         \* bound on the calls made

ASSUME NamespaceAssumption ==
  /\ Root \in DOMAIN Tree0 /\ DOMAIN Tree0 \subseteq Ids
  /\ Files0 \subseteq Ids \ DOMAIN Tree0
  /\ Null \notin Ids
  /\ NoOne \notin Threads
  /\ IsFiniteSet(Ids) /\ IsFiniteSet(Names)
  /\ Parents \subseteq Seq(Names)
  /\ Dot # DotDot /\ {Dot, DotDot} \cap Names = {}
  /\ \A d \in DOMAIN Tree0 :
       /\ {Dot, DotDot} \subseteq DOMAIN Tree0[d]
       /\ DOMAIN Tree0[d] \subseteq Names \cup {Dot, DotDot}
       /\ \A nm \in DOMAIN Tree0[d] :
            Tree0[d][nm] \in DOMAIN Tree0 \cup Files0
  /\ \A n \in DOMAIN Tree0 \cup Files0 :
       \E d \in DOMAIN Tree0 : \E nm \in DOMAIN Tree0[d] : Tree0[d][nm] = n
  /\ Movable \subseteq {"reg", "dir"}
  /\ MaxOps \in Nat

VARIABLES
  kind,          \* BasicFile::m_type; "none" for a guid not in use
  nlink,         \* BasicFile::nlink
  m_exist,       \* BasicFile::m_exist
  entries,       \* the entries of each directory
  dlock,         \* who holds Directory::inner_f_mutex between two steps
  pc,            \* where the thread is
  call,          \* its call: [op, p, nm, q, qn], q and qn for rename
  todo,          \* the paths it has yet to parse
  at,            \* parse_path_relative: ret
  found,         \* what parse_path has returned for each path
  uid,           \* create_dir: the new guid; rename: the file found
  work,          \* the calls of rmEntry to come: <<directory, name>>
  ops,           \* calls made so far
  raced          \* history: two calls have overlapped

fileVars == <<kind, nlink, m_exist, entries, dlock>>
walkVars == <<todo, at, found>>
vars == <<fileVars, pc, call, walkVars, uid, work, ops, raced>>

NoCall == [op |-> "none", p |-> <<>>, nm |-> Dot, q |-> <<>>, qn |-> Dot]

\* The entries that name n.
Links(n, tree) ==
  {e \in (DOMAIN tree) \X (Names \cup {Dot, DotDot}) :
     e[2] \in DOMAIN tree[e[1]] /\ tree[e[1]][e[2]] = n}

NoEntries == [nm \in {} |-> Null]

Init ==
  /\ kind = [n \in Ids |-> IF n \in DOMAIN Tree0 THEN "dir"
                           ELSE IF n \in Files0 THEN "reg" ELSE "none"]
  /\ nlink = [n \in Ids |-> Cardinality(Links(n, Tree0))]
  /\ m_exist = [n \in Ids |-> n \in DOMAIN Tree0 \cup Files0]
  /\ entries = [n \in Ids |-> IF n \in DOMAIN Tree0 THEN Tree0[n]
                                                     ELSE NoEntries]
  /\ dlock = [n \in Ids |-> NoOne]
  /\ pc    = [t \in Threads |-> "idle"]
  /\ call  = [t \in Threads |-> NoCall]
  /\ todo  = [t \in Threads |-> <<>>]
  /\ at    = [t \in Threads |-> Root]
  /\ found = [t \in Threads |-> <<>>]
  /\ uid   = [t \in Threads |-> Null]
  /\ work  = [t \in Threads |-> <<>>]
  /\ ops = 0
  /\ raced = FALSE

\* A null pointer that is followed ends the process.
Up == \A t \in Threads : pc[t] # "crashed"

Unlocked(d) == dlock[d] = NoOne

\* FileMap::get: a file that has ceased to exist is not found.  to_dir accepts
\* a null this.
IsDir(n) == m_exist[n] /\ kind[n] = "dir"

Goto(t, where) == pc' = [pc EXCEPT ![t] = where]

\* The call is over; its local variables are gone.
Return(t) ==
  /\ Goto(t, "idle")
  /\ call'  = [call EXCEPT ![t] = NoCall]
  /\ found' = [found EXCEPT ![t] = <<>>]
  /\ uid'   = [uid EXCEPT ![t] = Null]
  /\ work'  = [work EXCEPT ![t] = <<>>]

Crash(t) ==
  /\ Goto(t, "crashed")
  /\ UNCHANGED <<fileVars, call, walkVars, uid, work, ops, raced>>

-----------------------------------------------------------------------------
(***************************************************************************)
(* The calls.  The system looks names up before it calls: unlink is for    *)
(* files, rmdir for directories.                                           *)
(***************************************************************************)
Resolve(path) ==
  LET walk[k \in 0..Len(path)] ==
        IF k = 0 THEN Root
        ELSE IF walk[k-1] # Null /\ path[k] \in DOMAIN entries[walk[k-1]]
             THEN entries[walk[k-1]][path[k]]
             ELSE Null
  IN walk[Len(path)]

IsA(path, kinds) == Resolve(path) # Null => kind[Resolve(path)] \in kinds

\* New guids do not run out.
Unused == {n \in Ids : kind[n] = "none"}
Creating == {t \in Threads : /\ call[t].op \in {"create", "mkdir"}
                             /\ pc[t] # "linkup"}

Begin(t, c, paths) ==
  /\ Up
  /\ pc[t] = "idle"
  /\ ops < MaxOps
  /\ ops' = ops + 1
  /\ call' = [call EXCEPT ![t] = c]
  /\ todo' = [todo EXCEPT ![t] = paths]
  /\ Goto(t, "get")
  /\ raced' = (raced \/ \E u \in Threads : pc[u] # "idle")
  /\ UNCHANGED <<fileVars, at, found, uid, work>>

azs_create(t, p, nm) ==
  /\ Cardinality(Unused) > Cardinality(Creating)
  /\ Begin(t, [NoCall EXCEPT !.op = "create", !.p = p, !.nm = nm], <<p>>)

azs_mkdir(t, p, nm) ==
  /\ Cardinality(Unused) > Cardinality(Creating)
  /\ Begin(t, [NoCall EXCEPT !.op = "mkdir", !.p = p, !.nm = nm], <<p>>)

azs_unlink(t, p, nm) ==
  /\ IsA(Append(p, nm), {"reg"})
  /\ Begin(t, [NoCall EXCEPT !.op = "unlink", !.p = p, !.nm = nm], <<p>>)

azs_rmdir(t, p, nm) ==
  /\ IsA(Append(p, nm), {"dir"})
  /\ Begin(t, [NoCall EXCEPT !.op = "rmdir", !.p = p, !.nm = nm],
           <<p, Append(p, nm)>>)

azs_rename(t, p, nm, q, qn) ==
  /\ IsA(Append(p, nm), Movable)
  /\ Begin(t, [op |-> "rename", p |-> p, nm |-> nm, q |-> q, qn |-> qn],
           <<p, q>>)

-----------------------------------------------------------------------------
(***************************************************************************)
(* parse_path: one FileMap::get and one Directory::find for each name, one *)
(* more FileMap::get in the end.                                           *)
(***************************************************************************)
\* parse_path(...)->to_dir() is dir; go on with the next path, or the call.
Parsed(t, dir) ==
  /\ found' = [found EXCEPT ![t] = Append(@, dir)]
  /\ todo' = [todo EXCEPT ![t] = Tail(@)]
  /\ at' = [at EXCEPT ![t] = Root]
  /\ Goto(t, IF Len(todo[t]) = 1 THEN call[t].op ELSE "get")

Get(t) ==
  /\ Up
  /\ pc[t] = "get"
  /\ IF Head(todo[t]) # <<>> /\ IsDir(at[t])
     THEN Goto(t, "find") /\ UNCHANGED walkVars
     ELSE Parsed(t, IF Head(todo[t]) = <<>> /\ IsDir(at[t]) THEN at[t]
                                                            ELSE Null)
  /\ UNCHANGED <<fileVars, call, uid, work, ops, raced>>

Find(t) ==
  LET nm == Head(todo[t])[1]
  IN /\ Up
     /\ pc[t] = "find"
     /\ Unlocked(at[t])
     /\ IF nm \in DOMAIN entries[at[t]]
        THEN /\ at' = [at EXCEPT ![t] = entries[@][nm]]
             /\ todo' = [todo EXCEPT ![t] = <<Tail(Head(@))>> \o Tail(@)]
             /\ Goto(t, "get")
             /\ UNCHANGED found
        ELSE Parsed(t, Null)
     /\ UNCHANGED <<fileVars, call, uid, work, ops, raced>>

Parent(t) == found[t][1]
Other(t)  == found[t][2]

\* A path that leads to no directory: EACCES or ENOENT.
NoDirectory(t) ==
  /\ Up
  /\ pc[t] \in {"create", "mkdir", "unlink", "rmdir", "rename"}
  /\ \E i \in DOMAIN found[t] : found[t][i] = Null
  /\ Return(t)
  /\ UNCHANGED <<fileVars, todo, at, ops, raced>>

At(t, where) ==
  /\ Up
  /\ pc[t] = where
  /\ \A i \in DOMAIN found[t] : found[t][i] # Null

-----------------------------------------------------------------------------
(***************************************************************************)
(* Directory::create_reg and create_dir, under the parent's inner_f_mutex. *)
(* Nobody knows the new guid before its entry is written.                  *)
(***************************************************************************)
Exists(t) ==
  /\ \/ At(t, "create")
     \/ At(t, "mkdir")
  /\ Unlocked(Parent(t))
  /\ call[t].nm \in DOMAIN entries[Parent(t)]
  /\ Return(t)
  /\ UNCHANGED <<fileVars, todo, at, ops, raced>>

WithEntry(d, nm, n) ==
  [x \in DOMAIN entries[d] \cup {nm} |-> IF x = nm THEN n ELSE entries[d][x]]

\* A slip: the new file is not counted as linked.
CreateRegUncounted(t, n) ==
  LET d == Parent(t)
  IN /\ At(t, "create")
     /\ Unlocked(d)
     /\ call[t].nm \notin DOMAIN entries[d]
     /\ kind' = [kind EXCEPT ![n] = "reg"]
     /\ nlink' = [nlink EXCEPT ![n] = 0]
     /\ m_exist' = [m_exist EXCEPT ![n] = TRUE]
     /\ entries' = [entries EXCEPT ![d] = WithEntry(d, call[t].nm, n)]
     /\ Return(t)
     /\ UNCHANGED <<dlock, todo, at, ops, raced>>

CreateReg(t, n) ==
  LET d == Parent(t)
  IN /\ At(t, "create")
     /\ Unlocked(d)
     /\ call[t].nm \notin DOMAIN entries[d]
     /\ kind' = [kind EXCEPT ![n] = "reg"]
     /\ nlink' = [nlink EXCEPT ![n] = 1]
     /\ m_exist' = [m_exist EXCEPT ![n] = TRUE]
     /\ entries' = [entries EXCEPT ![d] = WithEntry(d, call[t].nm, n)]
     /\ Return(t)
     /\ UNCHANGED <<dlock, todo, at, ops, raced>>

\* create_dir up to the inc_nlink for "..": FileMap::get has found the parent.
CreateDir(t, n) ==
  LET d == Parent(t)
  IN /\ At(t, "mkdir")
     /\ Unlocked(d)
     /\ call[t].nm \notin DOMAIN entries[d]
     /\ m_exist[d]
     /\ kind' = [kind EXCEPT ![n] = "dir"]
     /\ nlink' = [nlink EXCEPT ![n] = 1]
     /\ m_exist' = [m_exist EXCEPT ![n] = TRUE]
     /\ entries' = [entries EXCEPT ![n] = [nm \in {Dot} |-> n]]
     /\ dlock' = [dlock EXCEPT ![d] = t]
     /\ uid' = [uid EXCEPT ![t] = n]
     /\ Goto(t, "linkup")
     /\ UNCHANGED <<call, walkVars, work, ops, raced>>

\* FileMap::get returns no parent any more, and addEntry_nolock follows it.
CreateDirCrash(t) ==
  /\ At(t, "mkdir")
  /\ Unlocked(Parent(t))
  /\ call[t].nm \notin DOMAIN entries[Parent(t)]
  /\ ~m_exist[Parent(t)]
  /\ Crash(t)

\* A slip: ".." does not count as a link of the parent.
LinkUpOneSided(t) ==
  LET d == Parent(t)
      n == uid[t]
  IN /\ At(t, "linkup")
     /\ nlink' = [nlink EXCEPT ![n] = @ + 1]
     /\ entries' = [entries EXCEPT ![n] = WithEntry(n, DotDot, d),
                                   ![d] = WithEntry(d, call[t].nm, n)]
     /\ dlock' = [dlock EXCEPT ![d] = NoOne]
     /\ Return(t)
     /\ UNCHANGED <<kind, m_exist, todo, at, ops, raced>>

\* The rest of create_dir: "..", then the entry in the parent.
LinkUp(t) ==
  LET d == Parent(t)
      n == uid[t]
  IN /\ At(t, "linkup")
     /\ nlink' = [nlink EXCEPT ![d] = @ + 1, ![n] = @ + 1]
     /\ entries' = [entries EXCEPT ![n] = WithEntry(n, DotDot, d),
                                   ![d] = WithEntry(d, call[t].nm, n)]
     /\ dlock' = [dlock EXCEPT ![d] = NoOne]
     /\ Return(t)
     /\ UNCHANGED <<kind, m_exist, todo, at, ops, raced>>

-----------------------------------------------------------------------------
(***************************************************************************)
(* unlink and rmdir, and the last part of rename.                          *)
(***************************************************************************)
ToRemove(t, list) ==
  /\ work' = [work EXCEPT ![t] = list]
  /\ Goto(t, "remove")

Unlink(t) ==
  /\ At(t, "unlink")
  /\ ToRemove(t, << <<Parent(t), call[t].nm>> >>)
  /\ UNCHANGED <<fileVars, call, walkVars, uid, ops, raced>>

\* What rmdir removes.  (A slip: ".." stays.)
RmdirListShort(t) == << <<Other(t), Dot>>, <<Parent(t), call[t].nm>> >>
RmdirList(t) == << <<Other(t), DotDot>>, <<Other(t), Dot>>,
                   <<Parent(t), call[t].nm>> >>

\* entry_cnt, read without a lock, decides; what is removed comes later.
Rmdir(t) ==
  LET d == Other(t)
  IN /\ At(t, "rmdir")
     /\ \/ /\ Cardinality(DOMAIN entries[d]) > 2
           /\ Return(t)
        \/ /\ Cardinality(DOMAIN entries[d]) <= 2
           /\ ToRemove(t, RmdirList(t))
           /\ UNCHANGED <<call, found, uid>>
     /\ UNCHANGED <<fileVars, todo, at, ops, raced>>

\* rmEntry is done; the results before the last do not matter.
NextRemove(t) ==
  IF Len(work[t]) = 1 THEN Return(t)
  ELSE ToRemove(t, Tail(work[t])) /\ UNCHANGED <<call, found, uid>>

RmDir(t)  == Head(work[t])[1]
RmName(t) == Head(work[t])[2]

AtRemove(t) ==
  /\ Up
  /\ pc[t] = "remove"
  /\ Unlocked(RmDir(t))

NoEntry(t) ==
  /\ AtRemove(t)
  /\ RmName(t) \notin DOMAIN entries[RmDir(t)]
  /\ NextRemove(t)
  /\ UNCHANGED <<fileVars, todo, at, ops, raced>>

\* Directory::rmEntry has found the entry and FileMap::get the file, ...
RmEntry(t) ==
  /\ AtRemove(t)
  /\ RmName(t) \in DOMAIN entries[RmDir(t)]
  /\ m_exist[entries[RmDir(t)][RmName(t)]]
  /\ dlock' = [dlock EXCEPT ![RmDir(t)] = t]
  /\ Goto(t, "unlinking")
  /\ UNCHANGED <<kind, nlink, m_exist, entries, call, walkVars, uid, work,
                 ops, raced>>

\* ... or FileMap::get returns nothing, and rmEntry follows it.
RmEntryCrash(t) ==
  /\ AtRemove(t)
  /\ RmName(t) \in DOMAIN entries[RmDir(t)]
  /\ ~m_exist[entries[RmDir(t)][RmName(t)]]
  /\ Crash(t)

\* dec_nlink.  (Slips: one link too late, one too early.)
DecLate(n) ==
  /\ nlink' = [nlink EXCEPT ![n] = @ - 1]
  /\ m_exist' = [m_exist EXCEPT ![n] = @ /\ nlink[n] - 1 >= 0]
DecEarly(n) ==
  /\ nlink' = [nlink EXCEPT ![n] = @ - 1]
  /\ m_exist' = [m_exist EXCEPT ![n] = @ /\ nlink[n] - 1 > 1]
Dec(n) ==
  /\ nlink' = [nlink EXCEPT ![n] = @ - 1]
  /\ m_exist' = [m_exist EXCEPT ![n] = @ /\ nlink[n] - 1 > 0]

\* dec_nlink of the file, then its entry goes.
Unlinking(t) ==
  LET d == RmDir(t)
  IN /\ Up
     /\ pc[t] = "unlinking"
     /\ Dec(entries[d][RmName(t)])
     /\ entries' = [entries EXCEPT ![d] =
                      [x \in DOMAIN @ \ {RmName(t)} |-> @[x]]]
     /\ dlock' = [dlock EXCEPT ![d] = NoOne]
     /\ NextRemove(t)
     /\ UNCHANGED <<kind, todo, at, ops, raced>>

-----------------------------------------------------------------------------
(***************************************************************************)
(* azs_rename: find both names, addEntry, rmEntry.                         *)
(***************************************************************************)
Entry(d, nm) == IF nm \in DOMAIN entries[d] THEN entries[d][nm] ELSE Null

RenameFind(t) ==
  /\ At(t, "rename")
  /\ Unlocked(Parent(t))
  /\ uid' = [uid EXCEPT ![t] = Entry(Parent(t), call[t].nm)]
  /\ Goto(t, "findother")
  /\ UNCHANGED <<fileVars, call, walkVars, work, ops, raced>>

RenameFindOther(t) ==
  LET other == Entry(Other(t), call[t].qn)
  IN /\ At(t, "findother")
     /\ Unlocked(Other(t))
     /\ \/ /\ uid[t] = Null \/ other # Null
           /\ Return(t)
        \/ /\ uid[t] # Null /\ other = Null
           /\ Goto(t, "add")
           /\ UNCHANGED <<call, found, uid, work>>
     /\ UNCHANGED <<fileVars, todo, at, ops, raced>>

\* addEntry finds the name taken; azs_rename does not look at the result.
AddTaken(t) ==
  /\ At(t, "add")
  /\ Unlocked(Other(t))
  /\ call[t].qn \in DOMAIN entries[Other(t)]
  /\ ToRemove(t, << <<Parent(t), call[t].nm>> >>)
  /\ UNCHANGED <<fileVars, call, walkVars, uid, ops, raced>>

AddEntry(t) ==
  /\ At(t, "add")
  /\ Unlocked(Other(t))
  /\ call[t].qn \notin DOMAIN entries[Other(t)]
  /\ m_exist[uid[t]]
  /\ dlock' = [dlock EXCEPT ![Other(t)] = t]
  /\ Goto(t, "linking")
  /\ UNCHANGED <<kind, nlink, m_exist, entries, call, walkVars, uid, work,
                 ops, raced>>

AddEntryCrash(t) ==
  /\ At(t, "add")
  /\ Unlocked(Other(t))
  /\ call[t].qn \notin DOMAIN entries[Other(t)]
  /\ ~m_exist[uid[t]]
  /\ Crash(t)

\* inc_nlink of the file, then its new entry.
Linking(t) ==
  LET d == Other(t)
  IN /\ At(t, "linking")
     /\ nlink' = [nlink EXCEPT ![uid[t]] = @ + 1]
     /\ entries' = [entries EXCEPT ![d] = WithEntry(d, call[t].qn, uid[t])]
     /\ dlock' = [dlock EXCEPT ![d] = NoOne]
     /\ ToRemove(t, << <<Parent(t), call[t].nm>> >>)
     /\ UNCHANGED <<kind, m_exist, call, walkVars, uid, ops, raced>>

-----------------------------------------------------------------------------
BeginCall(t) ==
  \E p \in Parents, nm \in Names :
    \/ azs_create(t, p, nm)
    \/ azs_mkdir(t, p, nm)
    \/ azs_unlink(t, p, nm)
    \/ azs_rmdir(t, p, nm)
    \/ \E q \in Parents, qn \in Names : azs_rename(t, p, nm, q, qn)

Proceed(t) ==
  \/ Get(t) \/ Find(t) \/ NoDirectory(t) \/ Exists(t)
  \/ \E n \in Unused : CreateReg(t, n) \/ CreateDir(t, n)
  \/ CreateDirCrash(t) \/ LinkUp(t)
  \/ Unlink(t) \/ Rmdir(t)
  \/ NoEntry(t) \/ RmEntry(t) \/ RmEntryCrash(t) \/ Unlinking(t)
  \/ RenameFind(t) \/ RenameFindOther(t)
  \/ AddTaken(t) \/ AddEntry(t) \/ AddEntryCrash(t) \/ Linking(t)

Next == \E t \in Threads : BeginCall(t) \/ Proceed(t)

Spec == Init /\ [][Next]_vars

-----------------------------------------------------------------------------
TypeOK ==
  /\ kind \in [Ids -> {"none", "reg", "dir"}]
  /\ nlink \in [Ids -> Nat]
  /\ m_exist \in [Ids -> BOOLEAN]
  /\ DOMAIN entries = Ids
  /\ \A d \in Ids : /\ DOMAIN entries[d] \subseteq Names \cup {Dot, DotDot}
                    /\ \A nm \in DOMAIN entries[d] : entries[d][nm] \in Ids
  /\ dlock \in [Ids -> Threads \cup {NoOne}]
  /\ pc \in [Threads -> {"idle", "get", "find", "create", "mkdir", "linkup",
                         "unlink", "rmdir", "rename", "findother", "add",
                         "linking", "remove", "unlinking", "crashed"}]
  /\ \A t \in Threads : \A i \in DOMAIN work[t] : work[t][i][1] \in Ids
  /\ at \in [Threads -> Ids]
  /\ found \in [Threads -> Seq(Ids \cup {Null})]
  /\ uid \in [Threads -> Ids \cup {Null}]
  /\ ops \in 0..MaxOps
  /\ raced \in BOOLEAN

\* A link count is the number of entries that name the file, in directories
\* that exist and in those that do not: what decides on the deletion of a blob
\* is changed under other locks than the entries it stands for.
LinkCount == \A n \in Ids : nlink[n] = Cardinality(Links(n, entries))

\* Nothing stays in storage that no entry names.
KeptIsNamed == \A n \in Ids : m_exist[n] => Links(n, entries) # {}

\* A file ceases to exist only with the last entry that names it, whatever
\* links are made and removed under other locks at the same time.
DiesUnnamed ==
  [][\A n \in Ids :
       m_exist[n] /\ ~m_exist'[n] => Links(n, entries') = {}]_vars

\* The files a path of names leads to.
Reachable ==
  LET down[k \in 0..Cardinality(Ids)] ==
        IF k = 0 THEN {Root}
        ELSE down[k-1] \cup {entries[e[1]][e[2]] : e \in
               {e \in down[k-1] \X Names : e[2] \in DOMAIN entries[e[1]]}}
  IN down[Cardinality(Ids)]

Subdirs(d) ==
  {nm \in Names \cap DOMAIN entries[d] : kind[entries[d][nm]] = "dir"}

\* Calls that follow one another keep the tree: what exists is what paths lead
\* to, a file has one link, a directory as many as it has subdirectories and
\* two more, and its ".." is the directory that names it.
TreeKept ==
  ~raced /\ (\A t \in Threads : pc[t] = "idle") =>
    /\ {n \in Ids : m_exist[n]} = Reachable
    /\ \A n \in Reachable :
         nlink[n] = IF kind[n] = "reg" THEN 1 ELSE 2 + Cardinality(Subdirs(n))
    /\ \A d \in Reachable : \A nm \in Subdirs(d) :
         entries[entries[d][nm]][DotDot] = d

\* Calls that follow one another never meet a null pointer from FileMap::get:
\* an entry that is left names a file that still exists.
AloneNeverCrashes == ~raced => Up

\* rmdir is to fail if the directory is not empty (BlobAdapter.h).
RemovesOnlyEmpty ==
  [][\A d \in Ids :
       kind[d] = "dir" /\ m_exist[d] /\ ~m_exist'[d] =>
         DOMAIN entries[d] \subseteq {Dot, DotDot}]_vars
=============================================================================
