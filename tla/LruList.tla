-------------------------------- MODULE LruList --------------------------------
(***************************************************************************)
(* The list of BlockCache.  Its cells are linked by positions; they are    *)
(* relinked under link_list_mutex, but get_free_from_list follows the next *)
(* links without it, one status_mutex after the other, while its thread    *)
(* holds the m_mutex of a file and, when it copies a block, the            *)
(* status_mutex of that block (ignore).  Stores are seen in the order in   *)
(* which the code makes them.                                              *)
(***************************************************************************)
EXTENDS Integers, Sequences, FiniteSets

CONSTANTS
  Threads, Files,
  NoOne,         \* no thread, no file
  CacheSize,     \* default_cache_size
  Cells0,        \* the cells at first, in their order: [owner, st]
  MaxOps         \* bound on the calls made

\* The last position there may ever be: every thread may have seen the cache
\* not full before the others made their cells.
Last  == CacheSize + Cardinality(Threads)
Cells == 2..Last

ASSUME LruListAssumption ==
  /\ NoOne \notin Threads \cup Files
  /\ IsFiniteSet(Threads) /\ Threads # {}
  /\ CacheSize \in Nat \ {0}
  /\ Cells0 \in Seq([owner : Files, st : {"Expired", "Clean", "Dirty"}])
  /\ Len(Cells0) <= CacheSize
  /\ MaxOps \in Nat

VARIABLES
  size,          \* cache.size(), with the ends 0 and 1
  prev, next,    \* Cell::prev and Cell::next
  link,          \* who holds link_list_mutex, and how far it is
  st,            \* Block::status
  owner,         \* Block::basefile
  status_mutex,  \* per cell, who holds it between two steps
  m_mutex,       \* per file, the same
  uploading,     \* the file of the running task
  pc,            \* where the thread is
  file,          \* the file it works on
  cell,          \* the cell it is at
  ignore,        \* the cell it copies, or 0
  ops,
  shared         \* history: cells taken before the thread that made them did

links == <<size, prev, next, link>>
cells == <<st, owner, status_mutex>>
threads == <<pc, file, cell, ignore, ops>>
others == <<cells, m_mutex, uploading>>
vars == <<links, others, threads, shared>>

Made == 2..size-1
NoLink == [by |-> NoOne, c |-> 0, to |-> "back", at |-> "out"]

Init ==
  /\ size = Len(Cells0) + 2
  /\ next = [p \in 0..Last |->
               IF p # 1 /\ p < size
               THEN LET after == IF p = 0 THEN 2 ELSE p + 1
                    IN IF after = size THEN 1 ELSE after
               ELSE 0]
  /\ prev = [p \in 0..Last |->
               IF p = 1 /\ size > 2 THEN size - 1
               ELSE IF p \in 3..size-1 THEN p - 1 ELSE 0]
  /\ link = NoLink
  /\ st = [c \in Cells |-> IF c \in Made THEN Cells0[c-1].st ELSE "Expired"]
  /\ owner = [c \in Cells |-> IF c \in Made THEN Cells0[c-1].owner ELSE NoOne]
  /\ status_mutex = [c \in Cells |-> NoOne]
  /\ m_mutex = [f \in Files |-> NoOne]
  /\ uploading = NoOne
  /\ pc = [t \in Threads |-> "idle"]
  /\ file = [t \in Threads |-> NoOne]
  /\ cell = [t \in Threads |-> 0]
  /\ ignore = [t \in Threads |-> 0]
  /\ ops = 0
  /\ shared = {}

Goto(t, where) == pc' = [pc EXCEPT ![t] = where]
Status(c, s) == st' = [st EXCEPT ![c] = s]
Free(c) == status_mutex[c] = NoOne

\* The call is over.
Return(t) ==
  /\ Goto(t, "idle")
  /\ m_mutex' = [m_mutex EXCEPT ![file[t]] = NoOne]
  /\ file' = [file EXCEPT ![t] = NoOne]
  /\ cell' = [cell EXCEPT ![t] = 0]

-----------------------------------------------------------------------------
(***************************************************************************)
(* put_item_back, put_item_front and put_new_item, store by store as far   *)
(* as one that reads only next can tell.                                   *)
(***************************************************************************)
\* Where the thread wants to move the cell it is at.
MovesTo(t) ==
  IF pc[t] \in {"touch", "taken", "skip", "claim", "made"} THEN "back"
  ELSE IF pc[t] = "expire" THEN "front" ELSE "stay"

\* What comes after the move.
Unlock(t) == status_mutex' = [status_mutex EXCEPT ![cell[t]] = NoOne]
Moved(t) ==
  \/ /\ pc[t] = "touch"
     /\ Return(t)
     /\ UNCHANGED <<cells, ignore>>
  \/ /\ pc[t] = "expire"
     /\ Return(t)
     /\ Unlock(t)
     /\ UNCHANGED <<st, owner, ignore>>
  \/ /\ pc[t] \in {"taken", "skip"}
     /\ Goto(t, IF pc[t] = "taken" THEN "claim" ELSE "next")
     /\ Unlock(t)
     /\ UNCHANGED <<st, owner, m_mutex, file, cell, ignore>>
  \/ /\ pc[t] \in {"claim", "made"}
     /\ Goto(t, IF pc[t] = "claim" THEN "mark" ELSE "fill")
     /\ UNCHANGED <<cells, m_mutex, file, cell, ignore>>

\* "if already in back, just return"
AlreadyBack(t) ==
  /\ MovesTo(t) = "back"
  /\ link = NoLink
  /\ prev[1] = cell[t]
  /\ Moved(t)
  /\ UNCHANGED <<links, uploading, ops, shared>>

\* Taken out of its place.  (Slips: the links of the cell are reset as well, or
\* the cell behind it still points to it.)
TakeOut(t, newNext, newPrev) ==
  /\ MovesTo(t) # "stay"
  /\ link = NoLink
  /\ ~(MovesTo(t) = "back" /\ prev[1] = cell[t])
  /\ next' = newNext
  /\ prev' = newPrev
  /\ link' = [by |-> t, c |-> cell[t], to |-> MovesTo(t), at |-> "out"]
  /\ UNCHANGED <<size, others, threads, shared>>
BeforeSkips(t) == [next EXCEPT ![prev[cell[t]]] = next[cell[t]]]
BehindSkips(t) == [prev EXCEPT ![next[cell[t]]] = prev[cell[t]]]
DetachHalf(t)  == TakeOut(t, BeforeSkips(t), prev)
DetachReset(t) == TakeOut(t, [BeforeSkips(t) EXCEPT ![cell[t]] = 0],
                             BehindSkips(t))
Detach(t)      == TakeOut(t, BeforeSkips(t), BehindSkips(t))

\* The links of the cell itself.
Point(t) ==
  LET c == link.c
  IN /\ link.by = t
     /\ link.at = "out"
     /\ prev' = [prev EXCEPT ![c] = IF link.to = "front" THEN 0 ELSE prev[1]]
     /\ next' = [next EXCEPT ![c] = IF link.to = "front" THEN next[0] ELSE 1]
     /\ link' = [link EXCEPT !.at = "pointed"]
     /\ UNCHANGED <<size, others, threads, shared>>

\* The links to it; link_list_mutex is released.
Attach(t) ==
  LET c == link.c
  IN /\ link.by = t
     /\ link.at = "pointed"
     /\ \/ /\ link.to = "front"
           /\ prev' = [prev EXCEPT ![next[0]] = c]
           /\ next' = [next EXCEPT ![0] = c]
        \/ /\ link.to # "front"
           /\ next' = [next EXCEPT ![prev[1]] = c]
           /\ prev' = [prev EXCEPT ![1] = c]
     /\ link' = NoLink
     /\ \/ /\ link.to # "new"
           /\ Moved(t)
        \/ /\ link.to = "new"
           /\ cell' = [cell EXCEPT ![t] = c]
           /\ Goto(t, "made")
           /\ UNCHANGED <<cells, m_mutex, file, ignore>>
     /\ UNCHANGED <<size, uploading, ops, shared>>

\* put_new_item: the cell at the end of the vector.
PutNewItem(t) ==
  /\ pc[t] = "new"
  /\ link = NoLink
  /\ size' = size + 1
  /\ link' = [by |-> t, c |-> size, to |-> "new", at |-> "out"]
  /\ UNCHANGED <<prev, next, others, threads, shared>>

-----------------------------------------------------------------------------
(***************************************************************************)
(* What a callback does with its file's cells.                             *)
(***************************************************************************)
Lock(t, f) ==
  /\ pc[t] = "idle"
  /\ ops < MaxOps
  /\ ops' = ops + 1
  /\ m_mutex[f] = NoOne
  /\ m_mutex' = [m_mutex EXCEPT ![f] = t]
  /\ file' = [file EXCEPT ![t] = f]
  /\ Goto(t, "locked")
  /\ UNCHANGED <<links, cells, uploading, cell, ignore, shared>>

Owned(t, c) ==
  pc[t] = "locked" /\ c \in Made /\ owner[c] = file[t]
    /\ st[c] \in {"Clean", "Dirty", "Uploading"}

\* A block that is in the cache: BlockCache::get.
Touch(t, c) ==
  /\ Owned(t, c)
  /\ cell' = [cell EXCEPT ![t] = c]
  /\ Goto(t, "touch")
  /\ UNCHANGED <<links, others, file, ignore, ops, shared>>

\* A block beyond the new end: resize, with the status_mutex.
Expire(t, c) ==
  /\ Owned(t, c)
  /\ st[c] # "Uploading"
  /\ Free(c)
  /\ status_mutex' = [status_mutex EXCEPT ![c] = t]
  /\ Status(c, "Expired")
  /\ cell' = [cell EXCEPT ![t] = c]
  /\ Goto(t, "expire")
  /\ UNCHANGED <<links, owner, m_mutex, uploading, file, ignore, ops, shared>>

\* get_free for a block that is not in the cache, or to copy one.
\* (A slip: one more.)
is_fullLate == size > CacheSize + 2
is_full == size >= CacheSize + 2
Search(t) == Goto(t, IF is_full THEN "head" ELSE "new")

Load(t) ==
  /\ pc[t] = "locked"
  /\ Search(t)
  /\ UNCHANGED <<links, others, file, cell, ignore, ops, shared>>

CopyOnWrite(t, c) ==
  /\ Owned(t, c)
  /\ st[c] = "Uploading"
  /\ Free(c)
  /\ status_mutex' = [status_mutex EXCEPT ![c] = t]
  /\ Status(c, "Up_Expired")
  /\ ignore' = [ignore EXCEPT ![t] = c]
  /\ Search(t)
  /\ UNCHANGED <<links, owner, m_mutex, uploading, file, cell, ops, shared>>

\* The cell from get_free becomes a block of the file.
Mark(t, s) ==
  LET c == cell[t]
  IN /\ pc[t] \in {"mark", "fill"}
     /\ Free(c)
     /\ Status(c, IF ignore[t] # 0 THEN "Dirty" ELSE s)
     /\ owner' = [owner EXCEPT ![c] = file[t]]
     /\ status_mutex' = [d \in Cells |-> IF d = ignore[t] THEN NoOne
                                         ELSE status_mutex[d]]
     /\ ignore' = [ignore EXCEPT ![t] = 0]
     /\ Return(t)
     /\ UNCHANGED <<links, uploading, ops, shared>>

-----------------------------------------------------------------------------
(***************************************************************************)
(* get_free_from_list.                                                     *)
(***************************************************************************)
FromHead(t) ==
  /\ pc[t] = "head"
  /\ cell' = [cell EXCEPT ![t] = next[0]]
  /\ Goto(t, "scan")
  /\ UNCHANGED <<links, others, file, ignore, ops, shared>>

NextCell(t) ==
  /\ pc[t] = "next"
  /\ cell' = [cell EXCEPT ![t] = next[@]]
  /\ Goto(t, "scan")
  /\ UNCHANGED <<links, others, file, ignore, ops, shared>>

\* The end of the list, or the ignored cell: all over again.
Again(t) ==
  /\ pc[t] = "scan"
  /\ cell[t] \in {1, ignore[t]}
  /\ Goto(t, "head")
  /\ UNCHANGED <<links, others, file, cell, ignore, ops, shared>>

Looks(t) ==
  /\ pc[t] = "scan"
  /\ cell[t] \notin {1, ignore[t]}
  /\ Free(cell[t])

Pass(t) ==
  /\ Looks(t)
  /\ st[cell[t]] \notin {"Expired", "Clean"}
  /\ Goto(t, "next")
  /\ UNCHANGED <<links, others, file, cell, ignore, ops, shared>>

\* (A slip: the status is looked at before its mutex is taken.)
TakeExpiredUnmarked(t) ==
  /\ Looks(t)
  /\ st[cell[t]] = "Expired"
  /\ Goto(t, "claim")
  /\ UNCHANGED <<links, others, file, cell, ignore, ops, shared>>
TakeExpired(t) ==
  /\ Looks(t)
  /\ st[cell[t]] = "Expired"
  /\ Status(cell[t], "Ready")
  /\ status_mutex' = [status_mutex EXCEPT ![cell[t]] = t]
  /\ Goto(t, "taken")
  /\ shared' = IF \E u \in Threads :
                    pc[u] \in {"made", "fill"} /\ cell[u] = cell[t]
               THEN shared \cup {cell[t]} ELSE shared
  /\ UNCHANGED <<links, owner, m_mutex, uploading, file, cell, ignore, ops>>

\* gc_notify gets the m_mutex of the cell's file for a moment, ...
Evict(t) ==
  /\ Looks(t)
  /\ st[cell[t]] = "Clean"
  /\ m_mutex[owner[cell[t]]] = NoOne
  /\ Status(cell[t], "Ready")
  /\ Goto(t, "claim")
  /\ UNCHANGED <<links, owner, status_mutex, m_mutex, uploading, file, cell,
                 ignore, ops, shared>>

\* ... or does not.
Skip(t) ==
  /\ Looks(t)
  /\ st[cell[t]] = "Clean"
  /\ m_mutex[owner[cell[t]]] # NoOne
  /\ status_mutex' = [status_mutex EXCEPT ![cell[t]] = t]
  /\ Goto(t, "skip")
  /\ UNCHANGED <<links, st, owner, m_mutex, uploading, file, cell, ignore, ops,
                 shared>>

-----------------------------------------------------------------------------
(***************************************************************************)
(* The upload task: one at a time.                                         *)
(***************************************************************************)
CellsOf(f, s) == {c \in Made : owner[c] = f /\ st[c] \in s}

\* create_snap.  (A slip: tasks overlap.)
Snapshot(f) ==
  /\ m_mutex[f] = NoOne
  /\ CellsOf(f, {"Dirty"}) # {}
  /\ \A c \in CellsOf(f, {"Dirty"}) : Free(c)
  /\ st' = [c \in Cells |-> IF c \in CellsOf(f, {"Dirty"}) THEN "Uploading"
                                                           ELSE st[c]]
  /\ uploading' = f
  /\ UNCHANGED <<links, owner, status_mutex, m_mutex, threads, shared>>
StartUploadAnyway(f) == Snapshot(f)
StartUpload(f) == uploading = NoOne /\ Snapshot(f)

\* ~Snapshot.
EndUpload ==
  LET sent == CellsOf(uploading, {"Uploading", "Up_Expired"})
  IN /\ uploading # NoOne
     /\ \A c \in sent : Free(c)
     /\ st' = [c \in Cells |-> IF c \notin sent THEN st[c]
                               ELSE IF st[c] = "Uploading" THEN "Clean"
                               ELSE "Expired"]
     /\ uploading' = NoOne
     /\ UNCHANGED <<links, owner, status_mutex, m_mutex, threads, shared>>

-----------------------------------------------------------------------------
Step(t) ==
  \/ AlreadyBack(t) \/ Detach(t) \/ Point(t) \/ Attach(t) \/ PutNewItem(t)
  \/ \E f \in Files : Lock(t, f)
  \/ \E c \in Cells : Touch(t, c) \/ Expire(t, c) \/ CopyOnWrite(t, c)
  \/ Load(t) \/ \E s \in {"Clean", "Dirty"} : Mark(t, s)
  \/ FromHead(t) \/ NextCell(t) \/ Again(t)
  \/ Pass(t) \/ TakeExpired(t) \/ Evict(t) \/ Skip(t)

Next ==
  \/ \E t \in Threads : Step(t)
  \/ \E f \in Files : StartUpload(f)
  \/ EndUpload

Spec == Init /\ [][Next]_vars

-----------------------------------------------------------------------------
TypeOK ==
  /\ size \in 2..Last + 1
  /\ prev \in [0..Last -> 0..Last]
  /\ next \in [0..Last -> 0..Last]
  /\ link \in [by : Threads \cup {NoOne}, c : 0..Last,
              to : {"back", "front", "new"}, at : {"out", "pointed"}]
  /\ st \in [Cells -> {"Expired", "Clean", "Ready", "Dirty", "Uploading",
                       "Up_Expired"}]
  /\ owner \in [Cells -> Files \cup {NoOne}]
  /\ status_mutex \in [Cells -> Threads \cup {NoOne}]
  /\ m_mutex \in [Files -> Threads \cup {NoOne}]
  /\ uploading \in Files \cup {NoOne}
  /\ pc \in [Threads -> {"idle", "locked", "touch", "expire", "new", "made",
                          "fill", "head", "scan", "next", "skip", "taken",
                          "claim", "mark"}]
  /\ file \in [Threads -> Files \cup {NoOne}]
  /\ cell \in [Threads -> 0..Last]
  /\ ignore \in [Threads -> 0..Last]
  /\ ops \in 0..MaxOps
  /\ shared \subseteq Cells

\* A scan that follows the links while they change stays in the list: it never
\* comes to its head, where there is no block, nor to a cell not yet made.
ScanInList ==
  \A t \in Threads : pc[t] = "scan" => cell[t] = 1 \/ cell[t] \in Made

\* No two scans return the same cell, however the list moves between their
\* looks; except a cell that one took before the thread that had made it
\* (put_new_item leaves it Expired).
Took(t) == pc[t] \in {"taken", "claim", "mark"}
OneTaker ==
  \A t, u \in Threads :
    t # u /\ Took(t) /\ Took(u) => cell[t] # cell[u] \/ cell[t] \in shared

\* t waits in its scan for the status_mutex of a cell that u has.
WaitsFor(t, u) ==
  /\ pc[t] = "scan"
  /\ cell[t] \in Made \ {ignore[t]}
  /\ status_mutex[cell[t]] = u

\* Scans do not wait for each other in a circle, although one that copies a
\* block holds a status_mutex all the time: there is one task, one file whose
\* blocks are copied, and one thread in it.
NoStandoff ==
  \A S \in SUBSET Threads :
    S # {} => \E t \in S : \A u \in S : ~WaitsFor(t, u)

\* The cells from the head to the back.
Walk ==
  LET at[n \in 0..Last] == next[IF n = 0 THEN 0 ELSE at[n-1]]
      before == {n \in 0..Last : \A m \in 0..n : at[m] # 1}
  IN [i \in 1..Cardinality(before) |-> at[i-1]]

\* The order that the list stands for: a move counts from its first store.
Order == IF link = NoLink THEN Walk
         ELSE IF link.to = "front" THEN <<link.c>> \o Walk
         ELSE Append(Walk, link.c)

CacheList == INSTANCE CacheOrder
               WITH order <- Order, Order0 <- [i \in DOMAIN Cells0 |-> i + 1]

\* The linked list implements the order of CacheOrder.
KeepsOrder == CacheList!Spec
=============================================================================
