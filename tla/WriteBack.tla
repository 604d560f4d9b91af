------------------------------- MODULE WriteBack -------------------------------
(***************************************************************************)
(* What write-back promises of a file, with nothing of queues, snapshots,  *)
(* retries and locks: storage may lag behind memory, but a version is      *)
(* never replaced by an older one, a blob goes only when its file has      *)
(* gone, and unmounting is over only when storage has everything, but for  *)
(* the files whose upload was given up.                                    *)
(***************************************************************************)
EXTENDS Integers

CONSTANTS Files, Stored

VARIABLES
  life,     \* per file: "unborn", "exists" or "gone"
  latest,   \* the version in memory
  stored,   \* the version in storage: -1 without a blob, 0 without metadata
  given_up, \* files whose upload failed for good
  mounted

wbVars == <<life, latest, stored, given_up, mounted>>

Init ==
  /\ life = [f \in Files |-> IF f \in Stored THEN "exists" ELSE "unborn"]
  /\ latest = [f \in Files |-> 1]
  /\ stored = [f \in Files |-> IF f \in Stored THEN 1 ELSE -1]
  /\ given_up = {}
  /\ mounted = TRUE

Create(f) ==
  /\ mounted
  /\ life[f] = "unborn"
  /\ life' = [life EXCEPT ![f] = "exists"]
  /\ UNCHANGED <<latest, stored, given_up, mounted>>

\* A file changes, and may cease to exist thereby.
Change(f) ==
  /\ mounted
  /\ life[f] # "unborn"
  /\ latest' = [latest EXCEPT ![f] = @ + 1]
  /\ life' \in {life, [life EXCEPT ![f] = "gone"]}
  /\ UNCHANGED <<stored, given_up, mounted>>

Save(f, v) ==
  /\ mounted
  /\ life[f] # "unborn"
  /\ stored[f] <= v /\ v <= latest[f]
  /\ stored' = [stored EXCEPT ![f] = v]
  /\ UNCHANGED <<life, latest, given_up, mounted>>

Remove(f) ==
  /\ mounted
  /\ life[f] = "gone"
  /\ stored' = [stored EXCEPT ![f] = -1]
  /\ UNCHANGED <<life, latest, given_up, mounted>>

\* An upload fails for good, or one succeeds after all.
GiveUp(f) ==
  /\ mounted
  /\ given_up' \in {given_up \cup {f}, given_up \ {f}}
  /\ UNCHANGED <<life, latest, stored, mounted>>

Saved(f) == /\ life[f] = "exists" => stored[f] = latest[f]
            /\ life[f] = "gone" => stored[f] = -1

Unmount ==
  /\ mounted
  /\ \A f \in Files : Saved(f) \/ f \in given_up
  /\ mounted' = FALSE
  /\ UNCHANGED <<life, latest, stored, given_up>>

Next ==
  \/ \E f \in Files : Create(f) \/ Change(f) \/ Remove(f) \/ GiveUp(f)
  \/ \E f \in Files : \E v \in 0..latest[f] : Save(f, v)
  \/ Unmount

Spec == Init /\ [][Next]_wbVars
=============================================================================
