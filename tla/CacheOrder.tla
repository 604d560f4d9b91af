------------------------------ MODULE CacheOrder ------------------------------
(***************************************************************************)
(* What the list of BlockCache stands for: the cells in the order in which *)
(* get_free_from_list is to look at them.  A cell comes in at the back;    *)
(* from then on it is there once, and only its place changes.              *)
(***************************************************************************)
EXTENDS Sequences

CONSTANTS Cells, Order0

VARIABLE order

Init == order = Order0

\* c is put in, or taken from its place.
Without(s, c) == SelectSeq(s, LAMBDA d : d # c)
Come(c, s)    == Append(s, c)
ToBack(c, s)  == Append(Without(s, c), c)
ToFront(c, s) == <<c>> \o Without(s, c)

Next ==
  \E s \in {order}, c \in Cells :
    order' \in IF \A i \in DOMAIN s : s[i] # c
               THEN {Come(c, s)} ELSE {ToBack(c, s), ToFront(c, s)}

Spec == Init /\ [][Next]_order
=============================================================================
