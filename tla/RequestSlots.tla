----------------------------- MODULE RequestSlots -----------------------------
(***************************************************************************)
(* What the responder promises about its pool of Lua VMs, and no more: a   *)
(* request is evaluated in one of Slots slots, requests get a slot in the  *)
(* order they asked for one, and a request that has a slot gives it back.  *)
(***************************************************************************)
EXTENDS Naturals, Sequences, FiniteSets

CONSTANTS
    Requesters,     \* who may ask for a slot
    Slots           \* how many there are

VARIABLES
    queue,          \* the requesters that wait, in order
    active          \* the requesters that have a slot

vars == <<queue, active>>

Init == queue = <<>> /\ active = {}

Ask(r) ==
    /\ r \notin active
    /\ \A i \in DOMAIN queue : queue[i] # r
    /\ queue' = Append(queue, r)
    /\ UNCHANGED active

Grant ==
    /\ queue # <<>>
    /\ Cardinality(active) < Slots
    /\ active' = active \cup {Head(queue)}
    /\ queue' = Tail(queue)

GiveBack(r) ==
    /\ r \in active
    /\ active' = active \ {r}
    /\ UNCHANGED queue

Next == Grant \/ \E r \in Requesters : Ask(r) \/ GiveBack(r)

Spec == Init /\ [][Next]_vars /\ WF_vars(Grant) /\ \A r \in Requesters : WF_vars(GiveBack(r))
=============================================================================
