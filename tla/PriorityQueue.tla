---------------------------- MODULE PriorityQueue ----------------------------
(***************************************************************************)
(* What callers of RecheckPriorityQueue (src/changedetectionio/            *)
(* queue_handlers.py) rely on: a set of queued items, from which a taker   *)
(* receives one whose priority value is minimal, and which can be purged.  *)
(* There is no lock, no notification and no wakeup here: RecheckQueue      *)
(* implements this specification with them.                                *)
(***************************************************************************)
EXTENDS Naturals

CONSTANTS
  Items,      \* the PrioritizedItem objects
  Priority,   \* Priority[i]: the item's priority, lower is served first
  Takers,     \* the threads that call get()
  NoItem      \* what a taker that has no item holds


VARIABLES
  queued,     \* the items in the queue
  owner       \* owner[t]: the item get() last returned to t

vars == <<queued, owner>>

Init == /\ queued = {}
        /\ owner = [t \in Takers |-> NoItem]

\* The items no other queued item is ahead of.
Foremost == {i \in queued : \A j \in queued : Priority[i] <= Priority[j]}

Enqueue(i) == /\ i \notin queued
              /\ \A t \in Takers : owner[t] # i
              /\ queued' = queued \cup {i}
              /\ UNCHANGED owner

Take(t) == /\ owner[t] = NoItem
           /\ \E i \in Foremost : /\ queued' = queued \ {i}
                                  /\ owner' = [owner EXCEPT ![t] = i]

Finish(t) == /\ owner[t] # NoItem
             /\ owner' = [owner EXCEPT ![t] = NoItem]
             /\ UNCHANGED queued

Purge == /\ queued' = {}
         /\ UNCHANGED owner

\* An item that finds no room takes the place of one of the same priority.
Displace(i, j) == /\ i \notin queued
                  /\ \A t \in Takers : owner[t] # i
                  /\ j \in queued
                  /\ Priority[i] = Priority[j]
                  /\ queued' = (queued \ {j}) \cup {i}
                  /\ UNCHANGED owner

Next == \/ \E i \in Items : Enqueue(i)
        \/ \E i, j \in Items : Displace(i, j)
        \/ \E t \in Takers : Take(t) \/ Finish(t)
        \/ Purge

\* Some taker makes progress for as long as there is an item to take.
Spec == /\ Init
        /\ [][Next]_vars
        /\ WF_vars(\E t \in Takers : Take(t))
=============================================================================
