----------------------------- MODULE RecheckQueue -----------------------------
(***************************************************************************)
(* RecheckPriorityQueue of src/changedetectionio/queue_handlers.py: the    *)
(* queue of watches to recheck, shared by the ticker, the web routes and   *)
(* every worker's executor threads.                                        *)
(*                                                                         *)
(* The class keeps two structures in step.  _priority_items is a heap      *)
(* guarded by _lock; _notification_queue is a queue.Queue with one token   *)
(* per item, which get() waits on WITHOUT holding _lock.  Between taking   *)
(* its token and popping the heap a getter is on its own: any put(),       *)
(* clear() or other get() may run there.                                   *)
(***************************************************************************)
EXTENDS Naturals, FiniteSets

CONSTANTS
  Items,      \* PrioritizedItem objects; one is reused only once it is gone
  Priority,   \* Priority[i]: the dataclass's compared field
  Getters,    \* executor threads that run get()
  NoItem,     \* a getter that holds no item
  Capacity,   \* maxsize of the notification queue, 0 for no bound
  Clears      \* TRUE: clear() may be called

ASSUME ItemsAssumption == NoItem \notin Items
ASSUME PriorityAssumption == Priority \in [Items -> Nat]
ASSUME GettersAssumption == IsFiniteSet(Getters)
ASSUME CapacityAssumption == Capacity \in Nat
ASSUME ClearsAssumption == Clears \in BOOLEAN

VARIABLES
  heap,           \* _priority_items
  notifications,  \* the number of tokens in _notification_queue
  lock,           \* who holds _lock across a step: "free", "put", "clear"
  pushed,         \* the item of the put() that holds the lock
  pc,             \* pc[g]: where getter g is in get()
  held            \* held[g]: the item get() last returned to g

vars == <<heap, notifications, lock, pushed, pc, held>>

Init == /\ heap = {}
        /\ notifications = 0
        /\ lock = "free"
        /\ pushed = NoItem
        /\ pc = [g \in Getters |-> "idle"]
        /\ held = [g \in Getters |-> NoItem]

Full == Capacity > 0 /\ notifications >= Capacity

-----------------------------------------------------------------------------
\* put(): push under the lock, add a token, release.

PutPush(i) == /\ lock = "free"
              /\ i \notin heap
              /\ \A g \in Getters : held[g] # i
              /\ heap' = heap \cup {i}
              /\ lock' = "put"
              /\ pushed' = i
              /\ UNCHANGED <<notifications, pc, held>>

\* Mutant: the token is forgotten.
PutNotify_NoToken == /\ lock = "put"
                     /\ lock' = "free"
                     /\ pushed' = NoItem
                     /\ UNCHANGED <<heap, notifications, pc, held>>

PutNotify == /\ lock = "put"
             /\ ~Full
             /\ notifications' = notifications + 1
             /\ lock' = "free"
             /\ pushed' = NoItem
             /\ UNCHANGED <<heap, pc, held>>

\* The items list.remove(item) may delete: it compares with ==, and the
\* dataclass compares priorities only, so the first item of the heap's list
\* with the same priority goes.
SamePriority(i) == {j \in heap : Priority[j] = Priority[i]}

\* The token could not be added within the 5 seconds put() waits.
PutFails == /\ lock = "put"
            /\ Full
            /\ \E j \in SamePriority(pushed) : heap' = heap \ {j}
            /\ lock' = "free"
            /\ pushed' = NoItem
            /\ UNCHANGED <<notifications, pc, held>>

-----------------------------------------------------------------------------
\* get(): wait for a token, then pop the heap under the lock.

\* The caller is done with its last item and calls get() again.
GetBegin(g) == /\ pc[g] = "idle"
               /\ pc' = [pc EXCEPT ![g] = "waiting"]
               /\ held' = [held EXCEPT ![g] = NoItem]
               /\ UNCHANGED <<heap, notifications, lock, pushed>>

GetToken(g) == /\ pc[g] = "waiting"
               /\ notifications > 0
               /\ notifications' = notifications - 1
               /\ pc' = [pc EXCEPT ![g] = "notified"]
               /\ UNCHANGED <<heap, lock, pushed, held>>

\* queue.Empty: the timeout passed (or block=False) and there is no token.
GetEmpty(g) == /\ pc[g] = "waiting"
               /\ notifications = 0
               /\ pc' = [pc EXCEPT ![g] = "idle"]
               /\ UNCHANGED <<heap, notifications, lock, pushed, held>>

\* What heappop may return: items of equal priority have no fixed order.
Foremost == {i \in heap : \A j \in heap : Priority[i] <= Priority[j]}

\* Mutant: heap[0] is read and not removed.
GetPop_Peek(g) == /\ pc[g] = "notified"
                  /\ lock = "free"
                  /\ \E i \in Foremost : held' = [held EXCEPT ![g] = i]
                  /\ pc' = [pc EXCEPT ![g] = "idle"]
                  /\ UNCHANGED <<heap, notifications, lock, pushed>>

GetPop(g) == /\ pc[g] = "notified"
             /\ lock = "free"
             /\ \E i \in Foremost : /\ heap' = heap \ {i}
                                    /\ held' = [held EXCEPT ![g] = i]
             /\ pc' = [pc EXCEPT ![g] = "idle"]
             /\ UNCHANGED <<notifications, lock, pushed>>

\* "Priority queue inconsistency": a token was taken and the heap is empty.
GetInconsistent(g) == /\ pc[g] = "notified"
                      /\ lock = "free"
                      /\ heap = {}
                      /\ pc' = [pc EXCEPT ![g] = "idle"]
                      /\ UNCHANGED <<heap, notifications, lock, pushed, held>>

-----------------------------------------------------------------------------
\* clear(): empty the heap, then drain the tokens one at a time.

ClearItems == /\ Clears
              /\ lock = "free"
              /\ heap' = {}
              /\ lock' = "clear"
              /\ UNCHANGED <<notifications, pushed, pc, held>>

ClearDrain == /\ lock = "clear"
              /\ notifications > 0
              /\ notifications' = notifications - 1
              /\ UNCHANGED <<heap, lock, pushed, pc, held>>

ClearDone == /\ lock = "clear"
             /\ notifications = 0
             /\ lock' = "free"
             /\ UNCHANGED <<heap, notifications, pushed, pc, held>>

-----------------------------------------------------------------------------
Put == (\E i \in Items : PutPush(i)) \/ PutNotify \/ PutFails
Get(g) == GetBegin(g) \/ GetToken(g) \/ GetEmpty(g) \/ GetPop(g) \/ GetInconsistent(g)
Clear == ClearItems \/ ClearDrain \/ ClearDone

Next == Put \/ Clear \/ \E g \in Getters : Get(g)

Spec == Init /\ [][Next]_vars

\* A thread inside put() or clear() runs on, each worker calls get() in a loop,
\* and a thread that waits for _lock gets it when it is freed again and again.
\* Nobody is obliged to put or to clear.
Fairness == /\ WF_vars(PutNotify \/ PutFails)
            /\ WF_vars(ClearDrain \/ ClearDone)
            /\ \A g \in Getters : WF_vars(Get(g)) /\ SF_vars(GetPop(g) \/ GetInconsistent(g))

FairSpec == Spec /\ Fairness
-----------------------------------------------------------------------------
Notified == {g \in Getters : pc[g] = "notified"}

\* Every variable keeps the type it has in the class.
TypeOK == /\ heap \subseteq Items
          /\ IsFiniteSet(heap)
          /\ notifications \in Nat
          /\ lock \in {"free", "put", "clear"}
          /\ pushed \in Items \cup {NoItem}
          /\ pc \in [Getters -> {"idle", "waiting", "notified"}]
          /\ held \in [Getters -> Items \cup {NoItem}]

\* put()'s "prevent desynchronization where item exists but no notification":
\* every item of the heap has a wakeup on its way, a token in the queue or a
\* getter that took one.  Otherwise the item is stranded: all workers sleep
\* in get() while it waits.  A put() that holds the lock is one token short.
NoStrandedItem ==
  Cardinality(heap) <= notifications + Cardinality(Notified)
                       + (IF lock = "put" THEN 1 ELSE 0)

\* While clear() is not called the two structures agree exactly, so get()
\* never raises "Priority queue inconsistency".
InStep ==
  Cardinality(heap) = notifications + Cardinality(Notified)
                      + (IF lock = "put" THEN 1 ELSE 0)

\* The same, seen by a worker: a getter with a token finds an item.
NeverInconsistent == (lock = "free" /\ Notified # {}) => heap # {}

\* An item has one place: it is in the heap or with one getter, so no check
\* is run twice for one put().
OneOwner ==
  /\ \A g \in Getters : held[g] \notin heap
  /\ \A g, h \in Getters : held[g] = held[h] => g = h \/ held[g] = NoItem

\* The queue refines the abstract priority queue.  An item counts as queued
\* once its put() has released the lock: until then nobody can see it.
Abstract == INSTANCE PriorityQueue WITH
              queued <- heap \ (IF lock = "put" THEN {pushed} ELSE {}),
              owner <- held,
              Takers <- Getters

Refines == Abstract!Spec
=============================================================================
