-------------------------- MODULE RecheckQueueProofs --------------------------
(***************************************************************************)
(* Proofs about RecheckQueue, for any number of items and getters and for  *)
(* every interleaving of put(), get() and clear().                         *)
(***************************************************************************)
EXTENDS RecheckQueue, FiniteSetTheorems, TLAPS

\* What must hold besides TypeOK for the two structures to stay in step.
Inv ==
  /\ TypeOK
  /\ NoStrandedItem
  /\ lock = "put" => pushed \in heap
  /\ lock = "clear" => heap = {}

-----------------------------------------------------------------------------
\* A getter that takes a token joins the notified ones.
LEMMA NotifiedJoin ==
  ASSUME TypeOK, NEW g \in Getters, pc[g] # "notified",
         pc' = [pc EXCEPT ![g] = "notified"]
  PROVE  /\ Cardinality(Notified') = Cardinality(Notified) + 1
         /\ Cardinality(Notified) \in Nat
<1>1. IsFiniteSet(Notified)
  BY GettersAssumption, FS_Subset DEF Notified
<1>2. Notified' = Notified \cup {g} /\ g \notin Notified
  BY DEF Notified, TypeOK
<1> QED
  BY <1>1, <1>2, FS_AddElement, FS_CardinalityType

\* A getter that has popped, or found nothing, leaves them.
LEMMA NotifiedLeave ==
  ASSUME TypeOK, NEW g \in Getters, pc[g] = "notified",
         pc' = [pc EXCEPT ![g] = "idle"]
  PROVE  /\ Cardinality(Notified') = Cardinality(Notified) - 1
         /\ Cardinality(Notified) \in Nat \ {0}
         /\ Cardinality(Notified') \in Nat
<1>1. IsFiniteSet(Notified) /\ IsFiniteSet(Notified')
  BY GettersAssumption, FS_Subset DEF Notified
<1>2. Notified' = Notified \ {g} /\ g \in Notified
  BY DEF Notified, TypeOK
<1> QED
  BY <1>1, <1>2, FS_RemoveElement, FS_CardinalityType, FS_EmptySet

\* Steps of a getter outside the critical window do not change them.
LEMMA NotifiedSame ==
  ASSUME TypeOK,
         \/ pc' = pc
         \/ \E g \in Getters, s \in {"idle", "waiting"} :
              pc[g] # "notified" /\ pc' = [pc EXCEPT ![g] = s]
  PROVE  Notified' = Notified
BY DEF Notified, TypeOK

LEMMA NotifiedFinite ==
  ASSUME TypeOK
  PROVE  IsFiniteSet(Notified) /\ Cardinality(Notified) \in Nat
BY GettersAssumption, FS_Subset, FS_CardinalityType DEF Notified

\* Adding to and removing from the heap, counted.
LEMMA HeapAdd ==
  ASSUME TypeOK, NEW i, i \notin heap, heap' = heap \cup {i}
  PROVE  /\ Cardinality(heap') = Cardinality(heap) + 1
         /\ Cardinality(heap) \in Nat
         /\ IsFiniteSet(heap')
BY FS_AddElement, FS_CardinalityType DEF TypeOK

LEMMA HeapRemove ==
  ASSUME TypeOK, NEW i \in heap, heap' = heap \ {i}
  PROVE  /\ Cardinality(heap') = Cardinality(heap) - 1
         /\ Cardinality(heap) \in Nat \ {0}
         /\ Cardinality(heap') \in Nat
         /\ IsFiniteSet(heap')
<1>1. IsFiniteSet(heap)
  BY DEF TypeOK
<1> QED
  BY <1>1, FS_RemoveElement, FS_CardinalityType, FS_EmptySet

-----------------------------------------------------------------------------
LEMMA TypeInit == Init => TypeOK
BY FS_EmptySet, ItemsAssumption DEF Init, TypeOK

LEMMA TypeStep == TypeOK /\ [Next]_vars => TypeOK'
<1> SUFFICES ASSUME TypeOK, [Next]_vars PROVE TypeOK'
  OBVIOUS
<1>1. ASSUME NEW i \in Items, PutPush(i) PROVE TypeOK'
  BY <1>1, HeapAdd DEF TypeOK, PutPush
<1>2. CASE PutNotify
  BY <1>2 DEF TypeOK, PutNotify
<1>3. CASE PutFails
  BY <1>3, HeapRemove DEF TypeOK, PutFails, SamePriority
<1>4. ASSUME NEW g \in Getters, GetBegin(g) PROVE TypeOK'
  BY <1>4 DEF TypeOK, GetBegin
<1>5. ASSUME NEW g \in Getters, GetToken(g) PROVE TypeOK'
  BY <1>5 DEF TypeOK, GetToken
<1>6. ASSUME NEW g \in Getters, GetEmpty(g) PROVE TypeOK'
  BY <1>6 DEF TypeOK, GetEmpty
<1>7. ASSUME NEW g \in Getters, GetPop(g) PROVE TypeOK'
  BY <1>7, HeapRemove DEF TypeOK, GetPop, Foremost
<1>8. ASSUME NEW g \in Getters, GetInconsistent(g) PROVE TypeOK'
  BY <1>8 DEF TypeOK, GetInconsistent
<1>9. CASE Clear
  BY <1>9, FS_EmptySet DEF TypeOK, Clear, ClearItems, ClearDrain, ClearDone
<1>10. CASE UNCHANGED vars
  BY <1>10 DEF TypeOK, vars
<1> QED
  BY <1>1, <1>2, <1>3, <1>4, <1>5, <1>6, <1>7, <1>8, <1>9, <1>10 DEF Next, Put, Get

\* Every variable keeps its type in every behaviour.
THEOREM TypeCorrect == Spec => []TypeOK
BY TypeInit, TypeStep, PTL DEF Spec

-----------------------------------------------------------------------------
LEMMA InvInit == Init => Inv
<1> SUFFICES ASSUME Init PROVE Inv
  OBVIOUS
<1>1. TypeOK
  BY TypeInit
<1>2. Cardinality(heap) = 0 /\ Cardinality(Notified) \in Nat
  BY <1>1, NotifiedFinite, FS_EmptySet DEF Init
<1> QED
  BY <1>1, <1>2 DEF Inv, Init, NoStrandedItem

LEMMA InvStep == Inv /\ [Next]_vars => Inv'
<1> SUFFICES ASSUME Inv, [Next]_vars PROVE Inv'
  OBVIOUS
<1> USE DEF Inv
<1>0. TypeOK' /\ Cardinality(Notified) \in Nat /\ Cardinality(heap) \in Nat
      /\ Cardinality(heap)' = Cardinality(heap')
  BY TypeStep, NotifiedFinite, FS_CardinalityType DEF TypeOK
<1>1. ASSUME NEW i \in Items, PutPush(i) PROVE Inv'
  <2>1. Cardinality(heap') = Cardinality(heap) + 1
    BY <1>1, HeapAdd DEF PutPush
  <2>2. Notified' = Notified
    BY <1>1, NotifiedSame DEF PutPush
  <2> QED
    BY <1>0, <1>1, <2>1, <2>2 DEF PutPush, NoStrandedItem, TypeOK
<1>2. CASE PutNotify
  <2>1. Notified' = Notified
    BY <1>2, NotifiedSame DEF PutNotify
  <2> QED
    BY <1>0, <1>2, <2>1 DEF PutNotify, NoStrandedItem, TypeOK
<1>3. CASE PutFails
  <2>1. Notified' = Notified
    BY <1>3, NotifiedSame DEF PutFails
  <2>2. Cardinality(heap') = Cardinality(heap) - 1
    BY <1>3, HeapRemove DEF PutFails, SamePriority
  <2> QED
    BY <1>0, <1>3, <2>1, <2>2 DEF PutFails, NoStrandedItem, TypeOK
<1>4. ASSUME NEW g \in Getters, GetBegin(g) PROVE Inv'
  <2>1. Notified' = Notified
    BY <1>4, NotifiedSame DEF GetBegin
  <2> QED
    BY <1>0, <1>4, <2>1 DEF GetBegin, NoStrandedItem, TypeOK
<1>5. ASSUME NEW g \in Getters, GetToken(g) PROVE Inv'
  <2>1. Cardinality(Notified') = Cardinality(Notified) + 1
    BY <1>5, NotifiedJoin DEF GetToken
  <2> QED
    BY <1>0, <1>5, <2>1 DEF GetToken, NoStrandedItem, TypeOK
<1>6. ASSUME NEW g \in Getters, GetEmpty(g) PROVE Inv'
  <2>1. Notified' = Notified
    BY <1>6, NotifiedSame DEF GetEmpty
  <2> QED
    BY <1>0, <1>6, <2>1 DEF GetEmpty, NoStrandedItem, TypeOK
<1>7. ASSUME NEW g \in Getters, GetPop(g) PROVE Inv'
  <2>1. Cardinality(Notified') = Cardinality(Notified) - 1
    BY <1>7, NotifiedLeave DEF GetPop
  <2>2. Cardinality(heap') = Cardinality(heap) - 1
    BY <1>7, HeapRemove DEF GetPop, Foremost
  <2> QED
    BY <1>0, <1>7, <2>1, <2>2 DEF GetPop, NoStrandedItem, TypeOK
<1>8. ASSUME NEW g \in Getters, GetInconsistent(g) PROVE Inv'
  <2>1. Cardinality(Notified') \in Nat
    BY <1>8, NotifiedLeave DEF GetInconsistent
  <2>2. Cardinality(heap') = 0
    BY <1>8, FS_EmptySet DEF GetInconsistent
  <2> QED
    BY <1>0, <1>8, <2>1, <2>2 DEF GetInconsistent, NoStrandedItem, TypeOK
<1>9. CASE Clear
  <2>1. Notified' = Notified
    BY <1>9, NotifiedSame DEF Clear, ClearItems, ClearDrain, ClearDone
  <2>2. heap' = {} /\ Cardinality(heap') = 0 /\ lock' # "put"
    BY <1>9, FS_EmptySet DEF Clear, ClearItems, ClearDrain, ClearDone
  <2> QED
    BY <1>0, <2>1, <2>2 DEF NoStrandedItem, TypeOK
<1>10. CASE UNCHANGED vars
  <2>1. Notified' = Notified
    BY <1>10, NotifiedSame DEF vars
  <2> QED
    BY <1>0, <1>10, <2>1 DEF vars, NoStrandedItem
<1> QED
  BY <1>1, <1>2, <1>3, <1>4, <1>5, <1>6, <1>7, <1>8, <1>9, <1>10 DEF Next, Put, Get

\* No item is ever stranded without a wakeup, with put() failing and clear()
\* racing the getters, whatever the capacity.
THEOREM ItemsHaveWakeups == Spec => []NoStrandedItem
<1>1. Inv => NoStrandedItem
  BY DEF Inv
<1> QED
  BY <1>1, InvInit, InvStep, PTL DEF Spec

-----------------------------------------------------------------------------
\* Without clear() the counts are equal.  PutFails is where it needs pushed in
\* the heap, GetInconsistent where the equality excludes the step.
InvNoClear == Inv /\ InStep /\ lock # "clear"

LEMMA InvNoClearInit == Init => InvNoClear
<1> SUFFICES ASSUME Init PROVE InvNoClear
  OBVIOUS
<1>1. Cardinality(heap) = 0 /\ Notified = {} /\ Cardinality(Notified) = 0
  BY FS_EmptySet DEF Init, Notified
<1> QED
  BY <1>1, InvInit DEF InvNoClear, Init, InStep

LEMMA InvNoClearStep ==
  ASSUME ~Clears
  PROVE  InvNoClear /\ [Next]_vars => InvNoClear'
<1> SUFFICES ASSUME InvNoClear, [Next]_vars PROVE InvNoClear'
  OBVIOUS
<1> USE DEF InvNoClear
<1>0. TypeOK /\ Inv' /\ Cardinality(Notified) \in Nat /\ Cardinality(heap) \in Nat
  BY InvStep, NotifiedFinite, FS_CardinalityType DEF TypeOK, Inv
<1>1. ASSUME NEW i \in Items, PutPush(i) PROVE InvNoClear'
  <2>1. Cardinality(heap') = Cardinality(heap) + 1
    BY <1>0, <1>1, HeapAdd DEF PutPush
  <2>2. Notified' = Notified
    BY <1>0, <1>1, NotifiedSame DEF PutPush
  <2> QED
    BY <1>0, <1>1, <2>1, <2>2 DEF PutPush, InStep, TypeOK
<1>2. CASE PutNotify
  <2>1. Notified' = Notified
    BY <1>0, <1>2, NotifiedSame DEF PutNotify
  <2> QED
    BY <1>0, <1>2, <2>1 DEF PutNotify, InStep, TypeOK
<1>3. CASE PutFails
  <2>1. Notified' = Notified
    BY <1>0, <1>3, NotifiedSame DEF PutFails
  <2>2. Cardinality(heap') = Cardinality(heap) - 1
    BY <1>0, <1>3, HeapRemove DEF PutFails, SamePriority
  <2> QED
    BY <1>0, <1>3, <2>1, <2>2 DEF PutFails, InStep, TypeOK
<1>4. ASSUME NEW g \in Getters, GetBegin(g) PROVE InvNoClear'
  <2>1. Notified' = Notified
    BY <1>0, <1>4, NotifiedSame DEF GetBegin
  <2> QED
    BY <1>0, <1>4, <2>1 DEF GetBegin, InStep, TypeOK
<1>5. ASSUME NEW g \in Getters, GetToken(g) PROVE InvNoClear'
  <2>1. Cardinality(Notified') = Cardinality(Notified) + 1
    BY <1>0, <1>5, NotifiedJoin DEF GetToken
  <2> QED
    BY <1>0, <1>5, <2>1 DEF GetToken, InStep, TypeOK
<1>6. ASSUME NEW g \in Getters, GetEmpty(g) PROVE InvNoClear'
  <2>1. Notified' = Notified
    BY <1>0, <1>6, NotifiedSame DEF GetEmpty
  <2> QED
    BY <1>0, <1>6, <2>1 DEF GetEmpty, InStep, TypeOK
<1>7. ASSUME NEW g \in Getters, GetPop(g) PROVE InvNoClear'
  <2>1. Cardinality(Notified') = Cardinality(Notified) - 1
    BY <1>0, <1>7, NotifiedLeave DEF GetPop
  <2>2. Cardinality(heap') = Cardinality(heap) - 1
    BY <1>0, <1>7, HeapRemove DEF GetPop, Foremost
  <2> QED
    BY <1>0, <1>7, <2>1, <2>2 DEF GetPop, InStep, TypeOK
<1>8. ASSUME NEW g \in Getters, GetInconsistent(g) PROVE FALSE
  <2>1. Cardinality(heap) = 0
    BY <1>8, FS_EmptySet DEF GetInconsistent
  <2>2. Cardinality(Notified) \in Nat \ {0}
    BY <1>0, <1>8, NotifiedLeave DEF GetInconsistent
  <2> QED
    BY <1>0, <1>8, <2>1, <2>2 DEF GetInconsistent, InStep, TypeOK
<1>9. CASE Clear
  BY <1>9 DEF Clear, ClearItems, ClearDrain, ClearDone
<1>10. CASE UNCHANGED vars
  <2>1. Notified' = Notified
    BY <1>0, <1>10, NotifiedSame DEF vars
  <2> QED
    BY <1>0, <1>10, <2>1 DEF vars, InStep
<1> QED
  BY <1>1, <1>2, <1>3, <1>4, <1>5, <1>6, <1>7, <1>8, <1>9, <1>10 DEF Next, Put, Get

\* While nobody calls clear(), heap and tokens agree in every reachable state.
THEOREM HeapAndTokensInStep ==
  ASSUME ~Clears
  PROVE  Spec => []InStep
<1>1. InvNoClear => InStep
  BY DEF InvNoClear
<1> QED
  BY <1>1, InvNoClearInit, InvNoClearStep, PTL DEF Spec

\* So get() never raises "Priority queue inconsistency".
THEOREM GetNeverInconsistent ==
  ASSUME ~Clears
  PROVE  Spec => []NeverInconsistent
<1>1. InvNoClear => NeverInconsistent
  <2> SUFFICES ASSUME InvNoClear, lock = "free", NEW g \in Notified PROVE heap # {}
    BY DEF NeverInconsistent
  <2>1. TypeOK /\ InStep
    BY DEF InvNoClear, Inv
  <2>2. IsFiniteSet(Notified) /\ Cardinality(Notified) \in Nat
    BY <2>1, NotifiedFinite
  <2>3. Cardinality(Notified) # 0
    BY <2>2, FS_EmptySet
  <2>4. Cardinality(heap) # 0
    BY <2>1, <2>2, <2>3 DEF InStep, TypeOK
  <2> QED
    BY <2>4, FS_EmptySet
<1> QED
  BY <1>1, InvNoClearInit, InvNoClearStep, PTL DEF Spec

-----------------------------------------------------------------------------
\* What the refinement needs besides Inv: an item has one place, and a getter
\* inside get() holds nothing.
InvOwner ==
  /\ Inv
  /\ OneOwner
  /\ \A g \in Getters : pc[g] # "idle" => held[g] = NoItem

LEMMA InvOwnerInit == Init => InvOwner
BY InvInit, ItemsAssumption DEF InvOwner, Init, OneOwner

LEMMA InvOwnerStep == InvOwner /\ [Next]_vars => InvOwner'
<1> SUFFICES ASSUME InvOwner, [Next]_vars PROVE InvOwner'
  OBVIOUS
<1> USE DEF InvOwner, OneOwner
<1>0. TypeOK /\ Inv'
  BY InvStep DEF Inv
<1>1. ASSUME NEW i \in Items, PutPush(i) PROVE InvOwner'
  BY <1>0, <1>1 DEF PutPush
<1>2. CASE PutNotify
  BY <1>0, <1>2 DEF PutNotify
<1>3. CASE PutFails
  BY <1>0, <1>3 DEF PutFails
<1>4. ASSUME NEW g \in Getters, GetBegin(g) PROVE InvOwner'
  BY <1>0, <1>4, ItemsAssumption DEF GetBegin, TypeOK
<1>5. ASSUME NEW g \in Getters, GetToken(g) PROVE InvOwner'
  BY <1>0, <1>5 DEF GetToken, TypeOK
<1>6. ASSUME NEW g \in Getters, GetEmpty(g) PROVE InvOwner'
  BY <1>0, <1>6 DEF GetEmpty, TypeOK
<1>7. ASSUME NEW g \in Getters, GetPop(g) PROVE InvOwner'
  BY <1>0, <1>7 DEF GetPop, Foremost, TypeOK
<1>8. ASSUME NEW g \in Getters, GetInconsistent(g) PROVE InvOwner'
  BY <1>0, <1>8 DEF GetInconsistent, TypeOK
<1>9. CASE Clear
  BY <1>0, <1>9 DEF Clear, ClearItems, ClearDrain, ClearDone
<1>10. CASE UNCHANGED vars
  BY <1>0, <1>10 DEF vars
<1> QED
  BY <1>1, <1>2, <1>3, <1>4, <1>5, <1>6, <1>7, <1>8, <1>9, <1>10 DEF Next, Put, Get

\* An item is never in two places: not in the heap and with a getter, nor with
\* two getters.
THEOREM ItemsHaveOneOwner == Spec => []OneOwner
<1>1. InvOwner => OneOwner
  BY DEF InvOwner
<1> QED
  BY <1>1, InvOwnerInit, InvOwnerStep, PTL DEF Spec

\* One step of the queue is one step of the abstract queue, or none.
LEMMA StepRefines ==
  ASSUME InvOwner, [Next]_vars
  PROVE  [Abstract!Next]_(Abstract!vars)
<1> USE DEF InvOwner, Inv
<1>1. ASSUME NEW i \in Items, PutPush(i) PROVE UNCHANGED Abstract!vars
  BY <1>1 DEF PutPush, Abstract!vars
<1>2. CASE PutNotify
  <2>1. pushed \in Items /\ pushed \in heap
    BY <1>2 DEF PutNotify, TypeOK
  <2>2. Abstract!Enqueue(pushed)
    BY <1>2, <2>1 DEF PutNotify, OneOwner, Abstract!Enqueue
  <2> QED
    BY <2>1, <2>2 DEF Abstract!Next
<1>3. CASE PutFails
  <2>1. PICK j \in SamePriority(pushed) : heap' = heap \ {j}
    BY <1>3 DEF PutFails
  <2>2. pushed \in Items /\ pushed \in heap /\ j \in heap /\ j \in Items
    BY <1>3, <2>1 DEF PutFails, SamePriority, TypeOK
  <2>3. CASE j = pushed
    BY <1>3, <2>1, <2>3 DEF PutFails, Abstract!vars
  <2>4. CASE j # pushed
    <3>1. Abstract!Displace(pushed, j)
      BY <1>3, <2>1, <2>2, <2>4 DEF PutFails, SamePriority, OneOwner, Abstract!Displace
    <3> QED
      BY <2>2, <3>1 DEF Abstract!Next
  <2> QED
    BY <2>3, <2>4
<1>4. ASSUME NEW g \in Getters, GetBegin(g) PROVE [Abstract!Next]_(Abstract!vars)
  <2>1. CASE held[g] = NoItem
    BY <1>4, <2>1 DEF GetBegin, Abstract!vars, TypeOK
  <2>2. CASE held[g] # NoItem
    <3>1. Abstract!Finish(g)
      BY <1>4, <2>2 DEF GetBegin, Abstract!Finish
    <3> QED
      BY <3>1 DEF Abstract!Next
  <2> QED
    BY <2>1, <2>2
<1>5. ASSUME NEW g \in Getters, GetToken(g) PROVE UNCHANGED Abstract!vars
  BY <1>5 DEF GetToken, Abstract!vars
<1>6. ASSUME NEW g \in Getters, GetEmpty(g) PROVE UNCHANGED Abstract!vars
  BY <1>6 DEF GetEmpty, Abstract!vars
<1>7. ASSUME NEW g \in Getters, GetPop(g) PROVE Abstract!Next
  <2>1. Abstract!Take(g)
    BY <1>7 DEF GetPop, Foremost, Abstract!Take, Abstract!Foremost
  <2> QED
    BY <2>1 DEF Abstract!Next
<1>8. ASSUME NEW g \in Getters, GetInconsistent(g) PROVE UNCHANGED Abstract!vars
  BY <1>8 DEF GetInconsistent, Abstract!vars
<1>9. CASE Clear
  <2>1. CASE ClearItems
    BY <2>1 DEF ClearItems, Abstract!Next, Abstract!Purge
  <2>2. CASE ClearDrain \/ ClearDone
    BY <2>2 DEF ClearDrain, ClearDone, Abstract!vars
  <2> QED
    BY <1>9, <2>1, <2>2 DEF Clear
<1>10. CASE UNCHANGED vars
  BY <1>10 DEF vars, Abstract!vars
<1> QED
  BY <1>1, <1>2, <1>3, <1>4, <1>5, <1>6, <1>7, <1>8, <1>9, <1>10 DEF Next, Put, Get

\* Every behaviour of the queue is one of the abstract priority queue (its safety
\* part), for any capacity, with clear() and with a put() that fails.
THEOREM ImplementsPriorityQueue ==
  Spec => Abstract!Init /\ [][Abstract!Next]_(Abstract!vars)
<1>1. Init => Abstract!Init
  BY DEF Init, Abstract!Init
<1>2. InvOwner /\ [Next]_vars => [Abstract!Next]_(Abstract!vars)
  BY StepRefines
<1> QED
  BY <1>1, <1>2, InvOwnerInit, InvOwnerStep, PTL DEF Spec
=============================================================================
