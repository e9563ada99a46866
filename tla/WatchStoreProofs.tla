--------------------------- MODULE WatchStoreProofs ---------------------------
(***************************************************************************)
(* What is kept, proved for any number of watches, threads, adders and     *)
(* changes, with saves and deletions that may fail and restarts at any     *)
(* point: a watch whose last commit ran alone is on disk as it is in       *)
(* memory; a file once saved stays whole; a deleted watch stays deleted;   *)
(* the limit holds (WatchStore).  Every line of an import is a watch or is *)
(* told of; a backup with a name is whole, and a saved watch survives      *)
(* backups, restores and restarts (HandedIn).                              *)
(***************************************************************************)
EXTENDS WatchStore, HandedIn, FiniteSetTheorems, TLAPS

\* The places at which a commit is between its copy and the end of its save.
Saving == {"save", "replace"}

Types == /\ unused \subseteq Uuids
         /\ watching \subseteq Uuids
         /\ version \in [Uuids -> Nat \cup {Absent}]
         /\ disk \in [Uuids -> Nat \cup {Absent}]
         /\ temps \in [Uuids -> SUBSET Actors]
         /\ pc \in [Actors -> {"idle", "add", "update", "updated", "edited",
                               "save", "replace", "delete"}]
         /\ uuid \in [Actors -> Uuids]
         /\ snapshot \in [Actors -> Nat \cup {Absent}]
         /\ failed \subseteq Uuids /\ contended \subseteq Uuids
         /\ lock \in Actors \cup {NoOne}

\* Files go under the lock.
Locked == \A a \in Actors : pc[a] = "delete" <=> lock = a

\* A UUID nobody has used has no file, and one that is being added has neither a
\* file nor anybody else at work on it.
Fresh ==
  /\ \A u \in watching : u \notin unused /\ version[u] \in Nat
  /\ \A u \in unused : disk[u] = Absent /\ \A a \in Actors : uuid[a] = u => pc[a] = "idle"
  /\ \A a \in Actors : pc[a] = "add" =>
       /\ uuid[a] \notin watching /\ disk[uuid[a]] = Absent
       /\ \A b \in Actors : uuid[b] = uuid[a] => b = a \/ pc[b] = "idle"

\* What a commit saves is a watch, also when that was deleted meanwhile.
Whole ==
  \A a \in Actors : /\ pc[a] = "edited" => version[uuid[a]] \in Nat
                    /\ pc[a] \in Saving => snapshot[a] \in Nat

\* A watch whose last commit ran alone.
Clean(u) ==
  \* One commit saves it, a watch that is there and not being deleted ...
  /\ \A a, b \in Actors :
       (uuid[a] = u /\ uuid[b] = u /\ pc[a] \in Saving /\ pc[b] \in Saving) => a = b
  /\ \A a \in Actors : (uuid[a] = u /\ pc[a] \in Saving \cup {"edited"}) =>
       u \in watching /\ \A b \in Actors : uuid[b] = u => pc[b] # "delete"
  \* ... and saves what is in memory, or another commit is still to come.
  /\ \A a \in Actors : (uuid[a] = u /\ pc[a] \in Saving) =>
       snapshot[a] = version[u] \/ \E b \in Actors : uuid[b] = u /\ pc[b] \in {"updated", "edited"}
  \* Nobody at work on it: it is saved.
  /\ (u \in watching /\ u \notin failed) =>
       disk[u] = version[u] \/ \E b \in Actors :
          uuid[b] = u /\ pc[b] \in Saving \cup {"updated", "edited", "delete"}
  \* Its file goes before it does.
  /\ u \notin failed =>
       \/ disk[u] = Absent
       \/ u \in watching /\ \A b \in Actors : uuid[b] = u => pc[b] # "delete"

AloneIsClean == \A u \in Uuids \ contended : Clean(u)

Inv == Types /\ Locked /\ Fresh /\ Whole /\ AloneIsClean

LEMMA InvImpliesPersisted == Inv => PersistedUnlessContended
BY DEF Inv, Types, AloneIsClean, Clean, PersistedUnlessContended, Pending, At, Current, Saving

LEMMA InvInit == Init => Inv
BY NoOneAssumption DEF Init, Inv, Types, Locked, Fresh, Whole, AloneIsClean, Clean, Saving

-----------------------------------------------------------------------------
LEMMA AddCheckKeepsInv ==
  ASSUME Inv, NEW a \in Actors, AddCheck(a) PROVE Inv'
<1>1. PICK u \in unused : Begin(a, u, "add") /\ unused' = unused \ {u}
  BY DEF AddCheck
<1>2. u \in Uuids /\ pc[a] = "idle"
  BY <1>1 DEF Inv, Types, Begin
<1>3. Types'
  BY <1>1, <1>2 DEF AddCheck, Begin, Go, Inv, Types, files, marks
<1>4. Locked'
  BY <1>1, <1>2 DEF AddCheck, Begin, Go, Inv, Types, Locked, files, marks
<1>5. Fresh'
  BY <1>1, <1>2 DEF AddCheck, Begin, Go, Inv, Types, Fresh, files, marks
<1>6. Whole'
  BY <1>1, <1>2 DEF AddCheck, Begin, Go, Inv, Types, Fresh, Whole, Saving, files, marks
<1>7. AloneIsClean'
  BY <1>1, <1>2 DEF AddCheck, Begin, Go, Inv, Types, Fresh, AloneIsClean, Clean, Saving, files, marks
<1> QED
  BY <1>3, <1>4, <1>5, <1>6, <1>7 DEF Inv

LEMMA AddInsertKeepsInv ==
  ASSUME Inv, NEW a \in Actors, AddInsert(a) PROVE Inv'
<1>1. Types'
  BY DEF AddInsert, Go, Inv, Types, files, marks
<1>2. Locked'
  BY DEF AddInsert, Go, Inv, Types, Locked, files, marks
<1>3. Fresh'
  BY DEF AddInsert, Go, Inv, Types, Fresh, files, marks
<1>4. Whole'
  BY DEF AddInsert, Go, Inv, Types, Fresh, Whole, Saving, files, marks
<1>5. AloneIsClean'
  BY DEF AddInsert, Go, Inv, Types, Fresh, AloneIsClean, Clean, Saving, files, marks
<1> QED
  BY <1>1, <1>2, <1>3, <1>4, <1>5 DEF Inv

LEMMA EditKeepsInv ==
  ASSUME Inv, NEW a \in Actors, NEW u \in Uuids, Edit(a, u) PROVE Inv'
<1>1. Types'
  BY DEF Edit, Begin, Go, Change, Mark, At, Inv, Types, Fresh, memory, files, marks
<1>2. Locked'
  BY NoOneAssumption DEF Edit, Begin, Go, Change, Mark, At, Inv, Types, Locked, memory, files, marks
<1>3. Fresh'
  BY DEF Edit, Begin, Go, Change, Mark, At, Inv, Types, Locked, Fresh, memory, files, marks
<1>4. Whole'
  BY DEF Edit, Begin, Go, Change, Mark, At, Inv, Types, Fresh, Whole, Saving, memory, files, marks
<1>5. AloneIsClean'
  BY DEF Edit, Begin, Go, Change, Mark, At, Inv, Types, Locked, Fresh, AloneIsClean, Clean, Saving, memory, files, marks
<1> QED
  BY <1>1, <1>2, <1>3, <1>4, <1>5 DEF Inv

LEMMA UpdateBeginKeepsInv ==
  ASSUME Inv, NEW a \in Actors, NEW u \in Uuids, UpdateBegin(a, u) PROVE Inv'
<1>1. Types'
  BY DEF UpdateBegin, Begin, Go, Inv, Types, memory, files, marks
<1>2. Locked'
  BY NoOneAssumption DEF UpdateBegin, Begin, Go, Inv, Types, Locked, memory, files, marks
<1>3. Fresh'
  BY DEF UpdateBegin, Begin, Go, Inv, Types, Locked, Fresh, memory, files, marks
<1>4. Whole'
  BY DEF UpdateBegin, Begin, Go, Inv, Types, Fresh, Whole, Saving, memory, files, marks
<1>5. AloneIsClean'
  BY DEF UpdateBegin, Begin, Go, Inv, Types, Locked, Fresh, AloneIsClean, Clean, Saving, memory, files, marks
<1> QED
  BY <1>1, <1>2, <1>3, <1>4, <1>5 DEF Inv

LEMMA UpdateMergeKeepsInv ==
  ASSUME Inv, NEW a \in Actors, UpdateMerge(a) PROVE Inv'
<1>1. Types'
  BY DEF UpdateMerge, Go, Change, Inv, Types, Fresh, memory, files, marks
<1>2. Locked'
  BY NoOneAssumption DEF UpdateMerge, Go, Change, Inv, Types, Locked, memory, files, marks
<1>3. Fresh'
  BY DEF UpdateMerge, Go, Change, Inv, Types, Locked, Fresh, memory, files, marks
<1>4. Whole'
  BY DEF UpdateMerge, Go, Change, Inv, Types, Fresh, Whole, Saving, memory, files, marks
<1>5. AloneIsClean'
  BY DEF UpdateMerge, Go, Change, Inv, Types, Locked, Fresh, AloneIsClean, Clean, Saving, memory, files, marks
<1> QED
  BY <1>1, <1>2, <1>3, <1>4, <1>5 DEF Inv

LEMMA UpdateGoneKeepsInv ==
  ASSUME Inv, NEW a \in Actors, UpdateGone(a) PROVE Inv'
<1>1. Types'
  BY DEF UpdateGone, Go, Inv, Types, memory, files, marks
<1>2. Locked'
  BY NoOneAssumption DEF UpdateGone, Go, Inv, Types, Locked, memory, files, marks
<1>3. Fresh'
  BY DEF UpdateGone, Go, Inv, Types, Locked, Fresh, memory, files, marks
<1>4. Whole'
  BY DEF UpdateGone, Go, Inv, Types, Fresh, Whole, Saving, memory, files, marks
<1>5. AloneIsClean'
  BY DEF UpdateGone, Go, Inv, Types, Locked, Fresh, AloneIsClean, Clean, Saving, memory, files, marks
<1> QED
  BY <1>1, <1>2, <1>3, <1>4, <1>5 DEF Inv

LEMMA CommitCopyKeepsInv ==
  ASSUME Inv, NEW a \in Actors, CommitCopy(a) PROVE Inv'
<1>1. Types'
  BY DEF CommitCopy, Go, MarkCommit, At, Inv, Types, memory, files, marks
<1>2. Locked'
  BY NoOneAssumption DEF CommitCopy, Go, MarkCommit, At, Inv, Types, Locked, memory, files, marks
<1>3. Fresh'
  BY DEF CommitCopy, Go, MarkCommit, At, Inv, Types, Locked, Fresh, memory, files, marks
<1>4. Whole'
  BY DEF CommitCopy, Go, Inv, Types, Fresh, Whole, Saving, memory
<1>5. AloneIsClean'
  BY DEF CommitCopy, Go, MarkCommit, At, Inv, Types, Locked, Fresh, AloneIsClean, Clean, Saving, memory, files, marks
<1> QED
  BY <1>1, <1>2, <1>3, <1>4, <1>5 DEF Inv

LEMMA SaveTempKeepsInv ==
  ASSUME Inv, NEW a \in Actors, SaveTemp(a) PROVE Inv'
<1>1. Types'
  BY DEF SaveTemp, Go, Inv, Types, memory, files, marks
<1>2. Locked'
  BY NoOneAssumption DEF SaveTemp, Go, Inv, Types, Locked, memory, files, marks
<1>3. Fresh'
  BY DEF SaveTemp, Go, Inv, Types, Locked, Fresh, memory, files, marks
<1>4. Whole'
  BY DEF SaveTemp, Go, Inv, Types, Fresh, Whole, Saving, memory, files, marks
<1>5. AloneIsClean'
  BY DEF SaveTemp, Go, Inv, Types, Locked, Fresh, AloneIsClean, Clean, Saving, memory, files, marks
<1> QED
  BY <1>1, <1>2, <1>3, <1>4, <1>5 DEF Inv

LEMMA SaveReplaceKeepsInv ==
  ASSUME Inv, NEW a \in Actors, SaveReplace(a) PROVE Inv'
<1>1. Types'
  BY DEF SaveReplace, Go, Inv, Types, memory, files, marks
<1>2. Locked'
  BY NoOneAssumption DEF SaveReplace, Go, Inv, Types, Locked, memory, files, marks
<1>3. Fresh'
  BY DEF SaveReplace, Go, Inv, Types, Locked, Fresh, memory, files, marks
<1>4. Whole'
  BY DEF SaveReplace, Go, Inv, Types, Fresh, Whole, Saving, memory, files, marks
<1>5. AloneIsClean'
  BY DEF SaveReplace, Go, Inv, Types, Locked, Fresh, AloneIsClean, Clean, Saving, memory, files, marks
<1> QED
  BY <1>1, <1>2, <1>3, <1>4, <1>5 DEF Inv

LEMMA SaveFailsKeepsInv ==
  ASSUME Inv, NEW a \in Actors, SaveFails(a) PROVE Inv'
<1>1. Types'
  BY DEF SaveFails, Go, Mark, At, Inv, Types, memory, files, marks
<1>2. Locked'
  BY NoOneAssumption DEF SaveFails, Go, Mark, At, Inv, Types, Locked, memory, files, marks
<1>3. Fresh'
  BY DEF SaveFails, Go, Mark, At, Inv, Types, Locked, Fresh, memory, files, marks
<1>4. Whole'
  BY DEF SaveFails, Go, Mark, At, Inv, Types, Fresh, Whole, Saving, memory, files, marks
<1>5. AloneIsClean'
  BY DEF SaveFails, Go, Mark, At, Inv, Types, Locked, Fresh, AloneIsClean, Clean, Saving, memory, files, marks
<1> QED
  BY <1>1, <1>2, <1>3, <1>4, <1>5 DEF Inv

LEMMA DeleteFilesKeepsInv ==
  ASSUME Inv, NEW a \in Actors, NEW u \in Uuids, DeleteFiles(a, u) PROVE Inv'
<1>1. Types'
  BY DEF DeleteFiles, Begin, Go, Mark, At, Inv, Types, memory, files, marks
<1>2. Locked'
  BY NoOneAssumption DEF DeleteFiles, Begin, Go, Mark, At, Inv, Types, Locked, memory, files, marks
<1>3. Fresh'
  BY DEF DeleteFiles, Begin, Go, Mark, At, Inv, Types, Locked, Fresh, memory, files, marks
<1>4. Whole'
  BY DEF DeleteFiles, Begin, Go, Mark, At, Inv, Types, Fresh, Whole, Saving, memory, files, marks
<1>5. AloneIsClean'
  BY DEF DeleteFiles, Begin, Go, Mark, At, Inv, Types, Locked, Fresh, AloneIsClean, Clean, Saving, memory, files, marks
<1> QED
  BY <1>1, <1>2, <1>3, <1>4, <1>5 DEF Inv

LEMMA DeleteForgetKeepsInv ==
  ASSUME Inv, NEW a \in Actors, DeleteForget(a) PROVE Inv'
<1>1. Types'
  BY DEF DeleteForget, Go, Inv, Types, memory, files, marks
<1>2. Locked'
  BY NoOneAssumption DEF DeleteForget, Go, Inv, Types, Locked, memory, files, marks
<1>3. Fresh'
  BY DEF DeleteForget, Go, Inv, Types, Locked, Fresh, memory, files, marks
<1>4. Whole'
  BY DEF DeleteForget, Go, Inv, Types, Fresh, Whole, Saving, memory, files, marks
<1>5. AloneIsClean'
  BY DEF DeleteForget, Go, Inv, Types, Locked, Fresh, AloneIsClean, Clean, Saving, memory, files, marks
<1> QED
  BY <1>1, <1>2, <1>3, <1>4, <1>5 DEF Inv

LEMMA RestartKeepsInv == ASSUME Inv, Restart PROVE Inv'
<1>1. Types'
  BY DEF Restart, Inv, Types
<1>2. Locked'
  BY NoOneAssumption DEF Restart, Inv, Types, Locked
<1>3. Fresh'
  BY DEF Restart, Inv, Types, Fresh
<1>4. Whole'
  BY DEF Restart, Inv, Types, Fresh, Whole, Saving
<1>5. AloneIsClean'
  BY DEF Restart, Inv, Types, AloneIsClean, Clean, Saving
<1> QED
  BY <1>1, <1>2, <1>3, <1>4, <1>5 DEF Inv

LEMMA StutterKeepsInv == ASSUME Inv, UNCHANGED vars PROVE Inv'
BY DEF vars, memory, files, marks, Inv, Types, Locked, Fresh, Whole, AloneIsClean, Clean, Saving

LEMMA NextKeepsInv == Inv /\ [Next]_vars => Inv'
<1> SUFFICES ASSUME Inv, [Next]_vars PROVE Inv'
  OBVIOUS
<1>1. CASE UNCHANGED vars
  BY <1>1, StutterKeepsInv
<1>2. CASE Restart
  BY <1>2, RestartKeepsInv
<1>3. ASSUME NEW a \in Actors, Step(a) PROVE Inv'
  <2>1. CASE AddCheck(a) \/ AddInsert(a)
    BY <2>1, AddCheckKeepsInv, AddInsertKeepsInv
  <2>2. CASE UpdateMerge(a) \/ UpdateGone(a)
    BY <2>2, UpdateMergeKeepsInv, UpdateGoneKeepsInv
  <2>3. CASE CommitCopy(a) \/ SaveTemp(a) \/ SaveReplace(a) \/ SaveFails(a)
    BY <2>3, CommitCopyKeepsInv, SaveTempKeepsInv, SaveReplaceKeepsInv, SaveFailsKeepsInv
  <2>4. CASE DeleteForget(a)
    BY <2>4, DeleteForgetKeepsInv
  <2>5. ASSUME NEW u \in Uuids, Edit(a, u) \/ UpdateBegin(a, u) \/ DeleteFiles(a, u)
        PROVE  Inv'
    BY <2>5, EditKeepsInv, UpdateBeginKeepsInv, DeleteFilesKeepsInv
  <2> QED
    BY <1>3, <2>1, <2>2, <2>3, <2>4, <2>5 DEF Step
<1> QED
  BY <1>1, <1>2, <1>3 DEF Next
-----------------------------------------------------------------------------
\* Every variable keeps its type, and files are deleted under datastore.lock.
THEOREM TypeCorrect == Spec => []TypeOK
<1>1. Inv => TypeOK
  BY DEF Inv, Types, Locked, Fresh, TypeOK
<1> QED
  BY <1>1, InvInit, NextKeepsInv, PTL DEF Spec

\* A watch whose last commit ran alone is on disk as it is in memory, or gone
\* from both, unless somebody is at work on it or its last save failed: with
\* commit() taking no lock this is all that "already persisted" comes to.
THEOREM AloneIsPersisted == Spec => []PersistedUnlessContended
BY InvImpliesPersisted, InvInit, NextKeepsInv, PTL DEF Spec

\* delete(): a watch that is gone does not come back with a restart, if its files
\* could be deleted and nobody was saving it meanwhile.
THEOREM GoneForGood == Spec => GoneStaysGone
<1> DEFINE Gone == Uuids \ (watching \cup unused \cup contended \cup failed)
<1>1. ASSUME Inv, [Next]_vars, NEW u \in Gone, u \in watching'
      PROVE  At(u, {"add"}) # {}
  <2>1. CASE Restart
    BY <1>1, <2>1 DEF Restart, Inv, AloneIsClean, Clean
  <2>2. ASSUME NEW a \in Actors, AddInsert(a) PROVE At(u, {"add"}) # {}
    BY <1>1, <2>2 DEF AddInsert, At
  <2>3. ASSUME NEW a \in Actors, Step(a), ~AddInsert(a) PROVE u \in watching
    BY <1>1, <2>3 DEF Step, AddCheck, UpdateMerge, UpdateGone, CommitCopy, SaveTemp, SaveReplace,
                      SaveFails, DeleteForget, Edit, UpdateBegin, DeleteFiles, memory
  <2> QED
    BY <1>1, <2>1, <2>2, <2>3 DEF Next, vars, memory
<1>2. Inv /\ [Next]_vars => [\A u \in Gone : u \in watching' => At(u, {"add"}) # {}]_vars
  BY <1>1
<1> QED
  BY <1>2, InvInit, NextKeepsInv, PTL DEF Spec, GoneStaysGone

\* save_json_atomic(): once saved, a watch's file is there whole at every point
\* at which the process may be killed, until the watch is deleted.
THEOREM SavedIsReadable == Spec => SavedStaysReadable
<1> DEFINE Deleted(u) == \E a \in Actors : pc'[a] = "delete" /\ uuid'[a] = u
<1>1. ASSUME Inv, [Next]_vars, NEW u \in Uuids, disk[u] # Absent, disk'[u] = Absent
      PROVE  Deleted(u)
  <2>1. ASSUME NEW a \in Actors, SaveReplace(a) PROVE FALSE
    BY <1>1, <2>1, AbsentAssumption DEF SaveReplace, Inv, Types, Whole, Saving
  <2>2. ASSUME NEW a \in Actors, NEW v \in Uuids, DeleteFiles(a, v) PROVE Deleted(u)
    BY <1>1, <2>2 DEF DeleteFiles, Begin, Go, Inv, Types, files
  <2>3. ASSUME NEW a \in Actors, Step(a), ~SaveReplace(a),
               \A v \in Uuids : ~DeleteFiles(a, v)
        PROVE  FALSE
    BY <1>1, <2>3 DEF Step, AddCheck, AddInsert, UpdateMerge, UpdateGone, CommitCopy, SaveTemp,
                      SaveFails, DeleteForget, Edit, UpdateBegin, files
  <2> QED
    BY <1>1, <2>1, <2>2, <2>3 DEF Next, Restart, vars, files
<1>2. Inv /\ [Next]_vars =>
        [\A u \in Uuids : (disk[u] # Absent /\ disk'[u] = Absent) => Deleted(u)]_vars
  BY <1>1
<1> QED
  BY <1>2, InvInit, NextKeepsInv, PTL DEF Spec, SavedStaysReadable

-----------------------------------------------------------------------------
\* Where one thread adds watches there is room for the one it is adding: others
\* only delete meanwhile, and a restart forgets the thread.
Room == /\ IsFiniteSet(watching)
        /\ \A a \in Actors : pc[a] = "add" =>
             a \in Adders /\ Cardinality(watching) < Limit

LEMMA RoomStep ==
  ASSUME IsFiniteSet(Uuids), \A a, b \in Adders : a = b,
         Inv, Room, [Next]_vars
  PROVE  Room'
<1>1. Inv' /\ IsFiniteSet(watching')
  <2>1. Inv'
    BY NextKeepsInv
  <2> QED
    BY <2>1, FS_Subset DEF Inv, Types
<1>2. CASE Restart
  BY <1>1, <1>2 DEF Restart, Room
<1>3. ASSUME NEW a \in Actors, AddCheck(a) PROVE Room'
  <2>1. Cardinality(watching) < Limit
    BY <1>3, LimitAssumption, FS_CardinalityType DEF AddCheck, LimitReached, Room
  <2>2. a \in Adders /\ watching' = watching
    BY <1>3 DEF AddCheck
  <2>3. \A b \in Actors : b # a => pc'[b] = pc[b]
    BY <1>3 DEF AddCheck, Begin, Go, Inv, Types
  <2> QED
    BY <1>1, <2>1, <2>2, <2>3 DEF Room
<1>4. ASSUME NEW a \in Actors, AddInsert(a) PROVE Room'
  <2>1. \A b \in Actors : pc'[b] # "add"
    BY <1>4, AddersAssumption DEF AddInsert, Go, Inv, Types, Room
  <2> QED
    BY <1>1, <2>1 DEF Room
<1>5. ASSUME NEW a \in Actors, Step(a), ~AddCheck(a), ~AddInsert(a) PROVE Room'
  <2>1. watching' \subseteq watching
    BY <1>5 DEF Step, UpdateMerge, UpdateGone, CommitCopy, SaveTemp, SaveReplace, SaveFails,
                DeleteForget, Edit, UpdateBegin, DeleteFiles, memory
  <2>2. \A b \in Actors : pc'[b] = "add" => pc[b] = "add"
    BY <1>5 DEF Step, UpdateMerge, UpdateGone, CommitCopy, SaveTemp, SaveReplace, SaveFails,
                DeleteForget, Edit, UpdateBegin, DeleteFiles, Begin, Go, Inv, Types
  <2>3. /\ Cardinality(watching') <= Cardinality(watching)
        /\ Cardinality(watching) \in Nat /\ Cardinality(watching') \in Nat
    BY <1>1, <2>1, FS_Subset, FS_CardinalityType DEF Room
  <2> QED
    BY <1>1, <2>2, <2>3, LimitAssumption DEF Room
<1>6. CASE UNCHANGED vars
  BY <1>6 DEF vars, memory, Room
<1> QED
  BY <1>2, <1>3, <1>4, <1>5, <1>6 DEF Next

\* add_watch()'s "Backstop for PAGE_WATCH_LIMIT": with one thread adding, a watch
\* that is added finds room, however many a restart brought back before.
THEOREM LimitIsKept ==
  ASSUME IsFiniteSet(Uuids), \A a, b \in Adders : a = b
  PROVE  Spec => WithinLimit
<1>1. Init => Room
  BY FS_EmptySet DEF Init, Room
<1>2. Inv /\ Room /\ [Next]_vars => Room'
  BY RoomStep
<1>3. ASSUME Inv, Room, [Next]_vars, NEW u \in watching' \ watching,
             At(u, {"add"}) # {}
      PROVE  Cardinality(watching') <= Limit
  <2>1. PICK a \in Actors : pc[a] = "add" /\ uuid[a] = u
    BY <1>3 DEF At
  <2>2. CASE Restart
    BY <1>3, <2>1, <2>2 DEF Restart, Inv, Fresh
  <2>3. ASSUME NEW b \in Actors, Step(b) PROVE Cardinality(watching') <= Limit
    <3>1. AddInsert(b)
      BY <1>3, <2>3 DEF Step, AddCheck, UpdateMerge, UpdateGone, CommitCopy, SaveTemp,
         SaveReplace, SaveFails, DeleteForget, Edit, UpdateBegin, DeleteFiles, memory
    <3>2. watching' = watching \cup {u} /\ u \notin watching
      BY <1>3, <3>1 DEF AddInsert
    <3>3. Cardinality(watching') = Cardinality(watching) + 1 /\ Cardinality(watching) \in Nat
      BY <1>3, <3>2, FS_AddElement, FS_CardinalityType DEF Room
    <3> QED
      BY <1>3, <2>1, <3>3, LimitAssumption DEF Room
  <2> QED
    BY <1>3, <2>2, <2>3 DEF Next, vars, memory
<1>4. Inv /\ Room /\ [Next]_vars =>
        [\A u \in watching' \ watching :
           At(u, {"add"}) = {} \/ Cardinality(watching') <= Limit]_vars
  BY <1>3
<1> QED
  BY <1>1, <1>2, <1>4, InvInit, NextKeepsInv, PTL DEF Spec, WithinLimit

-----------------------------------------------------------------------------
\* Imports.

Requests == [pc : {"idle", "validate", "line", "add", "insert", "done"}, kind : Kinds \cup {"none"},
             lines : Lists \cup {WithUrl(lines) : lines \in Lists} \cup {<< >>},
             at : Nat \ {0}, good : Nat,
             handed : SUBSET (Nat \X {"url", "whole"}), told : SUBSET Nat,
             answer : {"none", "added", "invalid", "limit"}]

\* The requests that have found room for their line and not taken it.
Inserting == {i \in Importers : imp[i].pc = "insert"}

\* Whoever finds room finds less than the limit created; all others may be about to insert.
Crowd == \/ created = {} /\ Inserting = {}
         \/ Cardinality(created) + Cardinality(Inserting) < ImportLimit + Cardinality(Importers)

ImportTypes ==
  /\ imp \in [Importers -> Requests]
  /\ created \subseteq [by : Importers, at : Nat, saved : BOOLEAN]
  /\ IsFiniteSet(created)
  /\ Crowd

\* The lines before the one a request is at.
Past(i) == 1..(imp[i].at - 1)

\* What became of those, of a list or a file.
Listing(i) ==
  imp[i].kind # "api" /\ imp[i].pc \in {"line", "add", "insert"} =>
    /\ imp[i].lines \in Lists
    /\ imp[i].at <= Len(imp[i].lines) + 1
    /\ imp[i].pc # "line" => imp[i].at <= Len(imp[i].lines)
    /\ \A n \in Past(i) : imp[i].lines[n].url => \/ n \in Became(i) \cup HandedOf(i) \cup imp[i].told
                                                 \/ imp[i].kind = "distill" /\ imp[i].good >= Batch
    /\ Became(i) \subseteq Past(i)
    /\ imp[i].kind = "list" => Past(i) \ Became(i) = HandedOf(i)

\* EveryLineAccounted, of one request.
Accounted(i) ==
  imp[i].pc = "done" /\ imp[i].kind # "api" =>
    /\ \A n \in DOMAIN imp[i].lines :
         imp[i].lines[n].url => n \in Became(i) \cup HandedOf(i) \cup imp[i].told \/ LeftOut(i, n)
    /\ imp[i].kind = "list" => (DOMAIN imp[i].lines) \ Became(i) = HandedOf(i)

\* What has not begun, or was refused, has created nothing.
NothingYet(i) ==
  /\ imp[i].pc = "idle" => imp[i] = Idle
  /\ imp[i].pc = "validate" => imp[i].kind = "api" /\ imp[i].lines \in Lists
  /\ imp[i].pc \in {"idle", "validate"} \/ imp[i].answer \in {"invalid", "limit"} => Became(i) = {}
  /\ imp[i].answer # "none" => imp[i].pc = "done"

Handling(i) == Listing(i) /\ Accounted(i) /\ NothingYet(i)

ImportInv == ImportTypes /\ \A i \in Importers : Handling(i)

LEMMA ImportInit == ImportsInit => ImportInv
<1> SUFFICES ASSUME ImportsInit PROVE ImportInv
  OBVIOUS
<1>1. ImportTypes
  BY FS_EmptySet DEF ImportsInit, ImportTypes, Crowd, Inserting, Idle, Requests
<1>2. ASSUME NEW i \in Importers PROVE Handling(i)
  BY DEF ImportsInit, Handling, Listing, Accounted, NothingYet, Became, Idle
<1>3. QED
  BY <1>1, <1>2 DEF ImportInv

\* A step of one request leaves the others as they are.
LEMMA OthersKeepHandling ==
  ASSUME NEW j, Handling(j), imp'[j] = imp[j], Became(j)' = Became(j)
  PROVE  Handling(j)'
BY DEF Handling, Listing, Accounted, NothingYet, Past, HandedOf, LeftOut, Line

\* A step that creates nothing.
LEMMA NothingCreated ==
  ASSUME ImportInv, NEW i \in Importers, NEW r \in Requests, imp' = [imp EXCEPT ![i] = r],
         UNCHANGED created, imp[i].pc # "insert", r.pc # "insert", Handling(i)'
  PROVE  ImportInv'
<1>1. ImportTypes'
  <2>1. Inserting' = Inserting
    BY DEF Inserting, ImportInv, ImportTypes
  <2>2. Crowd'
    BY <2>1 DEF Crowd, ImportInv, ImportTypes
  <2> QED
    BY <2>2 DEF ImportInv, ImportTypes
<1> SUFFICES ASSUME NEW j \in Importers, j # i PROVE Handling(j)'
  BY <1>1 DEF ImportInv
<1>2. imp'[j] = imp[j]
  BY DEF ImportInv, ImportTypes
<1> QED
  BY <1>2, OthersKeepHandling DEF ImportInv, Became

LEMMA AskKeepsInv ==
  ASSUME ImportInv, NEW i \in Importers, Ask(i)
  PROVE  ImportInv'
<1> PICK k \in Kinds, ls \in Lists :
      imp' = [imp EXCEPT ![i] = [Idle EXCEPT !.pc = IF k = "api" THEN "validate" ELSE "line",
                                             !.kind = k, !.lines = ls]]
  BY DEF Ask
<1> DEFINE goes == IF k = "api" THEN "validate" ELSE "line"
           r == [Idle EXCEPT !.pc = goes, !.kind = k, !.lines = ls]
<1>1. imp[i].pc = "idle" /\ UNCHANGED created
  BY DEF Ask
<1>2. goes \in {"validate", "line"}
  OBVIOUS
<1>3. /\ r \in Requests
      /\ r.pc = goes /\ r.kind = k /\ r.lines = ls /\ r.at = 1
      /\ r.handed = {} /\ r.told = {} /\ r.answer = "none"
  <2> HIDE DEF goes
  <2>1. /\ r.pc = goes /\ r.kind = k /\ r.lines = ls /\ r.at = 1
        /\ r.handed = {} /\ r.told = {} /\ r.answer = "none"
    BY DEF Idle
  <2>2. Idle \in Requests
    BY DEF Idle, Requests
  <2>3. ls \in Lists \cup {WithUrl(lines) : lines \in Lists} \cup {<< >>} /\ k \in Kinds \cup {"none"}
    OBVIOUS
  <2>4. r \in Requests
    BY <1>2, <2>2, <2>3 DEF Requests
  <2> QED  BY <2>1, <2>4
<1>4. imp' = [imp EXCEPT ![i] = r] /\ imp'[i] = r
  BY DEF ImportInv, ImportTypes
<1>5. Became(i) = {} /\ Became(i)' = {}
  BY <1>1 DEF ImportInv, Handling, NothingYet, Became
<1> HIDE DEF r
<1>6. Listing(i)'
  <2>1. imp'[i].at = 1 /\ imp'[i].handed = {}
    BY <1>3, <1>4
  <2>. Past(i)' = {} /\ HandedOf(i)' = {}
    BY <2>1 DEF Past, HandedOf
  <2>2. Len(ls) \in Nat
    BY ListsAssumption
  <2>3. imp'[i].pc = goes /\ imp'[i].kind = k /\ imp'[i].lines = ls
    BY <1>3, <1>4
  <2>4. QED
    BY <1>5, <2>1, <2>2, <2>3 DEF Listing
<1>7. Accounted(i)' /\ NothingYet(i)'
  BY <1>2, <1>3, <1>4, <1>5 DEF Accounted, NothingYet
<1>8. QED
  BY <1>1, <1>3, <1>4, <1>6, <1>7, NothingCreated DEF Handling

\* What a line of a request keeps, and the bounds of a list.
LEMMA AtLine ==
  ASSUME ImportInv, NEW i \in Importers
  PROVE  /\ imp[i] \in Requests
         /\ imp[i].at \in Nat \ {0} /\ imp[i].good \in Nat
         /\ imp[i].lines \in Lists => /\ Len(imp[i].lines) \in Nat
                                     /\ DOMAIN imp[i].lines = 1..Len(imp[i].lines)
         /\ Handling(i)
BY ListsAssumption DEF ImportInv, ImportTypes, Requests

LEMMA FirstOfPairs ==
  ASSUME NEW S PROVE {h[1] : h \in {<<n, "whole">> : n \in S}} = S
<1> DEFINE P == {<<n, "whole">> : n \in S}
<1>1. ASSUME NEW n \in S PROVE n \in {h[1] : h \in P}
  <2>1. <<n, "whole">> \in P /\ <<n, "whole">>[1] = n
    OBVIOUS
  <2>2. QED
    BY <2>1
<1>2. ASSUME NEW h \in P PROVE h[1] \in S
  OBVIOUS
<1>3. QED
  BY <1>1, <1>2

LEMMA LimitHitKeepsInv ==
  ASSUME ImportInv, NEW i \in Importers, watch_limit_hit(i)
  PROVE  ImportInv'
<1> USE AtLine
<1>1. /\ imp[i].pc = "line" /\ imp[i].kind # "api" /\ imp[i].at <= Len(imp[i].lines)
      /\ imp[i].lines \in Lists /\ UNCHANGED created
  BY DEF watch_limit_hit, More, Handling, Listing
<1>2. Became(i)' = Became(i)
  BY <1>1 DEF Became
<1>3. CASE ~watch_limit_reached
  <2> DEFINE r == [imp[i] EXCEPT !.pc = "add"]
  <2>1. imp' = [imp EXCEPT ![i] = r] /\ imp'[i] = r
    BY <1>3 DEF watch_limit_hit, Goes, ImportInv, ImportTypes
  <2>2. /\ r \in Requests /\ r.pc = "add" /\ r.kind = imp[i].kind /\ r.lines = imp[i].lines
        /\ r.at = imp[i].at /\ r.good = imp[i].good /\ r.handed = imp[i].handed
        /\ r.told = imp[i].told /\ r.answer = imp[i].answer
    BY DEF Requests
  <2> HIDE DEF r
  <2> Past(i)' = Past(i) /\ HandedOf(i)' = HandedOf(i)
    BY <2>1, <2>2 DEF Past, HandedOf
  <2>3. Handling(i)'
    BY <1>1, <1>2, <2>1, <2>2 DEF Handling, Listing, Accounted, NothingYet
  <2>4. QED
    BY <1>1, <2>1, <2>2, <2>3, NothingCreated
<1>4. CASE watch_limit_reached
  <2> DEFINE rest == imp[i].at..Len(imp[i].lines)
             more == IF imp[i].kind = "list" THEN imp[i].handed \cup {<<n, "whole">> : n \in rest} ELSE imp[i].handed
             r == [imp[i] EXCEPT !.pc = "done", !.handed = more, !.told = @ \cup rest]
  <2>1. imp' = [imp EXCEPT ![i] = r] /\ imp'[i] = r
    BY <1>4 DEF watch_limit_hit, ImportInv, ImportTypes
  <2>2. rest \subseteq Nat /\ more \in SUBSET (Nat \X {"url", "whole"})
    BY <1>1, imp[i].handed \in SUBSET (Nat \X {"url", "whole"}) DEF Requests
  <2>3. /\ r \in Requests /\ r.pc = "done" /\ r.kind = imp[i].kind /\ r.lines = imp[i].lines
        /\ r.good = imp[i].good /\ r.handed = more
        /\ r.told = imp[i].told \cup rest /\ r.answer = imp[i].answer
    <3> HIDE DEF rest, more
    <3> QED  BY <2>2 DEF Requests
  <2>4. HandedOf(i)' = HandedOf(i) \cup IF imp[i].kind = "list" THEN rest ELSE {}
    <3> HIDE DEF r
    <3>1. HandedOf(i)' = {h[1] : h \in more}
      BY <2>1, <2>3 DEF HandedOf
    <3>2. CASE imp[i].kind = "list"
      <4>1. {h[1] : h \in {<<n, "whole">> : n \in rest}} = rest
        BY FirstOfPairs
      <4>2. more = imp[i].handed \cup {<<n, "whole">> : n \in rest}
        BY <3>2
      <4> HIDE DEF rest, more
      <4>3. QED
        BY <3>1, <3>2, <4>1, <4>2 DEF HandedOf
    <3>3. CASE imp[i].kind # "list"
      BY <3>1, <3>3 DEF HandedOf
    <3>4. QED
      BY <3>2, <3>3
  <2> HIDE DEF r, more
  <2>5. 1..Len(imp[i].lines) = Past(i) \cup rest
    BY <1>1 DEF Past
  <2>6. Past(i) \cap rest = {}
    BY <1>1 DEF Past
  <2>7. Accounted(i)'
    <3> HIDE DEF rest
    <3> QED  BY <1>1, <1>2, <2>1, <2>3, <2>4, <2>5, <2>6 DEF Handling, Listing, Accounted, LeftOut
  <2>8. Listing(i)' /\ NothingYet(i)'
    BY <1>1, <1>2, <2>1, <2>3 DEF Handling, Listing, NothingYet
  <2>9. QED
    BY <1>1, <2>1, <2>3, <2>7, <2>8, NothingCreated DEF Handling
<1>5. QED
  BY <1>3, <1>4

\* The request goes on to its next line, which is a watch now, handed back, told of, or left
\* out with reason.
LEMMA NextLine ==
  ASSUME ImportInv, NEW i \in Importers, NEW r \in Requests, imp' = [imp EXCEPT ![i] = r],
         imp[i].pc \in {"line", "add", "insert"}, imp[i].kind # "api" => imp[i].at <= Len(imp[i].lines),
         r.pc = "line", r.at = imp[i].at + 1, r.kind = imp[i].kind, r.lines = imp[i].lines,
         r.good >= imp[i].good, r.answer = imp[i].answer, imp[i].told \subseteq r.told,
         HandedOf(i) \subseteq HandedOf(i)',
         Became(i)' \in {Became(i), Became(i) \cup {imp[i].at}},
         imp[i].kind # "api" /\ imp[i].lines[imp[i].at].url =>
           \/ imp[i].at \in Became(i)' \cup HandedOf(i)' \cup r.told
           \/ imp[i].kind = "distill" /\ r.good >= Batch,
         imp[i].kind = "list" =>
           \/ imp[i].at \in Became(i)' /\ HandedOf(i)' = HandedOf(i)
           \/ Became(i)' = Became(i) /\ HandedOf(i)' = HandedOf(i) \cup {imp[i].at}
  PROVE  Handling(i)'
<1> USE AtLine
<1>1. /\ imp'[i].pc = "line" /\ imp'[i].at = imp[i].at + 1 /\ imp'[i].kind = imp[i].kind
      /\ imp'[i].lines = imp[i].lines /\ imp'[i].good = r.good /\ imp'[i].told = r.told
      /\ imp'[i].answer = imp[i].answer
  BY DEF ImportInv, ImportTypes
<1>2. r.good \in Nat /\ Batch \in Nat
  BY BatchAssumption DEF Requests
<1>3. NothingYet(i)' /\ Accounted(i)'
  BY <1>1 DEF Handling, NothingYet, Accounted
<1>4. Past(i)' = Past(i) \cup {imp[i].at} /\ imp[i].at \notin Past(i)
  BY <1>1 DEF Past
<1>5. ASSUME imp[i].kind # "api" PROVE Listing(i)'
  <2>1. /\ imp[i].lines \in Lists /\ Became(i) \subseteq Past(i)
        /\ imp[i].at + 1 <= Len(imp[i].lines) + 1
        /\ imp[i].kind = "list" => Past(i) \ Became(i) = HandedOf(i)
    BY <1>5 DEF Handling, Listing
  <2>2. ASSUME NEW n \in Past(i), imp[i].lines[n].url
        PROVE  \/ n \in Became(i)' \cup HandedOf(i)' \cup r.told
               \/ imp[i].kind = "distill" /\ r.good >= Batch
    BY <1>2, <1>5, <2>2 DEF Handling, Listing
  <2>3. \A n \in Past(i)' : imp[i].lines[n].url =>
          \/ n \in Became(i)' \cup HandedOf(i)' \cup r.told
          \/ imp[i].kind = "distill" /\ r.good >= Batch
    BY <1>4, <1>5, <2>2
  <2>4. Became(i)' \subseteq Past(i)'
    BY <1>4, <2>1
  <2>5. imp[i].kind = "list" => Past(i)' \ Became(i)' = HandedOf(i)'
    BY <1>4, <2>1
  <2>6. QED
    BY <1>1, <2>1, <2>3, <2>4, <2>5 DEF Listing
<1>6. QED
  BY <1>1, <1>3, <1>5 DEF Handling, Listing

\* The same of a step that creates nothing, and puts the line into `how` or leaves it out.
LEMMA NoWatchOfLine ==
  ASSUME ImportInv, NEW i \in Importers, NEW r \in Requests, imp' = [imp EXCEPT ![i] = r],
         UNCHANGED created,
         imp[i].pc \in {"line", "add"}, imp[i].kind # "api" => imp[i].at <= Len(imp[i].lines),
         r.pc = "line", r.at = imp[i].at + 1, r.kind = imp[i].kind, r.lines = imp[i].lines,
         r.good = imp[i].good, r.answer = imp[i].answer,
         \/ /\ r.told = imp[i].told
            /\ \E how \in {"url", "whole"} : r.handed = imp[i].handed \cup {<<imp[i].at, how>>}
         \/ /\ imp[i].kind # "list"
            /\ r.handed = imp[i].handed /\ r.told = imp[i].told \cup {imp[i].at}
         \/ /\ imp[i].kind # "list"
            /\ ~imp[i].lines[imp[i].at].url \/ (imp[i].kind = "distill" /\ imp[i].good >= Batch)
            /\ r.handed = imp[i].handed /\ r.told = imp[i].told
  PROVE  ImportInv'
<1>1. Became(i)' = Became(i) /\ imp'[i] = r
  BY DEF Became, ImportInv, ImportTypes
<1>2. CASE \E how \in {"url", "whole"} : r.handed = imp[i].handed \cup {<<imp[i].at, how>>}
  <2>1. PICK how \in {"url", "whole"} : r.handed = imp[i].handed \cup {<<imp[i].at, how>>}
    BY <1>2
  <2>2. HandedOf(i)' = HandedOf(i) \cup {imp[i].at}
    <3>1. <<imp[i].at, how>>[1] = imp[i].at
      OBVIOUS
    <3>2. HandedOf(i)' = {h[1] : h \in imp[i].handed \cup {<<imp[i].at, how>>}}
      BY <1>1, <2>1 DEF HandedOf
    <3>3. QED
      BY <3>1, <3>2 DEF HandedOf
  <2>3. imp[i].told \subseteq r.told /\ r.good >= imp[i].good
    BY AtLine
  <2>4. Handling(i)'
    BY <1>1, <2>2, <2>3, NextLine
  <2>5. QED
    BY <2>4, NothingCreated
<1>3. CASE /\ imp[i].kind # "list" /\ r.handed = imp[i].handed
           /\ \/ imp[i].at \in r.told
              \/ ~imp[i].lines[imp[i].at].url \/ (imp[i].kind = "distill" /\ imp[i].good >= Batch)
  <2>2. HandedOf(i)' = HandedOf(i)
    BY <1>1, <1>3 DEF HandedOf
  <2>3. imp[i].told \subseteq r.told /\ r.good >= imp[i].good
    BY AtLine
  <2>4. imp[i].lines[imp[i].at].url =>
          \/ imp[i].at \in Became(i)' \cup HandedOf(i)' \cup r.told
          \/ imp[i].kind = "distill" /\ r.good >= Batch
    BY <1>3
  <2>5. Handling(i)'
    BY <1>1, <1>3, <2>2, <2>3, <2>4, NextLine
  <2>6. QED
    BY <2>5, NothingCreated
<1>4. QED
  BY <1>2, <1>3

LEMMA AddWatchKeepsInv ==
  ASSUME ImportInv, NEW i \in Importers, add_watch(i)
  PROVE  ImportInv'
<1>0. /\ imp[i] \in Requests /\ imp[i].at \in Nat \ {0} /\ imp[i].good \in Nat
      /\ imp[i].at + 1 \in Nat \ {0} /\ imp[i].good + 1 \in Nat
      /\ imp[i].told \cup {imp[i].at} \in SUBSET Nat
      /\ imp[i].handed \cup {<<imp[i].at, "url">>} \in SUBSET (Nat \X {"url", "whole"})
  <2>1. imp[i] \in Requests
    BY AtLine
  <2>2. /\ imp[i].at \in Nat \ {0} /\ imp[i].good \in Nat
        /\ imp[i].handed \in SUBSET (Nat \X {"url", "whole"}) /\ imp[i].told \in SUBSET Nat
    BY <2>1 DEF Requests
  <2>3. QED
    BY <2>1, <2>2
<1>1. /\ imp[i].pc = "add" /\ UNCHANGED created
      /\ imp[i].kind # "api" => imp[i].at <= Len(imp[i].lines)
  BY AtLine DEF add_watch, Handling, Listing
<1>2. CASE Line(i).valid /\ ~watch_limit_reached
  <2> DEFINE r == [imp[i] EXCEPT !.pc = "insert"]
  <2>1. imp' = [imp EXCEPT ![i] = r] /\ imp'[i] = r
    BY <1>2 DEF add_watch, Goes, ImportInv, ImportTypes
  <2>2. /\ r \in Requests /\ r.pc = "insert" /\ r.kind = imp[i].kind /\ r.lines = imp[i].lines
        /\ r.at = imp[i].at /\ r.good = imp[i].good /\ r.handed = imp[i].handed
        /\ r.told = imp[i].told /\ r.answer = imp[i].answer
    BY <1>0 DEF Requests
  <2> HIDE DEF r
  <2>3. Past(i)' = Past(i) /\ HandedOf(i)' = HandedOf(i) /\ Became(i)' = Became(i)
    BY <1>1, <2>1, <2>2 DEF Past, HandedOf, Became
  <2>4. Handling(i)'
    BY <1>1, <2>1, <2>2, <2>3, AtLine DEF Handling, Listing, Accounted, NothingYet
  <2>5. ASSUME NEW j \in Importers, j # i PROVE Handling(j)'
    <3>1. imp'[j] = imp[j] /\ Became(j)' = Became(j)
      BY <1>1, <2>1, <2>5 DEF Became, ImportInv, ImportTypes
    <3> QED
      BY <3>1, OthersKeepHandling DEF ImportInv
  <2>6. Crowd'
    <3>1. IsFiniteSet(created) /\ Cardinality(created) \in Nat /\ Cardinality(created) < ImportLimit
      BY <1>2, ImportLimitAssumption, FS_CardinalityType
      DEF watch_limit_reached, ImportInv, ImportTypes
    <3>2. Inserting' \subseteq Importers
      BY DEF Inserting
    <3>3. /\ IsFiniteSet(Inserting') /\ Cardinality(Inserting') <= Cardinality(Importers)
          /\ Cardinality(Inserting') \in Nat /\ Cardinality(Importers) \in Nat
      BY <3>2, ImportersAssumption, FS_Subset, FS_CardinalityType
    <3>4. Cardinality(created) + Cardinality(Inserting') < ImportLimit + Cardinality(Importers)
      BY <3>1, <3>3, ImportLimitAssumption
    <3> QED
      BY <1>1, <3>4 DEF Crowd
  <2> QED
    BY <1>1, <2>1, <2>2, <2>4, <2>5, <2>6 DEF ImportInv, ImportTypes
<1>3. CASE ~(Line(i).valid /\ ~watch_limit_reached)
  <2> DEFINE r == IF imp[i].kind = "list"
                  THEN [imp[i] EXCEPT !.at = @ + 1, !.pc = "line", !.handed = @ \cup {<<imp[i].at, "url">>}]
                  ELSE [imp[i] EXCEPT !.at = @ + 1, !.pc = "line", !.told = @ \cup {imp[i].at}]
  <2>1. imp' = [imp EXCEPT ![i] = r] /\ UNCHANGED created
    BY <1>1, <1>3 DEF add_watch, HandedBack, Told, ImportInv, ImportTypes
  <2>2. /\ r \in Requests /\ r.pc = "line" /\ r.at = imp[i].at + 1 /\ r.kind = imp[i].kind
        /\ r.lines = imp[i].lines /\ r.good = imp[i].good /\ r.answer = imp[i].answer
    BY <1>0 DEF Requests
  <2>3. \/ r.told = imp[i].told /\ r.handed = imp[i].handed \cup {<<imp[i].at, "url">>}
        \/ imp[i].kind # "list" /\ r.handed = imp[i].handed /\ r.told = imp[i].told \cup {imp[i].at}
    BY <1>0 DEF Requests
  <2> HIDE DEF r
  <2>4. \/ /\ r.told = imp[i].told
           /\ \E how \in {"url", "whole"} : r.handed = imp[i].handed \cup {<<imp[i].at, how>>}
        \/ imp[i].kind # "list" /\ r.handed = imp[i].handed /\ r.told = imp[i].told \cup {imp[i].at}
    BY <2>3
  <2>5. imp[i].pc \in {"line", "add"}
    BY <1>1
  <2>6. QED
    BY <1>1, <2>1, <2>2, <2>4, <2>5, NoWatchOfLine
<1>4. QED
  BY <1>2, <1>3

LEMMA InsertWatchKeepsInv ==
  ASSUME ImportInv, NEW i \in Importers, InsertWatch(i)
  PROVE  ImportInv'
<1>0. /\ imp[i] \in Requests /\ imp[i].at \in Nat \ {0} /\ imp[i].good \in Nat
      /\ imp[i].at + 1 \in Nat \ {0} /\ imp[i].good + 1 \in Nat
      /\ imp[i].told \cup {imp[i].at} \in SUBSET Nat
      /\ imp[i].handed \cup {<<imp[i].at, "url">>} \in SUBSET (Nat \X {"url", "whole"})
  <2>1. imp[i] \in Requests
    BY AtLine
  <2>2. /\ imp[i].at \in Nat \ {0} /\ imp[i].good \in Nat
        /\ imp[i].handed \in SUBSET (Nat \X {"url", "whole"}) /\ imp[i].told \in SUBSET Nat
    BY <2>1 DEF Requests
  <2>3. QED
    BY <2>1, <2>2
<1>1. /\ imp[i].pc = "insert"
      /\ imp[i].kind # "api" => imp[i].at <= Len(imp[i].lines)
  BY AtLine DEF InsertWatch, Handling, Listing
<1> DEFINE w == [by |-> i, at |-> imp[i].at, saved |-> imp[i].kind = "api"]
           r == [imp[i] EXCEPT !.at = @ + 1, !.pc = "line", !.good = @ + 1]
<1>2. created' = created \cup {w} /\ imp' = [imp EXCEPT ![i] = r] /\ imp'[i] = r
  BY DEF InsertWatch, ImportInv, ImportTypes
<1>3. /\ r \in Requests /\ r.pc = "line" /\ r.at = imp[i].at + 1 /\ r.kind = imp[i].kind
      /\ r.lines = imp[i].lines /\ r.good = imp[i].good + 1 /\ r.answer = imp[i].answer
      /\ r.told = imp[i].told /\ r.handed = imp[i].handed
  BY <1>0 DEF Requests
<1>4. w \in [by : Importers, at : Nat, saved : BOOLEAN] /\ w.by = i /\ w.at = imp[i].at
  BY <1>0
<1> HIDE DEF r, w
<1>5. Became(i)' = Became(i) \cup {imp[i].at} /\ HandedOf(i)' = HandedOf(i)
  BY <1>2, <1>3, <1>4 DEF Became, HandedOf
<1>6. Handling(i)'
  <2>1. /\ r.good >= imp[i].good /\ imp[i].told \subseteq r.told /\ HandedOf(i) \subseteq HandedOf(i)'
        /\ Became(i)' \in {Became(i), Became(i) \cup {imp[i].at}}
        /\ imp[i].at \in Became(i)' /\ imp[i].pc \in {"line", "add", "insert"}
    BY <1>0, <1>1, <1>3, <1>5
  <2> QED
    BY <1>1, <1>2, <1>3, <1>5, <2>1, NextLine
<1>7. ASSUME NEW j \in Importers, j # i PROVE Handling(j)'
  <2>1. Became(j)' = Became(j)
    BY <1>2, <1>4, <1>7 DEF Became
  <2>2. imp'[j] = imp[j]
    BY <1>2, <1>7 DEF ImportInv, ImportTypes
  <2> QED
    BY <2>1, <2>2, OthersKeepHandling DEF ImportInv
<1>8. IsFiniteSet(created') /\ Crowd'
  <2>1. IsFiniteSet(created) /\ Cardinality(created) \in Nat
    BY FS_CardinalityType DEF ImportInv, ImportTypes
  <2>2. /\ IsFiniteSet(created') /\ Cardinality(created') \in Nat
        /\ Cardinality(created') <= Cardinality(created) + 1
    BY <1>2, <2>1, FS_AddElement
  <2>3. Inserting' = Inserting \ {i} /\ i \in Inserting
    BY <1>1, <1>2, <1>3 DEF Inserting, ImportInv, ImportTypes
  <2>4. IsFiniteSet(Inserting) /\ Cardinality(Inserting) \in Nat
    BY ImportersAssumption, FS_Subset, FS_CardinalityType DEF Inserting
  <2>5. Cardinality(Inserting') = Cardinality(Inserting) - 1
    BY <2>3, <2>4, FS_RemoveElement
  <2>6. Cardinality(Importers) \in Nat
    BY ImportersAssumption, FS_CardinalityType
  <2>7. Cardinality(created) + Cardinality(Inserting) < ImportLimit + Cardinality(Importers)
    BY <2>3 DEF ImportInv, ImportTypes, Crowd
  <2>8. Cardinality(created') + Cardinality(Inserting') < ImportLimit + Cardinality(Importers)
    BY <2>1, <2>2, <2>4, <2>5, <2>6, <2>7, ImportLimitAssumption
  <2> QED
    BY <2>2, <2>8 DEF Crowd
<1> QED
  BY <1>2, <1>3, <1>4, <1>6, <1>7, <1>8 DEF ImportInv, ImportTypes

LEMMA SkipLineKeepsInv ==
  ASSUME ImportInv, NEW i \in Importers, SkipLine(i)
  PROVE  ImportInv'
<1>0. /\ imp[i] \in Requests /\ imp[i].at \in Nat \ {0} /\ imp[i].good \in Nat
      /\ imp[i].at + 1 \in Nat \ {0} /\ imp[i].good + 1 \in Nat
      /\ imp[i].told \cup {imp[i].at} \in SUBSET Nat
      /\ imp[i].handed \cup {<<imp[i].at, "url">>} \in SUBSET (Nat \X {"url", "whole"})
  <2>1. imp[i] \in Requests
    BY AtLine
  <2>2. /\ imp[i].at \in Nat \ {0} /\ imp[i].good \in Nat
        /\ imp[i].handed \in SUBSET (Nat \X {"url", "whole"}) /\ imp[i].told \in SUBSET Nat
    BY <2>1 DEF Requests
  <2>3. QED
    BY <2>1, <2>2
<1> DEFINE r == [imp[i] EXCEPT !.at = @ + 1, !.pc = "line", !.handed = @ \cup {<<imp[i].at, "url">>}]
<1>1. imp' = [imp EXCEPT ![i] = r] /\ UNCHANGED created
  BY DEF SkipLine, HandedBack, ImportInv, ImportTypes
<1>2. /\ r \in Requests /\ r.pc = "line" /\ r.at = imp[i].at + 1 /\ r.kind = imp[i].kind
      /\ r.lines = imp[i].lines /\ r.good = imp[i].good /\ r.answer = imp[i].answer
      /\ r.told = imp[i].told /\ r.handed = imp[i].handed \cup {<<imp[i].at, "url">>}
  BY <1>0 DEF Requests
<1>3. imp[i].pc = "line" /\ imp[i].at <= Len(imp[i].lines)
  BY DEF SkipLine, More
<1> HIDE DEF r
<1>4. QED
  BY <1>1, <1>2, <1>3, NoWatchOfLine

LEMMA SkipRowKeepsInv ==
  ASSUME ImportInv, NEW i \in Importers, SkipRow(i)
  PROVE  ImportInv'
<1>0. /\ imp[i] \in Requests /\ imp[i].at \in Nat \ {0} /\ imp[i].good \in Nat
      /\ imp[i].at + 1 \in Nat \ {0} /\ imp[i].good + 1 \in Nat
      /\ imp[i].told \cup {imp[i].at} \in SUBSET Nat
      /\ imp[i].handed \cup {<<imp[i].at, "url">>} \in SUBSET (Nat \X {"url", "whole"})
  <2>1. imp[i] \in Requests
    BY AtLine
  <2>2. /\ imp[i].at \in Nat \ {0} /\ imp[i].good \in Nat
        /\ imp[i].handed \in SUBSET (Nat \X {"url", "whole"}) /\ imp[i].told \in SUBSET Nat
    BY <2>1 DEF Requests
  <2>3. QED
    BY <2>1, <2>2
<1> DEFINE r == [imp[i] EXCEPT !.at = @ + 1, !.pc = "line"]
<1>1. imp' = [imp EXCEPT ![i] = r] /\ UNCHANGED created
  BY DEF SkipRow, Advance, ImportInv, ImportTypes
<1>2. /\ r \in Requests /\ r.pc = "line" /\ r.at = imp[i].at + 1 /\ r.kind = imp[i].kind
      /\ r.lines = imp[i].lines /\ r.good = imp[i].good /\ r.answer = imp[i].answer
      /\ r.told = imp[i].told /\ r.handed = imp[i].handed
  BY <1>0 DEF Requests
<1>3. /\ imp[i].pc = "line" /\ imp[i].at <= Len(imp[i].lines) /\ imp[i].kind # "list"
      /\ ~imp[i].lines[imp[i].at].url \/ (imp[i].kind = "distill" /\ imp[i].good >= Batch)
  BY DEF SkipRow, More, Line
<1> HIDE DEF r
<1>4. QED
  BY <1>1, <1>2, <1>3, NoWatchOfLine

\* A row that is told of.
LEMMA ToldKeepsInv ==
  ASSUME ImportInv, NEW i \in Importers, Told(i), UNCHANGED created,
         imp[i].pc = "line", imp[i].at <= Len(imp[i].lines), imp[i].kind # "list"
  PROVE  ImportInv'
<1>0. /\ imp[i] \in Requests /\ imp[i].at \in Nat \ {0} /\ imp[i].good \in Nat
      /\ imp[i].at + 1 \in Nat \ {0} /\ imp[i].good + 1 \in Nat
      /\ imp[i].told \cup {imp[i].at} \in SUBSET Nat
      /\ imp[i].handed \cup {<<imp[i].at, "url">>} \in SUBSET (Nat \X {"url", "whole"})
  <2>1. imp[i] \in Requests
    BY AtLine
  <2>2. /\ imp[i].at \in Nat \ {0} /\ imp[i].good \in Nat
        /\ imp[i].handed \in SUBSET (Nat \X {"url", "whole"}) /\ imp[i].told \in SUBSET Nat
    BY <2>1 DEF Requests
  <2>3. QED
    BY <2>1, <2>2
<1> DEFINE r == [imp[i] EXCEPT !.at = @ + 1, !.pc = "line", !.told = @ \cup {imp[i].at}]
<1>1. imp' = [imp EXCEPT ![i] = r]
  BY DEF Told, ImportInv, ImportTypes
<1>2. /\ r \in Requests /\ r.pc = "line" /\ r.at = imp[i].at + 1 /\ r.kind = imp[i].kind
      /\ r.lines = imp[i].lines /\ r.good = imp[i].good /\ r.answer = imp[i].answer
      /\ r.told = imp[i].told \cup {imp[i].at} /\ r.handed = imp[i].handed
  BY <1>0 DEF Requests
<1> HIDE DEF r
<1>3. QED
  BY <1>1, <1>2, NoWatchOfLine

\* A sheet or a file that ends at a row which cannot be read.
LEMMA UnreadableKeepsInv ==
  ASSUME ImportInv, NEW i \in Importers, UnreadableSheet(i) \/ UnreadableFile(i)
  PROVE  ImportInv'
<1> DEFINE rest == IF imp[i].kind = "custom" THEN {imp[i].at} ELSE imp[i].at..Len(imp[i].lines)
           r == [imp[i] EXCEPT !.pc = "done", !.told = @ \cup rest]
<1>1. /\ imp[i].pc = "line" /\ imp[i].at <= Len(imp[i].lines) /\ UNCHANGED created
      /\ imp[i].kind \in {"distill", "custom"} /\ ~imp[i].lines[imp[i].at].readable
  BY DEF UnreadableSheet, UnreadableFile, Unreadable, More, Line
<1>2. imp' = [imp EXCEPT ![i] = r] /\ imp'[i] = r
  BY DEF UnreadableSheet, UnreadableFile, ImportInv, ImportTypes
<1>3. imp[i] \in Requests /\ imp[i].lines \in Lists /\ Handling(i)
  BY <1>1, AtLine DEF Handling, Listing
<1>4. /\ imp[i].at \in Nat \ {0} /\ Len(imp[i].lines) \in Nat
      /\ DOMAIN imp[i].lines = 1..Len(imp[i].lines)
  BY <1>3, AtLine
<1>5. rest \in SUBSET Nat
  BY <1>4
<1>6. \A n \in 1..Len(imp[i].lines) :
        n \in Past(i) \cup rest \/ (imp[i].kind = "custom" /\ n > imp[i].at)
  BY <1>1, <1>4 DEF Past
<1> HIDE DEF rest
<1>7. /\ r \in Requests /\ r.pc = "done" /\ r.kind = imp[i].kind /\ r.lines = imp[i].lines
      /\ r.at = imp[i].at /\ r.good = imp[i].good /\ r.handed = imp[i].handed
      /\ r.told = imp[i].told \cup rest /\ r.answer = imp[i].answer
  BY <1>3, <1>5 DEF Requests
<1> HIDE DEF r
<1>8. Became(i)' = Became(i) /\ HandedOf(i)' = HandedOf(i)
  BY <1>1, <1>2, <1>7 DEF Became, HandedOf
<1>9. ASSUME NEW n \in DOMAIN imp[i].lines, imp[i].lines[n].url
      PROVE  n \in Became(i)' \cup HandedOf(i)' \cup r.told \/ LeftOut(i, n)'
  <2>1. CASE imp[i].kind = "custom" /\ n > imp[i].at
    BY <1>1, <1>2, <1>7, <2>1 DEF LeftOut, Line
  <2>2. CASE n \in rest
    BY <1>7, <2>2
  <2>3. CASE n \in Past(i)
    BY <1>1, <1>2, <1>3, <1>7, <1>8, <1>9, <2>3 DEF Handling, Listing, LeftOut
  <2> QED
    BY <1>4, <1>6, <2>1, <2>2, <2>3
<1>10. Accounted(i)'
  BY <1>1, <1>2, <1>7, <1>9 DEF Accounted
<1>11. Listing(i)' /\ NothingYet(i)'
  BY <1>1, <1>2, <1>3, <1>7, <1>8 DEF Handling, Listing, NothingYet
<1> QED
  BY <1>1, <1>2, <1>7, <1>10, <1>11, NothingCreated DEF Handling

LEMMA FinishKeepsInv ==
  ASSUME ImportInv, NEW i \in Importers, Finish(i)
  PROVE  ImportInv'
<1> DEFINE answer == IF imp[i].kind = "api" THEN "added" ELSE imp[i].answer
           r == [imp[i] EXCEPT !.pc = "done", !.answer = answer]
<1>1. /\ imp[i].pc = "line" /\ UNCHANGED created /\ ~(imp[i].at <= Len(imp[i].lines))
      /\ imp' = [imp EXCEPT ![i] = r] /\ imp'[i] = r
  BY DEF Finish, More, ImportInv, ImportTypes
<1>2. imp[i] \in Requests /\ Handling(i)
  BY AtLine
<1>3. answer \in {"none", "added", "invalid", "limit"}
  BY <1>2 DEF Requests
<1>4. answer \in {"none", "added"}
  BY <1>1, <1>2, <1>3 DEF Handling, NothingYet
<1> HIDE DEF answer
<1>5. /\ r \in Requests /\ r.pc = "done" /\ r.kind = imp[i].kind /\ r.lines = imp[i].lines
      /\ r.good = imp[i].good /\ r.handed = imp[i].handed
      /\ r.told = imp[i].told /\ r.answer = answer
  BY <1>2, <1>3 DEF Requests
<1> HIDE DEF r
<1>6. Became(i)' = Became(i) /\ HandedOf(i)' = HandedOf(i)
  BY <1>1, <1>5 DEF Became, HandedOf
<1>7. ASSUME imp[i].kind # "api" PROVE Past(i) = DOMAIN imp[i].lines
  <2>1. imp[i].lines \in Lists /\ imp[i].at <= Len(imp[i].lines) + 1
    BY <1>1, <1>2, <1>7 DEF Handling, Listing
  <2>2. /\ imp[i].at \in Nat \ {0} /\ Len(imp[i].lines) \in Nat
        /\ DOMAIN imp[i].lines = 1..Len(imp[i].lines)
    BY <2>1, AtLine
  <2>3. imp[i].at = Len(imp[i].lines) + 1
    BY <1>1, <2>1, <2>2
  <2>4. QED
    BY <2>2, <2>3 DEF Past
<1>8. Accounted(i)'
  BY <1>1, <1>2, <1>5, <1>6, <1>7 DEF Handling, Listing, Accounted, LeftOut
<1>9. Listing(i)' /\ NothingYet(i)'
  BY <1>1, <1>2, <1>4, <1>5, <1>6 DEF Handling, Listing, NothingYet
<1>10. QED
  BY <1>1, <1>5, <1>8, <1>9, NothingCreated DEF Handling

LEMMA ValidateKeepsInv ==
  ASSUME ImportInv, NEW i \in Importers, Validate(i)
  PROVE  ImportInv'
<1> DEFINE lines == WithUrl(imp[i].lines)
           refusal == IF \E n \in DOMAIN lines : ~lines[n].valid THEN "invalid"
                      ELSE IF Cardinality(created) + Len(lines) > ImportLimit THEN "limit"
                      ELSE "none"
           goes == IF refusal = "none" THEN "line" ELSE "done"
           r == [imp[i] EXCEPT !.lines = lines, !.answer = refusal, !.pc = goes]
<1>1. /\ imp[i].pc = "validate" /\ UNCHANGED created
      /\ imp' = [imp EXCEPT ![i] = r] /\ imp'[i] = r
  BY DEF Validate, ImportInv, ImportTypes
<1>2. refusal \in {"none", "invalid", "limit"} /\ goes \in {"line", "done"} /\ (goes # "done" => refusal = "none")
  OBVIOUS
<1>3. imp[i] \in Requests /\ Handling(i) /\ imp[i].lines \in Lists
  BY AtLine, <1>1 DEF Handling, NothingYet
<1>4. lines \in {WithUrl(ls) : ls \in Lists}
  BY <1>3
<1> HIDE DEF lines, refusal, goes
<1>5. /\ r \in Requests /\ r.pc = goes /\ r.kind = imp[i].kind /\ r.answer = refusal
  BY <1>2, <1>3, <1>4 DEF Requests
<1> HIDE DEF r
<1>6. imp[i].kind = "api" /\ Became(i) = {} /\ Became(i)' = {}
  BY <1>1, <1>3 DEF Handling, NothingYet, Became
<1>7. Handling(i)'
  BY <1>1, <1>2, <1>5, <1>6 DEF Handling, Listing, Accounted, NothingYet
<1>8. QED
  BY <1>1, <1>2, <1>5, <1>7, NothingCreated

LEMMA ApiLineKeepsInv ==
  ASSUME ImportInv, NEW i \in Importers, ApiLine(i)
  PROVE  ImportInv'
<1> DEFINE r == [imp[i] EXCEPT !.pc = "add"]
<1>1. /\ imp[i].pc = "line" /\ imp[i].kind = "api" /\ UNCHANGED created
      /\ imp' = [imp EXCEPT ![i] = r] /\ imp'[i] = r
  BY DEF ApiLine, Goes, ImportInv, ImportTypes
<1>2. imp[i] \in Requests /\ Handling(i)
  BY AtLine
<1>3. r \in Requests /\ r.pc = "add" /\ r.kind = "api" /\ r.answer = imp[i].answer
  BY <1>1, <1>2 DEF Requests
<1> HIDE DEF r
<1>4. Handling(i)'
  BY <1>1, <1>2, <1>3 DEF Handling, Listing, Accounted, NothingYet
<1>5. QED
  BY <1>1, <1>3, <1>4, NothingCreated

LEMMA ImportsKeepInv == ImportInv /\ [ImportsNext]_importsVars => ImportInv'
<1> SUFFICES ASSUME ImportInv, [ImportsNext]_importsVars PROVE ImportInv'
  OBVIOUS
<1>1. CASE UNCHANGED importsVars
  BY <1>1, ZenonT(30) DEF importsVars, ImportInv, ImportTypes, Crowd, Inserting, Handling, Listing, Accounted,
              NothingYet, Past, Became, HandedOf, LeftOut, Line
<1>2. ASSUME NEW i \in Importers, BadUrl(i) \/ UnreadableRow(i) PROVE ImportInv'
  BY <1>2, ToldKeepsInv DEF BadUrl, UnreadableRow, Unreadable, More
<1>3. QED
  BY <1>1, <1>2, AskKeepsInv, LimitHitKeepsInv, AddWatchKeepsInv, InsertWatchKeepsInv, SkipLineKeepsInv, SkipRowKeepsInv,
     UnreadableKeepsInv, FinishKeepsInv, ValidateKeepsInv, ApiLineKeepsInv DEF ImportsNext

LEMMA ImportInvImplies == ImportInv => EveryLineAccounted /\ RefusedIsNothing
<1> SUFFICES ASSUME ImportInv PROVE EveryLineAccounted /\ RefusedIsNothing
  OBVIOUS
<1>1. EveryLineAccounted
  BY DEF ImportInv, Handling, Accounted, EveryLineAccounted
<1>2. ASSUME created # {} PROVE Cardinality(created) < ImportLimit + Cardinality(Importers)
  <2>1. Cardinality(created) + Cardinality(Inserting) < ImportLimit + Cardinality(Importers)
    BY <1>2 DEF ImportInv, ImportTypes, Crowd
  <2>2. /\ Cardinality(created) \in Nat /\ Cardinality(Inserting) \in Nat
        /\ Cardinality(Importers) \in Nat
    BY ImportersAssumption, FS_Subset, FS_CardinalityType DEF Inserting, ImportInv, ImportTypes
  <2> QED
    BY <2>1, <2>2, ImportLimitAssumption
<1> QED
  BY <1>1, <1>2 DEF ImportInv, Handling, NothingYet, RefusedIsNothing

\* EveryLineAccounted and RefusedIsNothing: for any lists, importers and limit, a line with a URL
\* of a list that is through is a watch, is handed back or told of, but in a Distill file past its
\* first Batch and in a user's sheet behind the row at which it is given up; a request that the API
\* refused created nothing, and a crowd of importers passes the limit by less than their number
\* (importer.py, api/Import.py, add_watch()).
THEOREM LinesAreAccounted == ImportsSpec => [](EveryLineAccounted /\ RefusedIsNothing)
<1>1. ImportsSpec => []ImportInv
  BY ImportInit, ImportsKeepInv, PTL DEF ImportsSpec
<1>2. QED
  BY <1>1, ImportInvImplies, PTL

-----------------------------------------------------------------------------
\* Backups.

Dir == [settings : Nat \cup {None}, listed : SUBSET Entries, snaps : SUBSET Entries]
Dirs == [Watches -> Dir]
Places == Watches \cup {None}
Files == Entries \cup {"settings", "index", "temp"}

Owings == [Watches -> [settings : Nat \cup {None}, entries : SUBSET Entries]]

Checks == [pc : {"none", "index", "trim", "rewrite", "temp", "moved"}, uuid : Places, entry : Entries \cup {None},
           keep : SUBSET Entries]
Makers == [pc : {"none", "watches", "files"}, left : SUBSET Watches,
           size : {Cardinality(S) : S \in SUBSET Watches} \cup {0}, uuid : Places, files : SUBSET Files,
           has : Dirs \cup {None}, steady : SUBSET Watches, due : Owings \cup {None}]
Restores == [pc : {"none", "next", "copy", "memory", "save"}, has : Dirs \cup {None}, left : SUBSET Watches,
             uuid : Places, replace : BOOLEAN]

BackupTypes ==
  /\ fresh \subseteq Watches
  /\ mem \in [Watches -> Nat \cup {None}]
  /\ dirs \in Dirs
  /\ check \in Checks /\ clearing \in Places /\ maker \in Makers /\ back \in Restores
  /\ zips \subseteq [has : Dirs, whole : BOOLEAN]
  /\ owed \subseteq Watches /\ torn \subseteq Watches

\* What is under way is of a watch, and a restore is of a watch that the backup has.
UnderWay ==
  /\ check.pc # "none" => check.uuid \in Watches /\ check.entry \in Entries
  /\ maker.pc # "none" => maker.has \in Dirs /\ maker.due \in Owings
  /\ maker.pc = "files" => maker.uuid \in Watches
  /\ back.pc # "none" => back.has \in Dirs /\ \A u \in back.left : back.has[u].settings # None
  /\ back.pc \in {"copy", "memory", "save"} => back.uuid \in Watches /\ back.has[back.uuid].settings # None
  /\ back.pc \in {"none", "next"} => back.uuid = None
  /\ back.pc = "save" => mem[back.uuid] # None

\* A UUID no watch has had is nowhere.
Untouched ==
  \A u \in fresh :
    /\ mem[u] = None /\ dirs[u].settings = None
    /\ maker.pc # "none" => maker.has[u].settings = None
    /\ \A z \in zips : z.has[u].settings = None
    /\ back.pc # "none" => back.has[u].settings = None

\* Memory is never behind the disk, but of the watch a restore has copied.
NotBehind ==
  \A u \in Watches :
    \/ mem[u] = None \/ dirs[u].settings = None \/ mem[u] >= dirs[u].settings
    \/ back.uuid = u /\ back.pc \in {"memory", "save"}

\* NothingLost, of memory too.
Lasting ==
  \A u \in owed \ torn : mem[u] # None /\ dirs[u].settings # None

\* What the backup owes of a watch that stayed is there ...
Staying == \A u \in maker.steady : /\ mem[u] # None /\ u # back.uuid
                                   /\ AtLeast(dirs[u], maker.due[u])

\* ... and is copied, or is among the files of this watch that are left.
Copied ==
  \A u \in maker.steady \ maker.left :
    IF maker.pc = "files" /\ maker.uuid = u
    THEN LET is == maker.has[u]   was == maker.due[u]
         IN  /\ was.settings # None => \/ "settings" \in maker.files
                                       \/ is.settings # None /\ is.settings >= was.settings
             /\ was.entries \subseteq is.snaps \cup maker.files
             /\ "index" \in maker.files \/ was.entries \subseteq is.listed
    ELSE AtLeast(maker.has[u], maker.due[u])

NobodysMaker == maker.pc = "none" => maker.steady = {}

BackupInv == /\ BackupTypes /\ UnderWay /\ Untouched /\ NotBehind /\ Lasting
             /\ Staying /\ Copied /\ NobodysMaker /\ FinishedIsWhole

\* Parts of actions, for the proofs: a backup that is given up; one that comes to a watch; one that adds a file; a
\* restore that leaves a watch be, or removes its directory.
GivesUp == maker' = NoMaker /\ UNCHANGED <<watches, check, clearing, zips, back, owed, torn>>

ComesTo(u) ==
  /\ maker.pc = "watches" /\ u \in maker.left
  /\ \E fs \in SUBSET Files :
       /\ maker' = [maker EXCEPT !.left = @ \ {u}, !.uuid = u, !.pc = "files", !.files = fs]
       /\ u \in loaded => /\ dirs[u].snaps \subseteq fs
                          /\ dirs[u].settings # None => "settings" \in fs
                          /\ dirs[u].listed # {} => "index" \in fs
  /\ UNCHANGED <<watches, check, clearing, zips, back, owed, torn>>

Adds(f) ==
  /\ maker.pc = "files" /\ f \in maker.files
  /\ There(maker.uuid, f)
  /\ LET u == maker.uuid IN maker' = [maker EXCEPT !.files = @ \ {f}, !.has[u] = WithFile(@, u, f)]
  /\ UNCHANGED <<watches, check, clearing, zips, back, owed, torn>>

GoesBack ==
  /\ maker.pc = "files" /\ maker.files = {} /\ Proceeds("watches")
  /\ UNCHANGED <<watches, check, clearing, zips, back, owed, torn>>

PassesOver ==
  /\ back.pc = "next" /\ (back' = NoRestore \/ \E u \in back.left : back' = [back EXCEPT !.left = @ \ {u}])
  /\ UNCHANGED <<watches, check, clearing, backups, owed, torn>>

Removes(u) ==
  /\ back.pc = "next" /\ u \in back.left
  /\ dirs' = [dirs EXCEPT ![u] = Nothing]
  /\ back' = [back EXCEPT !.left = @ \ {u}, !.uuid = u, !.pc = "copy"]
  /\ torn' = torn \cup {u} /\ maker' = Disturbed({u})
  /\ UNCHANGED <<fresh, mem, check, clearing, zips, owed>>

LEMMA DirFields ==
  ASSUME NEW d \in Dirs, NEW u \in Watches
  PROVE  /\ d[u] \in Dir /\ d[u].settings \in Nat \cup {None}
         /\ d[u].listed \subseteq Entries /\ d[u].snaps \subseteq Entries
BY DEF Dirs, Dir

LEMMA OwingFields ==
  ASSUME NEW d \in Owings, NEW u \in Watches
  PROVE  d[u].settings \in Nat \cup {None} /\ d[u].entries \subseteq Entries
BY DEF Owings

LEMMA NobodysIn == NoCheck \in Checks /\ NoMaker \in Makers /\ NoRestore \in Restores
BY DEF NoCheck, Checks, NoMaker, Makers, NoRestore, Restores, Places

\* What one file adds to the backup.
LEMMA AddsOne ==
  ASSUME BackupInv, NEW f, Adds(f)
  PROVE  /\ maker'.due = maker.due /\ maker'.uuid = maker.uuid /\ maker'.pc = maker.pc /\ maker'.pc = "files"
         /\ maker'.files = maker.files \ {f} /\ maker'.steady = maker.steady /\ maker'.left = maker.left
         /\ maker'.has \in Dirs /\ maker' \in Makers
         /\ \A v \in Watches : v # maker.uuid => maker'.has[v] = maker.has[v]
         /\ LET is == maker.has[maker.uuid]   got == maker'.has[maker.uuid]
            IN  /\ f = "settings" => got.settings = dirs[maker.uuid].settings
                /\ f # "settings" => got.settings = is.settings
                /\ f = "index" => got.listed = dirs[maker.uuid].listed
                /\ f # "index" => got.listed = is.listed
                /\ f \in Entries => got.snaps = is.snaps \cup {f}
                /\ f \notin Entries => got.snaps = is.snaps
<1> DEFINE u == maker.uuid
           d == WithFile(maker.has[u], u, f)
<1>1. u \in Watches /\ maker.has \in Dirs /\ dirs \in Dirs /\ f \in Files
  BY DEF Adds, BackupInv, BackupTypes, Makers, UnderWay
<1>2. maker.has[u] \in Dir /\ dirs[u] \in Dir
  BY <1>1, DirFields
<1>3. d \in Dir
  BY <1>1, <1>2 DEF WithFile, Files, Dir
<1>4. maker' = [maker EXCEPT !.files = @ \ {f}, !.has[u] = d]
  BY DEF Adds
<1>5. /\ f = "settings" => d.settings = dirs[u].settings
      /\ f # "settings" => d.settings = maker.has[u].settings
      /\ f = "index" => d.listed = dirs[u].listed
      /\ f # "index" => d.listed = maker.has[u].listed
      /\ f \in Entries => d.snaps = maker.has[u].snaps \cup {f}
      /\ f \notin Entries => d.snaps = maker.has[u].snaps
  BY <1>1, <1>2, EntriesAssumption DEF WithFile, Files, Dir
<1> HIDE DEF d
<1>6. [maker.has EXCEPT ![u] = d] \in Dirs /\ [maker.has EXCEPT ![u] = d][u] = d
  BY <1>1, <1>3 DEF Dirs
<1>7. maker \in Makers /\ maker.pc = "files"
  BY DEF BackupInv, BackupTypes, Adds
<1>8. /\ maker'.due = maker.due /\ maker'.uuid = maker.uuid /\ maker'.pc = maker.pc
      /\ maker'.files = maker.files \ {f} /\ maker'.steady = maker.steady /\ maker'.left = maker.left
      /\ maker'.has = [maker.has EXCEPT ![u] = d]
  BY <1>4, <1>7 DEF Makers
<1>11. maker' \in Makers
  BY <1>4, <1>6, <1>7, <1>8 DEF Makers
<1>9. \A v \in Watches : v # u => maker'.has[v] = maker.has[v]
  BY <1>1, <1>8 DEF Dirs
<1>10. QED
  BY <1>5, <1>6, <1>7, <1>8, <1>9, <1>11

LEMMA BackupInit == BackupsInit => BackupInv
<1> SUFFICES ASSUME BackupsInit PROVE BackupInv
  OBVIOUS
<1>1. Nothing \in Dir /\ [settings |-> 0, listed |-> Before, snaps |-> Before] \in Dir /\ Nothing.settings = None
  BY EntriesAssumption DEF Nothing, Dir
<1>2. dirs \in Dirs /\ mem \in [Watches -> Nat \cup {None}]
  BY <1>1 DEF BackupsInit, Dirs
<1>3. /\ check = [pc |-> "none", uuid |-> None, entry |-> None, keep |-> {}]
      /\ back = [pc |-> "none", has |-> None, left |-> {}, uuid |-> None, replace |-> FALSE]
  BY DEF BackupsInit, NoCheck, NoRestore
<1>4. maker = NoMaker /\ maker \in Makers
  BY DEF BackupsInit, NoMaker, Places, Makers
<1>5. maker.pc = "none" /\ maker.steady = {}
  BY <1>4 DEF NoMaker
<1>6. BackupTypes
  BY <1>2, OldAssumption, NobodysIn DEF BackupTypes, BackupsInit, Places
<1>7. UnderWay /\ Copied /\ Staying /\ NobodysMaker /\ FinishedIsWhole
  BY <1>3, <1>5 DEF BackupsInit, UnderWay, Copied, Staying, NobodysMaker, FinishedIsWhole
<1>8. Untouched /\ NotBehind /\ Lasting
  BY <1>1, <1>3, <1>5, NoneAssumption, OldAssumption DEF BackupsInit, Untouched, NotBehind, Lasting
<1>9. QED
  BY <1>6, <1>7, <1>8 DEF BackupInv

LEMMA ImportKeepsInv ==
  ASSUME BackupInv, Import
  PROVE  BackupInv'
<1>1. BackupTypes'
  BY NoneAssumption DEF BackupInv, BackupTypes, Checks, Makers, Restores, UnderWay, Places, loaded, Import,
                        backups, ghosts
<1>2. UnderWay'
  BY NoneAssumption DEF BackupInv, BackupTypes, Checks, Makers, Restores, UnderWay, loaded, Import, backups,
                        ghosts
<1>3. Untouched'
  BY NoneAssumption DEF BackupInv, BackupTypes, Checks, Makers, Restores, UnderWay, Untouched, loaded,
                        Import, backups, ghosts, Dirs, Dir
<1>4. NotBehind'
  BY NoneAssumption DEF BackupInv, BackupTypes, Checks, Makers, Restores, UnderWay, Untouched, NotBehind,
                        loaded, Import, backups, ghosts, Dirs, Dir
<1>5. Lasting'
  BY NoneAssumption DEF BackupInv, BackupTypes, Checks, Makers, Restores, UnderWay, Lasting, loaded, Import,
                        backups, ghosts, Dirs, Dir
<1>6. Staying'
  BY NoneAssumption DEF BackupInv, BackupTypes, Checks, Makers, Restores, Untouched, NotBehind, NobodysMaker,
                        Staying, AtLeast, loaded, Import, backups, ghosts, Dirs, Dir
<1>7. Copied'
  BY NoneAssumption DEF BackupInv, BackupTypes, Checks, Makers, Restores, Copied, loaded, Import, backups,
                        ghosts, Dirs, Dir
<1>8. NobodysMaker'
  BY DEF BackupInv, BackupTypes, Checks, Makers, Restores, NobodysMaker, loaded, Import, backups, ghosts
<1>9. FinishedIsWhole'
  BY DEF BackupInv, FinishedIsWhole, loaded, Import, backups, ghosts
<1>10. QED
  BY <1>1, <1>2, <1>3, <1>4, <1>5, <1>6, <1>7, <1>8, <1>9 DEF BackupInv

LEMMA CheckBeginsKeepsInv ==
  ASSUME BackupInv, CheckBegins
  PROVE  BackupInv'
<1>1. dirs' \in Dirs
  <2>1. PICK u \in loaded, e \in Entries : dirs' = [dirs EXCEPT ![u].snaps = @ \cup {e}]
    BY DEF CheckBegins
  <2>2. u \in Watches /\ [dirs[u] EXCEPT !.snaps = @ \cup {e}] \in Dir
    BY DEF BackupInv, BackupTypes, Checks, Makers, Restores, Dirs, Dir, loaded
  <2>3. QED
    BY <2>1, <2>2 DEF BackupInv, BackupTypes, Checks, Makers, Restores, Dirs
<1>2. BackupTypes'
  BY <1>1, NoneAssumption DEF BackupInv, BackupTypes, Checks, Makers, Restores, UnderWay, Places, loaded,
                              CheckBegins, backups, ghosts
<1>3. UnderWay'
  BY NoneAssumption DEF BackupInv, BackupTypes, Checks, Makers, Restores, UnderWay, loaded, CheckBegins,
                        backups, ghosts
<1>4. Untouched'
  BY NoneAssumption DEF BackupInv, BackupTypes, Checks, Makers, Restores, UnderWay, Untouched, loaded,
                        CheckBegins, backups, ghosts, Dirs, Dir
<1>5. NotBehind'
  BY NoneAssumption DEF BackupInv, BackupTypes, Checks, Makers, Restores, UnderWay, Untouched, NotBehind,
                        loaded, CheckBegins, backups, ghosts, Dirs, Dir
<1>6. Lasting'
  BY NoneAssumption DEF BackupInv, BackupTypes, Checks, Makers, Restores, UnderWay, Lasting, loaded,
                        CheckBegins, backups, ghosts, Dirs, Dir
<1>7. Staying'
  BY NoneAssumption DEF BackupInv, BackupTypes, Checks, Makers, Restores, Untouched, NotBehind, NobodysMaker,
                        Staying, AtLeast, loaded, CheckBegins, backups, ghosts, Dirs, Dir
<1>8. Copied'
  BY NoneAssumption DEF BackupInv, BackupTypes, Checks, Makers, Restores, Copied, loaded, CheckBegins,
                        backups, ghosts, Dirs, Dir
<1>9. NobodysMaker'
  BY DEF BackupInv, BackupTypes, Checks, Makers, Restores, NobodysMaker, loaded, CheckBegins, backups, ghosts
<1>10. FinishedIsWhole'
  BY DEF BackupInv, FinishedIsWhole, loaded, CheckBegins, backups, ghosts
<1>11. QED
  BY <1>2, <1>3, <1>4, <1>5, <1>6, <1>7, <1>8, <1>9, <1>10 DEF BackupInv

LEMMA CheckGoesOnKeepsInv ==
  ASSUME BackupInv, CheckGoesOn
  PROVE  BackupInv'
<1>1. dirs' \in Dirs
  <2> DEFINE u == check.uuid
  <2>1. CASE check.pc = "index"
    <3>1. u \in Watches /\ check.entry \in Entries /\ dirs[u] \in Dir
      BY <2>1 DEF BackupInv, BackupTypes, Checks, Makers, Restores, UnderWay, Dirs
    <3>2. [dirs[u] EXCEPT !.listed = @ \cup {check.entry}] \in Dir
      BY <3>1 DEF Dir
    <3>3. dirs' = [dirs EXCEPT ![u].listed = @ \cup {check.entry}]
      BY <2>1 DEF CheckGoesOn
    <3>4. QED
      BY <3>1, <3>2, <3>3 DEF BackupInv, BackupTypes, Checks, Makers, Restores, Dirs
  <2>2. CASE check.pc = "moved"
    <3>1. u \in Watches /\ dirs[u] \in Dir /\ mem[u] \in Nat \cup {None}
      BY <2>2 DEF BackupInv, BackupTypes, Checks, Makers, Restores, UnderWay, Dirs
    <3>2. [dirs[u] EXCEPT !.settings = mem[u]] \in Dir
      BY <3>1 DEF Dir
    <3>3. dirs' = [dirs EXCEPT ![u].settings = mem[u]]
      BY <2>2 DEF CheckGoesOn
    <3>4. QED
      BY <3>1, <3>2, <3>3 DEF BackupInv, BackupTypes, Checks, Makers, Restores, Dirs
  <2>3. QED
    BY <2>1, <2>2 DEF CheckGoesOn, BackupInv, BackupTypes, Checks, Makers, Restores
<1>2. BackupTypes'
  BY <1>1, NoneAssumption DEF BackupInv, BackupTypes, Checks, Makers, Restores, UnderWay, Places, loaded,
                              CheckGoesOn, backups, NoCheck
<1>3. UnderWay'
  BY NoneAssumption DEF BackupInv, BackupTypes, Checks, Makers, Restores, UnderWay, loaded, CheckGoesOn,
                        backups, NoCheck
<1>4. Untouched'
  BY NoneAssumption DEF BackupInv, BackupTypes, Checks, Makers, Restores, UnderWay, Untouched, loaded,
                        CheckGoesOn, backups, NoCheck, Dirs, Dir
<1>5. NotBehind'
  <2>1. SUFFICES ASSUME NEW v \in Watches
                 PROVE  \/ mem[v] = None \/ dirs'[v].settings = None \/ mem[v] >= dirs'[v].settings
                        \/ back.uuid = v /\ back.pc \in {"memory", "save"}
    BY DEF CheckGoesOn, NotBehind
  <2>2. \/ mem[v] = None \/ dirs[v].settings = None \/ mem[v] >= dirs[v].settings
        \/ back.uuid = v /\ back.pc \in {"memory", "save"}
    BY DEF BackupInv, NotBehind
  <2>3. mem[v] \in Nat \cup {None} /\ dirs \in Dirs
    BY DEF BackupInv, BackupTypes, Checks, Makers, Restores
  <2>4. dirs'[v].settings = dirs[v].settings \/ dirs'[v].settings = mem[v]
    BY <2>3 DEF CheckGoesOn, Dirs, Dir
  <2>5. QED
    BY <2>2, <2>3, <2>4
<1>6. Lasting'
  BY NoneAssumption, SMTT(30) DEF BackupInv, BackupTypes, Checks, Makers, Restores, UnderWay, Lasting, loaded,
                        CheckGoesOn, backups, NoCheck, Dirs, Dir
<1>7. Staying'
  <2>1. SUFFICES ASSUME NEW v \in maker.steady
                 PROVE  mem[v] # None /\ v # back.uuid /\ AtLeast(dirs'[v], maker.due[v])
    BY DEF CheckGoesOn, Staying, backups
  <2>2. v \in Watches /\ mem[v] # None /\ v # back.uuid /\ AtLeast(dirs[v], maker.due[v])
    BY DEF BackupInv, BackupTypes, Checks, Makers, Restores, Staying
  <2>3. maker.pc # "none" /\ maker.due \in Owings /\ dirs \in Dirs /\ mem[v] \in Nat
    BY <2>1, <2>2 DEF BackupInv, BackupTypes, Checks, Makers, Restores, NobodysMaker, UnderWay
  <2>4. maker.due[v].settings \in Nat \cup {None} /\ dirs[v].settings \in Nat \cup {None}
    BY <2>2, <2>3, DirFields, OwingFields
  <2>5. dirs[v].settings # None => mem[v] >= dirs[v].settings
    BY <2>2 DEF BackupInv, NotBehind
  <2>6. /\ dirs'[v].settings = dirs[v].settings \/ dirs'[v].settings = mem[v]
        /\ dirs'[v].snaps = dirs[v].snaps /\ dirs[v].listed \subseteq dirs'[v].listed
    BY <2>2, <2>3 DEF CheckGoesOn, Dirs, Dir
  <2>7. maker.due[v].settings # None => dirs'[v].settings # None /\ dirs'[v].settings >= maker.due[v].settings
    <3>1. SUFFICES ASSUME maker.due[v].settings # None
                   PROVE  dirs'[v].settings # None /\ dirs'[v].settings >= maker.due[v].settings
      OBVIOUS
    <3>2. /\ dirs[v].settings # None /\ dirs[v].settings >= maker.due[v].settings
          /\ dirs[v].settings \in Nat /\ maker.due[v].settings \in Nat /\ mem[v] >= dirs[v].settings
      BY <3>1, <2>2, <2>4, <2>5 DEF AtLeast
    <3>3. QED
      BY <3>2, <2>2, <2>3, <2>6
  <2>8. QED
    BY <2>2, <2>6, <2>7 DEF AtLeast
<1>8. Copied'
  BY NoneAssumption DEF BackupInv, BackupTypes, Checks, Makers, Restores, Copied, loaded, CheckGoesOn,
                        backups, NoCheck, Dirs, Dir
<1>9. NobodysMaker'
  BY DEF BackupInv, BackupTypes, Checks, Makers, Restores, NobodysMaker, loaded, CheckGoesOn, backups, NoCheck
<1>10. FinishedIsWhole'
  BY DEF BackupInv, FinishedIsWhole, loaded, CheckGoesOn, backups, NoCheck
<1>11. QED
  BY <1>2, <1>3, <1>4, <1>5, <1>6, <1>7, <1>8, <1>9, <1>10 DEF BackupInv

LEMMA EditSettingsKeepsInv ==
  ASSUME BackupInv, EditSettings
  PROVE  BackupInv'
<1>1. dirs' \in Dirs
  <2>1. PICK u \in loaded : dirs' = [dirs EXCEPT ![u].settings = mem[u] + 1]
    BY DEF EditSettings
  <2>2. u \in Watches /\ [dirs[u] EXCEPT !.settings = mem[u] + 1] \in Dir
    BY DEF BackupInv, BackupTypes, Checks, Makers, Restores, Dirs, Dir, loaded
  <2>3. QED
    BY <2>1, <2>2 DEF BackupInv, BackupTypes, Checks, Makers, Restores, Dirs
<1>2. BackupTypes'
  BY <1>1, NoneAssumption DEF BackupInv, BackupTypes, Checks, Makers, Restores, UnderWay, Places, loaded,
                              EditSettings, backups
<1>3. UnderWay'
  BY NoneAssumption DEF BackupInv, BackupTypes, Checks, Makers, Restores, UnderWay, loaded, EditSettings,
                        backups
<1>4. Untouched'
  BY NoneAssumption DEF BackupInv, BackupTypes, Checks, Makers, Restores, UnderWay, Untouched, loaded,
                        EditSettings, backups, Dirs, Dir
<1>5. NotBehind'
  BY NoneAssumption DEF BackupInv, BackupTypes, Checks, Makers, Restores, UnderWay, Untouched, NotBehind,
                        loaded, EditSettings, backups, Dirs, Dir
<1>6. Lasting'
  BY NoneAssumption DEF BackupInv, BackupTypes, Checks, Makers, Restores, UnderWay, Lasting, loaded,
                        EditSettings, backups, Dirs, Dir
<1>7. Staying'
  <2>1. PICK u \in loaded : /\ dirs' = [dirs EXCEPT ![u].settings = mem[u] + 1]
                            /\ mem' = [mem EXCEPT ![u] = @ + 1]
    BY DEF EditSettings
  <2>2. UNCHANGED <<maker, back>>
    BY DEF EditSettings, backups
  <2>3. /\ mem[u] \in Nat /\ u \in Watches /\ dirs[u].settings \in Nat \cup {None} /\ mem \in [Watches -> Nat \cup {None}]
        /\ dirs \in Dirs
    BY DirFields DEF loaded, BackupInv, BackupTypes, Checks, Makers, Restores
  <2>4. SUFFICES ASSUME NEW v \in maker.steady
                 PROVE  mem'[v] # None /\ v # back.uuid /\ AtLeast(dirs'[v], maker.due[v])
    BY <2>2 DEF Staying
  <2>5. v \in Watches /\ mem[v] # None /\ v # back.uuid /\ AtLeast(dirs[v], maker.due[v])
    BY DEF BackupInv, BackupTypes, Checks, Makers, Restores, Staying
  <2>6. CASE v # u
    <3>1. mem'[v] = mem[v] /\ dirs'[v] = dirs[v]
      BY <2>1, <2>3, <2>5, <2>6 DEF Dirs
    <3>2. QED
      BY <3>1, <2>5
  <2>7. CASE v = u
    <3>1. mem'[u] = mem[u] + 1 /\ mem[u] + 1 # None
      BY <2>1, <2>3, NoneAssumption
    <3>2. /\ dirs'[u].settings = mem[u] + 1 /\ dirs'[u].listed = dirs[u].listed /\ dirs'[u].snaps = dirs[u].snaps
      BY <2>1, <2>3 DEF Dirs, Dir
    <3>3. maker.pc # "none" /\ maker.due \in Owings
      BY <2>4 DEF BackupInv, NobodysMaker, UnderWay
    <3>4. maker.due[u].settings \in Nat \cup {None}
      BY <3>3, <2>3, OwingFields
    <3>5. dirs[u].settings # None => mem[u] >= dirs[u].settings
      BY <2>3, <2>5, <2>7, NoneAssumption DEF BackupInv, NotBehind
    <3>6. maker.due[u].settings # None => mem[u] + 1 >= maker.due[u].settings
      <4>1. SUFFICES ASSUME maker.due[u].settings # None PROVE mem[u] + 1 >= maker.due[u].settings
        OBVIOUS
      <4>2. /\ dirs[u].settings \in Nat /\ dirs[u].settings >= maker.due[u].settings
            /\ maker.due[u].settings \in Nat /\ mem[u] >= dirs[u].settings
        BY <4>1, <2>3, <2>5, <2>7, <3>4, <3>5 DEF AtLeast
      <4>3. QED
        BY <4>2, <2>3
    <3>7. QED
      BY <3>1, <3>2, <3>6, <2>3, <2>5, <2>7, NoneAssumption DEF AtLeast
  <2>8. QED
    BY <2>6, <2>7
<1>8. Copied'
  BY NoneAssumption DEF BackupInv, BackupTypes, Checks, Makers, Restores, Copied, loaded, EditSettings,
                        backups, Dirs, Dir
<1>9. NobodysMaker'
  BY DEF BackupInv, BackupTypes, Checks, Makers, Restores, NobodysMaker, loaded, EditSettings, backups
<1>10. FinishedIsWhole'
  BY DEF BackupInv, FinishedIsWhole, loaded, EditSettings, backups
<1>11. QED
  BY <1>2, <1>3, <1>4, <1>5, <1>6, <1>7, <1>8, <1>9, <1>10 DEF BackupInv

LEMMA DeleteKeepsInv ==
  ASSUME BackupInv, Delete
  PROVE  BackupInv'
<1>1. dirs' \in Dirs
  <2>1. PICK u \in loaded : dirs' = [dirs EXCEPT ![u] = Nothing]
    BY DEF Delete
  <2>2. u \in Watches /\ Nothing \in Dir
    BY DEF loaded, Nothing, Dir
  <2>3. QED
    BY <2>1, <2>2 DEF BackupInv, BackupTypes, Checks, Makers, Restores, Dirs
<1>2. BackupTypes'
  BY <1>1, NoneAssumption DEF BackupInv, BackupTypes, Checks, Makers, Restores, UnderWay, Places, loaded,
                              Delete, Disturbed, Nothing
<1>3. UnderWay'
  BY NoneAssumption DEF BackupInv, BackupTypes, Checks, Makers, Restores, UnderWay, loaded, Delete,
                        Disturbed, Nothing
<1>4. Untouched'
  BY NoneAssumption DEF BackupInv, BackupTypes, Checks, Makers, Restores, UnderWay, Untouched, loaded,
                        Delete, Disturbed, Nothing, Dirs, Dir
<1>5. NotBehind'
  BY NoneAssumption DEF BackupInv, BackupTypes, Checks, Makers, Restores, UnderWay, Untouched, NotBehind,
                        loaded, Delete, Disturbed, Nothing, Dirs, Dir
<1>6. Lasting'
  BY NoneAssumption DEF BackupInv, BackupTypes, Checks, Makers, Restores, UnderWay, Lasting, loaded, Delete,
                        Disturbed, Nothing, Dirs, Dir
<1>7. Staying'
  BY NoneAssumption DEF BackupInv, BackupTypes, Checks, Makers, Restores, Untouched, NotBehind, NobodysMaker,
                        Staying, AtLeast, loaded, Delete, Disturbed, Nothing, Dirs, Dir
<1>8. Copied'
  BY NoneAssumption DEF BackupInv, BackupTypes, Checks, Makers, Restores, Copied, loaded, Delete, Disturbed,
                        Nothing, Dirs, Dir
<1>9. NobodysMaker'
  BY DEF BackupInv, BackupTypes, Checks, Makers, Restores, NobodysMaker, loaded, Delete, Disturbed, Nothing
<1>10. FinishedIsWhole'
  BY DEF BackupInv, FinishedIsWhole, loaded, Delete, Disturbed, Nothing
<1>11. QED
  BY <1>2, <1>3, <1>4, <1>5, <1>6, <1>7, <1>8, <1>9, <1>10 DEF BackupInv

LEMMA create_backupKeepsInv ==
  ASSUME BackupInv, create_backup
  PROVE  BackupInv'
<1>1. BackupTypes'
  <2>1. Nothing \in Dir
    BY DEF Nothing, Dir
  <2>2. [u \in Watches |-> Nothing] \in Dirs /\ [u \in Watches |-> Readable(u)] \in Owings
    BY <2>1, DirFields DEF Dirs, Owings, Readable, BackupInv, BackupTypes
  <2>3. loaded \in SUBSET Watches /\ loaded \ {back.uuid} \in SUBSET Watches
    BY DEF loaded
  <2>4. maker' \in Makers
    BY <2>2, <2>3 DEF create_backup, BackupInv, BackupTypes, NoMaker, Makers, Places
  <2>5. QED
    BY <2>4 DEF BackupInv, BackupTypes, Checks, Makers, Restores, create_backup, watches
<1>2. UnderWay'
  <2>1. Nothing \in Dir
    BY DEF Nothing, Dir
  <2>2. [u \in Watches |-> Nothing] \in Dirs
    BY <2>1 DEF Dirs
  <2>3. maker'.has = [u \in Watches |-> Nothing] /\ maker'.due = [u \in Watches |-> Readable(u)] /\ maker'.pc = "watches"
    BY DEF create_backup, NoMaker
  <2>4. [u \in Watches |-> Readable(u)] \in Owings
    BY DirFields DEF Owings, Readable, BackupInv, BackupTypes
  <2>5. QED
    BY <2>2, <2>3, <2>4 DEF BackupInv, UnderWay, create_backup, watches
<1>3. Untouched'
  <2>1. maker'.has = [u \in Watches |-> Nothing] /\ Nothing.settings = None
    BY DEF create_backup, NoMaker, Nothing
  <2>2. fresh \subseteq Watches
    BY DEF BackupInv, BackupTypes, Checks, Makers, Restores
  <2>3. QED
    BY <2>1, <2>2 DEF BackupInv, Untouched, create_backup, watches
<1>4. NotBehind'
  BY NoneAssumption DEF BackupInv, BackupTypes, Checks, Makers, Restores, UnderWay, Untouched, NotBehind,
                        loaded, create_backup, watches, ghosts, NoMaker, Dirs, Dir
<1>5. Lasting'
  BY NoneAssumption DEF BackupInv, BackupTypes, Checks, Makers, Restores, UnderWay, Lasting, loaded,
                        create_backup, watches, ghosts, NoMaker, Dirs, Dir
<1>6. Staying'
  <2>1. /\ maker'.steady = loaded \ {back.uuid} /\ maker'.due = [v \in Watches |-> Readable(v)]
        /\ UNCHANGED <<mem, dirs, back>>
    BY DEF create_backup, NoMaker, watches
  <2>2. SUFFICES ASSUME NEW v \in loaded \ {back.uuid}
                 PROVE  mem[v] # None /\ v # back.uuid /\ AtLeast(dirs[v], Readable(v))
    BY <2>1 DEF Staying, loaded
  <2>3. dirs[v].settings \in Nat \cup {None}
    BY DirFields DEF loaded, BackupInv, BackupTypes
  <2>4. QED
    BY <2>3, NoneAssumption DEF loaded, AtLeast, Readable
<1>7. Copied'
  BY NoneAssumption DEF BackupInv, BackupTypes, Checks, Makers, Restores, Copied, loaded, create_backup,
                        watches, ghosts, NoMaker, Dirs, Dir
<1>8. NobodysMaker'
  BY DEF BackupInv, BackupTypes, Checks, Makers, Restores, NobodysMaker, loaded, create_backup, watches,
         ghosts, NoMaker
<1>9. FinishedIsWhole'
  BY DEF BackupInv, FinishedIsWhole, loaded, create_backup, watches, ghosts, NoMaker
<1>10. QED
  BY <1>1, <1>2, <1>3, <1>4, <1>5, <1>6, <1>7, <1>8, <1>9 DEF BackupInv

LEMMA GivesUpKeepsInv ==
  ASSUME BackupInv, GivesUp
  PROVE  BackupInv'
<1>1. BackupTypes'
  BY NobodysIn DEF BackupInv, BackupTypes, Checks, Makers, Restores, GivesUp, watches
<1>2. UnderWay'
  BY NoneAssumption DEF BackupInv, BackupTypes, Checks, Makers, Restores, UnderWay, loaded, GivesUp, watches,
                        NoMaker
<1>3. Untouched'
  BY NoneAssumption DEF BackupInv, BackupTypes, Checks, Makers, Restores, UnderWay, Untouched, loaded,
                        GivesUp, watches, NoMaker, Dirs, Dir
<1>4. NotBehind'
  BY NoneAssumption DEF BackupInv, BackupTypes, Checks, Makers, Restores, UnderWay, Untouched, NotBehind,
                        loaded, GivesUp, watches, NoMaker, Dirs, Dir
<1>5. Lasting'
  BY NoneAssumption DEF BackupInv, BackupTypes, Checks, Makers, Restores, UnderWay, Lasting, loaded, GivesUp,
                        watches, NoMaker, Dirs, Dir
<1>6. Staying'
  BY NoneAssumption DEF BackupInv, BackupTypes, Checks, Makers, Restores, Untouched, NotBehind, NobodysMaker,
                        Staying, AtLeast, loaded, GivesUp, watches, NoMaker, Dirs, Dir
<1>7. Copied'
  BY NoneAssumption DEF BackupInv, BackupTypes, Checks, Makers, Restores, Copied, loaded, GivesUp, watches,
                        NoMaker, Dirs, Dir
<1>8. NobodysMaker'
  BY DEF BackupInv, BackupTypes, Checks, Makers, Restores, NobodysMaker, loaded, GivesUp, watches, NoMaker
<1>9. FinishedIsWhole'
  BY DEF BackupInv, FinishedIsWhole, loaded, GivesUp, watches, NoMaker
<1>10. QED
  BY <1>1, <1>2, <1>3, <1>4, <1>5, <1>6, <1>7, <1>8, <1>9 DEF BackupInv

LEMMA ComesToKeepsInv ==
  ASSUME BackupInv, NEW u, ComesTo(u)
  PROVE  BackupInv'
<1>1. BackupTypes'
  <2>1. u \in Watches
    BY DEF ComesTo, BackupInv, BackupTypes, Checks, Makers, Restores
  <2>2. PICK fs \in SUBSET Files : maker' = [maker EXCEPT !.left = @ \ {u}, !.uuid = u, !.pc = "files", !.files = fs]
    BY DEF ComesTo
  <2>3. maker' \in Makers
    BY <2>1, <2>2 DEF BackupInv, BackupTypes, Makers, Places
  <2>4. QED
    BY <2>3 DEF BackupInv, BackupTypes, Checks, Makers, Restores, ComesTo, watches
<1>2. UnderWay'
  BY NoneAssumption DEF BackupInv, BackupTypes, Checks, Makers, Restores, UnderWay, loaded, ComesTo, watches
<1>3. Untouched'
  BY NoneAssumption DEF BackupInv, BackupTypes, Checks, Makers, Restores, UnderWay, Untouched, loaded,
                        ComesTo, watches, Dirs, Dir
<1>4. NotBehind'
  BY NoneAssumption DEF BackupInv, BackupTypes, Checks, Makers, Restores, UnderWay, Untouched, NotBehind,
                        loaded, ComesTo, watches, Dirs, Dir
<1>5. Lasting'
  BY NoneAssumption DEF BackupInv, BackupTypes, Checks, Makers, Restores, UnderWay, Lasting, loaded, ComesTo,
                        watches, Dirs, Dir
<1>6. Staying'
  BY NoneAssumption DEF BackupInv, BackupTypes, Checks, Makers, Restores, Untouched, NotBehind, NobodysMaker,
                        Staying, AtLeast, loaded, ComesTo, watches, Dirs, Dir
<1>7. Copied'
  <2>1. PICK fs \in SUBSET Files :
          /\ maker' = [maker EXCEPT !.left = @ \ {u}, !.uuid = u, !.pc = "files", !.files = fs]
          /\ u \in loaded => /\ dirs[u].snaps \subseteq fs
                             /\ dirs[u].settings # None => "settings" \in fs
                             /\ dirs[u].listed # {} => "index" \in fs
    BY DEF ComesTo
  <2>2. /\ maker'.due = maker.due /\ maker'.uuid = u /\ maker'.pc = "files" /\ maker'.files = fs
        /\ maker'.steady = maker.steady /\ maker'.left = maker.left \ {u} /\ maker'.has = maker.has
    BY <2>1 DEF BackupInv, BackupTypes, Checks, Makers, Restores
  <2>3. SUFFICES ASSUME NEW v \in maker.steady \ (maker.left \ {u})
                 PROVE  IF u = v
                        THEN LET is == maker.has[v]   was == maker.due[v]
                             IN  /\ was.settings # None => \/ "settings" \in fs
                                                           \/ is.settings # None /\ is.settings >= was.settings
                                 /\ was.entries \subseteq is.snaps \cup fs
                                 /\ "index" \in fs \/ was.entries \subseteq is.listed
                        ELSE AtLeast(maker.has[v], maker.due[v])
    BY <2>2 DEF Copied
  <2>4. CASE v # u
    BY <2>3, <2>4 DEF BackupInv, Copied, ComesTo
  <2>5. CASE v = u
    <3>1. v \in loaded /\ AtLeast(dirs[v], maker.due[v])
      BY <2>3 DEF BackupInv, BackupTypes, Checks, Makers, Restores, Staying, loaded
    <3>2. QED
      BY <2>1, <2>5, <3>1 DEF AtLeast
  <2>6. QED
    BY <2>4, <2>5
<1>8. NobodysMaker'
  BY DEF BackupInv, BackupTypes, Checks, Makers, Restores, NobodysMaker, loaded, ComesTo, watches
<1>9. FinishedIsWhole'
  BY DEF BackupInv, FinishedIsWhole, loaded, ComesTo, watches
<1>10. QED
  BY <1>1, <1>2, <1>3, <1>4, <1>5, <1>6, <1>7, <1>8, <1>9 DEF BackupInv

LEMMA NextWatchKeepsInv ==
  ASSUME BackupInv, NextWatch
  PROVE  BackupInv'
<1>1. CASE maker' = NoMaker
  BY <1>1, GivesUpKeepsInv DEF NextWatch, GivesUp, ghosts
<1>2. CASE maker' # NoMaker
  <2>1. PICK u \in maker.left :
          maker' = [maker EXCEPT !.left = @ \ {u}, !.uuid = u, !.pc = "files",
                                 !.files = IF u \notin loaded THEN {} ELSE
                                    dirs[u].snaps \cup (IF dirs[u].settings = None THEN {} ELSE {"settings"})
                                                  \cup (IF dirs[u].listed = {} THEN {} ELSE {"index"})
                                                  \cup (IF HasTemp(u) THEN {"temp"} ELSE {})]
    BY <1>2 DEF NextWatch
  <2>2. u \in Watches /\ dirs[u].snaps \subseteq Entries
    BY DirFields DEF BackupInv, BackupTypes, Checks, Makers, Restores
  <2> DEFINE fs == IF u \notin loaded THEN {} ELSE
                      dirs[u].snaps \cup (IF dirs[u].settings = None THEN {} ELSE {"settings"})
                                    \cup (IF dirs[u].listed = {} THEN {} ELSE {"index"})
                                    \cup (IF HasTemp(u) THEN {"temp"} ELSE {})
  <2>3. /\ fs \in SUBSET Files
        /\ u \in loaded => /\ dirs[u].snaps \subseteq fs
                           /\ dirs[u].settings # None => "settings" \in fs
                           /\ dirs[u].listed # {} => "index" \in fs
    BY <2>2 DEF Files
  <2>4. maker' = [maker EXCEPT !.left = @ \ {u}, !.uuid = u, !.pc = "files", !.files = fs]
    BY <2>1
  <2> HIDE DEF fs
  <2>5. ComesTo(u)
    BY <2>3, <2>4 DEF ComesTo, NextWatch, ghosts
  <2>6. QED
    BY <2>5, ComesToKeepsInv
<1>3. QED
  BY <1>1, <1>2

LEMMA AddsKeepsInv ==
  ASSUME BackupInv, NEW f, Adds(f)
  PROVE  BackupInv'
<1>1. BackupTypes'
  <2>1. maker' \in Makers
    BY AddsOne
  <2>2. QED
    BY <2>1 DEF BackupInv, BackupTypes, Checks, Makers, Restores, Adds, watches
<1>2. UnderWay'
  <2>1. maker'.has \in Dirs /\ maker'.due = maker.due /\ maker'.uuid = maker.uuid /\ maker'.pc = maker.pc
    BY AddsOne DEF BackupInv, UnderWay, Adds
  <2>2. QED
    BY <2>1 DEF BackupInv, BackupTypes, Checks, Makers, Restores, UnderWay, Adds, watches
<1>3. Untouched'
  <2>1. SUFFICES ASSUME NEW v \in fresh
                 PROVE  /\ mem[v] = None /\ dirs[v].settings = None
                        /\ maker'.has[v].settings = None
                        /\ \A z \in zips : z.has[v].settings = None
                        /\ back.pc # "none" => back.has[v].settings = None
    BY DEF Adds, Untouched, watches
  <2>2. /\ mem[v] = None /\ dirs[v].settings = None
        /\ maker.has[v].settings = None
        /\ \A z \in zips : z.has[v].settings = None
        /\ back.pc # "none" => back.has[v].settings = None
    BY DEF BackupInv, Untouched, Adds
  <2>3. v \in Watches
    BY DEF BackupInv, BackupTypes, Checks, Makers, Restores
  <2>4. maker'.has[v].settings = maker.has[v].settings \/ maker'.has[v].settings = dirs[v].settings
    BY <2>3, AddsOne
  <2>5. QED
    BY <2>2, <2>4
<1>4. NotBehind'
  BY NoneAssumption DEF BackupInv, BackupTypes, Checks, Makers, Restores, UnderWay, Untouched, NotBehind,
                        loaded, Adds, watches, There, Dirs, Dir
<1>5. Lasting'
  BY NoneAssumption DEF BackupInv, BackupTypes, Checks, Makers, Restores, UnderWay, Lasting, loaded, Adds,
                        watches, There, Dirs, Dir
<1>6. Staying'
  BY NoneAssumption DEF BackupInv, BackupTypes, Checks, Makers, Restores, Untouched, NotBehind, NobodysMaker,
                        Staying, AtLeast, loaded, Adds, watches, There, Dirs, Dir
<1>7. Copied'
  <2>1. /\ maker'.due = maker.due /\ maker'.uuid = maker.uuid /\ maker'.pc = "files"
        /\ maker'.files = maker.files \ {f} /\ maker'.steady = maker.steady /\ maker'.left = maker.left
        /\ \A v \in Watches : v # maker.uuid => maker'.has[v] = maker.has[v]
    BY AddsOne
  <2>2. SUFFICES ASSUME NEW v \in maker.steady \ maker.left
                 PROVE  IF maker.uuid = v
                        THEN LET is == maker'.has[v]   was == maker.due[v]
                             IN  /\ was.settings # None => \/ "settings" \in maker'.files
                                                           \/ is.settings # None /\ is.settings >= was.settings
                                 /\ was.entries \subseteq is.snaps \cup maker'.files
                                 /\ "index" \in maker'.files \/ was.entries \subseteq is.listed
                        ELSE AtLeast(maker'.has[v], maker.due[v])
    BY <2>1 DEF Copied
  <2>3. v \in Watches /\ maker.pc = "files"
    BY DEF BackupInv, BackupTypes, Makers, Adds
  <2>4. CASE v # maker.uuid
    BY <2>1, <2>3, <2>4 DEF BackupInv, Copied
  <2>5. CASE v = maker.uuid
    <3> DEFINE is == maker.has[v]   was == maker.due[v]   got == maker'.has[v]
    <3>1. /\ was.settings # None => \/ "settings" \in maker.files
                                    \/ is.settings # None /\ is.settings >= was.settings
          /\ was.entries \subseteq is.snaps \cup maker.files
          /\ "index" \in maker.files \/ was.entries \subseteq is.listed
      BY <2>3, <2>5 DEF BackupInv, Copied
    <3>2. AtLeast(dirs[v], was)
      BY DEF BackupInv, Staying
    <3>3. /\ f = "settings" => got.settings = dirs[v].settings
          /\ f # "settings" => got.settings = is.settings
          /\ f = "index" => got.listed = dirs[v].listed
          /\ f # "index" => got.listed = is.listed
          /\ f \in Entries => got.snaps = is.snaps \cup {f}
          /\ f \notin Entries => got.snaps = is.snaps
      BY <2>5, AddsOne
    <3>4. was.entries \subseteq Entries
      BY <2>3, OwingFields DEF BackupInv, UnderWay
    <3> HIDE DEF is, was, got
    <3>5. was.settings # None => \/ "settings" \in maker'.files
                                 \/ got.settings # None /\ got.settings >= was.settings
      BY <2>1, <3>1, <3>2, <3>3 DEF AtLeast
    <3>6. was.entries \subseteq got.snaps \cup maker'.files
      BY <2>1, <3>1, <3>3, <3>4
    <3>7. "index" \in maker'.files \/ was.entries \subseteq got.listed
      BY <2>1, <3>1, <3>2, <3>3 DEF AtLeast
    <3>8. QED
      BY <2>5, <3>5, <3>6, <3>7 DEF is, was, got
  <2>6. QED
    BY <2>4, <2>5
<1>8. NobodysMaker'
  BY DEF BackupInv, BackupTypes, Checks, Makers, Restores, NobodysMaker, loaded, Adds, watches, There
<1>9. FinishedIsWhole'
  BY DEF BackupInv, FinishedIsWhole, loaded, Adds, watches, There
<1>10. QED
  BY <1>1, <1>2, <1>3, <1>4, <1>5, <1>6, <1>7, <1>8, <1>9 DEF BackupInv

LEMMA GoesBackKeepsInv ==
  ASSUME BackupInv, GoesBack
  PROVE  BackupInv'
<1>1. BackupTypes'
  BY NoneAssumption DEF BackupInv, BackupTypes, Checks, Makers, Restores, UnderWay, Places, loaded, GoesBack,
                        watches, Proceeds
<1>2. UnderWay'
  BY NoneAssumption DEF BackupInv, BackupTypes, Checks, Makers, Restores, UnderWay, loaded, GoesBack,
                        watches, Proceeds
<1>3. Untouched'
  BY NoneAssumption DEF BackupInv, BackupTypes, Checks, Makers, Restores, UnderWay, Untouched, loaded,
                        GoesBack, watches, Proceeds, Dirs, Dir
<1>4. NotBehind'
  BY NoneAssumption DEF BackupInv, BackupTypes, Checks, Makers, Restores, UnderWay, Untouched, NotBehind,
                        loaded, GoesBack, watches, Proceeds, Dirs, Dir
<1>5. Lasting'
  BY NoneAssumption DEF BackupInv, BackupTypes, Checks, Makers, Restores, UnderWay, Lasting, loaded,
                        GoesBack, watches, Proceeds, Dirs, Dir
<1>6. Staying'
  BY NoneAssumption DEF BackupInv, BackupTypes, Checks, Makers, Restores, Untouched, NotBehind, NobodysMaker,
                        Staying, AtLeast, loaded, GoesBack, watches, Proceeds, Dirs, Dir
<1>7. Copied'
  <2>1. /\ maker'.due = maker.due /\ maker'.pc = "watches" /\ maker'.steady = maker.steady
        /\ maker'.left = maker.left /\ maker'.has = maker.has
    BY DEF GoesBack, Proceeds, BackupInv, BackupTypes, Checks, Makers, Restores
  <2>2. SUFFICES ASSUME NEW v \in maker.steady \ maker.left
                 PROVE  AtLeast(maker.has[v], maker.due[v])
    BY <2>1 DEF Copied
  <2>3. maker.pc = "files" /\ maker.files = {}
    BY DEF GoesBack
  <2>4. CASE v # maker.uuid
    BY <2>2, <2>4 DEF BackupInv, Copied
  <2>5. CASE v = maker.uuid
    BY <2>2, <2>3, <2>5 DEF BackupInv, Copied, AtLeast
  <2>6. QED
    BY <2>4, <2>5
<1>8. NobodysMaker'
  BY DEF BackupInv, BackupTypes, Checks, Makers, Restores, NobodysMaker, loaded, GoesBack, watches, Proceeds
<1>9. FinishedIsWhole'
  BY DEF BackupInv, FinishedIsWhole, loaded, GoesBack, watches, Proceeds
<1>10. QED
  BY <1>1, <1>2, <1>3, <1>4, <1>5, <1>6, <1>7, <1>8, <1>9 DEF BackupInv

LEMMA AddFileKeepsInv ==
  ASSUME BackupInv, AddFile
  PROVE  BackupInv'
<1>1. CASE maker' = NoMaker
  BY <1>1, GivesUpKeepsInv DEF AddFile, GivesUp, ghosts
<1>2. CASE \E f \in maker.files : There(maker.uuid, f) /\ maker' # NoMaker
              /\ maker' = [maker EXCEPT !.files = @ \ {f}, !.has[maker.uuid] = WithFile(@, maker.uuid, f)]
  <2>1. PICK f \in maker.files : Adds(f)
    BY <1>2 DEF AddFile, Adds, ghosts
  <2>2. QED
    BY <2>1, AddsKeepsInv
<1>3. CASE maker.files = {} /\ Proceeds("watches")
  BY <1>3, GoesBackKeepsInv DEF AddFile, GoesBack, ghosts
<1>4. QED
  BY <1>1, <1>2, <1>3 DEF AddFile

LEMMA FinishBackupKeepsInv ==
  ASSUME BackupInv, FinishBackup
  PROVE  BackupInv'
<1>1. BackupTypes'
  <2>1. maker.has \in Dirs /\ HasAll \in BOOLEAN
    BY DEF FinishBackup, BackupInv, UnderWay, HasAll
  <2>2. zips' \subseteq [has : Dirs, whole : BOOLEAN]
    BY <2>1 DEF FinishBackup, Named, BackupInv, BackupTypes, Checks, Makers, Restores
  <2>3. QED
    BY <2>2, NobodysIn DEF FinishBackup, watches, ghosts, BackupInv, BackupTypes, Checks, Makers, Restores
<1>2. UnderWay'
  BY NoneAssumption DEF BackupInv, BackupTypes, Checks, Makers, Restores, UnderWay, loaded, FinishBackup,
                        watches, ghosts, NoMaker, Named, HasAll, AtLeast
<1>3. Untouched'
  BY NoneAssumption DEF BackupInv, BackupTypes, Checks, Makers, Restores, UnderWay, Untouched, loaded,
                        FinishBackup, watches, ghosts, NoMaker, Named, HasAll, AtLeast, Dirs, Dir
<1>4. NotBehind'
  BY NoneAssumption DEF BackupInv, BackupTypes, Checks, Makers, Restores, UnderWay, Untouched, NotBehind,
                        loaded, FinishBackup, watches, ghosts, NoMaker, Named, HasAll, AtLeast, Dirs, Dir
<1>5. Lasting'
  BY NoneAssumption DEF BackupInv, BackupTypes, Checks, Makers, Restores, UnderWay, Lasting, loaded,
                        FinishBackup, watches, ghosts, NoMaker, Named, HasAll, AtLeast, Dirs, Dir
<1>6. Staying'
  BY NoneAssumption DEF BackupInv, BackupTypes, Checks, Makers, Restores, Untouched, NotBehind, NobodysMaker,
                        Staying, AtLeast, loaded, FinishBackup, watches, ghosts, NoMaker, Named, HasAll,
                        AtLeast, Dirs, Dir
<1>7. Copied'
  BY NoneAssumption DEF BackupInv, BackupTypes, Checks, Makers, Restores, Copied, loaded, FinishBackup,
                        watches, ghosts, NoMaker, Named, HasAll, AtLeast, Dirs, Dir
<1>8. NobodysMaker'
  BY DEF BackupInv, BackupTypes, Checks, Makers, Restores, NobodysMaker, loaded, FinishBackup, watches,
         ghosts, NoMaker, Named, HasAll, AtLeast
<1>9. FinishedIsWhole'
  <2>1. maker.pc = "watches" /\ maker.left = {}
    BY DEF FinishBackup
  <2>2. \A v \in maker.steady : AtLeast(maker.has[v], maker.due[v])
    BY <2>1 DEF BackupInv, Copied
  <2>3. HasAll
    BY <2>2 DEF HasAll, AtLeast
  <2>4. QED
    BY <2>3 DEF BackupInv, FinishedIsWhole, FinishBackup, Named
<1>10. QED
  BY <1>1, <1>2, <1>3, <1>4, <1>5, <1>6, <1>7, <1>8, <1>9 DEF BackupInv

LEMMA remove_backupsKeepsInv ==
  ASSUME BackupInv, remove_backups
  PROVE  BackupInv'
<1>1. BackupTypes'
  BY NoneAssumption DEF BackupInv, BackupTypes, Checks, Makers, Restores, UnderWay, Places, loaded,
                        remove_backups, watches, ghosts
<1>2. UnderWay'
  BY NoneAssumption DEF BackupInv, BackupTypes, Checks, Makers, Restores, UnderWay, loaded, remove_backups,
                        watches, ghosts
<1>3. Untouched'
  BY NoneAssumption DEF BackupInv, BackupTypes, Checks, Makers, Restores, UnderWay, Untouched, loaded,
                        remove_backups, watches, ghosts, Dirs, Dir
<1>4. NotBehind'
  BY NoneAssumption DEF BackupInv, BackupTypes, Checks, Makers, Restores, UnderWay, Untouched, NotBehind,
                        loaded, remove_backups, watches, ghosts, Dirs, Dir
<1>5. Lasting'
  BY NoneAssumption DEF BackupInv, BackupTypes, Checks, Makers, Restores, UnderWay, Lasting, loaded,
                        remove_backups, watches, ghosts, Dirs, Dir
<1>6. Staying'
  BY NoneAssumption DEF BackupInv, BackupTypes, Checks, Makers, Restores, Untouched, NotBehind, NobodysMaker,
                        Staying, AtLeast, loaded, remove_backups, watches, ghosts, Dirs, Dir
<1>7. Copied'
  BY NoneAssumption DEF BackupInv, BackupTypes, Checks, Makers, Restores, Copied, loaded, remove_backups,
                        watches, ghosts, Dirs, Dir
<1>8. NobodysMaker'
  BY DEF BackupInv, BackupTypes, Checks, Makers, Restores, NobodysMaker, loaded, remove_backups, watches,
         ghosts
<1>9. FinishedIsWhole'
  BY DEF BackupInv, FinishedIsWhole, loaded, remove_backups, watches, ghosts
<1>10. QED
  BY <1>1, <1>2, <1>3, <1>4, <1>5, <1>6, <1>7, <1>8, <1>9 DEF BackupInv

LEMMA backups_restore_startKeepsInv ==
  ASSUME BackupInv, backups_restore_start
  PROVE  BackupInv'
<1>1. BackupTypes'
  BY NoneAssumption DEF BackupInv, BackupTypes, Checks, Makers, Restores, UnderWay, Places, loaded,
                        backups_restore_start, watches, backups
<1>2. UnderWay'
  BY NoneAssumption DEF BackupInv, BackupTypes, Checks, Makers, Restores, UnderWay, loaded,
                        backups_restore_start, watches, backups
<1>3. Untouched'
  BY NoneAssumption DEF BackupInv, BackupTypes, Checks, Makers, Restores, UnderWay, Untouched, loaded,
                        backups_restore_start, watches, backups, Dirs, Dir
<1>4. NotBehind'
  BY NoneAssumption DEF BackupInv, BackupTypes, Checks, Makers, Restores, UnderWay, Untouched, NotBehind,
                        loaded, backups_restore_start, watches, backups, Dirs, Dir
<1>5. Lasting'
  BY NoneAssumption DEF BackupInv, BackupTypes, Checks, Makers, Restores, UnderWay, Lasting, loaded,
                        backups_restore_start, watches, backups, Dirs, Dir
<1>6. Staying'
  BY NoneAssumption DEF BackupInv, BackupTypes, Checks, Makers, Restores, Untouched, NotBehind, NobodysMaker,
                        Staying, AtLeast, loaded, backups_restore_start, watches, backups, Dirs, Dir
<1>7. Copied'
  BY NoneAssumption DEF BackupInv, BackupTypes, Checks, Makers, Restores, Copied, loaded,
                        backups_restore_start, watches, backups, Dirs, Dir
<1>8. NobodysMaker'
  BY DEF BackupInv, BackupTypes, Checks, Makers, Restores, NobodysMaker, loaded, backups_restore_start,
         watches, backups
<1>9. FinishedIsWhole'
  BY DEF BackupInv, FinishedIsWhole, loaded, backups_restore_start, watches, backups
<1>10. QED
  BY <1>1, <1>2, <1>3, <1>4, <1>5, <1>6, <1>7, <1>8, <1>9 DEF BackupInv

LEMMA PassesOverKeepsInv ==
  ASSUME BackupInv, PassesOver
  PROVE  BackupInv'
<1>1. BackupTypes'
  <2>1. back' \in Restores
    <3>1. CASE back' = NoRestore
      BY <3>1, NobodysIn
    <3>2. CASE \E u \in back.left : back' = [back EXCEPT !.left = @ \ {u}]
      BY <3>2 DEF BackupInv, BackupTypes, Restores
    <3>3. QED
      BY <3>1, <3>2 DEF PassesOver
  <2>2. QED
    BY <2>1 DEF BackupInv, BackupTypes, Checks, Makers, Restores, PassesOver, watches, backups
<1>2. UnderWay'
  BY NoneAssumption DEF BackupInv, BackupTypes, Checks, Makers, Restores, UnderWay, loaded, PassesOver,
                        watches, backups, NoRestore
<1>3. Untouched'
  BY NoneAssumption DEF BackupInv, BackupTypes, Checks, Makers, Restores, UnderWay, Untouched, loaded,
                        PassesOver, watches, backups, NoRestore, Dirs, Dir
<1>4. NotBehind'
  BY NoneAssumption DEF BackupInv, BackupTypes, Checks, Makers, Restores, UnderWay, Untouched, NotBehind,
                        loaded, PassesOver, watches, backups, NoRestore, Dirs, Dir
<1>5. Lasting'
  BY NoneAssumption DEF BackupInv, BackupTypes, Checks, Makers, Restores, UnderWay, Lasting, loaded,
                        PassesOver, watches, backups, NoRestore, Dirs, Dir
<1>6. Staying'
  BY NoneAssumption DEF BackupInv, BackupTypes, Checks, Makers, Restores, Untouched, NotBehind, NobodysMaker,
                        Staying, AtLeast, loaded, PassesOver, watches, backups, NoRestore, Dirs, Dir
<1>7. Copied'
  BY NoneAssumption DEF BackupInv, BackupTypes, Checks, Makers, Restores, Copied, loaded, PassesOver,
                        watches, backups, NoRestore, Dirs, Dir
<1>8. NobodysMaker'
  BY DEF BackupInv, BackupTypes, Checks, Makers, Restores, NobodysMaker, loaded, PassesOver, watches,
         backups, NoRestore
<1>9. FinishedIsWhole'
  BY DEF BackupInv, FinishedIsWhole, loaded, PassesOver, watches, backups, NoRestore
<1>10. QED
  BY <1>1, <1>2, <1>3, <1>4, <1>5, <1>6, <1>7, <1>8, <1>9 DEF BackupInv

LEMMA RemovesKeepsInv ==
  ASSUME BackupInv, NEW u, Removes(u)
  PROVE  BackupInv'
<1>1. BackupTypes'
  <2>1. u \in Watches /\ Nothing \in Dir
    BY DEF Removes, BackupInv, BackupTypes, Checks, Makers, Restores, Nothing, Dir
  <2>2. dirs' \in Dirs
    BY <2>1 DEF Removes, BackupInv, BackupTypes, Checks, Makers, Restores, Dirs
  <2>3. back' \in Restores
    BY <2>1 DEF Removes, BackupInv, BackupTypes, Restores, Places
  <2>4. maker' \in Makers
    BY DEF Removes, Disturbed, BackupInv, BackupTypes, Makers
  <2>5. QED
    BY <2>1, <2>2, <2>3, <2>4 DEF Removes, BackupInv, BackupTypes, Checks, Makers, Restores
<1>2. UnderWay'
  BY NoneAssumption DEF BackupInv, BackupTypes, Checks, Makers, Restores, UnderWay, loaded, Removes,
                        Disturbed, Nothing
<1>3. Untouched'
  BY NoneAssumption DEF BackupInv, BackupTypes, Checks, Makers, Restores, UnderWay, Untouched, loaded,
                        Removes, Disturbed, Nothing, Dirs, Dir
<1>4. NotBehind'
  BY NoneAssumption DEF BackupInv, BackupTypes, Checks, Makers, Restores, UnderWay, Untouched, NotBehind,
                        loaded, Removes, Disturbed, Nothing, Dirs, Dir
<1>5. Lasting'
  BY NoneAssumption DEF BackupInv, BackupTypes, Checks, Makers, Restores, UnderWay, Lasting, loaded, Removes,
                        Disturbed, Nothing, Dirs, Dir
<1>6. Staying'
  BY NoneAssumption DEF BackupInv, BackupTypes, Checks, Makers, Restores, Untouched, NotBehind, NobodysMaker,
                        Staying, AtLeast, loaded, Removes, Disturbed, Nothing, Dirs, Dir
<1>7. Copied'
  BY NoneAssumption DEF BackupInv, BackupTypes, Checks, Makers, Restores, Copied, loaded, Removes, Disturbed,
                        Nothing, Dirs, Dir
<1>8. NobodysMaker'
  BY DEF BackupInv, BackupTypes, Checks, Makers, Restores, NobodysMaker, loaded, Removes, Disturbed, Nothing
<1>9. FinishedIsWhole'
  BY DEF BackupInv, FinishedIsWhole, loaded, Removes, Disturbed, Nothing
<1>10. QED
  BY <1>1, <1>2, <1>3, <1>4, <1>5, <1>6, <1>7, <1>8, <1>9 DEF BackupInv

LEMMA RestoreNextKeepsInv ==
  ASSUME BackupInv, RestoreNext
  PROVE  BackupInv'
<1>1. CASE \E u \in back.left : ~Skipped(u) /\ Removes(u)
  BY <1>1, RemovesKeepsInv
<1>2. CASE PassesOver
  BY <1>2, PassesOverKeepsInv
<1>3. QED
  BY <1>1, <1>2 DEF RestoreNext, Removes, PassesOver, watches, backups

LEMMA RestoreCopyKeepsInv ==
  ASSUME BackupInv, RestoreCopy
  PROVE  BackupInv'
<1>1. BackupTypes'
  <2> DEFINE u == back.uuid
  <2>1. u \in Watches /\ back.has \in Dirs
    BY DEF RestoreCopy, BackupInv, UnderWay
  <2>2. back.has[u] \in Dir
    BY <2>1, DirFields
  <2>3. \/ dirs' = [dirs EXCEPT ![u] = back.has[u]] /\ back' = [back EXCEPT !.pc = "memory"]
        \/ UNCHANGED dirs /\ back' = NoRestore
    BY DEF RestoreCopy
  <2>4. UNCHANGED <<fresh, mem, check, clearing, backups, ghosts>>
    BY DEF RestoreCopy
  <2> HIDE DEF u
  <2>5. dirs' \in Dirs
    BY <2>1, <2>2, <2>3 DEF BackupInv, BackupTypes, Checks, Makers, Restores, Dirs
  <2>6. back' \in Restores
    BY <2>3, NobodysIn DEF BackupInv, BackupTypes, Restores
  <2>7. QED
    BY <2>4, <2>5, <2>6 DEF BackupInv, BackupTypes, Checks, Makers, Restores, backups, ghosts
<1>2. UnderWay'
  BY NoneAssumption DEF BackupInv, BackupTypes, Checks, Makers, Restores, UnderWay, loaded, RestoreCopy,
                        backups, ghosts, NoRestore
<1>3. Untouched'
  <2>1. SUFFICES ASSUME NEW v \in fresh
                 PROVE  /\ mem[v] = None /\ dirs'[v].settings = None
                        /\ maker.pc # "none" => maker.has[v].settings = None
                        /\ \A z \in zips : z.has[v].settings = None
                        /\ back'.pc # "none" => back'.has[v].settings = None
    BY DEF RestoreCopy, Untouched, backups
  <2>2. /\ mem[v] = None /\ dirs[v].settings = None
        /\ maker.pc # "none" => maker.has[v].settings = None
        /\ \A z \in zips : z.has[v].settings = None
        /\ back.has[v].settings = None
    BY DEF BackupInv, Untouched, RestoreCopy
  <2>3. v \in Watches /\ dirs \in Dirs /\ back.uuid \in Watches /\ back.has[back.uuid].settings # None
    BY DEF RestoreCopy, BackupInv, BackupTypes, Checks, Makers, Restores, UnderWay
  <2>4. dirs'[v] = dirs[v]
    BY <2>2, <2>3 DEF RestoreCopy, Dirs
  <2>5. back'.pc = "none" \/ back'.has = back.has
    BY DEF RestoreCopy, NoRestore, BackupInv, BackupTypes, Checks, Makers, Restores
  <2>6. QED
    BY <2>2, <2>4, <2>5
<1>4. NotBehind'
  BY NoneAssumption DEF BackupInv, BackupTypes, Checks, Makers, Restores, UnderWay, Untouched, NotBehind,
                        loaded, RestoreCopy, backups, ghosts, NoRestore, Dirs, Dir
<1>5. Lasting'
  BY NoneAssumption DEF BackupInv, BackupTypes, Checks, Makers, Restores, UnderWay, Lasting, loaded,
                        RestoreCopy, backups, ghosts, NoRestore, Dirs, Dir
<1>6. Staying'
  BY NoneAssumption DEF BackupInv, BackupTypes, Checks, Makers, Restores, Untouched, NotBehind, NobodysMaker,
                        Staying, AtLeast, loaded, RestoreCopy, backups, ghosts, NoRestore, Dirs, Dir
<1>7. Copied'
  BY NoneAssumption DEF BackupInv, BackupTypes, Checks, Makers, Restores, Copied, loaded, RestoreCopy,
                        backups, ghosts, NoRestore, Dirs, Dir
<1>8. NobodysMaker'
  BY DEF BackupInv, BackupTypes, Checks, Makers, Restores, NobodysMaker, loaded, RestoreCopy, backups,
         ghosts, NoRestore
<1>9. FinishedIsWhole'
  BY DEF BackupInv, FinishedIsWhole, loaded, RestoreCopy, backups, ghosts, NoRestore
<1>10. QED
  BY <1>1, <1>2, <1>3, <1>4, <1>5, <1>6, <1>7, <1>8, <1>9 DEF BackupInv

LEMMA RestoreMemoryKeepsInv ==
  ASSUME BackupInv, RestoreMemory
  PROVE  BackupInv'
<1>1. BackupTypes'
  <2> DEFINE u == back.uuid
  <2>1. u \in Watches /\ back.has \in Dirs
    BY DEF RestoreMemory, BackupInv, UnderWay
  <2>2. back.has[u].settings \in Nat \cup {None}
    BY <2>1, DirFields
  <2>3. mem' = [mem EXCEPT ![u] = back.has[u].settings] /\ back' = [back EXCEPT !.pc = "save"]
    BY DEF RestoreMemory
  <2>4. UNCHANGED <<fresh, dirs, check, clearing, backups, ghosts>>
    BY DEF RestoreMemory
  <2> HIDE DEF u
  <2>5. QED
    BY <2>1, <2>2, <2>3, <2>4 DEF BackupInv, BackupTypes, Checks, Makers, Restores, backups, ghosts
<1>2. UnderWay'
  BY NoneAssumption DEF BackupInv, BackupTypes, Checks, Makers, Restores, UnderWay, loaded, RestoreMemory,
                        backups, ghosts
<1>3. Untouched'
  BY NoneAssumption DEF BackupInv, BackupTypes, Checks, Makers, Restores, UnderWay, Untouched, loaded,
                        RestoreMemory, backups, ghosts, Dirs, Dir
<1>4. NotBehind'
  BY NoneAssumption DEF BackupInv, BackupTypes, Checks, Makers, Restores, UnderWay, Untouched, NotBehind,
                        loaded, RestoreMemory, backups, ghosts, Dirs, Dir
<1>5. Lasting'
  BY NoneAssumption DEF BackupInv, BackupTypes, Checks, Makers, Restores, UnderWay, Lasting, loaded,
                        RestoreMemory, backups, ghosts, Dirs, Dir
<1>6. Staying'
  BY NoneAssumption DEF BackupInv, BackupTypes, Checks, Makers, Restores, Untouched, NotBehind, NobodysMaker,
                        Staying, AtLeast, loaded, RestoreMemory, backups, ghosts, Dirs, Dir
<1>7. Copied'
  BY NoneAssumption DEF BackupInv, BackupTypes, Checks, Makers, Restores, Copied, loaded, RestoreMemory,
                        backups, ghosts, Dirs, Dir
<1>8. NobodysMaker'
  BY DEF BackupInv, BackupTypes, Checks, Makers, Restores, NobodysMaker, loaded, RestoreMemory, backups,
         ghosts
<1>9. FinishedIsWhole'
  BY DEF BackupInv, FinishedIsWhole, loaded, RestoreMemory, backups, ghosts
<1>10. QED
  BY <1>1, <1>2, <1>3, <1>4, <1>5, <1>6, <1>7, <1>8, <1>9 DEF BackupInv

LEMMA RestoreSaveKeepsInv ==
  ASSUME BackupInv, RestoreSave
  PROVE  BackupInv'
<1>1. dirs' \in Dirs
  <2> DEFINE u == back.uuid
  <2>1. dirs' = [dirs EXCEPT ![u].settings = mem[u]]
    BY DEF RestoreSave
  <2>2. u \in Watches /\ dirs[u] \in Dir /\ mem[u] \in Nat \cup {None}
    BY DEF RestoreSave, BackupInv, BackupTypes, Checks, Makers, Restores, UnderWay, Dirs
  <2>3. [dirs[u] EXCEPT !.settings = mem[u]] \in Dir
    BY <2>2 DEF Dir
  <2>4. QED
    BY <2>1, <2>2, <2>3 DEF BackupInv, BackupTypes, Checks, Makers, Restores, Dirs
<1>2. BackupTypes'
  BY <1>1, NoneAssumption DEF BackupInv, BackupTypes, Checks, Makers, Restores, UnderWay, Places, loaded,
                              RestoreSave, backups
<1>3. UnderWay'
  BY NoneAssumption DEF BackupInv, BackupTypes, Checks, Makers, Restores, UnderWay, loaded, RestoreSave,
                        backups
<1>4. Untouched'
  BY NoneAssumption DEF BackupInv, BackupTypes, Checks, Makers, Restores, UnderWay, Untouched, loaded,
                        RestoreSave, backups, Dirs, Dir
<1>5. NotBehind'
  BY NoneAssumption DEF BackupInv, BackupTypes, Checks, Makers, Restores, UnderWay, Untouched, NotBehind,
                        loaded, RestoreSave, backups, Dirs, Dir
<1>6. Lasting'
  BY NoneAssumption DEF BackupInv, BackupTypes, Checks, Makers, Restores, UnderWay, Lasting, loaded,
                        RestoreSave, backups, Dirs, Dir
<1>7. Staying'
  BY NoneAssumption DEF BackupInv, BackupTypes, Checks, Makers, Restores, Untouched, NotBehind, NobodysMaker,
                        Staying, AtLeast, loaded, RestoreSave, backups, Dirs, Dir
<1>8. Copied'
  BY NoneAssumption DEF BackupInv, BackupTypes, Checks, Makers, Restores, Copied, loaded, RestoreSave,
                        backups, Dirs, Dir
<1>9. NobodysMaker'
  BY DEF BackupInv, BackupTypes, Checks, Makers, Restores, NobodysMaker, loaded, RestoreSave, backups
<1>10. FinishedIsWhole'
  BY DEF BackupInv, FinishedIsWhole, loaded, RestoreSave, backups
<1>11. QED
  BY <1>2, <1>3, <1>4, <1>5, <1>6, <1>7, <1>8, <1>9, <1>10 DEF BackupInv

LEMMA StartAgainKeepsInv ==
  ASSUME BackupInv, StartAgain
  PROVE  BackupInv'
<1>1. BackupTypes'
  <2>1. mem' \in [Watches -> Nat \cup {None}]
    BY DirFields DEF StartAgain, BackupInv, BackupTypes, Checks, Makers, Restores
  <2>2. UNCHANGED <<fresh, dirs, zips, owed, torn>> /\ maker' = NoMaker /\ check' = NoCheck /\ back' = NoRestore
      /\ clearing' = None
    BY DEF StartAgain
  <2>3. QED
    BY <2>1, <2>2, NobodysIn DEF BackupInv, BackupTypes, Checks, Makers, Restores, Places
<1>2. UnderWay'
  BY NoneAssumption DEF BackupInv, BackupTypes, Checks, Makers, Restores, UnderWay, loaded, StartAgain,
                        NoCheck, NoMaker, NoRestore
<1>3. Untouched'
  BY NoneAssumption DEF BackupInv, BackupTypes, Checks, Makers, Restores, UnderWay, Untouched, loaded,
                        StartAgain, NoCheck, NoMaker, NoRestore, Dirs, Dir
<1>4. NotBehind'
  BY NoneAssumption DEF BackupInv, BackupTypes, Checks, Makers, Restores, UnderWay, Untouched, NotBehind,
                        loaded, StartAgain, NoCheck, NoMaker, NoRestore, Dirs, Dir
<1>5. Lasting'
  BY NoneAssumption DEF BackupInv, BackupTypes, Checks, Makers, Restores, UnderWay, Lasting, loaded,
                        StartAgain, NoCheck, NoMaker, NoRestore, Dirs, Dir
<1>6. Staying'
  BY NoneAssumption DEF BackupInv, BackupTypes, Checks, Makers, Restores, Untouched, NotBehind, NobodysMaker,
                        Staying, AtLeast, loaded, StartAgain, NoCheck, NoMaker, NoRestore, Dirs, Dir
<1>7. Copied'
  BY NoneAssumption DEF BackupInv, BackupTypes, Checks, Makers, Restores, Copied, loaded, StartAgain,
                        NoCheck, NoMaker, NoRestore, Dirs, Dir
<1>8. NobodysMaker'
  BY DEF BackupInv, BackupTypes, Checks, Makers, Restores, NobodysMaker, loaded, StartAgain, NoCheck,
         NoMaker, NoRestore
<1>9. FinishedIsWhole'
  BY DEF BackupInv, FinishedIsWhole, loaded, StartAgain, NoCheck, NoMaker, NoRestore
<1>10. QED
  BY <1>1, <1>2, <1>3, <1>4, <1>5, <1>6, <1>7, <1>8, <1>9 DEF BackupInv

\* A maker that owes less has the rest as it was.
LEMMA LeftWithOwesLess ==
  ASSUME BackupInv, NEW u \in Watches, NEW kept, maker' = LeftWith(u, kept)
  PROVE  /\ maker' \in Makers
         /\ maker'.pc = maker.pc /\ maker'.left = maker.left /\ maker'.uuid = maker.uuid
         /\ maker'.files = maker.files /\ maker'.has = maker.has /\ maker'.steady = maker.steady
         /\ maker.pc # "none" =>
              /\ maker'.due \in Owings
              /\ \A v \in Watches : /\ maker'.due[v].settings = maker.due[v].settings
                                    /\ maker'.due[v].entries \subseteq maker.due[v].entries
              /\ maker'.due[u].entries \subseteq kept
<1>1. maker \in Makers
  BY DEF BackupInv, BackupTypes
<1>2. CASE maker.pc = "none"
  BY <1>1, <1>2 DEF LeftWith
<1>3. CASE maker.pc # "none"
  <2> DEFINE less == [maker.due EXCEPT ![u].entries = @ \cap kept]
  <2>1. maker.due \in Owings
    BY <1>3 DEF BackupInv, UnderWay
  <2>2. /\ less \in Owings
        /\ \A v \in Watches : /\ less[v].settings = maker.due[v].settings
                              /\ less[v].entries \subseteq maker.due[v].entries
        /\ less[u].entries \subseteq kept
    BY <2>1 DEF Owings
  <2>3. maker' = [maker EXCEPT !.due = less]
    BY <1>3 DEF LeftWith
  <2> HIDE DEF less
  <2>4. QED
    BY <1>1, <2>2, <2>3 DEF Makers
<1>4. QED
  BY <1>2, <1>3

\* What is copied already is enough for what is owed still.
LEMMA CopiedOfLess ==
  ASSUME BackupInv, NEW u \in Watches, NEW kept, maker' = LeftWith(u, kept)
  PROVE  Copied'
<1>1. /\ maker'.pc = maker.pc /\ maker'.left = maker.left /\ maker'.uuid = maker.uuid
      /\ maker'.files = maker.files /\ maker'.has = maker.has /\ maker'.steady = maker.steady
  BY LeftWithOwesLess
<1>2. SUFFICES ASSUME NEW v \in maker.steady \ maker.left
               PROVE  IF maker.pc = "files" /\ maker.uuid = v
                      THEN LET is == maker.has[v]   was == maker'.due[v]
                           IN  /\ was.settings # None => \/ "settings" \in maker.files
                                                         \/ is.settings # None /\ is.settings >= was.settings
                               /\ was.entries \subseteq is.snaps \cup maker.files
                               /\ "index" \in maker.files \/ was.entries \subseteq is.listed
                      ELSE AtLeast(maker.has[v], maker'.due[v])
  BY <1>1 DEF Copied
<1>3. v \in Watches /\ maker.pc # "none"
  BY <1>2 DEF BackupInv, BackupTypes, Makers, NobodysMaker
<1>4. maker'.due[v].settings = maker.due[v].settings /\ maker'.due[v].entries \subseteq maker.due[v].entries
  BY <1>3, LeftWithOwesLess
<1>5. QED
  BY <1>2, <1>4 DEF BackupInv, Copied, AtLeast

LEMMA history_trimKeepsInv ==
  ASSUME BackupInv, history_trim
  PROVE  BackupInv'
<1> DEFINE u == check.uuid
<1>1. PICK gone \in SUBSET (Readable(u).entries \ {check.entry}) :
        /\ dirs' = [dirs EXCEPT ![u].snaps = @ \ gone]
        /\ check' = [check EXCEPT !.pc = "rewrite", !.keep = Readable(u).entries \ gone]
        /\ maker' = LeftWith(u, Entries \ gone)
  BY DEF history_trim
<1>2. /\ u \in Watches /\ dirs \in Dirs /\ dirs[u] \in Dir /\ check \in Checks
      /\ UNCHANGED <<fresh, mem, clearing, zips, back, owed, torn>>
  BY DEF history_trim, BackupInv, BackupTypes, UnderWay, Dirs, ghosts
<1>3. /\ dirs' \in Dirs
      /\ \A v \in Watches : /\ dirs'[v].settings = dirs[v].settings /\ dirs'[v].listed = dirs[v].listed
                            /\ v # u => dirs'[v] = dirs[v]
      /\ dirs'[u].snaps = dirs[u].snaps \ gone
  BY <1>1, <1>2 DEF Dirs, Dir
<1>4. /\ check' \in Checks /\ check'.uuid = check.uuid /\ check'.entry = check.entry
      /\ check'.pc = "rewrite" /\ check.pc # "none"
  <2>1. Readable(u).entries \ gone \subseteq Entries
    BY <1>2 DEF Readable, Dir
  <2>2. QED
    BY <1>1, <1>2, <2>1 DEF Checks, history_trim
<1>5. /\ maker' \in Makers /\ maker'.pc = maker.pc /\ maker'.left = maker.left /\ maker'.uuid = maker.uuid
      /\ maker'.files = maker.files /\ maker'.has = maker.has /\ maker'.steady = maker.steady
      /\ maker.pc # "none" =>
           /\ maker'.due \in Owings
           /\ \A v \in Watches : /\ maker'.due[v].settings = maker.due[v].settings
                                 /\ maker'.due[v].entries \subseteq maker.due[v].entries
           /\ maker'.due[u].entries \subseteq Entries \ gone
  BY <1>1, <1>2, LeftWithOwesLess
<1>6. Copied'
  BY <1>1, <1>2, CopiedOfLess
<1> HIDE DEF u
<1>7. BackupTypes'
  BY <1>2, <1>3, <1>4, <1>5 DEF BackupInv, BackupTypes
<1>8. UnderWay'
  BY <1>2, <1>3, <1>4, <1>5 DEF BackupInv, UnderWay
<1>9. Untouched' /\ NotBehind' /\ Lasting'
  BY <1>2, <1>3, <1>5 DEF BackupInv, BackupTypes, Untouched, NotBehind, Lasting
<1>10. Staying'
  <2>1. SUFFICES ASSUME NEW v \in maker.steady
                 PROVE  mem[v] # None /\ v # back.uuid /\ AtLeast(dirs'[v], maker'.due[v])
    BY <1>2, <1>5 DEF Staying
  <2>2. v \in Watches /\ maker.pc # "none" /\ mem[v] # None /\ v # back.uuid /\ AtLeast(dirs[v], maker.due[v])
    BY DEF BackupInv, BackupTypes, Makers, Staying, NobodysMaker
  <2>3. CASE v = u
    BY <1>3, <1>5, <2>2, <2>3 DEF AtLeast
  <2>4. CASE v # u
    BY <1>3, <1>5, <2>2, <2>4 DEF AtLeast
  <2>5. QED
    BY <2>2, <2>3, <2>4
<1>11. NobodysMaker' /\ FinishedIsWhole'
  BY <1>2, <1>5 DEF BackupInv, NobodysMaker, FinishedIsWhole
<1>12. QED
  BY <1>6, <1>7, <1>8, <1>9, <1>10, <1>11 DEF BackupInv

LEMMA RewriteIndexKeepsInv ==
  ASSUME BackupInv, RewriteIndex
  PROVE  BackupInv'
<1> DEFINE u == check.uuid
<1>1. /\ u \in Watches /\ dirs \in Dirs /\ dirs[u] \in Dir /\ check \in Checks /\ check.keep \subseteq Entries
      /\ UNCHANGED <<fresh, mem, clearing, zips, back, owed, torn>>
  BY DEF RewriteIndex, BackupInv, BackupTypes, UnderWay, Dirs, Checks, ghosts
<1>2. /\ check' \in Checks /\ check'.uuid = check.uuid /\ check'.entry = check.entry
      /\ check'.pc = "temp" /\ check.pc # "none"
  BY <1>1 DEF RewriteIndex, Checks
<1>3. CASE UNCHANGED <<dirs, maker>>
  <2>1. BackupTypes' /\ UnderWay'
    BY <1>1, <1>2, <1>3 DEF BackupInv, BackupTypes, UnderWay
  <2>2. /\ Untouched' /\ NotBehind' /\ Lasting' /\ Staying' /\ Copied' /\ NobodysMaker' /\ FinishedIsWhole'
    BY <1>1, <1>3 DEF BackupInv, Untouched, NotBehind, Lasting, Staying, Copied, NobodysMaker, FinishedIsWhole
  <2>3. QED
    BY <2>1, <2>2 DEF BackupInv
<1>4. CASE dirs' = [dirs EXCEPT ![u].listed = check.keep] /\ maker' = LeftWith(u, check.keep)
  <2>1. /\ dirs' \in Dirs
        /\ \A v \in Watches : /\ dirs'[v].settings = dirs[v].settings /\ dirs'[v].snaps = dirs[v].snaps
                              /\ v # u => dirs'[v] = dirs[v]
        /\ dirs'[u].listed = check.keep
    BY <1>1, <1>4 DEF Dirs, Dir
  <2>2. /\ maker' \in Makers /\ maker'.pc = maker.pc /\ maker'.left = maker.left /\ maker'.uuid = maker.uuid
        /\ maker'.files = maker.files /\ maker'.has = maker.has /\ maker'.steady = maker.steady
        /\ maker.pc # "none" =>
             /\ maker'.due \in Owings
             /\ \A v \in Watches : /\ maker'.due[v].settings = maker.due[v].settings
                                   /\ maker'.due[v].entries \subseteq maker.due[v].entries
             /\ maker'.due[u].entries \subseteq check.keep
    BY <1>1, <1>4, LeftWithOwesLess
  <2>3. Copied'
    BY <1>1, <1>4, CopiedOfLess
  <2> HIDE DEF u
  <2>4. BackupTypes' /\ UnderWay'
    BY <1>1, <1>2, <2>1, <2>2 DEF BackupInv, BackupTypes, UnderWay
  <2>5. Untouched' /\ NotBehind' /\ Lasting'
    BY <1>1, <2>1, <2>2 DEF BackupInv, BackupTypes, Untouched, NotBehind, Lasting
  <2>6. Staying'
    <3>1. SUFFICES ASSUME NEW v \in maker.steady
                   PROVE  mem[v] # None /\ v # back.uuid /\ AtLeast(dirs'[v], maker'.due[v])
      BY <1>1, <2>2 DEF Staying
    <3>2. v \in Watches /\ maker.pc # "none" /\ mem[v] # None /\ v # back.uuid /\ AtLeast(dirs[v], maker.due[v])
      BY DEF BackupInv, BackupTypes, Makers, Staying, NobodysMaker
    <3>3. CASE v = u
      BY <2>1, <2>2, <3>2, <3>3 DEF AtLeast
    <3>4. CASE v # u
      BY <2>1, <2>2, <3>2, <3>4 DEF AtLeast
    <3>5. QED
      BY <3>2, <3>3, <3>4
  <2>7. NobodysMaker' /\ FinishedIsWhole'
    BY <1>1, <2>2 DEF BackupInv, NobodysMaker, FinishedIsWhole
  <2>8. QED
    BY <2>3, <2>4, <2>5, <2>6, <2>7 DEF BackupInv
<1>5. QED
  BY <1>3, <1>4 DEF RewriteIndex

LEMMA ClearFilesKeepsInv ==
  ASSUME BackupInv, ClearFiles
  PROVE  BackupInv'
<1>1. PICK u \in loaded :
        /\ clearing' = u /\ dirs' = [dirs EXCEPT ![u] = Nothing]
        /\ check' \in {check, NoCheck}
        /\ torn' = torn \cup {u} /\ maker' = Disturbed({u})
  BY DEF ClearFiles
<1>2. UNCHANGED <<fresh, mem, zips, back, owed>> /\ u \in Watches /\ mem[u] # None /\ u \notin fresh
  BY <1>1 DEF ClearFiles, loaded, BackupInv, Untouched
<1>3. /\ dirs' \in Dirs /\ dirs'[u].settings = None
      /\ \A v \in Watches : v # u => dirs'[v] = dirs[v]
  BY <1>1, <1>2 DEF BackupInv, BackupTypes, Dirs, Dir, Nothing
<1>4. /\ maker' \in Makers /\ maker'.pc = maker.pc /\ maker'.left = maker.left /\ maker'.uuid = maker.uuid
      /\ maker'.files = maker.files /\ maker'.has = maker.has /\ maker'.due = maker.due
      /\ maker'.steady = maker.steady \ {u}
  BY <1>1 DEF BackupInv, BackupTypes, Makers, Disturbed
<1>5. BackupTypes'
  BY <1>1, <1>2, <1>3, <1>4, NobodysIn DEF BackupInv, BackupTypes, Places
<1>6. UnderWay'
  BY <1>1, <1>2, <1>4 DEF BackupInv, UnderWay, NoCheck
<1>7. Untouched' /\ NotBehind' /\ Lasting'
  BY <1>1, <1>2, <1>3, <1>4 DEF BackupInv, BackupTypes, Untouched, NotBehind, Lasting
<1>8. Staying' /\ Copied' /\ NobodysMaker' /\ FinishedIsWhole'
  <2>1. maker.steady \subseteq Watches
    BY DEF BackupInv, BackupTypes, Makers
  <2>2. QED
    BY <1>2, <1>3, <1>4, <2>1 DEF BackupInv, Staying, Copied, NobodysMaker, FinishedIsWhole
<1>9. QED
  BY <1>5, <1>6, <1>7, <1>8 DEF BackupInv

LEMMA ClearSavesKeepsInv ==
  ASSUME BackupInv, ClearSaves
  PROVE  BackupInv'
<1> DEFINE u == clearing
<1>1. /\ UNCHANGED <<fresh, mem, check, maker, zips, back>> /\ u \in Watches /\ clearing' = None
      /\ dirs \in Dirs /\ mem \in [Watches -> Nat \cup {None}]
  BY DEF ClearSaves, BackupInv, BackupTypes, Places, backups
<1>2. /\ dirs' \in Dirs
      /\ \A v \in Watches :
           /\ dirs'[v].listed = dirs[v].listed /\ dirs'[v].snaps = dirs[v].snaps
           /\ \/ dirs'[v].settings = dirs[v].settings
              \/ v = u /\ mem[u] # None /\ dirs'[v].settings = mem[u]
      /\ owed' \subseteq Watches /\ torn' \subseteq Watches
      /\ \/ owed' = owed /\ torn' = torn
         \/ /\ owed' = owed \cup {u} /\ torn' = torn \ {u}
            /\ mem[u] # None /\ dirs'[u].settings = mem[u]
  <2>1. CASE mem[u] = None
    BY <1>1, <2>1 DEF ClearSaves, BackupInv, BackupTypes
  <2>2. CASE mem[u] # None
    <3>1. dirs' = [dirs EXCEPT ![u].settings = mem[u]] /\ owed' = owed \cup {u} /\ torn' = torn \ {u}
      BY <2>2 DEF ClearSaves
    <3>2. owed \subseteq Watches /\ torn \subseteq Watches
      BY DEF BackupInv, BackupTypes
    <3>3. QED
      BY <1>1, <2>2, <3>1, <3>2 DEF Dirs, Dir
  <2>3. QED
    BY <2>1, <2>2
<1> HIDE DEF u
<1>3. BackupTypes' /\ UnderWay'
  BY <1>1, <1>2 DEF BackupInv, BackupTypes, UnderWay, Places
<1>4. Untouched'
  BY <1>1, <1>2 DEF BackupInv, BackupTypes, Untouched
<1>5. NotBehind' /\ Lasting'
  <2>1. Lasting'
    BY <1>1, <1>2 DEF BackupInv, Lasting
  <2>2. SUFFICES ASSUME NEW v \in Watches
                 PROVE  \/ mem[v] = None \/ dirs'[v].settings = None \/ mem[v] >= dirs'[v].settings
                        \/ back.uuid = v /\ back.pc \in {"memory", "save"}
    BY <1>1, <2>1 DEF NotBehind
  <2>3. QED
    BY <1>1, <1>2 DEF BackupInv, NotBehind
<1>6. Staying'
  <2>1. SUFFICES ASSUME NEW v \in maker.steady
                 PROVE  mem[v] # None /\ v # back.uuid /\ AtLeast(dirs'[v], maker.due[v])
    BY <1>1 DEF Staying
  <2>2. v \in Watches /\ maker.pc # "none" /\ mem[v] # None /\ v # back.uuid /\ AtLeast(dirs[v], maker.due[v])
    BY DEF BackupInv, BackupTypes, Makers, Staying, NobodysMaker
  <2>3. maker.due[v].settings \in Nat \cup {None} /\ dirs[v].settings \in Nat \cup {None} /\ mem[v] \in Nat
    BY <1>1, <2>2, DirFields, OwingFields DEF BackupInv, UnderWay
  <2>4. dirs[v].settings # None => mem[v] >= dirs[v].settings
    BY <2>2 DEF BackupInv, NotBehind
  <2>5. CASE dirs'[v].settings = dirs[v].settings
    BY <1>2, <2>2, <2>5 DEF AtLeast
  <2>6. CASE dirs'[v].settings = mem[v]
    <3>1. maker.due[v].settings # None => dirs'[v].settings # None /\ dirs'[v].settings >= maker.due[v].settings
      <4>1. SUFFICES ASSUME maker.due[v].settings # None
                     PROVE  mem[v] # None /\ mem[v] >= maker.due[v].settings
        BY <2>6
      <4>2. /\ dirs[v].settings \in Nat /\ dirs[v].settings >= maker.due[v].settings
            /\ maker.due[v].settings \in Nat /\ mem[v] >= dirs[v].settings
        BY <4>1, <2>2, <2>3, <2>4 DEF AtLeast
      <4>3. QED
        BY <4>2, <2>2, <2>3
    <3>2. QED
      BY <1>2, <2>2, <3>1 DEF AtLeast
  <2>7. QED
    BY <1>2, <2>2, <2>5, <2>6
<1>7. Copied' /\ NobodysMaker' /\ FinishedIsWhole'
  BY <1>1 DEF BackupInv, Copied, NobodysMaker, FinishedIsWhole
<1>8. QED
  BY <1>3, <1>4, <1>5, <1>6, <1>7 DEF BackupInv

LEMMA BackupsKeepInv == BackupInv /\ [BackupsNext]_backupsVars => BackupInv'
<1> SUFFICES ASSUME BackupInv, [BackupsNext]_backupsVars
             PROVE  BackupInv'
  OBVIOUS
<1>1. CASE Import
  BY <1>1, ImportKeepsInv
<1>2. CASE CheckBegins
  BY <1>2, CheckBeginsKeepsInv
<1>3. CASE CheckGoesOn
  BY <1>3, CheckGoesOnKeepsInv
<1>4. CASE EditSettings
  BY <1>4, EditSettingsKeepsInv
<1>5. CASE Delete
  BY <1>5, DeleteKeepsInv
<1>6. CASE create_backup
  BY <1>6, create_backupKeepsInv
<1>7. CASE NextWatch
  BY <1>7, NextWatchKeepsInv
<1>8. CASE AddFile
  BY <1>8, AddFileKeepsInv
<1>9. CASE FinishBackup
  BY <1>9, FinishBackupKeepsInv
<1>10. CASE remove_backups
  BY <1>10, remove_backupsKeepsInv
<1>11. CASE backups_restore_start
  BY <1>11, backups_restore_startKeepsInv
<1>12. CASE RestoreNext
  BY <1>12, RestoreNextKeepsInv
<1>13. CASE RestoreCopy
  BY <1>13, RestoreCopyKeepsInv
<1>14. CASE RestoreMemory
  BY <1>14, RestoreMemoryKeepsInv
<1>15. CASE RestoreSave
  BY <1>15, RestoreSaveKeepsInv
<1>16. CASE StartAgain
  BY <1>16, StartAgainKeepsInv
<1>17. CASE history_trim
  BY <1>17, history_trimKeepsInv
<1>18. CASE RewriteIndex
  BY <1>18, RewriteIndexKeepsInv
<1>19. CASE ClearFiles
  BY <1>19, ClearFilesKeepsInv
<1>20. CASE ClearSaves
  BY <1>20, ClearSavesKeepsInv
<1>21. CASE UNCHANGED backupsVars
  <2>1. /\ fresh' = fresh /\ mem' = mem /\ dirs' = dirs /\ check' = check /\ clearing' = clearing /\ maker' = maker /\ zips' = zips
        /\ back' = back /\ owed' = owed /\ torn' = torn
    BY <1>21 DEF backupsVars, watches, backups, ghosts
  <2>2. QED
    BY <2>1 DEF BackupInv, BackupTypes, UnderWay, Untouched, NotBehind, Lasting, Staying, Copied,
                NobodysMaker,
                FinishedIsWhole
<1>22. QED
  BY <1>1, <1>2, <1>3, <1>4, <1>5, <1>6, <1>7, <1>8, <1>9, <1>10, <1>11, <1>12, <1>13, <1>14, <1>15, <1>16, <1>17, <1>18,
     <1>19, <1>20, <1>21 DEF BackupsNext

\* FinishedIsWhole and NothingLost: for any watches and histories, a backup that has its name holds
\* of every watch that was not deleted, put back or cleared meanwhile the settings there were when
\* it was begun, or newer ones, and every entry that no trim has taken since; and a watch that was
\* saved and not deleted survives backups, restores, trims and restarts at any step, but where its
\* restore failed, or its restore or clearing was cut short (backups/__init__.py, restore.py).
THEOREM BackupsAreWhole == BackupsSpec => [](FinishedIsWhole /\ NothingLost)
<1>1. BackupInv => FinishedIsWhole /\ NothingLost
  BY DEF BackupInv, Lasting, NothingLost
<1>2. QED
  BY <1>1, BackupInit, BackupsKeepInv, PTL DEF BackupsSpec

-----------------------------------------------------------------------------
\* NothingForgotten, both of the above, as the run checks them.
THEOREM NothingIsForgotten == BackupsSpec /\ ImportsSpec => []NothingForgotten
<1>1. FinishedIsWhole /\ NothingLost /\ EveryLineAccounted /\ RefusedIsNothing => NothingForgotten
  BY DEF NothingForgotten
<1>2. QED
  BY <1>1, BackupsAreWhole, LinesAreAccounted, PTL
=============================================================================
