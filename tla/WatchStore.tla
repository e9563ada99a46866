------------------------------ MODULE WatchStore ------------------------------
(***************************************************************************)
(* The datastore of src/changedetectionio/store: watches in memory, each   *)
(* saved to a watch.json of its own as soon as it changes.                 *)
(*                                                                         *)
(* Any thread may change a watch: a worker through update_watch(), which   *)
(* merges under datastore.lock, a web request by writing to the Watch      *)
(* object and calling its commit().  commit() copies the object and saves  *)
(* the copy, a temporary file renamed over watch.json, without the lock:   *)
(* the object's _datastore is the data dictionary, which has none.         *)
(* delete() removes the files first and the watch from memory after, under *)
(* the lock.  A restart reads back what is on disk.                        *)
(*                                                                         *)
(* A watch's fields are one version number, raised by every change.        *)
(***************************************************************************)
EXTENDS Integers, FiniteSets

CONSTANTS
  Uuids,       \* watch UUIDs, each given to one new watch only
  Actors,      \* threads that use the store
  Adders,      \* those of them that add watches
  Limit,       \* PAGE_WATCH_LIMIT
  MaxVersion,  \* bound on the changes of one watch
  Failures,    \* TRUE: a save may fail (disk full, I/O error)
  Absent, NoOne

ASSUME AddersAssumption == Adders \subseteq Actors
ASSUME LimitAssumption == Limit \in Nat
ASSUME MaxVersionAssumption == MaxVersion \in Nat \ {0}
ASSUME FailuresAssumption == Failures \in BOOLEAN
ASSUME AbsentAssumption == Absent \notin Nat
ASSUME NoOneAssumption == NoOne \notin Actors

VARIABLES
  unused,     \* UUIDs no watch has had yet
  watching,   \* the keys of __data['watching']
  version,    \* version[u]: the fields of u's Watch object
  disk,       \* disk[u]: what u's watch.json holds
  temps,      \* temps[u]: the actors whose temporary file is in u's directory
  lock,       \* who holds datastore.lock
  pc,         \* pc[a]: where actor a is
  uuid,       \* uuid[a]: the watch it works on
  snapshot,   \* snapshot[a]: the copy that commit() saves
  failed,     \* watches whose last save failed
  contended   \* watches whose last commit ran beside another or a deletion

memory == <<unused, watching, version>>
files == <<disk, temps>>
marks == <<failed, contended>>
vars == <<memory, files, marks, lock, pc, uuid, snapshot>>

Init == /\ unused = Uuids
        /\ watching = {}
        /\ version = [u \in Uuids |-> Absent]
        /\ disk = [u \in Uuids |-> Absent]
        /\ temps = [u \in Uuids |-> {}]
        /\ lock = NoOne
        /\ pc = [a \in Actors |-> "idle"]
        /\ uuid \in {[a \in Actors |-> u] : u \in Uuids}
        /\ snapshot = [a \in Actors |-> Absent]
        /\ failed = {}
        /\ contended = {}

\* Who is at one of the places ps with watch u.
At(u, ps) == {a \in Actors : uuid[a] = u /\ pc[a] \in ps}

Go(a, place) == pc' = [pc EXCEPT ![a] = place]

Begin(a, u, place) == /\ pc[a] = "idle"
                      /\ Go(a, place)
                      /\ uuid' = [uuid EXCEPT ![a] = u]

\* u is worked on while one of the others is in the middle of it.
Mark(u, others) == contended' = IF others = {} THEN contended ELSE contended \cup {u}

\* A commit with nobody else in the middle of it puts right what went before.
MarkCommit(u, others) ==
  contended' = IF others # {} THEN contended \cup {u}
                              ELSE contended \ (watching \cap {u})

-----------------------------------------------------------------------------
\* add_watch(): the limit is checked ...

\* Mutant: the limit itself is let through.
LimitReached_OffByOne == Cardinality(watching) > Limit

LimitReached == Cardinality(watching) >= Limit

AddCheck(a) == /\ a \in Adders
               /\ ~LimitReached
               /\ \E u \in unused : Begin(a, u, "add") /\ unused' = unused \ {u}
               /\ UNCHANGED <<watching, version, files, marks, lock, snapshot>>

\* ... and the watch inserted and committed, with no lock.
AddInsert(a) == /\ pc[a] = "add"
                /\ watching' = watching \cup {uuid[a]}
                /\ version' = [version EXCEPT ![uuid[a]] = 1]
                /\ Go(a, "edited")
                /\ UNCHANGED <<unused, files, marks, lock, uuid, snapshot>>

-----------------------------------------------------------------------------
\* Changing a watch.

Change(u) == /\ version[u] < MaxVersion
             /\ version' = [version EXCEPT ![u] = @ + 1]

\* A request writes to the Watch object it looked up, which it then commits.
Edit(a, u) == /\ u \in watching
              /\ Begin(a, u, "edited")
              /\ Change(u)
              /\ Mark(u, At(u, {"delete"}))
              /\ UNCHANGED <<unused, watching, files, failed, lock, snapshot>>

\* update_watch(): "It's possible that the watch could be deleted before update".
UpdateBegin(a, u) == /\ u \in watching
                     /\ Begin(a, u, "update")
                     /\ UNCHANGED <<memory, files, marks, lock, snapshot>>

UpdateMerge(a) == /\ pc[a] = "update"
                  /\ lock = NoOne
                  /\ uuid[a] \in watching
                  /\ Change(uuid[a])
                  /\ Go(a, "updated")
                  /\ UNCHANGED <<unused, watching, files, marks, lock, uuid, snapshot>>

\* The watch was deleted in between, before the merge or before the commit:
\* KeyError.
UpdateGone(a) == /\ \/ pc[a] = "update" /\ lock = NoOne
                    \/ pc[a] = "updated"
                 /\ uuid[a] \notin watching
                 /\ Go(a, "idle")
                 /\ UNCHANGED <<memory, files, marks, lock, uuid, snapshot>>

-----------------------------------------------------------------------------
\* commit(): copy, write a temporary file, rename it over watch.json.

\* update_watch() looks the object up once more, the others hold on to it.
CommitCopy(a) == /\ \/ pc[a] = "edited"
                    \/ pc[a] = "updated" /\ uuid[a] \in watching
                 /\ snapshot' = [snapshot EXCEPT ![a] = version[uuid[a]]]
                 /\ Go(a, "save")
                 /\ MarkCommit(uuid[a], At(uuid[a], {"save", "replace", "delete"}) \ {a})
                 /\ UNCHANGED <<memory, files, failed, lock, uuid>>

\* Mutant: watch.json itself is opened for writing.
SaveTemp_InPlace(a) == /\ pc[a] = "save"
                       /\ temps' = [temps EXCEPT ![uuid[a]] = @ \cup {a}]
                       /\ disk' = [disk EXCEPT ![uuid[a]] = Absent]
                       /\ Go(a, "replace")
                       /\ UNCHANGED <<memory, marks, lock, uuid, snapshot>>

\* save_json_atomic(): the directory is created if need be.
SaveTemp(a) == /\ pc[a] = "save"
               /\ temps' = [temps EXCEPT ![uuid[a]] = @ \cup {a}]
               /\ Go(a, "replace")
               /\ UNCHANGED <<memory, disk, marks, lock, uuid, snapshot>>

\* Mutant: the copy never reaches watch.json.
SaveReplace_Skip(a) == /\ pc[a] = "replace"
                       /\ a \in temps[uuid[a]]
                       /\ temps' = [temps EXCEPT ![uuid[a]] = @ \ {a}]
                       /\ failed' = failed \ {uuid[a]}
                       /\ Go(a, "idle")
                       /\ UNCHANGED <<memory, disk, contended, lock, uuid, snapshot>>

SaveReplace(a) == /\ pc[a] = "replace"
                  /\ a \in temps[uuid[a]]
                  /\ disk' = [disk EXCEPT ![uuid[a]] = snapshot[a]]
                  /\ temps' = [temps EXCEPT ![uuid[a]] = @ \ {a}]
                  /\ failed' = failed \ {uuid[a]}
                  /\ Go(a, "idle")
                  /\ UNCHANGED <<memory, contended, lock, uuid, snapshot>>

\* "Logs errors but does not raise exceptions": when the copy or the save fails
\* the caller goes on as if the watch were saved.  So it does when the temporary
\* file was deleted.
SaveFails(a) == /\ \/ Failures /\ pc[a] \in {"edited", "save", "replace"}
                   \/ Failures /\ pc[a] = "updated" /\ uuid[a] \in watching
                   \/ pc[a] = "replace" /\ a \notin temps[uuid[a]]
                /\ temps' = [temps EXCEPT ![uuid[a]] = @ \ {a}]
                /\ failed' = failed \cup {uuid[a]}
                /\ Go(a, "idle")
                /\ Mark(uuid[a], At(uuid[a], {"save", "replace", "delete"}) \ {a})
                /\ UNCHANGED <<memory, disk, lock, uuid, snapshot>>

-----------------------------------------------------------------------------
\* delete(): the directory's files, then the watch, also when the files could
\* not be deleted.

\* Mutant: the watch is forgotten and its files are left.
DeleteFiles_Keep(a, u) == /\ lock = NoOne
                          /\ u \in watching
                          /\ Begin(a, u, "delete")
                          /\ lock' = a
                          /\ Mark(u, At(u, {"edited", "save", "replace"}))
                          /\ failed' = failed \ {u}
                          /\ UNCHANGED <<memory, files, snapshot>>

DeleteFiles(a, u) == /\ lock = NoOne
                     /\ u \in watching
                     /\ Begin(a, u, "delete")
                     /\ lock' = a
                     /\ Mark(u, At(u, {"edited", "save", "replace"}))
                     /\ \/ /\ disk' = [disk EXCEPT ![u] = Absent]
                           /\ temps' = [temps EXCEPT ![u] = {}]
                           /\ failed' = failed \ {u}
                        \/ /\ Failures
                           /\ failed' = failed \cup {u}
                           /\ UNCHANGED files
                     /\ UNCHANGED <<memory, snapshot>>

DeleteForget(a) == /\ pc[a] = "delete"
                   /\ watching' = watching \ {uuid[a]}
                   /\ lock' = NoOne
                   /\ Go(a, "idle")
                   /\ UNCHANGED <<unused, version, files, marks, uuid, snapshot>>

-----------------------------------------------------------------------------
\* The process is killed at any point and started again: load_all_watches().
\* Temporary files it left behind are nobody's.
Restart == /\ watching' = {u \in Uuids : disk[u] # Absent}
           /\ version' = disk
           /\ temps' = [u \in Uuids |-> {}]
           /\ lock' = NoOne
           /\ pc' = [a \in Actors |-> "idle"]
           /\ snapshot' = [a \in Actors |-> Absent]
           /\ failed' = {}
           /\ contended' = {}
           /\ UNCHANGED <<unused, disk, uuid>>

Step(a) == \/ AddCheck(a) \/ AddInsert(a)
           \/ UpdateMerge(a) \/ UpdateGone(a)
           \/ CommitCopy(a) \/ SaveTemp(a) \/ SaveReplace(a) \/ SaveFails(a)
           \/ DeleteForget(a)
           \/ \E u \in Uuids : Edit(a, u) \/ UpdateBegin(a, u) \/ DeleteFiles(a, u)

Next == Restart \/ \E a \in Actors : Step(a)

Spec == Init /\ [][Next]_vars
-----------------------------------------------------------------------------
\* Every variable keeps its type, and the lock is held while files go.
TypeOK == /\ unused \subseteq Uuids
          /\ watching \subseteq Uuids \ unused
          /\ version \in [Uuids -> Nat \cup {Absent}]
          /\ disk \in [Uuids -> Nat \cup {Absent}]
          /\ temps \in [Uuids -> SUBSET Actors]
          /\ pc \in [Actors -> {"idle", "add", "update", "updated", "edited",
                                "save", "replace", "delete"}]
          /\ uuid \in [Actors -> Uuids]
          /\ snapshot \in [Actors -> Nat \cup {Absent}]
          /\ failed \subseteq Uuids /\ contended \subseteq Uuids
          /\ lock \in Actors \cup {NoOne}
          /\ \A a \in Actors : pc[a] = "delete" <=> lock = a

\* What memory says of u.
Current(u) == IF u \in watching THEN version[u] ELSE Absent

\* Somebody still has something to do about u.
Pending(u) == At(u, {"add", "updated", "edited", "save", "replace", "delete"}) # {}

\* __init__.py on shutdown: "All data already persisted (immediate commits
\* enabled)".  When nobody is in the middle of changing, saving or deleting a
\* watch and its last save did not fail, a restart finds it as it is.
AllPersisted == \A u \in watching : Pending(u) \/ u \in failed \/ disk[u] = version[u]

\* The same for every watch, a deleted one included, whose last commit no other
\* commit or deletion overlapped: a later commit alone puts right what a failed
\* save or overlapping ones left.
PersistedUnlessContended ==
  \A u \in Uuids \ contended : Pending(u) \/ u \in failed \/ disk[u] = Current(u)

\* "Atomic file writes for crash safety": once a watch was saved its file is
\* there, whole, at every point where the process may be killed, whoever else
\* saves it, until the watch is deleted.
SavedStaysReadable ==
  [][\A u \in Uuids : (disk[u] # Absent /\ disk'[u] = Absent) =>
       \E a \in Actors : pc'[a] = "delete" /\ uuid'[a] = u]_vars

\* delete(): a watch that is gone does not come back with a later restart, if
\* its files could be deleted and nobody was saving it meanwhile.
GoneStaysGone ==
  [][\A u \in Uuids \ (watching \cup unused \cup contended \cup failed) :
       u \in watching' => At(u, {"add"}) # {}]_vars

\* add_watch(): "Backstop for PAGE_WATCH_LIMIT": where one thread at a time adds
\* watches no added one goes past the limit, whatever else happens meanwhile.
WithinLimit ==
  [][\A u \in watching' \ watching :
       At(u, {"add"}) = {} \/ Cardinality(watching') <= Limit]_vars
=============================================================================
