------------------------------- MODULE Backups -------------------------------
(***************************************************************************)
(* Backups of the datastore and their way back.                            *)
(*                                                                         *)
(* A backup is written by a thread of its own that goes through the        *)
(* watches and copies the files of each, one by one, while checks go on    *)
(* writing them and watches come and go; it gets its name when it is done. *)
(* A restore goes through the watches of a backup: the directory of each   *)
(* is removed, copied, put in the place of the watch in memory and saved.  *)
(* A check may trim the history, and a history may be cleared, with all    *)
(* files of the watch.  Nothing is locked.  The program may be killed at   *)
(* any step.                                                               *)
(*                                                                         *)
(* A watch's settings are a version number, its history is a set of        *)
(* entries, each a snapshot that the index lists.                          *)
(***************************************************************************)
EXTENDS Integers, FiniteSets

CONSTANTS
  Watches,    \* watches there may be
  Old,        \* those there are at first
  Entries,    \* of a history
  Before,     \* those of the watches there are at first
  PageLimit,  \* PAGE_WATCH_LIMIT
  None,
  MaxBackups, MaxMade, MaxEvents  \* bounds; events are checks, edits, restores, clearings and crashes

ASSUME NoneAssumption == None \notin Nat \cup Watches
ASSUME OldAssumption == Old \subseteq Watches
ASSUME EntriesAssumption == Before \subseteq Entries /\ Entries \cap {"settings", "index", "temp"} = {}

VARIABLES
  fresh,     \* UUIDs no watch has had yet
  mem,       \* mem[u]: the settings in memory, or None
  dirs,      \* dirs[u]: what is in its directory
  check,     \* the check under way
  clearing,  \* the watch whose history is being cleared, or None: one at a time
  maker,     \* the backup under way
  zips,      \* finished backups
  back,      \* the restore under way
  owed,      \* saved and not deleted (a ghost)
  torn,      \* whose restore or clearing was cut short (a ghost)
  spent      \* backups asked for, and events

watches == <<fresh, mem, dirs>>
backups == <<maker, zips>>
ghosts == <<owed, torn, spent>>
backupsVars == <<watches, check, clearing, backups, back, ghosts>>

Nothing == [settings |-> None, listed |-> {}, snaps |-> {}]
loaded == {u \in Watches : mem[u] # None}

\* A backup is told of what happens to the watches while it is made (a ghost).
Disturbed(us) == [maker EXCEPT !.steady = @ \ us]

\* What a backup that is begun now owes of a watch: its settings, and the entries one can read (a ghost).
Readable(u) == [settings |-> dirs[u].settings, entries |-> dirs[u].listed \cap dirs[u].snaps]
\* It owes no entry that a trim has taken.
LeftWith(u, kept) == IF maker.pc = "none" THEN maker ELSE [maker EXCEPT !.due[u].entries = @ \cap kept]

-----------------------------------------------------------------------------
\* Imports, checks, edits and deletions of watches.

page_limit_reached == Cardinality(loaded) >= PageLimit

\* An imported watch is not saved before its first check or edit.
Import == /\ ~page_limit_reached
          /\ \E u \in fresh : fresh' = fresh \ {u} /\ mem' = [mem EXCEPT ![u] = 0]
          /\ UNCHANGED <<dirs, check, clearing, backups, back, ghosts>>

NoCheck == [pc |-> "none", uuid |-> None, entry |-> None, keep |-> {}]

CheckBegins ==
  /\ check.pc = "none"
  /\ spent.events < MaxEvents /\ spent' = [spent EXCEPT !.events = @ + 1]
  /\ \E u \in loaded, e \in Entries :
       /\ e \notin dirs[u].snaps
       /\ dirs' = [dirs EXCEPT ![u].snaps = @ \cup {e}]
       /\ check' = [pc |-> "index", uuid |-> u, entry |-> e, keep |-> {}]
  /\ UNCHANGED <<fresh, mem, clearing, backups, back, owed, torn>>

\* The snapshot is there before the index lists it.  The history may be longer now than history_snapshot_max_length.
\* At last watch.json is written beside and moved over.
CheckGoesOn ==
  LET u == check.uuid
  IN /\ \/ /\ check.pc = "index"
           /\ dirs' = [dirs EXCEPT ![u].listed = @ \cup {check.entry}]
           /\ \E pc \in {"trim", "temp"} : check' = [check EXCEPT !.pc = pc]
           /\ UNCHANGED owed
        \/ /\ check.pc = "temp"
           /\ check' = [check EXCEPT !.pc = "moved"] /\ UNCHANGED <<dirs, owed>>
        \/ /\ check.pc = "moved"
           /\ dirs' = [dirs EXCEPT ![u].settings = mem[u]]
           /\ owed' = IF mem[u] = None THEN owed ELSE owed \cup {u}
           /\ check' = NoCheck
     /\ UNCHANGED <<fresh, mem, clearing, backups, back, torn, spent>>

\* The snapshots of all but the newest entries are removed ...
history_trim ==
  /\ check.pc = "trim"
  /\ LET u == check.uuid   readable == Readable(u).entries
     IN \E gone \in SUBSET (readable \ {check.entry}) :
          /\ gone # {} \/ readable \subseteq {check.entry}
          /\ dirs' = [dirs EXCEPT ![u].snaps = @ \ gone]
          /\ check' = [check EXCEPT !.pc = "rewrite", !.keep = readable \ gone]
          /\ maker' = LeftWith(u, Entries \ gone)
  /\ UNCHANGED <<fresh, mem, clearing, zips, back, ghosts>>

\* ... then the index is written anew, with the entries there were before; a failure is passed over.
RewriteIndex ==
  /\ check.pc = "rewrite"
  /\ \/ /\ dirs' = [dirs EXCEPT ![check.uuid].listed = check.keep]
        /\ maker' = LeftWith(check.uuid, check.keep)
     \/ UNCHANGED <<dirs, maker>>
  /\ check' = [check EXCEPT !.pc = "temp", !.keep = {}]
  /\ UNCHANGED <<fresh, mem, clearing, zips, back, ghosts>>

EditSettings ==
  /\ spent.events < MaxEvents /\ spent' = [spent EXCEPT !.events = @ + 1]
  /\ \E u \in loaded :
       /\ mem' = [mem EXCEPT ![u] = @ + 1]
       /\ dirs' = [dirs EXCEPT ![u].settings = mem[u] + 1]
       /\ owed' = owed \cup {u}
  /\ UNCHANGED <<fresh, check, clearing, backups, back, torn>>

Delete == \E u \in loaded :
            /\ check.uuid # u /\ back.uuid # u
            /\ dirs' = [dirs EXCEPT ![u] = Nothing]
            /\ mem' = [mem EXCEPT ![u] = None]
            /\ owed' = owed \ {u} /\ torn' = torn \ {u}
            /\ maker' = Disturbed({u})
            /\ UNCHANGED <<fresh, check, clearing, zips, back, spent>>

\* A history is cleared: all files of the watch are removed, watch.json and what is to be moved over it too ...
ClearFiles ==
  /\ clearing = None
  /\ spent.events < MaxEvents /\ spent' = [spent EXCEPT !.events = @ + 1]
  /\ \E u \in loaded :
       /\ clearing' = u
       /\ dirs' = [dirs EXCEPT ![u] = Nothing]
       /\ check' = IF check.uuid = u /\ check.pc = "moved" THEN NoCheck ELSE check
       /\ torn' = torn \cup {u}
       /\ maker' = Disturbed({u})
  /\ UNCHANGED <<fresh, mem, zips, back, owed>>

\* ... and the watch is saved anew, if it is there still.
ClearSaves ==
  /\ clearing # None
  /\ IF mem[clearing] = None THEN UNCHANGED <<dirs, owed, torn>>
     ELSE /\ dirs' = [dirs EXCEPT ![clearing].settings = mem[clearing]]
          /\ owed' = owed \cup {clearing} /\ torn' = torn \ {clearing}
  /\ clearing' = None
  /\ UNCHANGED <<fresh, mem, check, backups, back, spent>>

-----------------------------------------------------------------------------
\* A backup.

NoMaker == [pc |-> "none", left |-> {}, size |-> 0, uuid |-> None, files |-> {}, has |-> None,
            steady |-> {}, due |-> None]
Proceeds(pc) == maker' = [maker EXCEPT !.pc = pc, !.uuid = None]

\* One at a time.  As many as there may be is looked at by >.
create_backup ==
  /\ maker.pc = "none" /\ Cardinality(zips) <= MaxBackups
  /\ spent.made < MaxMade /\ spent' = [spent EXCEPT !.made = @ + 1]
  /\ maker' = [NoMaker EXCEPT !.pc = "watches", !.left = loaded, !.size = Cardinality(loaded),
                              !.steady = loaded \ {back.uuid}, !.due = [u \in Watches |-> Readable(u)],
                              !.has = [u \in Watches |-> Nothing]]
  /\ UNCHANGED <<watches, check, clearing, zips, back, owed, torn>>

SameSize == Cardinality(loaded) = maker.size

\* What a check is about to move over watch.json, or over the index.
HasTemp(u) == check.uuid = u /\ check.pc \in {"moved", "rewrite"}

\* The dictionary complains when it has another size; after a deletion and an addition it does not.
NextWatch ==
  /\ maker.pc = "watches"
  /\ IF ~SameSize THEN maker' = NoMaker
     ELSE \E u \in maker.left :
            maker' = [maker EXCEPT !.left = @ \ {u}, !.uuid = u, !.pc = "files",
                                   !.files = IF u \notin loaded THEN {} ELSE
                                      dirs[u].snaps \cup (IF dirs[u].settings = None THEN {} ELSE {"settings"})
                                                    \cup (IF dirs[u].listed = {} THEN {} ELSE {"index"})
                                                    \cup (IF HasTemp(u) THEN {"temp"} ELSE {})]
  /\ UNCHANGED <<watches, check, clearing, zips, back, ghosts>>

There(u, f) == CASE f = "settings" -> dirs[u].settings # None
                 [] f = "index" -> dirs[u].listed # {}
                 [] f = "temp" -> HasTemp(u)
                 [] OTHER -> f \in dirs[u].snaps

\* What a backup has of a watch with one file more.
WithFile(has, u, f) == CASE f = "settings" -> [has EXCEPT !.settings = dirs[u].settings]
                         [] f = "index" -> [has EXCEPT !.listed = dirs[u].listed]
                         [] f = "temp" -> has
                         [] OTHER -> [has EXCEPT !.snaps = @ \cup {f}]

\* The directory was listed in one go; a file that is gone by its turn ends the backup, unnamed.
AddFile ==
  /\ maker.pc = "files"
  /\ LET u == maker.uuid
     IN \/ \E f \in maker.files :
             IF ~There(u, f) THEN maker' = NoMaker
             ELSE maker' = [maker EXCEPT !.files = @ \ {f}, !.has[u] = WithFile(@, u, f)]
        \/ maker.files = {} /\ Proceeds("watches")
  /\ UNCHANGED <<watches, check, clearing, zips, back, ghosts>>

\* Of every watch that stayed, a backup has what it owes at least (a ghost, looked at when it gets its name).
AtLeast(is, was) ==
  /\ was.settings # None => is.settings # None /\ is.settings >= was.settings
  /\ was.entries \subseteq is.snaps \cap is.listed

HasAll == \A u \in maker.steady : AtLeast(maker.has[u], maker.due[u])

Named == zips' = zips \cup {[has |-> maker.has, whole |-> HasAll]}

\* Mutant: it has its name before all is written.
FinishBackup_Early ==
  /\ maker.pc = "watches" /\ SameSize
  /\ Named
  /\ maker' = NoMaker
  /\ UNCHANGED <<watches, check, clearing, back, ghosts>>

FinishBackup ==
  /\ maker.pc = "watches" /\ SameSize /\ maker.left = {}
  /\ Named
  /\ maker' = NoMaker
  /\ UNCHANGED <<watches, check, clearing, back, ghosts>>

remove_backups == /\ zips # {} /\ zips' = {}
                  /\ UNCHANGED <<watches, check, clearing, maker, back, ghosts>>

-----------------------------------------------------------------------------
\* A restore.

NoRestore == [pc |-> "none", has |-> None, left |-> {}, uuid |-> None, replace |-> FALSE]

backups_restore_start ==
  /\ back.pc = "none" /\ spent.events < MaxEvents
  /\ \E z \in zips, replace \in BOOLEAN :
       back' = [pc |-> "next", has |-> z.has, uuid |-> None, replace |-> replace,
                left |-> {u \in Watches : z.has[u].settings # None}]
  /\ spent' = [spent EXCEPT !.events = @ + 1]
  /\ UNCHANGED <<watches, check, clearing, backups, owed, torn>>

\* Without leave to replace it, a watch that is there stays.
Skipped(u) == u \in loaded /\ ~back.replace

\* The directory is removed first.
RestoreNext ==
  /\ back.pc = "next"
  /\ \/ \E u \in back.left :
          IF Skipped(u) THEN back' = [back EXCEPT !.left = @ \ {u}] /\ UNCHANGED <<dirs, maker, torn>>
          ELSE /\ dirs' = [dirs EXCEPT ![u] = Nothing]
               /\ back' = [back EXCEPT !.left = @ \ {u}, !.uuid = u, !.pc = "copy"]
               /\ torn' = torn \cup {u}
               /\ maker' = Disturbed({u})
     \/ back.left = {} /\ back' = NoRestore /\ UNCHANGED <<dirs, maker, torn>>
  /\ UNCHANGED <<fresh, mem, check, clearing, zips, owed, spent>>

\* Then copied: a failure ends the import of this file.
RestoreCopy ==
  /\ back.pc = "copy"
  /\ \/ /\ dirs' = [dirs EXCEPT ![back.uuid] = back.has[back.uuid]] /\ back' = [back EXCEPT !.pc = "memory"]
     \/ UNCHANGED dirs /\ back' = NoRestore
  /\ UNCHANGED <<fresh, mem, check, clearing, backups, ghosts>>

RestoreMemory ==
  /\ back.pc = "memory"
  /\ mem' = [mem EXCEPT ![back.uuid] = back.has[back.uuid].settings]
  /\ back' = [back EXCEPT !.pc = "save"]
  /\ UNCHANGED <<fresh, dirs, check, clearing, backups, ghosts>>

\* Its own commit() puts right what a check wrote of the watch before.
RestoreSave ==
  /\ back.pc = "save"
  /\ dirs' = [dirs EXCEPT ![back.uuid].settings = mem[back.uuid]]
  /\ owed' = owed \cup {back.uuid} /\ torn' = torn \ {back.uuid}
  /\ back' = [back EXCEPT !.pc = "next", !.uuid = None]
  /\ UNCHANGED <<fresh, mem, check, clearing, backups, spent>>

-----------------------------------------------------------------------------
\* Killed and started again: watches are what the directories with a watch.json say.
StartAgain ==
  /\ spent.events < MaxEvents /\ spent' = [spent EXCEPT !.events = @ + 1]
  /\ mem' = [u \in Watches |-> dirs[u].settings]
  /\ check' = NoCheck /\ clearing' = None /\ maker' = NoMaker /\ back' = NoRestore
  /\ UNCHANGED <<fresh, dirs, zips, owed, torn>>

BackupsInit ==
  /\ fresh = Watches \ Old
  /\ mem = [u \in Watches |-> IF u \in Old THEN 0 ELSE None]
  /\ dirs = [u \in Watches |-> IF u \in Old THEN [settings |-> 0, listed |-> Before, snaps |-> Before] ELSE Nothing]
  /\ check = NoCheck /\ clearing = None
  /\ maker = NoMaker /\ zips = {}
  /\ back = NoRestore
  /\ owed = Old /\ torn = {} /\ spent = [made |-> 0, events |-> 0]

BackupsNext == \/ Import \/ CheckBegins \/ CheckGoesOn \/ history_trim \/ RewriteIndex \/ EditSettings
               \/ Delete \/ ClearFiles \/ ClearSaves
               \/ create_backup \/ NextWatch \/ AddFile \/ FinishBackup \/ remove_backups
               \/ backups_restore_start \/ RestoreNext \/ RestoreCopy \/ RestoreMemory \/ RestoreSave
               \/ StartAgain

BackupsSpec == BackupsInit /\ [][BackupsNext]_backupsVars

-----------------------------------------------------------------------------
\* A backup with a name is whole: of every watch that was not deleted, put back or cleared meanwhile it has the settings
\* there were when it was begun, or newer ones, and every entry one could read then that no trim has taken since,
\* whatever checks and edits wrote beside it.
FinishedIsWhole == \A z \in zips : z.whole

\* A watch that was saved and not deleted survives backups, restores, imports, trims and restarts, but where its restore
\* failed, or its restore or clearing was cut short.
NothingLost == \A u \in owed : dirs[u].settings # None \/ u \in torn

=============================================================================
