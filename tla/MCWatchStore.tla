----------------------------- MODULE MCWatchStore -----------------------------
(***************************************************************************)
(* WatchStore with two watches, and three threads of which the web request   *)
(* adds watches; and, beside it, backups, imports and the readers of a       *)
(* history, which share no state with it here, so that a behaviour runs one  *)
(* of the four. The UUIDs of WatchStore are interchangeable.                 *)
(***************************************************************************)
EXTENDS WatchStore, HandedIn, TLC

CONSTANTS u1, u2, worker, web, api, w1, w2, news, tools, reader

VARIABLES
  service,     \* the one that runs in this behaviour
  second, index, snapshots, first, quiet, newestKept, counted, viewed, saver, rd, past

MCUuids == {u1, u2}
UuidSymmetry == Permutations(MCUuids)

MCLists ==
  LET good == [url |-> TRUE, valid |-> TRUE, readable |-> TRUE]
      lines == {good, [good EXCEPT !.url = FALSE], [good EXCEPT !.valid = FALSE], [good EXCEPT !.readable = FALSE]}
  IN {<<x, y>> : x, y \in lines}

Telling == INSTANCE Reading WITH now <- second, disk <- snapshots, newest <- newestKept,
                                 Readers <- {reader}, Lines <- {"sold out"}, Needle <- "sold out",
                                 Dull <- {{}}, MaxLen <- 2, Wanted <- 2, MaxNow <- 5

\* The service that runs is chosen once; the variables of the others stay at rest.
StoreVars == <<unused, watching, version, disk, temps, lock, pc, uuid, snapshot, failed,
               contended>>
BackupsVars == <<fresh, mem, dirs, check, clearing, maker, zips, back, owed, torn, spent>>
ImportsVars == <<imp, created>>
ReadingVars == <<second, index, snapshots, first, quiet, newestKept, counted, viewed, saver, rd,
                 past>>
StoreAtRest == Init
BackupsAtRest == BackupsInit
ImportsAtRest == ImportsInit
ReadingAtRest == Telling!Init

MCInit == \/ /\ service = "store" /\ Init
             /\ BackupsAtRest /\ ImportsAtRest /\ ReadingAtRest
          \/ /\ service = "backups" /\ BackupsInit
             /\ StoreAtRest /\ ImportsAtRest /\ ReadingAtRest
          \/ /\ service = "imports" /\ ImportsInit
             /\ StoreAtRest /\ BackupsAtRest /\ ReadingAtRest
          \/ /\ service = "reading" /\ Telling!Init
             /\ StoreAtRest /\ BackupsAtRest /\ ImportsAtRest

MCNext == \/ /\ service = "store" /\ Next
             /\ UNCHANGED <<service, BackupsVars, ImportsVars, ReadingVars>>
          \/ /\ service = "backups" /\ BackupsNext
             /\ UNCHANGED <<service, StoreVars, ImportsVars, ReadingVars>>
          \/ /\ service = "imports" /\ ImportsNext
             /\ UNCHANGED <<service, StoreVars, BackupsVars, ReadingVars>>
          \/ /\ service = "reading" /\ Telling!Next
             /\ UNCHANGED <<service, StoreVars, BackupsVars, ImportsVars>>

mcVars == <<service, StoreVars, BackupsVars, ImportsVars, ReadingVars>>

MCSpec == MCInit /\ [][MCNext]_mcVars

\* Whatever is saved, trimmed or cleared meanwhile, what a reader is told of the history is a
\* history: two versions with none between, every period with a match, both ends of a sample, no
\* watch left out that changed; and a version nobody was shown is unread, but those of checks
\* under way at a look.
AnswersAreTrue ==
  service = "reading" =>
    /\ Telling!AdjacentOrRefused
    /\ Telling!FoundIsHistory
    /\ Telling!SampleKeepsEnds
    /\ Telling!NoneLeftOut
    /\ Telling!SeenOrUnread
==============================================================================
