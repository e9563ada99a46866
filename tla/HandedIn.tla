------------------------------- MODULE HandedIn -------------------------------
(***************************************************************************)
(* Backups and imports together: what users hand in to be kept.            *)
(***************************************************************************)
EXTENDS Backups, Imports

\* What is handed in is kept, whatever else goes on: a backup with a name is whole and a saved
\* watch survives restores and restarts (Backups), each line of an import is a watch or is told
\* of, and a refusal created nothing (Imports).
NothingForgotten == /\ FinishedIsWhole
                    /\ NothingLost
                    /\ EveryLineAccounted
                    /\ RefusedIsNothing
=============================================================================
