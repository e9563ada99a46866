---------------------------- MODULE MCWatchHistory ----------------------------
(***************************************************************************)
(* WatchHistory with two texts, and two snapshots to keep.                 *)
(***************************************************************************)
EXTENDS WatchHistory

CONSTANTS ta, tb

MCTexts == {ta, tb}
=============================================================================
