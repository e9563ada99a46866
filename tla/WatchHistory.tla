----------------------------- MODULE WatchHistory -----------------------------
(***************************************************************************)
(* The snapshots of one watch, src/changedetectionio/model/Watch.py:       *)
(* history.txt, an index of lines "timestamp,file name", and one file per  *)
(* snapshot, named by the MD5 of the text it was saved for.                *)
(*                                                                         *)
(* save_history_blob() writes the file, appends a line to the index and,   *)
(* with more than history_snapshot_max_length snapshots, lets              *)
(* history_trim() unlink the files of the oldest and rewrite the index.    *)
(* Reading the history leaves out the lines whose file is not there.       *)
(*                                                                         *)
(* Timestamps only order the lines, so an entry of the index is its name.  *)
(***************************************************************************)
EXTENDS Integers, Sequences, SequencesExt, Filtering

CONSTANTS
  Texts,       \* the texts a snapshot may hold
  NoText,      \* no such text; also the snapshot_id 'none'
  MaxLen       \* history_snapshot_max_length

ASSUME NoTextAssumption == NoText \notin Texts
ASSUME MaxLenAssumption == MaxLen \in Nat \ {0}

VARIABLES
  files,     \* files[n]: what the snapshot file named n holds
  index,     \* the names in history.txt, oldest first
  historyN,  \* the counter __history_n
  saving,    \* where save_history_blob() is
  name,      \* the name it saves under
  kept       \* keep_part of the trim under way

historyVars == <<files, index, historyN, saving, name, kept>>

\* A text stands for its own MD5.
Names == Texts \cup {NoText}

HistoryTypeOK == /\ files \in [Names -> Names]
                 /\ index \in Seq(Names)
                 /\ historyN \in Nat
                 /\ saving \in {"idle", "append", "unlink", "rewrite", "saved"}
                 /\ name \in Names
                 /\ kept \in Seq(Names)

HistoryInit == /\ files = [n \in Names |-> NoText]
               /\ index = <<>>
               /\ historyN = 0
               /\ saving = "idle"
               /\ name = NoText
               /\ kept = <<>>

\* The entries of the index ix whose file exists.
Readable(ix, fs) == AllBut(ix, {n \in Names : fs[n] = NoText})

history == Readable(index, files)

\* Any use of the property `history` counts again.
ReadHistory == /\ historyN # Len(history)
               /\ historyN' = Len(history)
               /\ UNCHANGED <<files, index, saving, name, kept>>

WriteSnapshot(n, t) == /\ saving = "idle"
                       /\ saving' = "append"
                       /\ name' = n
                       /\ historyN' = Len(history)
                       /\ files' = [files EXCEPT ![n] = t]
                       /\ UNCHANGED <<index, kept>>

AppendIndex == /\ saving = "append"
               /\ index' = Append(index, name)
               /\ historyN' = historyN + 1
               /\ saving' = IF historyN + 1 > MaxLen THEN "unlink" ELSE "saved"
               /\ UNCHANGED <<files, name, kept>>

TrimUnlink ==
  LET first == Len(history) - MaxLen
      dropped == {history[i] : i \in 1..first}
  IN /\ saving = "unlink"
     /\ saving' = "rewrite"
     /\ kept' = SubSeq(history, IF first < 0 THEN 1 ELSE first + 1, Len(history))
     /\ files' = [n \in Names |-> IF n \in dropped THEN NoText ELSE files[n]]
     /\ historyN' = Len(history)
     /\ UNCHANGED <<index, name>>

TrimRewrite == /\ saving = "rewrite"
               /\ saving' = "saved"
               /\ index' = kept
               /\ kept' = <<>>
               /\ historyN' = Len(Readable(kept, files))
               /\ UNCHANGED <<files, name>>

\* The index could not be rewritten, which is logged and no more.
TrimFails == /\ saving = "rewrite"
             /\ saving' = "saved"
             /\ kept' = <<>>
             /\ historyN' = Len(history)
             /\ UNCHANGED <<files, index, name>>

\* save_history_blob() returns, or is cut short.
EndSave == /\ saving' = "idle"
           /\ name' = NoText
           /\ kept' = <<>>

Saved == /\ saving = "saved"
         /\ EndSave
         /\ UNCHANGED <<files, index, historyN>>

\* clear_watch() unlinks the snapshots and the index.
UnlinkAll == /\ files' = [n \in Names |-> NoText]
             /\ index' = <<>>
             /\ historyN' = 0

\* One watch whose text changes and is saved each time it does.
HistoryNext ==
  \/ \E t \in Texts : (index # <<>> => Last(index) # t) /\ WriteSnapshot(t, t)
  \/ AppendIndex
  \/ TrimUnlink
  \/ TrimRewrite
  \/ Saved
  \/ ReadHistory

HistorySpec == HistoryInit /\ [][HistoryNext]_historyVars

(***************************************************************************)
(* Trimming keeps the snapshot it was called for.  "Trimming history to    *)
(* most recent N items" unlinks files by name, and two entries have the    *)
(* same name when a text has come back.                                    *)
(***************************************************************************)
NewestReadable == saving = "idle" /\ index # <<>> => files[Last(index)] # NoText
=============================================================================
