----------------------------- MODULE CheckPipeline -----------------------------
(***************************************************************************)
(* One check of a watch after another: async_update_worker() of            *)
(* src/changedetectionio/worker.py, run_changedetection() of the           *)
(* text_json_diff processor, and the history they keep.                    *)
(*                                                                         *)
(* A check fetches the page and is skipped when the page's raw checksum    *)
(* and the hash of the filter settings are those of the previous check and *)
(* the watch was not edited.  Otherwise it extracts the text, compares its *)
(* MD5 with previous_md5, stores the result, saves a snapshot and notifies.*)
(* The raw checksum is recorded before the extraction, previous_md5 before *)
(* the snapshot.  Meanwhile the settings may be edited, the history        *)
(* cleared, and the check cancelled or killed anywhere.                    *)
(*                                                                         *)
(* A page stands for its raw checksum, a text for its MD5.  The ghosts     *)
(* `behind' and `apart' name what may make a skip or an alert wrong.       *)
(***************************************************************************)
EXTENDS WatchHistory, FiniteSets

CONSTANTS
  Pages,     \* raw documents the site may answer with
  Configs,   \* settings that decide which text a document gives
  HashOf,    \* HashOf[c]: get_filter_config_hash()
  OwnOf,     \* OwnOf[c]: what it leaves out, settings no tag overrides
  Extract,   \* Extract[c][p]: the text, or Missing
  Missing,   \* the filter matches nothing in the page
  Blocks,    \* Blocks[c]: the texts that trigger rules and conditions hold back
  Unique,    \* those with check_unique_lines
  Diffing,   \* those that look at added, removed or replaced lines only
  Threshold, \* filter_failure_notification_threshold_attempts
  NoPage, NoHash,
  Events,    \* what may happen besides a check that runs to its end
  MaxEvents  \* bound on how often any of it does

ASSUME ThresholdAssumption == Threshold \in Nat \ {0}
ASSUME ExtractAssumption ==
  Extract \in [Configs -> [Pages -> Texts \cup {Missing}]] /\ Missing \notin Texts
ASSUME SettingsAssumption ==
  \A c, d \in Configs :
    HashOf[c] = HashOf[d] /\ OwnOf[c] = OwnOf[d] => Extract[c] = Extract[d]
ASSUME BlocksAssumption == Blocks \in [Configs -> SUBSET Texts]
ASSUME KindsAssumption ==
  /\ Unique \subseteq Configs /\ Diffing \subseteq Configs
  /\ \A c, d \in Configs :
       OwnOf[c] = OwnOf[d] => /\ c \in Unique <=> d \in Unique
                              /\ c \in Diffing <=> d \in Diffing
ASSUME NonesAssumption == NoPage \notin Pages /\ \A c \in Configs : HashOf[c] # NoHash
ASSUME EventsAssumption == Events \subseteq {"edit", "edit_tag", "edit_settings",
           "clear", "cancel", "restart", "fail", "ai", "budget"}

ASSUME MaxEventsAssumption == MaxEvents \in Nat

VARIABLES
  config,    \* the settings now
  edited,    \* was_edited
  md5,       \* previous_md5
  confHash,  \* last_filter_config_hash
  rawFile,   \* last-checksum.txt
  streak,    \* consecutive_filter_failures
  pc,        \* where the check is
  check,     \* its local variables
  clearing,  \* clear_watch() has unlinked the files and not reset the fields
  left,      \* how many more events there may be
  judged,    \* ghost: what the last check that was stored had extracted
  misses,    \* ghost: failed checks in a row since the last alert or success
  behind,    \* ghost: the recorded page or settings are not those of `judged'
  apart      \* ghost: previous_md5 and the newest snapshots have come apart

fields == <<config, edited, md5, confHash, streak>>
ghosts == <<judged, misses, behind, apart>>
vars == <<historyVars, fields, rawFile, pc, check, clearing, left, ghosts>>

\* readRaw: last_raw_content_checksum; seen: the page; hash, conf: the settings
\* hashed and those used; text: the text found; verdict: what is said of it.
\* readRaw is dropped once it has been compared.
NoCheck == [readRaw |-> NoPage, seen |-> NoPage, hash |-> NoHash,
            conf |-> NoHash, text |-> NoText, verdict |-> {}]

Verdicts == {"first", "changed", "repeated", "undiffered", "blocked", "suppressed",
             "over_budget"}

Init == /\ HistoryInit
        /\ config \in Configs
        /\ edited = FALSE
        /\ md5 = NoText
        /\ confHash = NoHash
        /\ rawFile = NoPage
        /\ streak = 0
        /\ pc = "idle"
        /\ check = NoCheck
        /\ clearing = FALSE
        /\ left = MaxEvents
        /\ judged = NoText
        /\ misses = 0
        /\ behind = FALSE
        /\ apart = FALSE

Go(from, to) == pc = from /\ pc' = to

\* The check is over.
End == pc' = "idle" /\ check' = NoCheck

Happens(event) == event \in Events /\ left > 0 /\ left' = left - 1

Is(word) == word \in check.verdict

----------------------------------------------------------------------------
(***************************************************************************)
(* Fetching.  The processor reads last-checksum.txt when it is made.       *)
(***************************************************************************)
CheckStart == /\ Go("idle", "fetch")
              /\ check' = [NoCheck EXCEPT !.readRaw = rawFile]
              /\ UNCHANGED <<historyVars, fields, rawFile, clearing, left, ghosts>>

FetchPage == /\ Go("fetch", "process")
             /\ \E p \in Pages : check' = [check EXCEPT !.seen = p]
             /\ UNCHANGED <<historyVars, fields, rawFile, clearing, left, ghosts>>

\* Failed checks in a row are counted, and reported at the threshold.
MissedStreak == IF streak + 1 >= Threshold THEN 0 ELSE streak + 1

CountFailure(alert) == /\ alert = (streak + 1 >= Threshold)
                       /\ streak' = MissedStreak
                       /\ misses' = IF alert THEN 0 ELSE misses + 1

\* A browser step that cannot run counts as a missing filter does.
StepFails == /\ Happens("fail")
             /\ pc = "fetch"
             /\ End
             /\ \E alert \in BOOLEAN : CountFailure(alert)
             /\ UNCHANGED <<historyVars, config, edited, md5, confHash, rawFile,
                            clearing, judged, behind, apart>>

\* Every other error of the fetch only sets last_error.
FetchFails == /\ Happens("fail")
              /\ pc = "fetch"
              /\ End
              /\ UNCHANGED <<historyVars, fields, rawFile, clearing, ghosts>>

----------------------------------------------------------------------------
(***************************************************************************)
(* run_changedetection(), in a thread of its own.                          *)
(***************************************************************************)
\* Mutant: the filter settings are not compared.
CanSkip_NoHash == /\ ~edited
                  /\ check.readRaw = check.seen
                  /\ confHash # NoHash

CanSkip == /\ ~edited
           /\ check.readRaw = check.seen
           /\ confHash = HashOf[config]

SkipSame == /\ CanSkip
            /\ Go("process", "skipped")
            /\ UNCHANGED <<historyVars, fields, rawFile, check, clearing, left, ghosts>>

Record == /\ ~CanSkip
          /\ Go("process", "extract")
          /\ rawFile' = check.seen
          /\ check' = [check EXCEPT !.readRaw = NoPage, !.hash = HashOf[config],
                                    !.conf = config]
          /\ UNCHANGED <<historyVars, fields, clearing, left, ghosts>>

\* What a check takes for the text: the page's or, once there is a history, what
\* differs from the page before, which may be any.
Gives(c) == IF c \in Diffing /\ history # <<>> THEN Texts ELSE {Extract[c][check.seen]}

\* include_filters is kept from the hashing, other settings are read again.  With
\* check_unique_lines a change may turn out to repeat lines of the history: it is
\* none then, and yet its MD5 is kept.
FindText(c) ==
  /\ Go("extract", "found")
  /\ c \in {check.conf, config}
  /\ Extract[c][check.seen] # Missing
  /\ \E t \in Gives(c), repeats \in BOOLEAN :
       LET blocked == IF t \in Blocks[c] THEN {"blocked"} ELSE {}
           changed == IF blocked = {} /\ md5 # t
                        THEN {IF repeats THEN "repeated" ELSE "changed"} ELSE {}
           first == IF blocked = {} /\ md5 = NoText THEN {"first"} ELSE {}
       IN /\ repeats => c \in Unique
          /\ check' = [check EXCEPT !.conf = c, !.text = t,
                                    !.verdict = blocked \cup changed \cup first]
          /\ md5' = IF first # {} THEN t ELSE md5
  /\ UNCHANGED <<historyVars, config, edited, confHash, streak, rawFile, clearing,
                 left, ghosts>>

\* No differences: the rules are not asked, and what is kept is the MD5 of the
\* whole text without its white space.
FindNoDifference(c) ==
  /\ Go("extract", "found")
  /\ c \in Diffing \cap {check.conf, config} /\ history # <<>>
  /\ Extract[c][check.seen] # Missing
  /\ \E t \in Texts :
       check' = [check EXCEPT !.conf = c, !.text = t, !.verdict = {"undiffered"}]
  /\ UNCHANGED <<historyVars, fields, rawFile, clearing, left, ghosts>>

FindNothing(c) == /\ Go("extract", "missing")
                  /\ c \in {check.conf, config}
                  /\ Extract[c][check.seen] = Missing
                  /\ UNCHANGED <<historyVars, fields, rawFile, check, clearing, left,
                                 ghosts>>

\* No text in the page, a regular expression that times out, any exception.
ProcessFails == /\ Happens("fail")
                /\ pc = "extract"
                /\ End
                /\ behind' = TRUE
                /\ UNCHANGED <<historyVars, fields, rawFile, clearing, judged,
                               misses, apart>>

----------------------------------------------------------------------------
(***************************************************************************)
(* The worker takes the outcome.                                           *)
(***************************************************************************)
SkipDone == /\ pc = "skipped"
            /\ End
            /\ edited' = FALSE
            /\ behind' = (behind \/ edited)
            /\ UNCHANGED <<historyVars, config, md5, confHash, streak, rawFile,
                           clearing, left, judged, misses, apart>>

FilterMissing == /\ pc = "missing"
                 /\ End
                 /\ \E alert \in BOOLEAN : CountFailure(alert)
                 /\ behind' = TRUE
                 /\ UNCHANGED <<historyVars, config, edited, md5, confHash, rawFile,
                                clearing, left, judged, apart>>

\* The edited flag is dropped; then a spent token budget makes a change none, or
\* the AI rules hold it back, which is no event to be counted.
Evaluate ==
  /\ Go("found", "judged")
  /\ edited' = FALSE
  /\ \/ check' = check /\ left' = left
     \/ /\ Happens("budget")
        /\ Is("changed")
        /\ check' = [check EXCEPT !.verdict = (@ \ {"changed"}) \cup {"over_budget"}]
     \/ /\ "ai" \in Events /\ left' = left
        /\ Is("changed")
        /\ historyN >= 1
        /\ check' = [check EXCEPT !.verdict = (@ \ {"changed"}) \cup {"suppressed"}]
  /\ behind' = \/ check.conf # config
               \/ check.hash # HashOf[check.conf]
               \/ Is("undiffered") /\ confHash # check.hash
  /\ UNCHANGED <<historyVars, config, md5, confHash, streak, rawFile, clearing,
                 judged, misses, apart>>

\* Mutant: a check that succeeds does not break the streak.
StoredStreak_Kept == streak

StoredStreak == 0

\* Where there is no difference the hash of the settings is not stored.
StoreResult == /\ Go("judged", "stored")
               /\ md5' = IF Is("blocked") THEN md5 ELSE check.text
               /\ confHash' = IF Is("undiffered") THEN confHash ELSE check.hash
               /\ streak' = StoredStreak
               /\ judged' = Extract[check.conf][check.seen]
               /\ misses' = 0
               /\ apart' = \/ apart
                           \/ Is("over_budget")
                           \/ Is("repeated")
                           \/ Is("undiffered") /\ check.text # md5
               /\ UNCHANGED <<historyVars, config, edited, rawFile, check, clearing,
                              left, behind>>

\* Mutant: a change held back by the AI rules is not saved.
should_save_history_NotSuppressed == Is("changed") \/ historyN = 0

should_save_history == Is("changed") \/ Is("suppressed") \/ historyN = 0

NothingToSave == /\ pc = "stored"
                 /\ ~should_save_history
                 /\ End
                 /\ UNCHANGED <<historyVars, fields, rawFile, clearing, left, ghosts>>

SaveSnapshot == /\ Go("stored", "saving")
                /\ should_save_history
                /\ WriteSnapshot(IF Is("blocked") THEN NoText ELSE check.text, check.text)
                /\ apart' = (apart \/ Is("blocked"))
                /\ UNCHANGED <<fields, rawFile, check, clearing, left, judged, misses,
                               behind>>

SaveStep == /\ pc = "saving"
            /\ AppendIndex \/ TrimRewrite
            /\ UNCHANGED <<fields, rawFile, pc, check, clearing, left, ghosts>>

\* Trimming parts the two when it unlinks a file it means to keep.
Trim == /\ pc = "saving"
        /\ TrimUnlink
        /\ apart' = (apart \/ \E i \in DOMAIN kept' : files'[kept'[i]] = NoText)
        /\ UNCHANGED <<fields, rawFile, pc, check, clearing, left, judged, misses,
                       behind>>

TrimGoesOn == /\ Happens("fail")
              /\ TrimFails
              /\ UNCHANGED <<fields, rawFile, pc, check, clearing, ghosts>>

SaveFails == /\ Happens("fail")
             /\ \/ pc = "stored" /\ should_save_history
                \/ pc = "saving" /\ saving = "append"
             /\ End
             /\ EndSave
             /\ apart' = TRUE
             /\ UNCHANGED <<files, index, historyN, fields, rawFile, clearing, judged,
                            misses, behind>>

\* Mutant: the first snapshot is announced.
Notifies_First == ~Is("suppressed") /\ historyN >= 1

Notifies == ~Is("suppressed") /\ historyN >= 2

\* The newest line of the index is of the text compared with, and can be read.
\* (Newer lines without a file would come back with their text.)
Together == /\ md5 # NoText /\ index # <<>>
            /\ Last(index) = md5 /\ files[md5] # NoText

Finish(notify) ==
  /\ pc = "saving"
  /\ notify = Notifies
  /\ Saved
  /\ End
  /\ apart' = (apart /\ ~Together)
  /\ UNCHANGED <<fields, rawFile, clearing, left, judged, misses, behind>>

Notify == Finish(TRUE)

FinishQuietly == Finish(FALSE)

----------------------------------------------------------------------------
(***************************************************************************)
(* What happens meanwhile.  An edit of the watch sets was_edited; one of   *)
(* its tag does not, but every setting a tag can override is hashed; one   *)
(* of the global settings removes last-checksum.txt.                       *)
(***************************************************************************)
Edit(c) == /\ Happens("edit")
           /\ c # config
           /\ config' = c
           /\ edited' = TRUE
           /\ UNCHANGED <<historyVars, md5, confHash, streak, rawFile, pc, check,
                          clearing, ghosts>>

EditTag(c) == /\ Happens("edit_tag")
              /\ c # config /\ OwnOf[c] = OwnOf[config]
              /\ config' = c
              /\ UNCHANGED <<historyVars, edited, md5, confHash, streak, rawFile, pc,
                             check, clearing, ghosts>>

EditSettings(c) == /\ Happens("edit_settings")
                   /\ c # config
                   /\ config' = c
                   /\ rawFile' = NoPage
                   /\ UNCHANGED <<historyVars, edited, md5, confHash, streak, pc,
                                  check, clearing, ghosts>>

\* clear_watch(): the files, then the fields.  One of these counts as an edit.
ClearFiles == /\ Happens("clear")
              /\ ~clearing
              /\ clearing' = TRUE
              /\ UnlinkAll
              /\ rawFile' = NoPage
              /\ apart' = TRUE
              /\ UNCHANGED <<saving, name, kept, fields, pc, check, judged, misses,
                             behind>>

ClearFields == /\ clearing
               /\ clearing' = FALSE
               /\ md5' = NoText
               /\ edited' = TRUE
               /\ apart' = (pc # "idle" \/ index # <<>>)
               /\ UNCHANGED <<historyVars, config, confHash, streak, rawFile, pc, check,
                              left, judged, misses, behind>>

\* The check stops where it is, and what it was about to write is lost.
CutShort == /\ End
            /\ EndSave
            /\ apart' = \/ apart \/ Is("first")
                        \/ pc = "stored" /\ should_save_history
                        \/ pc = "saving" /\ saving # "saved"
            /\ UNCHANGED <<config, confHash, streak, files, index, judged, misses>>

Processing == {"extract", "missing", "found", "judged"}

\* The thread of run_changedetection() goes on, and may record the page.
Cancel == /\ Happens("cancel")
          /\ pc # "idle"
          /\ CutShort
          /\ \/ behind' = (behind \/ pc \in Processing) /\ rawFile' = rawFile
             \/ pc = "process" /\ ~CanSkip /\ behind' = TRUE /\ rawFile' = check.seen
          /\ UNCHANGED <<historyN, edited, md5, clearing>>

\* A restart forgets was_edited, and a previous_md5 that no commit has written.
Restart == /\ Happens("restart")
           /\ CutShort
           /\ edited' = FALSE
           /\ md5' \in {md5} \cup IF Is("first") /\ pc \in Processing THEN {NoText} ELSE {}
           /\ behind' = (behind \/ edited \/ pc \in Processing)
           /\ clearing' = FALSE
           /\ historyN' = Len(history)
           /\ rawFile' = rawFile

UseHistory == /\ ReadHistory
              /\ UNCHANGED <<fields, rawFile, pc, check, clearing, left, ghosts>>

Checking == \/ CheckStart \/ FetchPage \/ FetchFails
            \/ SkipSame \/ Record \/ ProcessFails
            \/ \E c \in Configs : FindText(c) \/ FindNoDifference(c) \/ FindNothing(c)
            \/ SkipDone \/ FilterMissing \/ StepFails
            \/ Evaluate \/ StoreResult \/ NothingToSave
            \/ SaveSnapshot \/ SaveStep \/ Trim \/ TrimGoesOn \/ SaveFails
            \/ Notify \/ FinishQuietly

Meanwhile == \/ \E c \in Configs : Edit(c) \/ EditTag(c) \/ EditSettings(c)
             \/ ClearFiles \/ ClearFields
             \/ Cancel \/ Restart \/ UseHistory

Next == Checking \/ Meanwhile

Spec == Init /\ [][Next]_vars

----------------------------------------------------------------------------
TypeOK == /\ HistoryTypeOK
          /\ config \in Configs
          /\ edited \in BOOLEAN /\ clearing \in BOOLEAN
          /\ md5 \in Names /\ judged \in Names
          /\ confHash \in {NoHash} \cup {HashOf[c] : c \in Configs}
          /\ rawFile \in Pages \cup {NoPage}
          /\ streak \in 0..Threshold - 1 /\ misses \in Nat
          /\ pc \in {"idle", "fetch", "process", "skipped", "saving", "stored"}
                    \cup Processing
          /\ check.readRaw \in Pages \cup {NoPage} /\ check.seen \in Pages \cup {NoPage}
          /\ check.verdict \subseteq Verdicts
          /\ pc # "saving" => saving = "idle"
          /\ behind \in BOOLEAN /\ apart \in BOOLEAN

(***************************************************************************)
(* A check is skipped only when running it would extract what the last     *)
(* check stored was of, or when last-checksum.txt has since been removed,  *)
(* so that the next check runs.  The one excuse is `behind': a page was    *)
(* recorded by a check that then failed or was cut short, or found no      *)
(* difference and left the hash of older settings; or an edit made while a *)
(* check ran lost its was_edited.                                          *)
(***************************************************************************)
Skips == pc = "process" /\ pc' = "skipped"

SkipIsSound ==
  [][Skips => \/ Extract[config][check.seen] = judged
              \/ behind
              \/ rawFile = NoPage]_vars

(***************************************************************************)
(* Between checks the newest snapshot is the text that the next page is    *)
(* compared with: previous_md5, stored before it, and the history, saved   *)
(* after it, come apart only by the causes that set `apart': a check cut   *)
(* short, or failing, between the two; a text held back by trigger rules,  *)
(* by a spent budget or for want of unique lines; a page without           *)
(* differences, of which another MD5 is kept; a clearing beside a check;   *)
(* and a trim that unlinks what it keeps.  A snapshot that is saved and of *)
(* the MD5 kept brings them together again.                                *)
(***************************************************************************)
StoredIsSaved == pc = "idle" /\ md5 # NoText /\ ~apart
                   => history # <<>> /\ Last(history) = md5

(***************************************************************************)
(* A change notification shows a change: its two newest snapshots differ,  *)
(* unless previous_md5 and they had come apart before.                     *)
(***************************************************************************)
Notified == pc = "saving" /\ pc' = "idle" /\ saving = "saved" /\ Notifies

NoFalseAlert ==
  [][Notified => \/ apart
                 \/ /\ Len(history) >= 2
                    /\ files[Last(history)] # files[history[Len(history) - 1]]]_vars

(***************************************************************************)
(* The filter alert means what its text says: the filter was missing in    *)
(* the last `threshold' checks that looked for it.                         *)
(***************************************************************************)
AlertsAreConsecutive ==
  [][pc' = "idle" /\ streak' # streak /\ streak' = 0 => misses + 1 >= Threshold]_vars

(***************************************************************************)
(* "Number of times the filter can be missing before sending a             *)
(* notification": a check whose page lacks the filter counts as one.       *)
(***************************************************************************)
MissingIsCounted == [][Skips => Extract[config][check.seen] # Missing]_vars
=============================================================================
