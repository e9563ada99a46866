------------------------- MODULE CheckPipelineProofs -------------------------
(***************************************************************************)
(* When a check may be skipped, and when the filter alert may be sent,     *)
(* proved for any pages, texts, settings and threshold, any number of      *)
(* checks and any edits, clearings, failures, cancellations and restarts;  *)
(* and the fetch inside a check (Browsing): judged, bounded and closed.    *)
(* At its end, that the schema updates at a start of the program are safe  *)
(* to retry (Upgrade): they use the same induction.                        *)
(***************************************************************************)
EXTENDS CheckPipeline, Browsing, Upgrade, FilteringProofs

\* Where no check is between recording its page and storing its result.
Settled == {"idle", "fetch", "process", "skipped", "stored", "saving"}

Types == /\ config \in Configs
         /\ edited \in BOOLEAN /\ behind \in BOOLEAN
         /\ rawFile \in Pages \cup {NoPage}
         /\ pc \in Settled \cup Processing
         /\ check \in [readRaw : Pages \cup {NoPage}, seen : Pages \cup {NoPage},
                       hash : {NoHash} \cup {HashOf[c] : c \in Configs},
                       conf : Configs \cup {NoHash},
                       text : Texts \cup {NoText}, verdict : SUBSET Verdicts]

\* What the running check knows of its page, which may only be unrecorded.
Running ==
  /\ pc \in {"fetch", "process", "skipped"} => rawFile \in {check.readRaw, NoPage}
  /\ pc \in {"process"} \cup Processing => check.seen \in Pages
  /\ pc \in Processing => check.conf \in Configs /\ rawFile \in {check.seen, NoPage}
  /\ pc \in {"found", "judged"} => Extract[check.conf][check.seen] \in Texts

\* The next check will not be skipped, or some excuse has been noted.
Runs == behind \/ edited \/ rawFile = NoPage

\* Otherwise the recorded page was judged under settings that differ from those
\* of now at most in what is hashed, which the stored hash would tell.
Recorded ==
  \/ Runs
  \/ \E c \in Configs : /\ OwnOf[c] = OwnOf[config]
                        /\ HashOf[c] = confHash
                        /\ Extract[c][rawFile] = judged

\* The same of a check whose result is about to be stored; one without a difference
\* leaves the stored hash as it is.
AboutToStore ==
  \/ Runs
  \/ /\ OwnOf[check.conf] = OwnOf[config]
     /\ check.hash = HashOf[check.conf]
     /\ Is("undiffered") => confHash = check.hash

Inv == /\ Types
       /\ Running
       /\ pc \in Settled => Recorded
       /\ pc = "judged" => AboutToStore

LEMMA InvInit == Init => Inv
<1> SUFFICES ASSUME Init PROVE Inv
  OBVIOUS
<1>1. Types
  BY DEF Init, Types, NoCheck, Settled
<1>2. Running /\ Recorded /\ pc = "idle"
  BY DEF Init, Running, Recorded, Runs, NoCheck, Processing
<1> QED
  BY <1>1, <1>2 DEF Inv

USE DEF fields, ghosts, Settled, Processing, Go, End, Happens

\* Fetching: nothing is recorded.
LEMMA FetchStep ==
  ASSUME Inv, CheckStart \/ FetchPage \/ FetchFails \/ StepFails
  PROVE  Inv'
<1>1. CASE CheckStart
  BY <1>1 DEF Inv, Types, Running, Recorded, Runs, CheckStart, NoCheck
<1>2. CASE FetchPage
  BY <1>2 DEF Inv, Types, Running, Recorded, Runs, FetchPage
<1>3. CASE FetchFails
  BY <1>3 DEF Inv, Types, Running, Recorded, Runs, FetchFails, NoCheck
<1>4. CASE StepFails
  BY <1>4 DEF Inv, Types, Running, Recorded, Runs, StepFails, CountFailure, NoCheck
<1> QED
  BY <1>1, <1>2, <1>3, <1>4

\* Processing: a page is recorded, and an excuse noted if it is not judged.
LEMMA ProcessStep ==
  ASSUME Inv,
         \/ SkipSame \/ Record \/ ProcessFails \/ SkipDone \/ FilterMissing
         \/ \E c \in Configs : FindText(c) \/ FindNoDifference(c) \/ FindNothing(c)
  PROVE  Inv'
<1>1. CASE SkipSame
  BY <1>1 DEF Inv, Types, Running, Recorded, Runs, SkipSame
<1>2. CASE Record
  BY <1>2 DEF Inv, Types, Running, Record
<1>3. CASE ProcessFails
  BY <1>3 DEF Inv, Types, Running, Recorded, Runs, ProcessFails, NoCheck
<1>4. CASE SkipDone
  BY <1>4 DEF Inv, Types, Running, Recorded, Runs, SkipDone, NoCheck
<1>5. CASE FilterMissing
  BY <1>5 DEF Inv, Types, Running, Recorded, Runs, FilterMissing, CountFailure, NoCheck
<1>6. ASSUME NEW c \in Configs, FindText(c) PROVE Inv'
  <2>1. Extract[c][check.seen] \in Texts
    <3>1. check.seen \in Pages /\ Extract[c][check.seen] # Missing
      BY <1>6 DEF Inv, Running, FindText
    <3> QED
      BY <3>1, ExtractAssumption
  <2>2. PICK t \in Texts, said \in SUBSET Verdicts :
          check' = [check EXCEPT !.conf = c, !.text = t, !.verdict = said]
    BY <1>6, <2>1 DEF FindText, Gives, Verdicts
  <2>3. pc = "extract" /\ pc' = "found"
        /\ UNCHANGED <<config, edited, confHash, rawFile, behind, judged>>
    BY <1>6 DEF FindText
  <2> QED
    BY <2>1, <2>2, <2>3 DEF Inv, Types, Running
<1>7. ASSUME NEW c \in Configs, FindNoDifference(c) PROVE Inv'
  <2>1. Extract[c][check.seen] \in Texts
    <3>1. check.seen \in Pages /\ Extract[c][check.seen] # Missing
      BY <1>7 DEF Inv, Running, FindNoDifference
    <3> QED
      BY <3>1, ExtractAssumption
  <2>2. PICK t \in Texts :
          check' = [check EXCEPT !.conf = c, !.text = t, !.verdict = {"undiffered"}]
    BY <1>7 DEF FindNoDifference
  <2>3. {"undiffered"} \in SUBSET Verdicts
    BY DEF Verdicts
  <2>4. pc = "extract" /\ pc' = "found"
        /\ UNCHANGED <<config, edited, confHash, rawFile, behind, judged>>
    BY <1>7 DEF FindNoDifference
  <2> QED
    BY <2>1, <2>2, <2>3, <2>4 DEF Inv, Types, Running
<1>8. ASSUME NEW c \in Configs, FindNothing(c) PROVE Inv'
  BY <1>8 DEF Inv, Types, Running, FindNothing
<1> QED
  BY <1>1, <1>2, <1>3, <1>4, <1>5, <1>6, <1>7, <1>8

\* Storing: the recorded page becomes the one that was judged.
LEMMA StoreStep ==
  ASSUME Inv, Evaluate \/ StoreResult
  PROVE  Inv'
<1>1. CASE Evaluate
  <2>1. check' \in [readRaw : Pages \cup {NoPage}, seen : Pages \cup {NoPage},
                    hash : {NoHash} \cup {HashOf[c] : c \in Configs},
                    conf : Configs \cup {NoHash},
                    text : Texts \cup {NoText}, verdict : SUBSET Verdicts]
    BY <1>1 DEF Inv, Types, Evaluate, Verdicts
  <2>2. /\ check'.readRaw = check.readRaw /\ check'.seen = check.seen
        /\ check'.hash = check.hash /\ check'.conf = check.conf
        /\ Is("undiffered")' = Is("undiffered")
    BY <1>1 DEF Inv, Types, Evaluate, Is
  <2> QED
    BY <1>1, <2>1, <2>2 DEF Inv, Types, Running, AboutToStore, Runs, Evaluate
<1>2. CASE StoreResult
  BY <1>2 DEF Inv, Types, Running, Recorded, AboutToStore, Runs, StoreResult
<1> QED
  BY <1>1, <1>2

\* Saving and notifying do not touch any of it.
LEMMA SaveStepKeeps ==
  ASSUME Inv,
         \/ NothingToSave \/ SaveSnapshot \/ SaveStep \/ Trim \/ TrimGoesOn \/ SaveFails
         \/ Notify \/ FinishQuietly
  PROVE  Inv'
<1> USE DEF Inv, Types, Running, Recorded, Runs
<1>1. CASE NothingToSave
  BY <1>1 DEF NothingToSave, NoCheck
<1>2. CASE SaveSnapshot
  BY <1>2 DEF SaveSnapshot
<1>3. CASE SaveStep
  BY <1>3 DEF SaveStep
<1>4. CASE Trim
  BY <1>4 DEF Trim
<1>5. CASE TrimGoesOn
  BY <1>5 DEF TrimGoesOn, AboutToStore, Is
<1>6. CASE SaveFails
  BY <1>6 DEF SaveFails, NoCheck
<1>7. CASE Notify \/ FinishQuietly
  BY <1>7 DEF Notify, FinishQuietly, Finish, NoCheck
<1> QED
  BY <1>1, <1>2, <1>3, <1>4, <1>5, <1>6, <1>7

\* Whatever happens meanwhile gives an excuse, or leaves the judgement valid.
LEMMA MeanwhileStep ==
  ASSUME Inv, Meanwhile
  PROVE  Inv'
<1> USE DEF Inv, Types, Running, Recorded, AboutToStore, Runs, Is
<1>1. ASSUME NEW c \in Configs, Edit(c) PROVE Inv'
  BY <1>1 DEF Edit
<1>2. ASSUME NEW c \in Configs, EditTag(c) PROVE Inv'
  BY <1>2 DEF EditTag
<1>3. ASSUME NEW c \in Configs, EditSettings(c) PROVE Inv'
  BY <1>3 DEF EditSettings
<1>4. CASE ClearFiles
  BY <1>4 DEF ClearFiles
<1>5. CASE ClearFields
  BY <1>5 DEF ClearFields
<1>6. CASE Cancel
  BY <1>6 DEF Cancel, CutShort, NoCheck
<1>7. CASE Restart
  BY <1>7 DEF Restart, CutShort, NoCheck
<1>8. CASE UseHistory
  BY <1>8 DEF UseHistory
<1> QED
  BY <1>1, <1>2, <1>3, <1>4, <1>5, <1>6, <1>7, <1>8 DEF Meanwhile

LEMMA InvStep == Inv /\ [Next]_vars => Inv'
<1> SUFFICES ASSUME Inv, [Next]_vars PROVE Inv'
  OBVIOUS
<1>1. CASE Checking
  BY <1>1, FetchStep, ProcessStep, StoreStep, SaveStepKeeps DEF Checking
<1>2. CASE Meanwhile
  BY <1>2, MeanwhileStep
<1>3. CASE UNCHANGED vars
  BY <1>3 DEF vars, Inv, Types, Running, Recorded, AboutToStore, Runs, Is
<1> QED
  BY <1>1, <1>2, <1>3 DEF Next

\* A check is skipped only when it would find the text last judged, or the next
\* one will run anyhow, or `behind' has noted why: run_changedetection()'s skip.
THEOREM SkipsAreSound == Spec => SkipIsSound
<1>1. ASSUME Inv, [Next]_vars, Skips
      PROVE  Extract[config][check.seen] = judged \/ behind \/ rawFile = NoPage
  <2>1. SkipSame
    BY <1>1 DEF Next, vars, Skips, Checking, Meanwhile, CheckStart, FetchPage, FetchFails,
       SkipSame, Record, ProcessFails, FindText, FindNoDifference, FindNothing, SkipDone, FilterMissing,
       StepFails, Evaluate, StoreResult, NothingToSave, SaveSnapshot, SaveStep, Trim,
       TrimGoesOn, SaveFails, Notify, FinishQuietly, Finish, Edit, EditTag, EditSettings,
       ClearFiles, ClearFields, Cancel, Restart, CutShort, UseHistory
  <2>2. /\ ~edited
        /\ confHash = HashOf[config]
        /\ rawFile \in {check.seen, NoPage}
        /\ Recorded
    BY <1>1, <2>1 DEF SkipSame, CanSkip, Skips, Inv, Running
  <2> QED
    BY <1>1, <2>2, SettingsAssumption DEF Recorded, Runs, Inv, Types
<1> QED
  BY <1>1, InvInit, InvStep, PTL DEF Spec, SkipIsSound

-----------------------------------------------------------------------------
\* The streak never counts more than the checks that failed since the last
\* alert or success.
Counted == streak \in 0..(Threshold - 1) /\ misses \in Nat /\ streak <= misses

LEMMA CountedStep == Counted /\ [Next]_vars => Counted'
<1> SUFFICES ASSUME Counted, [Next]_vars PROVE Counted'
  OBVIOUS
<1> USE ThresholdAssumption DEF Counted
<1>1. ASSUME FilterMissing \/ StepFails PROVE Counted'
  <2>1. PICK alert \in BOOLEAN : CountFailure(alert)
    BY <1>1 DEF FilterMissing, StepFails
  <2>2. \/ streak + 1 >= Threshold /\ misses' = 0
        \/ ~(streak + 1 >= Threshold) /\ misses' = misses + 1
    <3>1. CASE alert = TRUE
      BY <2>1, <3>1, Zenon DEF CountFailure
    <3>2. CASE alert = FALSE
      BY <2>1, <3>2, Zenon DEF CountFailure
    <3> QED
      BY <2>1, <3>1, <3>2
  <2>3. streak' = MissedStreak
    BY <2>1 DEF CountFailure
  <2> QED
    BY <2>2, <2>3 DEF MissedStreak
<1>2. CASE StoreResult
  BY <1>2 DEF StoreResult, StoredStreak
<1>3. ASSUME UNCHANGED <<streak, misses>> PROVE Counted'
  BY <1>3
<1> QED
  BY <1>1, <1>2, <1>3 DEF Next, vars, Checking, Meanwhile, CheckStart, FetchPage, FetchFails,
     SkipSame, Record, ProcessFails, FindText, FindNoDifference, FindNothing, SkipDone, Evaluate,
     NothingToSave, SaveSnapshot, SaveStep, Trim, TrimGoesOn, SaveFails, Notify,
     FinishQuietly, Finish, Edit, EditTag, EditSettings, ClearFiles, ClearFields,
     Cancel, Restart, CutShort, UseHistory

\* The filter alert is sent when the filter was missing in the last `threshold'
\* checks that looked for it: consecutive_filter_failures.
THEOREM AlertsMeanStreaks == Spec => AlertsAreConsecutive
<1>1. Init => Counted
  BY ThresholdAssumption DEF Init, Counted
<1>2. ASSUME Counted, [Next]_vars, pc' = "idle", streak' # streak, streak' = 0
      PROVE  misses + 1 >= Threshold
  <2>1. FilterMissing \/ StepFails
    BY <1>2 DEF Next, vars, Checking, Meanwhile, CheckStart, FetchPage, FetchFails,
       SkipSame, Record, ProcessFails, FindText, FindNoDifference, FindNothing, SkipDone, Evaluate,
       StoreResult, NothingToSave, SaveSnapshot, SaveStep, Trim, TrimGoesOn, SaveFails,
       Notify, FinishQuietly, Finish, Edit, EditTag, EditSettings, ClearFiles,
       ClearFields, Cancel, Restart, CutShort, UseHistory
  <2>2. PICK alert \in BOOLEAN : CountFailure(alert)
    BY <2>1 DEF FilterMissing, StepFails
  <2> QED
    BY <1>2, <2>2, ThresholdAssumption DEF Counted, CountFailure, MissedStreak
<1> QED
  BY <1>1, <1>2, CountedStep, PTL DEF Spec, AlertsAreConsecutive

-----------------------------------------------------------------------------
(***************************************************************************)
(* The history: what can be read of it.                                    *)
(***************************************************************************)
LEMMA ReadableIs ==
  ASSUME NEW ix \in Seq(Names), NEW fs \in [Names -> Names]
  PROVE  /\ Readable(ix, fs) \in Seq(Names)
         /\ Len(Readable(ix, fs)) = 0 <=> \A i \in 1..Len(ix) : fs[ix[i]] = NoText
<1> DEFINE gone == {n \in Names : fs[n] = NoText}
           R == Readable(ix, fs)
<1>1. R = AllBut(ix, gone)
  BY DEF Readable
<1> HIDE DEF gone
<1>2. R \in Seq(Names) /\ Range(R) = Range(ix) \ gone
  BY <1>1, AllButIs
<1> HIDE DEF R
<1>3. Len(R) = 0 <=> Range(R) = {}
  BY <1>2, EmptyRange
<1>4. Range(ix) \ gone = {} <=> \A i \in 1..Len(ix) : fs[ix[i]] = NoText
  BY DEF Range, gone
<1> QED
  BY <1>2, <1>3, <1>4 DEF R

LEMMA EmptyIndex ==
  ASSUME NEW fs \in [Names -> Names]
  PROVE  Len(Readable(<< >>, fs)) = 0
<1>1. << >> \in Seq(Names) /\ 1..Len(<< >>) = {}
  OBVIOUS
<1> QED
  BY <1>1, ReadableIs

\* Whoever ends the index and can be read ends the history; what can be read
\* before it comes before it.
LEMMA ReadableLast ==
  ASSUME NEW ix \in Seq(Names), NEW fs \in [Names -> Names],
         ix # << >>, fs[Last(ix)] # NoText
  PROVE  /\ Len(Readable(ix, fs)) >= 1
         /\ Readable(ix, fs)[Len(Readable(ix, fs))] = Last(ix)
         /\ \A i \in 1..(Len(ix) - 1) : fs[ix[i]] # NoText =>
              \E j \in 1..(Len(Readable(ix, fs)) - 1) : Readable(ix, fs)[j] = ix[i]
<1> DEFINE gone == {n \in Names : fs[n] = NoText}
           front == SubSeq(ix, 1, Len(ix) - 1)
           R == Readable(ix, fs)
           F == AllBut(front, gone)
<1>1. R = AllBut(ix, gone) /\ ix[Len(ix)] = Last(ix) /\ Last(ix) \notin gone
  BY DEF Readable, Last
<1>2. front \in Seq(Names) /\ Len(front) = Len(ix) - 1 /\ \A i \in 1..(Len(ix) - 1) : front[i] = ix[i]
  BY FrontIs
<1> HIDE DEF gone
<1>3. R = Append(F, Last(ix))
  BY <1>1, AllButLast
<1> HIDE DEF front, R
<1>4. F \in Seq(Names) /\ Range(F) = Range(front) \ gone
  BY <1>2, AllButIs
<1> HIDE DEF F
<1>5. Len(R) = Len(F) + 1 /\ R[Len(R)] = Last(ix) /\ \A j \in 1..Len(F) : R[j] = F[j]
  BY <1>3, <1>4
<1>6. ASSUME NEW i \in 1..(Len(ix) - 1), fs[ix[i]] # NoText
      PROVE  \E j \in 1..(Len(R) - 1) : R[j] = ix[i]
  <2>1. ix[i] \in Range(front) /\ ix[i] \notin gone
    BY <1>2, <1>6 DEF Range, gone
  <2>2. ix[i] \in Range(F)
    BY <1>4, <2>1
  <2>3. PICK j \in 1..Len(F) : F[j] = ix[i]
    BY <1>4, <2>2 DEF Range
  <2>4. R[j] = ix[i] /\ j \in 1..(Len(R) - 1)
    BY <1>4, <1>5, <2>3
  <2> QED
    BY <2>4
<1>7. Len(F) \in Nat
  BY <1>4
<1> QED
  BY <1>5, <1>6, <1>7 DEF R

\* The last two lines, if both can be read.
LEMMA ReadableTwo ==
  ASSUME NEW ix \in Seq(Names), NEW fs \in [Names -> Names],
         Len(ix) >= 2, fs[Last(ix)] # NoText, fs[ix[Len(ix) - 1]] # NoText
  PROVE  /\ Len(Readable(ix, fs)) >= 2
         /\ Readable(ix, fs)[Len(Readable(ix, fs))] = Last(ix)
         /\ Readable(ix, fs)[Len(Readable(ix, fs)) - 1] = ix[Len(ix) - 1]
<1> DEFINE gone == {n \in Names : fs[n] = NoText}
<1>1. Readable(ix, fs) = AllBut(ix, gone) /\ ix[Len(ix)] = Last(ix)
  BY DEF Readable, Last
<1>2. ix[Len(ix)] \notin gone /\ ix[Len(ix) - 1] \notin gone
  BY <1>1
<1> HIDE DEF gone
<1> QED
  BY <1>1, <1>2, LastTwoStay

\* The last line, if no other can be read.
LEMMA ReadableAlone ==
  ASSUME NEW ix \in Seq(Names), NEW fs \in [Names -> Names],
         ix # << >>, fs[Last(ix)] # NoText,
         \A i \in 1..(Len(ix) - 1) : fs[ix[i]] = NoText
  PROVE  Len(Readable(ix, fs)) = 1
<1> DEFINE gone == {n \in Names : fs[n] = NoText}
<1>1. Readable(ix, fs) = AllBut(ix, gone) /\ ix[Len(ix)] \notin gone
  BY DEF Readable, Last
<1>2. ASSUME NEW i \in 1..(Len(ix) - 1) PROVE ix[i] \in gone
  <2>1. i \in 1..Len(ix)
    OBVIOUS
  <2> QED
    BY <2>1
<1> HIDE DEF gone
<1> QED
  BY <1>1, <1>2, LastAlone

-----------------------------------------------------------------------------
(***************************************************************************)
(* previous_md5 and the history.                                           *)
(***************************************************************************)
\* The history and previous_md5 as they are between checks, unless `apart'.
Sync == IF md5 = NoText THEN index = << >>
        ELSE index # << >> /\ Last(index) = md5 /\ files[md5] # NoText

\* Some snapshot can be read.
SomeReadable(ix) == \E i \in DOMAIN ix : files[ix[i]] # NoText

\* A snapshot of t will differ from the one before it, if there is one.
Differs(t) == index # << >> => /\ Last(index) \in Texts \ {t}
                               /\ files[Last(index)] # NoText

Alters == Is("changed") \/ Is("suppressed") \/ Is("over_budget") \/ Is("repeated")

\* The last two lines of ix can be read, and are of different texts.
Fresh(ix) == /\ Len(ix) >= 2
             /\ ix[Len(ix) - 1] \in Texts \ {md5}
             /\ files[ix[Len(ix) - 1]] # NoText

\* The last line of ix is the text just stored, and either no other can be read
\* or the one before it can, and differs.
Newest(ix) == /\ ix # << >> /\ Last(ix) = md5
              /\ \/ Fresh(ix)
                 \/ \A i \in 1..(Len(ix) - 1) : files[ix[i]] = NoText

\* A check that has found its text.
Found ==
  pc \in {"found", "judged"} =>
    /\ check.text \in Texts
    /\ Is("blocked") => check.verdict = {"blocked"}
    /\ Is("undiffered") => check.verdict = {"undiffered"}
    /\ Is("first") => Alters
    /\ apart \/ /\ ~Is("first") => Sync
                /\ Alters => Differs(check.text)
                /\ ~Is("blocked") /\ ~Is("undiffered") /\ ~Alters => md5 = check.text

\* A check that has stored its result.
Stored ==
  pc = "stored" =>
    /\ check.text \in Texts
    /\ Is("blocked") => check.verdict = {"blocked"}
    /\ apart \/ /\ ~Is("blocked") => md5 = check.text
                /\ IF Is("changed") \/ Is("suppressed") THEN Differs(check.text) ELSE Sync

\* A check that saves its snapshot.
Saving ==
  pc = "saving" => \/ apart
                   \/ /\ name = md5 /\ md5 \in Texts /\ files[md5] # NoText
                      /\ saving = "append" => Differs(md5) /\ (index = << >> => historyN = 0)
                      /\ saving # "append" => Newest(index)
                      /\ saving = "rewrite" => Newest(kept)
                      /\ saving = "saved" /\ historyN >= 2 => Fresh(index)

HistoryTypes == /\ HistoryTypeOK
                /\ md5 \in Names
                /\ apart \in BOOLEAN
                /\ \A t \in Texts : files[t] \in {NoText, t}
                /\ saving # "idle" <=> pc = "saving"

\* What the counter says of the history, wherever it was counted.
Numbered == ~apart \/ saving \in {"unlink", "rewrite", "saved"} =>
              (historyN = 0 => ~SomeReadable(index))

Unbegun == {"idle", "fetch", "process", "skipped", "extract", "missing"}

Kept == /\ HistoryTypes
        /\ pc \in Unbegun => apart \/ Sync
        /\ Found /\ Stored /\ Saving /\ Numbered

LEMMA KeptInit == Init => Kept
<1> SUFFICES ASSUME Init PROVE Kept
  OBVIOUS
<1>1. HistoryTypes /\ pc = "idle" /\ Sync
  <2>1. HistoryTypeOK
    BY DEF Init, HistoryInit, HistoryTypeOK, Names
  <2>2. \A t \in Texts : files[t] = NoText
    BY DEF Init, HistoryInit, Names
  <2> QED
    BY <2>1, <2>2 DEF Init, HistoryInit, HistoryTypes, Names, Sync
<1>2. ~SomeReadable(index)
  BY DEF Init, HistoryInit, SomeReadable
<1> QED
  BY <1>1, <1>2 DEF Kept, Found, Stored, Saving, Numbered

LEMMA PlacesAre == Inv => pc \in Unbegun \cup {"found", "judged", "stored", "saving"}
BY DEF Inv, Types, Unbegun

\* Whatever leaves the history alone and stays before the text or ends the check.
LEMMA EarlyKeeps ==
  ASSUME Kept, UNCHANGED <<historyVars, md5, apart>>,
         pc \in Unbegun, pc' \in Unbegun
  PROVE  Kept'
BY DEF Kept, HistoryTypes, HistoryTypeOK, Sync, Found, Stored, Saving, Numbered, SomeReadable,
       Unbegun, historyVars

\* Whatever leaves the history, the check and previous_md5 alone.
LEMMA StutterKeeps ==
  ASSUME Kept, UNCHANGED <<historyVars, md5, apart, pc, check>>
  PROVE  Kept'
BY DEF Kept, HistoryTypes, HistoryTypeOK, Sync, Found, Stored, Saving, Numbered, SomeReadable,
       Unbegun, Is, Alters, Differs, Newest, Fresh, should_save_history, historyVars

LEMMA EarlyStepKeeps ==
  ASSUME Kept,
         \/ CheckStart \/ FetchPage \/ FetchFails \/ StepFails
         \/ SkipSame \/ Record \/ ProcessFails \/ SkipDone \/ FilterMissing
         \/ \E c \in Configs : FindNothing(c)
  PROVE  Kept'
<1>1. /\ UNCHANGED <<historyVars, md5, apart>>
      /\ pc \in Unbegun /\ pc' \in Unbegun
  BY DEF CheckStart, FetchPage, FetchFails, StepFails, SkipSame, Record, ProcessFails, SkipDone,
         FilterMissing, FindNothing, Unbegun, historyVars
<1> QED
  BY <1>1, EarlyKeeps

\* The text is found: it differs from the newest snapshot, or it is previous_md5.
LEMMA FindTextKeeps ==
  ASSUME Inv, Kept, NEW c \in Configs, FindText(c)
  PROVE  Kept'
<1>1. Gives(c) \subseteq Texts
  BY ExtractAssumption DEF Inv, Running, FindText, Gives
<1>2. /\ UNCHANGED <<historyVars, apart>> /\ pc = "extract" /\ pc' = "found"
  BY DEF FindText, historyVars
<1>3. PICK t \in Gives(c), repeats \in BOOLEAN :
        LET blocked == IF t \in Blocks[c] THEN {"blocked"} ELSE {}
            changed == IF blocked = {} /\ md5 # t
                         THEN {IF repeats THEN "repeated" ELSE "changed"} ELSE {}
            first == IF blocked = {} /\ md5 = NoText THEN {"first"} ELSE {}
        IN /\ check' = [check EXCEPT !.conf = c, !.text = t,
                                     !.verdict = blocked \cup changed \cup first]
           /\ md5' = IF first # {} THEN t ELSE md5
  BY DEF FindText
<1> DEFINE blocked == IF t \in Blocks[c] THEN {"blocked"} ELSE {}
           word == IF repeats THEN "repeated" ELSE "changed"
           changed == IF blocked = {} /\ md5 # t THEN {word} ELSE {}
           first == IF blocked = {} /\ md5 = NoText THEN {"first"} ELSE {}
           said == blocked \cup changed \cup first
<1>4. t \in Texts /\ t # NoText /\ word \in {"repeated", "changed"}
  BY <1>1, <1>3, NoTextAssumption
<1>5. check'.text = t /\ check'.verdict = said
  BY <1>3 DEF Inv, Types
<1>6. md5' = IF first # {} THEN t ELSE md5
  BY <1>3
<1>7. apart \/ Sync
  BY <1>2 DEF Kept, Unbegun
<1> HIDE DEF word
<1>8. HistoryTypes'
  BY <1>2, <1>4, <1>6 DEF Kept, HistoryTypes, HistoryTypeOK, historyVars, Names
<1>9. Found'
  <2>1. CASE t \in Blocks[c]
    <3>1. said = {"blocked"} /\ md5' = md5
      BY <2>1, <1>6
    <3> QED
      BY <1>2, <1>4, <1>5, <1>7, <3>1 DEF Found, Is, Alters, Sync, historyVars
  <2>2. CASE t \notin Blocks[c] /\ md5 = NoText
    <3>1. said = {word, "first"} /\ md5' = t
      BY <2>2, <1>4, <1>6
    <3>2. apart \/ index = << >>
      BY <1>7, <2>2 DEF Sync
    <3> QED
      BY <1>2, <1>4, <1>5, <3>1, <3>2 DEF Found, Is, Alters, Differs, historyVars
  <2>3. CASE t \notin Blocks[c] /\ md5 # NoText /\ md5 # t
    <3>1. said = {word} /\ md5' = md5
      BY <2>3, <1>6
    <3>2. md5 \in Texts
      BY <2>3 DEF Kept, HistoryTypes, Names
    <3> QED
      BY <1>2, <1>4, <1>5, <1>7, <2>3, <3>1, <3>2
         DEF Found, Is, Alters, Differs, Sync, historyVars
  <2>4. CASE t \notin Blocks[c] /\ md5 = t
    <3>1. said = {} /\ md5' = md5
      BY <2>4, <1>4, <1>6
    <3> QED
      BY <1>2, <1>4, <1>5, <1>7, <2>4, <3>1
         DEF Found, Is, Alters, Differs, Sync, historyVars
  <2> QED
    BY <2>1, <2>2, <2>3, <2>4
<1> QED
  BY <1>2, <1>8, <1>9 DEF Kept, Unbegun, Stored, Saving, Numbered, SomeReadable, historyVars

\* Nor does a page without differences touch the history.
LEMMA FindNoDifferenceKeeps ==
  ASSUME Inv, Kept, NEW c \in Configs, FindNoDifference(c)
  PROVE  Kept'
<1>1. /\ UNCHANGED <<historyVars, md5, apart>> /\ pc = "extract" /\ pc' = "found"
  BY DEF FindNoDifference, historyVars
<1>2. check'.text \in Texts /\ check'.verdict = {"undiffered"}
  BY DEF FindNoDifference, Inv, Types
<1>3. HistoryTypes'
  BY <1>1 DEF Kept, HistoryTypes, HistoryTypeOK, historyVars
<1>4. apart \/ Sync
  BY <1>1 DEF Kept, Unbegun
<1>5. Found'
  BY <1>1, <1>2, <1>4 DEF Found, Is, Alters, Sync, historyVars
<1> QED
  BY <1>1, <1>3, <1>5 DEF Kept, Unbegun, Stored, Saving, Numbered, SomeReadable, historyVars

\* A spent budget or the AI rules say "changed" in another word.
LEMMA EvaluateKeeps ==
  ASSUME Inv, Kept, Evaluate
  PROVE  Kept'
<1>1. /\ UNCHANGED <<historyVars, md5, apart>> /\ pc = "found" /\ pc' = "judged"
  BY DEF Evaluate, historyVars
<1>2. /\ check'.text = check.text
      /\ \/ check'.verdict = check.verdict
         \/ /\ Is("changed")
            /\ \E word \in {"over_budget", "suppressed"} :
                 check'.verdict = (check.verdict \ {"changed"}) \cup {word}
  BY DEF Evaluate, Inv, Types
<1>3. /\ Is("blocked") => check.verdict = {"blocked"}
      /\ Is("undiffered") => check.verdict = {"undiffered"}
      /\ check.text \in Texts
  BY <1>1 DEF Kept, Found
<1>4. /\ Is("first")' = Is("first") /\ Alters' = Alters /\ Is("blocked")' = Is("blocked")
      /\ Is("blocked")' => check'.verdict = {"blocked"}
      /\ Is("undiffered")' = Is("undiffered")
      /\ Is("undiffered")' => check'.verdict = {"undiffered"}
  BY <1>2, <1>3 DEF Is, Alters
<1>5. Found'
  BY <1>1, <1>2, <1>4 DEF Kept, Found, Sync, Differs, historyVars
<1> QED
  BY <1>1, <1>5 DEF Kept, Unbegun, HistoryTypes, HistoryTypeOK, Stored, Saving, Numbered,
                    SomeReadable, historyVars

\* previous_md5 becomes the text.
LEMMA StoreResultKeeps ==
  ASSUME Inv, Kept, StoreResult
  PROVE  Kept'
<1>1. /\ UNCHANGED <<historyVars, check>> /\ pc = "judged" /\ pc' = "stored"
      /\ md5' = IF Is("blocked") THEN md5 ELSE check.text
      /\ apart' = \/ apart
                  \/ Is("over_budget")
                  \/ Is("repeated")
                  \/ Is("undiffered") /\ check.text # md5
  BY DEF StoreResult, historyVars
<1>2. Found /\ HistoryTypes
  BY DEF Kept
<1>3. HistoryTypes'
  BY <1>1, <1>2 DEF Found, HistoryTypes, HistoryTypeOK, Names, historyVars
<1>4. Stored'
  <2>1. check'.text \in Texts /\ Is("blocked")' = Is("blocked")
        /\ (Is("blocked") => check.verdict = {"blocked"})
    BY <1>1, <1>2 DEF Found, Is
  <2>2. CASE apart'
    BY <1>1, <2>1, <2>2 DEF Stored, Is
  <2>3. CASE ~apart'
    <3>1. /\ ~apart /\ ~Is("over_budget") /\ ~Is("repeated")
          /\ Is("undiffered") => check.text = md5
      BY <1>1, <2>3
    <3>2. CASE Is("changed") \/ Is("suppressed")
      <4>1. Alters /\ ~Is("blocked") /\ Differs(check.text)
        BY <1>1, <1>2, <3>1, <3>2 DEF Found, Alters, Is
      <4>2. Differs(check.text)'
        BY <1>1, <4>1 DEF Differs, historyVars
      <4> QED
        BY <1>1, <2>1, <3>2, <4>1, <4>2 DEF Stored, Is
    <3>3. CASE ~Is("changed") /\ ~Is("suppressed")
      <4>1. ~Alters /\ ~Is("first") /\ Sync /\ (~Is("blocked") => md5 = check.text)
        BY <1>1, <1>2, <3>1, <3>3 DEF Found, Alters
      <4>2. md5' = md5 /\ Sync'
        BY <1>1, <4>1 DEF Sync, historyVars
      <4> QED
        BY <1>1, <2>1, <3>3, <4>1, <4>2 DEF Stored, Is
    <3> QED
      BY <3>2, <3>3
  <2> QED
    BY <2>2, <2>3
<1>5. Numbered'
  BY <1>1 DEF Kept, HistoryTypes, HistoryTypeOK, Numbered, SomeReadable, historyVars
<1> QED
  BY <1>1, <1>3, <1>4, <1>5 DEF Kept, Found, Saving, Unbegun

\* Nothing is saved when there is nothing new, or the check ends early.
LEMMA NothingToSaveKeeps ==
  ASSUME Kept, NothingToSave
  PROVE  Kept'
<1>1. apart \/ Sync
  BY DEF NothingToSave, should_save_history, Kept, Stored
<1>2. UNCHANGED <<historyVars, md5, apart>> /\ pc = "stored" /\ pc' = "idle"
  BY DEF NothingToSave, historyVars
<1> QED
  BY <1>1, <1>2 DEF Kept, HistoryTypes, HistoryTypeOK, Sync, Found, Stored, Saving, Numbered,
                    SomeReadable, Unbegun, historyVars

\* A snapshot is begun for a text that differs from the newest one.  The other
\* reason to save, an empty history, is none then: previous_md5 has a snapshot.
LEMMA SaveSnapshotKeeps ==
  ASSUME Kept, SaveSnapshot
  PROVE  Kept'
<1> DEFINE n == IF Is("blocked") THEN NoText ELSE check.text
<1>1. /\ pc = "stored" /\ pc' = "saving" /\ saving' = "append"
      /\ should_save_history
      /\ name' = n /\ files' = [files EXCEPT ![n] = check.text]
      /\ historyN' = Len(history)
      /\ UNCHANGED <<index, kept, md5, check>>
      /\ apart' = (apart \/ Is("blocked"))
  BY DEF SaveSnapshot, WriteSnapshot
<1>2. HistoryTypes /\ Stored /\ check.text \in Texts /\ check.text # NoText
  BY <1>1, NoTextAssumption DEF Kept, Stored
<1>3. n \in Names /\ (n \in Texts => n = check.text)
  BY <1>2, NoTextAssumption DEF Names
<1>4. Len(history) \in Nat
  BY <1>2, ReadableIs DEF HistoryTypes, HistoryTypeOK, history
<1> HIDE DEF n
<1>5. files' \in [Names -> Names] /\ \A t \in Texts : files'[t] \in {NoText, t}
  BY <1>1, <1>2, <1>3 DEF HistoryTypes, HistoryTypeOK, Names
<1>6. HistoryTypes'
  BY <1>1, <1>2, <1>3, <1>4, <1>5 DEF HistoryTypes, HistoryTypeOK
<1>7. ASSUME ~apart'
      PROVE  /\ n = md5 /\ md5 \in Texts /\ n = check.text
             /\ Differs(md5)
  <2>1. ~apart /\ ~Is("blocked") /\ n = check.text /\ md5 = check.text
    BY <1>1, <1>2, <1>7 DEF Stored, n
  <2>2. CASE Is("changed") \/ Is("suppressed")
    BY <1>1, <1>2, <2>1, <2>2 DEF Stored
  <2>3. CASE ~Is("changed") /\ ~Is("suppressed")
    <3>1. Sync /\ historyN = 0
      BY <1>1, <1>2, <2>1, <2>3 DEF Stored, should_save_history
    <3>2. index # << >> /\ files[Last(index)] # NoText
      BY <1>2, <2>1, <3>1 DEF Sync
    <3>3. SomeReadable(index)
      BY <1>2, <3>2 DEF SomeReadable, Last, HistoryTypes, HistoryTypeOK
    <3> QED
      BY <2>1, <3>1, <3>3 DEF Kept, Numbered
  <2> QED
    BY <2>1, <2>2, <2>3
<1>8. Saving'
  <2> SUFFICES ASSUME ~apart'
               PROVE  /\ n = md5 /\ md5 \in Texts /\ files'[md5] # NoText
                      /\ Differs(md5)' /\ (index = << >> => historyN' = 0)
    BY <1>1 DEF Saving
  <2>1. n = md5 /\ md5 \in Texts /\ Differs(md5) /\ n = check.text
    BY <1>7
  <2>2. files'[md5] = check.text
    BY <1>1, <1>2, <1>3, <2>1 DEF HistoryTypes, HistoryTypeOK
  <2>3. ASSUME index # << >>
        PROVE  Last(index) \in Texts \ {md5} /\ files'[Last(index)] # NoText
    BY <1>1, <1>2, <2>1, <2>3 DEF Differs, HistoryTypes, HistoryTypeOK, Names
  <2>4. ASSUME index = << >> PROVE Len(history) = 0
    BY <1>2, <2>4, EmptyIndex DEF HistoryTypes, HistoryTypeOK, history
  <2> QED
    BY <1>1, <1>2, <2>1, <2>2, <2>3, <2>4 DEF Differs
<1>9. Numbered'
  <2> SUFFICES ASSUME ~apart', historyN' = 0
               PROVE  index = << >>
    BY <1>1 DEF Numbered, SomeReadable
  <2>1. CASE index # << >>
    <3>1. files[Last(index)] # NoText
      BY <1>7, <2>1 DEF Differs
    <3>2. Len(history) >= 1
      BY <1>2, <2>1, <3>1, ReadableLast DEF HistoryTypes, HistoryTypeOK, history
    <3> QED
      BY <1>1, <3>2
  <2> QED
    BY <2>1
<1> QED
  BY <1>1, <1>6, <1>8, <1>9 DEF Kept, Found, Stored, Unbegun

\* Its line is appended: a line that differs from the one before.
LEMMA AppendKeeps ==
  ASSUME Kept, pc = "saving", AppendIndex, UNCHANGED <<pc, md5, apart>>
  PROVE  Kept'
<1>1. /\ saving = "append" /\ saving' \in {"unlink", "saved"}
      /\ index' = Append(index, name) /\ historyN' = historyN + 1
      /\ UNCHANGED <<files, name, kept>>
  BY DEF AppendIndex
<1>2. HistoryTypes /\ index \in Seq(Names) /\ name \in Names /\ historyN \in Nat
  BY DEF Kept, HistoryTypes, HistoryTypeOK
<1>3. /\ index' \in Seq(Names) /\ index' # << >>
      /\ Len(index') = Len(index) + 1 /\ Len(index) \in Nat
      /\ index'[Len(index')] = name
      /\ \A i \in 1..Len(index) : index'[i] = index[i]
  BY <1>1, <1>2
<1>4. HistoryTypes'
  BY <1>1, <1>2, <1>3 DEF HistoryTypes, HistoryTypeOK
<1>5. Saving'
  <2> SUFFICES ASSUME ~apart
               PROVE  /\ name = md5 /\ md5 \in Texts /\ files[md5] # NoText
                      /\ Newest(index)'
                      /\ historyN' >= 2 => Fresh(index)'
    BY <1>1 DEF Saving
  <2>1. /\ name = md5 /\ md5 \in Texts /\ files[md5] # NoText
        /\ Differs(md5) /\ (index = << >> => historyN = 0)
    BY <1>1 DEF Kept, Saving
  <2>2. ASSUME index # << >>
        PROVE  Fresh(index)'
    <3>1. Len(index) >= 1 /\ index'[Len(index') - 1] = index[Len(index)]
      BY <1>2, <1>3, <2>2
    <3>2. index[Len(index)] \in Texts \ {md5} /\ files[index[Len(index)]] # NoText
      BY <2>1, <2>2 DEF Differs, Last
    <3> QED
      BY <1>1, <1>3, <3>1, <3>2 DEF Fresh
  <2>3. index = << >> => 1..(Len(index') - 1) = {} /\ ~(historyN' >= 2)
    BY <1>1, <1>3, <2>1
  <2>4. Last(index') = md5
    BY <1>3, <2>1 DEF Last
  <2>5. Newest(index)'
    BY <1>3, <2>2, <2>3, <2>4 DEF Newest
  <2> QED
    BY <2>1, <2>2, <2>3, <2>5
<1>6. Numbered'
  BY <1>1, <1>2 DEF Numbered
<1> QED
  BY <1>1, <1>4, <1>5, <1>6 DEF Kept, Found, Stored, Unbegun

\* Two that can be read are the last two.
LEMMA TwoAreFresh ==
  ASSUME HistoryTypes, NEW ix \in Seq(Names), Newest(ix), files[md5] # NoText,
         Len(Readable(ix, files)) >= 2
  PROVE  Fresh(ix)
<1>1. files \in [Names -> Names] /\ ix # << >> /\ files[Last(ix)] # NoText
  BY DEF Newest, HistoryTypes, HistoryTypeOK
<1>2. CASE \A i \in 1..(Len(ix) - 1) : files[ix[i]] = NoText
  <2>1. Len(Readable(ix, files)) = 1
    BY <1>1, <1>2, ReadableAlone
  <2> QED
    BY <2>1
<1> QED
  BY <1>2 DEF Newest

\* The counter, counted again while a snapshot is saved.
LEMMA CountKeeps ==
  ASSUME Kept, UNCHANGED <<files, index, name, md5, apart, pc, check>>,
         \/ UNCHANGED <<saving, kept>>
         \/ saving = "rewrite" /\ saving' = "saved" /\ kept' = << >>,
         historyN' = Len(history)
  PROVE  Kept'
<1>1. HistoryTypes /\ files \in [Names -> Names] /\ index \in Seq(Names)
  BY DEF Kept, HistoryTypes, HistoryTypeOK
<1>2. /\ Len(history) \in Nat
      /\ Len(history) = 0 => ~SomeReadable(index)
      /\ index = << >> => Len(history) = 0
  BY <1>1, ReadableIs, EmptyIndex DEF history, SomeReadable
<1>3. HistoryTypes'
  <2>1. << >> \in Seq(Names)
    OBVIOUS
  <2>2. kept' \in Seq(Names)
    BY <1>1, <2>1 DEF HistoryTypes, HistoryTypeOK
  <2> QED
    BY <1>1, <1>2, <2>2 DEF HistoryTypes, HistoryTypeOK
<1>4. Numbered'
  BY <1>2 DEF Numbered, SomeReadable
<1>5. Saving'
  <2>1. CASE pc = "saving" /\ ~apart
    <3>1. ASSUME Newest(index), files[md5] # NoText, Len(history) >= 2
          PROVE  Fresh(index)
      BY <1>1, <3>1, TwoAreFresh DEF history
    <3> QED
      BY <1>1, <1>2, <2>1, <3>1
         DEF Kept, Saving, Differs, Newest, Fresh, HistoryTypes, HistoryTypeOK
  <2> QED
    BY <2>1 DEF Saving
<1> QED
  BY <1>3, <1>4, <1>5 DEF Kept, Sync, Found, Stored, Is, Alters, Differs, Unbegun

\* What is kept of the history, and what is unlinked of the rest.
LEMMA TrimIs ==
  ASSUME Kept, Trim
  PROVE  /\ saving = "unlink" /\ saving' = "rewrite" /\ pc = "saving"
         /\ UNCHANGED <<index, name, md5, pc, check>>
         /\ HistoryTypes'
         /\ \A n \in Names : files[n] = NoText => files'[n] = NoText
         /\ historyN' = Len(history)
         /\ ~apart' => ~apart /\ \A i \in 1..Len(kept') : files'[kept'[i]] # NoText
         /\ Len(history) >= 1 =>
              /\ Len(kept') \in 1..Len(history)
              /\ \A i \in 1..Len(kept') : kept'[i] = history[i + Len(history) - Len(kept')]
              /\ \A i \in 1..(Len(history) - Len(kept')) : files'[history[i]] = NoText
<1> DEFINE H == history
           L == Len(H)
           first == L - MaxLen
           dropped == {H[i] : i \in 1..first}
           a == IF first < 0 THEN 1 ELSE first + 1
<1>1. HistoryTypes
  BY DEF Kept
<1>2. H \in Seq(Names) /\ L \in Nat /\ L = Len(H)
  BY <1>1, ReadableIs DEF HistoryTypes, HistoryTypeOK, history
<1>3. /\ saving = "unlink" /\ saving' = "rewrite" /\ pc = "saving"
      /\ kept' = SubSeq(H, a, L)
      /\ files' = [n \in Names |-> IF n \in dropped THEN NoText ELSE files[n]]
      /\ historyN' = L
      /\ UNCHANGED <<index, name, md5, pc, check>>
      /\ apart' = (apart \/ \E i \in DOMAIN kept' : files'[kept'[i]] = NoText)
  BY DEF Trim, TrimUnlink
<1> HIDE DEF H, L
<1>4. /\ a \in Int /\ a >= 1 /\ (L >= 1 => a <= L)
      /\ \A i \in 1..(a - 1) : i \in 1..first
  BY <1>2, MaxLenAssumption
<1> HIDE DEF dropped, a
<1>5. \A n \in Names : files'[n] \in {files[n], NoText} /\ (n \in dropped => files'[n] = NoText)
  BY <1>3
<1>6. /\ kept' \in Seq(Names)
      /\ Len(kept') = IF a <= L THEN L - a + 1 ELSE 0
      /\ \A i \in 1..(L - a + 1) : kept'[i] = H[a + i - 1]
  <2>1. \A i \in a..L : H[i] \in Names
    BY <1>2, <1>4
  <2> QED
    BY <1>2, <1>3, <1>4, <2>1, SubSeqProperties
<1>7. HistoryTypes'
  <2>1. files' \in [Names -> Names] /\ NoText \in Names
    BY <1>1, <1>3 DEF HistoryTypes, HistoryTypeOK, Names
  <2>2. \A t \in Texts : files'[t] \in {NoText, t}
    BY <1>1, <1>5 DEF HistoryTypes, Names
  <2> QED
    BY <1>1, <1>2, <1>3, <1>6, <2>1, <2>2 DEF HistoryTypes, HistoryTypeOK
<1>8. ASSUME ~apart'
      PROVE  ~apart /\ \A i \in 1..Len(kept') : files'[kept'[i]] # NoText
  <2>1. DOMAIN kept' = 1..Len(kept')
    BY <1>6
  <2> QED
    BY <1>3, <1>8, <2>1
<1>9. ASSUME L >= 1
       PROVE  /\ Len(kept') \in 1..L
              /\ \A i \in 1..Len(kept') : kept'[i] = H[i + L - Len(kept')]
              /\ \A i \in 1..(L - Len(kept')) : files'[H[i]] = NoText
  <2>1. Len(kept') = L - a + 1 /\ L - Len(kept') = a - 1
    BY <1>2, <1>4, <1>6, <1>9
  <2>2. Len(kept') \in 1..L
    BY <1>2, <1>4, <1>9, <2>1
  <2>3. \A i \in 1..Len(kept') : a + i - 1 = i + L - Len(kept')
    BY <1>2, <1>4, <2>1
  <2>4. \A i \in 1..Len(kept') : kept'[i] = H[i + L - Len(kept')]
    BY <1>6, <2>1, <2>3
  <2>5. ASSUME NEW i \in 1..(a - 1)
        PROVE  files'[H[i]] = NoText
    <3>1. i \in 1..first /\ i \in 1..L
      BY <1>2, <1>4, <1>9
    <3>2. H[i] \in dropped /\ H[i] \in Names
      BY <1>2, <3>1 DEF dropped
    <3> QED
      BY <1>5, <3>2
  <2> QED
    BY <2>1, <2>2, <2>4, <2>5
<1> QED
  BY <1>3, <1>5, <1>7, <1>8, <1>9 DEF H, L

\* Trimming that leaves what it keeps readable leaves the newest line the newest.
LEMMA TrimKeeps ==
  ASSUME Kept, Trim
  PROVE  Kept'
<1> DEFINE L == Len(history)
           l == Len(kept')
<1>1. /\ saving = "unlink" /\ saving' = "rewrite" /\ pc = "saving"
      /\ UNCHANGED <<index, name, md5, pc, check>>
      /\ HistoryTypes'
      /\ \A n \in Names : files[n] = NoText => files'[n] = NoText
      /\ historyN' = L
  BY TrimIs
<1>2. /\ files \in [Names -> Names] /\ index \in Seq(Names) /\ kept' \in Seq(Names)
      /\ HistoryTypes
  BY <1>1 DEF Kept, HistoryTypes, HistoryTypeOK
<1>3. ASSUME historyN' = 0
      PROVE  ~SomeReadable(index)'
  <2>1. \A i \in 1..Len(index) : files[index[i]] = NoText
    BY <1>1, <1>2, <1>3, ReadableIs DEF history
  <2>2. \A i \in 1..Len(index) : index[i] \in Names
    BY <1>2
  <2>3. \A i \in 1..Len(index) : files'[index[i]] = NoText
    BY <1>1, <2>1, <2>2
  <2>4. DOMAIN index' = 1..Len(index) /\ index' = index
    BY <1>1, <1>2
  <2> QED
    BY <2>3, <2>4 DEF SomeReadable
<1>4. ASSUME ~apart'
      PROVE  /\ name = md5 /\ md5 \in Texts /\ files'[md5] # NoText
             /\ Newest(index)' /\ Newest(kept)'
  <2>1. /\ ~apart /\ name = md5 /\ md5 \in Texts /\ files[md5] # NoText /\ Newest(index)
    BY <1>1, <1>4, TrimIs DEF Kept, Saving
  <2>2. index # << >> /\ Last(index) = md5
    BY <2>1 DEF Newest
  <2>3. /\ L \in Nat /\ L >= 1 /\ history[L] = md5
        /\ \A i \in 1..(Len(index) - 1) : files[index[i]] # NoText =>
             \E j \in 1..(L - 1) : history[j] = index[i]
    <3>1. L \in Nat
      BY <1>2, ReadableIs DEF history
    <3>2. /\ L >= 1 /\ history[L] = Last(index)
          /\ \A i \in 1..(Len(index) - 1) : files[index[i]] # NoText =>
               \E j \in 1..(L - 1) : history[j] = index[i]
      BY <1>2, <2>1, <2>2, ReadableLast DEF history
    <3> QED
      BY <2>2, <3>1, <3>2
  <2>4. /\ l \in 1..L
        /\ \A i \in 1..l : kept'[i] = history[i + L - l] /\ files'[kept'[i]] # NoText
        /\ \A i \in 1..(L - l) : files'[history[i]] = NoText
    BY <1>4, <2>3, TrimIs
  <2> HIDE DEF L, l
  <2>5. kept'[l] = md5 /\ files'[md5] # NoText /\ kept' # << >> /\ Last(kept') = md5
    <3>1. l \in 1..l /\ l + L - l = L /\ l \in Nat
      BY <2>3, <2>4
    <3>2. kept'[l] = md5 /\ files'[md5] # NoText
      BY <2>3, <2>4, <3>1
    <3>3. kept' # << >>
      BY <1>2, <2>4 DEF l
    <3> QED
      BY <3>2, <3>3 DEF Last, l
  <2>6. CASE l = 1
    <3>1. 1..(Len(kept') - 1) = {}
      BY <2>6 DEF l
    <3>2. Newest(kept)'
      BY <1>1, <2>5, <3>1 DEF Newest
    <3>3. ASSUME NEW i \in 1..(Len(index) - 1)
          PROVE  files'[index[i]] = NoText
      <4>1. CASE files[index[i]] = NoText
        <5>1. i \in 1..Len(index)
          BY <1>2
        <5>2. index[i] \in Names
          BY <1>2, <5>1
        <5> QED
          BY <1>1, <4>1, <5>2
      <4>2. CASE files[index[i]] # NoText
        BY <2>3, <2>4, <2>6, <4>2
      <4> QED
        BY <4>1, <4>2
    <3>4. Newest(index)'
      BY <1>1, <2>2, <3>3 DEF Newest
    <3> QED
      BY <2>1, <2>5, <3>2, <3>4
  <2>7. CASE l # 1
    <3>0. l \in Int /\ L \in Int /\ 1 <= l /\ l <= L
      <4>1. L \in Int /\ l \in 1..L
        BY <2>3, <2>4
      <4> QED
        BY <4>1
    <3>1. L >= 2 /\ l >= 2 /\ l - 1 \in 1..l /\ (l - 1) + L - l = L - 1 /\ l \in Nat
      BY <2>7, <3>0
    <3>2. kept'[l - 1] = history[L - 1] /\ files'[kept'[l - 1]] # NoText
      BY <2>4, <3>1
    <3>3. Fresh(index)
      BY <1>2, <2>1, <3>1, TwoAreFresh DEF history, L
    <3>4. history[L - 1] = index[Len(index) - 1]
      BY <1>2, <2>1, <2>2, <3>3, ReadableTwo DEF Fresh, history, L
    <3>5. Fresh(index)' /\ Fresh(kept)'
      BY <1>1, <3>1, <3>2, <3>3, <3>4 DEF Fresh, l
    <3> QED
      BY <1>1, <2>1, <2>2, <2>5, <3>5 DEF Newest
  <2> QED
    BY <2>6, <2>7
<1>5. Saving' /\ Numbered'
  BY <1>1, <1>3, <1>4 DEF Saving, Numbered
<1> QED
  BY <1>1, <1>5 DEF Kept, Found, Stored, Unbegun

\* The index becomes what was kept.
LEMMA RewriteKeeps ==
  ASSUME Kept, pc = "saving", TrimRewrite, UNCHANGED <<pc, md5, apart>>
  PROVE  Kept'
<1>1. /\ saving = "rewrite" /\ saving' = "saved"
      /\ index' = kept /\ kept' = << >>
      /\ historyN' = Len(Readable(kept, files))
      /\ UNCHANGED <<files, name>>
  BY DEF TrimRewrite
<1>2. HistoryTypes /\ files \in [Names -> Names] /\ kept \in Seq(Names) /\ << >> \in Seq(Names)
  BY DEF Kept, HistoryTypes, HistoryTypeOK
<1>3. Len(Readable(kept, files)) \in Nat
      /\ (Len(Readable(kept, files)) = 0 => ~SomeReadable(kept))
  BY <1>2, ReadableIs DEF SomeReadable
<1>4. HistoryTypes'
  BY <1>1, <1>2, <1>3 DEF HistoryTypes, HistoryTypeOK
<1>5. Numbered'
  BY <1>1, <1>3 DEF Numbered, SomeReadable
<1>6. Saving'
  <2> SUFFICES ASSUME ~apart
               PROVE  /\ name = md5 /\ md5 \in Texts /\ files[md5] # NoText
                      /\ Newest(index)' /\ (historyN' >= 2 => Fresh(index)')
    BY <1>1 DEF Saving
  <2>1. name = md5 /\ md5 \in Texts /\ files[md5] # NoText /\ Newest(kept)
    BY <1>1 DEF Kept, Saving
  <2>2. historyN' >= 2 => Fresh(kept)
    BY <1>1, <1>2, <2>1, TwoAreFresh
  <2> QED
    BY <1>1, <2>1, <2>2 DEF Newest, Fresh
<1> QED
  BY <1>1, <1>4, <1>5, <1>6 DEF Kept, Found, Stored, Unbegun

LEMMA SaveStepKeptOn ==
  ASSUME Kept, SaveStep \/ TrimGoesOn
  PROVE  Kept'
<1>1. CASE SaveStep
  <2>1. pc = "saving" /\ UNCHANGED <<pc, md5, apart>> /\ (AppendIndex \/ TrimRewrite)
    BY <1>1 DEF SaveStep
  <2> QED
    BY <2>1, AppendKeeps, RewriteKeeps
<1>2. CASE TrimGoesOn
  <2>1. /\ saving = "rewrite" /\ saving' = "saved" /\ kept' = << >>
        /\ historyN' = Len(history)
        /\ UNCHANGED <<files, index, name, md5, apart, pc, check>>
    BY <1>2 DEF TrimGoesOn, TrimFails
  <2> QED
    BY <2>1, CountKeeps
<1> QED
  BY <1>1, <1>2

\* A check is over, with what it was saving saved or given up.
LEMMA EndKeeps ==
  ASSUME Kept, End, EndSave, UNCHANGED <<files, index>>,
         historyN' = historyN \/ historyN' = Len(history),
         md5' = md5 \/ apart',
         md5' \in Names, apart' \in BOOLEAN,
         apart' \/ Sync,
         apart' \/ (historyN = 0 => ~SomeReadable(index))
  PROVE  Kept'
<1>1. HistoryTypes /\ files \in [Names -> Names] /\ index \in Seq(Names)
      /\ NoText \in Names /\ << >> \in Seq(Names)
  BY DEF Kept, HistoryTypes, HistoryTypeOK, Names
<1>2. Len(history) \in Nat /\ (Len(history) = 0 => ~SomeReadable(index))
  BY <1>1, ReadableIs DEF history, SomeReadable
<1>3. HistoryTypes'
  BY <1>1, <1>2 DEF HistoryTypes, HistoryTypeOK, EndSave
<1>4. apart' \/ Sync'
  BY DEF Sync
<1>5. Numbered'
  BY <1>2 DEF Numbered, EndSave, SomeReadable
<1> QED
  BY <1>3, <1>4, <1>5 DEF Kept, Found, Stored, Saving, Unbegun

\* Newest line and previous_md5 agree when the snapshot was saved without a
\* cause of `apart', or when Together says so.
LEMMA FinishKeeps ==
  ASSUME Kept, Notify \/ FinishQuietly
  PROVE  Kept'
<1>1. /\ pc = "saving" /\ saving = "saved" /\ End /\ EndSave
      /\ UNCHANGED <<files, index, historyN, md5>>
      /\ apart' = (apart /\ ~Together)
  BY DEF Notify, FinishQuietly, Finish, Saved
<1>2. HistoryTypes /\ apart \in BOOLEAN /\ md5 \in Names
  BY DEF Kept, HistoryTypes
<1>3. apart' \/ Sync
  <2>1. CASE ~apart
    <3>1. md5 \in Texts /\ files[md5] # NoText /\ Newest(index)
      BY <1>1, <2>1 DEF Kept, Saving
    <3> QED
      BY <3>1, NoTextAssumption DEF Newest, Sync
  <2>2. CASE Together
    BY <2>2 DEF Together, Sync
  <2> QED
    BY <1>1, <2>1, <2>2
<1>4. historyN = 0 => ~SomeReadable(index)
  BY <1>1 DEF Kept, Numbered
<1>5. apart' \in BOOLEAN
  BY <1>1
<1> QED
  BY <1>1, <1>2, <1>3, <1>4, <1>5, EndKeeps

LEMMA SaveFailsKeeps ==
  ASSUME Kept, SaveFails
  PROVE  Kept'
<1>1. /\ End /\ EndSave /\ apart' = TRUE
      /\ UNCHANGED <<files, index, historyN, md5>>
  BY DEF SaveFails
<1>2. md5 \in Names
  BY DEF Kept, HistoryTypes
<1> QED
  BY <1>1, <1>2, EndKeeps

\* Cut short, a check leaves the two in step but for the causes CutShort names.
LEMMA CutShortKeeps ==
  ASSUME Inv, Kept, Cancel \/ Restart
  PROVE  Kept'
<1>1. /\ End /\ EndSave /\ UNCHANGED <<files, index>>
      /\ apart' = \/ apart \/ Is("first")
                  \/ pc = "stored" /\ should_save_history
                  \/ pc = "saving" /\ saving # "saved"
      /\ historyN' = historyN \/ historyN' = Len(history)
      /\ md5' = md5 \/ (md5' = NoText /\ Is("first"))
  BY DEF Cancel, Restart, CutShort
<1>2. HistoryTypes /\ apart \in BOOLEAN /\ md5 \in Names /\ NoText \in Names
  BY DEF Kept, HistoryTypes, Names
<1>3. apart' \/ Sync
  <2> SUFFICES ASSUME ~apart'
               PROVE  Sync
    OBVIOUS
  <2>1. /\ ~apart /\ ~Is("first")
        /\ pc = "stored" => ~should_save_history
        /\ pc = "saving" => saving = "saved"
    BY <1>1
  <2>2. CASE pc = "stored"
    BY <2>1, <2>2 DEF Kept, Stored, should_save_history
  <2>3. CASE pc = "saving"
    <3>1. md5 \in Texts /\ files[md5] # NoText /\ Newest(index)
      BY <2>1, <2>3 DEF Kept, Saving
    <3> QED
      BY <3>1, NoTextAssumption DEF Newest, Sync
  <2>4. CASE pc \in {"found", "judged"}
    BY <2>1, <2>4 DEF Kept, Found
  <2>5. CASE pc \in Unbegun
    BY <2>1, <2>5 DEF Kept
  <2> QED
    BY <2>2, <2>3, <2>4, <2>5, PlacesAre DEF Kept, Unbegun
<1>4. apart' \/ (historyN = 0 => ~SomeReadable(index))
  BY <1>1 DEF Kept, Numbered
<1>5. apart' \in BOOLEAN /\ md5' \in Names /\ (md5' = md5 \/ apart')
  BY <1>1, <1>2
<1> QED
  BY <1>1, <1>3, <1>4, <1>5, EndKeeps

\* Clearing parts them, unless nothing is left of either.
LEMMA ClearKeeps ==
  ASSUME Kept, ClearFiles \/ ClearFields
  PROVE  Kept'
<1>1. HistoryTypes /\ << >> \in Seq(Names) /\ NoText \in Names
  BY DEF Kept, HistoryTypes, Names
<1>2. CASE ClearFiles
  <2>1. /\ files' = [n \in Names |-> NoText] /\ index' = << >> /\ historyN' = 0
        /\ apart' = TRUE /\ UNCHANGED <<saving, name, kept, md5, pc, check>>
    BY <1>2 DEF ClearFiles, UnlinkAll
  <2>2. HistoryTypes'
    <3>1. files' \in [Names -> Names] /\ \A t \in Texts : files'[t] = NoText
      BY <1>1, <2>1 DEF Names
    <3> QED
      BY <1>1, <2>1, <3>1 DEF HistoryTypes, HistoryTypeOK
  <2>3. Numbered'
    BY <2>1 DEF Numbered, SomeReadable
  <2> QED
    BY <2>1, <2>2, <2>3 DEF Kept, Found, Stored, Saving, Is, Alters, Unbegun
<1>3. CASE ClearFields
  <2>1. /\ md5' = NoText /\ apart' = (pc # "idle" \/ index # << >>)
        /\ UNCHANGED <<files, index, historyN, saving, name, kept, pc, check>>
    BY <1>3 DEF ClearFields, historyVars
  <2>2. HistoryTypes'
    BY <1>1, <2>1 DEF HistoryTypes, HistoryTypeOK
  <2>3. CASE apart'
    BY <2>1, <2>2, <2>3
       DEF Kept, Found, Stored, Saving, Numbered, SomeReadable, Is, Alters, Unbegun
  <2>4. CASE ~apart'
    <3>1. pc' = "idle" /\ index' = << >>
      BY <2>1, <2>4
    <3>2. Sync' /\ ~SomeReadable(index)'
      BY <2>1, <3>1 DEF Sync, SomeReadable
    <3> QED
      BY <2>2, <3>1, <3>2 DEF Kept, Found, Stored, Saving, Numbered, Unbegun
  <2> QED
    BY <2>3, <2>4
<1> QED
  BY <1>2, <1>3

\* An edit leaves all of it alone; a reader only counts again.
LEMMA MeanwhileKeeps ==
  ASSUME Inv, Kept, Meanwhile
  PROVE  Kept'
<1>1. ASSUME NEW c \in Configs, Edit(c) \/ EditTag(c) \/ EditSettings(c)
      PROVE  Kept'
  <2>1. UNCHANGED <<historyVars, md5, apart, pc, check>>
    BY <1>1 DEF Edit, EditTag, EditSettings
  <2> QED
    BY <2>1, StutterKeeps
<1>2. CASE UseHistory
  <2>1. /\ UNCHANGED <<files, index, saving, name, kept, md5, apart, pc, check>>
        /\ historyN' = Len(history)
    BY <1>2 DEF UseHistory, ReadHistory
  <2> QED
    BY <2>1, CountKeeps
<1> QED
  BY <1>1, <1>2, ClearKeeps, CutShortKeeps DEF Meanwhile

LEMMA KeptStep == Inv /\ Kept /\ [Next]_vars => Kept'
<1> SUFFICES ASSUME Inv, Kept, [Next]_vars PROVE Kept'
  OBVIOUS
<1>1. CASE Checking
  <2>1. ASSUME NEW c \in Configs, FindText(c) PROVE Kept'
    BY <2>1, FindTextKeeps
  <2>2. ASSUME NEW c \in Configs, FindNoDifference(c) PROVE Kept'
    BY <2>2, FindNoDifferenceKeeps
  <2> QED
    BY <1>1, <2>1, <2>2, EarlyStepKeeps, EvaluateKeeps, StoreResultKeeps, NothingToSaveKeeps,
       SaveSnapshotKeeps, SaveStepKeptOn, TrimKeeps, SaveFailsKeeps, FinishKeeps
       DEF Checking
<1>2. CASE Meanwhile
  BY <1>2, MeanwhileKeeps
<1>3. CASE UNCHANGED vars
  BY <1>3, StutterKeeps DEF vars
<1> QED
  BY <1>1, <1>2, <1>3 DEF Next

\* Between checks the newest snapshot that can be read is of the text the next
\* page is compared with: previous_md5 and save_history_blob() in worker.py.
THEOREM NewestIsCompared == Spec => []StoredIsSaved
<1>1. Kept => StoredIsSaved
  <2> SUFFICES ASSUME Kept, pc = "idle", md5 # NoText, ~apart
               PROVE  history # << >> /\ Last(history) = md5
    BY DEF StoredIsSaved
  <2>1. /\ index # << >> /\ Last(index) = md5 /\ files[md5] # NoText
        /\ index \in Seq(Names) /\ files \in [Names -> Names]
    BY DEF Kept, Unbegun, Sync, HistoryTypes, HistoryTypeOK
  <2>2. Len(history) >= 1 /\ history[Len(history)] = md5 /\ history \in Seq(Names)
    <3>1. Len(history) >= 1 /\ history[Len(history)] = md5
      BY <2>1, ReadableLast DEF history
    <3>2. history \in Seq(Names)
      BY <2>1, ReadableIs DEF history
    <3> QED
      BY <3>1, <3>2
  <2> QED
    BY <2>2 DEF Last
<1> QED
  BY <1>1, InvInit, InvStep, KeptInit, KeptStep, PTL DEF Spec

\* A change is announced only with two snapshots that can be read and differ:
\* send_content_changed_notification() with history_n >= 2.
THEOREM AlertsShowChanges == Spec => NoFalseAlert
<1>1. ASSUME Kept, Notified, ~apart
      PROVE  /\ Len(history) >= 2
             /\ files[Last(history)] # files[history[Len(history) - 1]]
  <2>1. /\ md5 \in Texts /\ files[md5] # NoText
        /\ Newest(index) /\ historyN \in Nat /\ historyN >= 2
    BY <1>1 DEF Kept, Saving, Notified, Notifies, HistoryTypes, HistoryTypeOK
  <2>2. /\ Fresh(index) /\ Last(index) = md5
        /\ index \in Seq(Names) /\ files \in [Names -> Names]
    BY <1>1, <2>1 DEF Kept, Saving, Notified, Newest, HistoryTypes, HistoryTypeOK
  <2>3. /\ Len(history) >= 2
        /\ history[Len(history)] = md5
        /\ history[Len(history) - 1] = index[Len(index) - 1]
    BY <2>1, <2>2, ReadableTwo DEF Fresh, history
  <2>4. \A t \in Texts : files[t] \in {NoText, t}
    BY <1>1 DEF Kept, HistoryTypes
  <2>5. files[md5] # files[index[Len(index) - 1]]
    BY <2>1, <2>2, <2>4 DEF Fresh
  <2> QED
    BY <2>3, <2>5 DEF Last
<1> QED
  BY <1>1, InvInit, InvStep, KeptInit, KeptStep, PTL DEF Spec, NoFalseAlert

-----------------------------------------------------------------------------
\* The rest of the types.
Rest == /\ clearing \in BOOLEAN /\ judged \in Names
        /\ confHash \in {NoHash} \cup {HashOf[c] : c \in Configs}

LEMMA RestStep == Inv /\ Rest /\ [Next]_vars => Rest'
<1> SUFFICES ASSUME Inv, Rest, [Next]_vars PROVE Rest'
  OBVIOUS
<1> USE DEF Rest
<1>1. CASE StoreResult
  <2>1. Extract[check.conf][check.seen] \in Names
    BY <1>1 DEF StoreResult, Inv, Running, Names
  <2>2. check.hash \in {NoHash} \cup {HashOf[c] : c \in Configs}
    BY DEF Inv, Types
  <2> QED
    BY <1>1, <2>1, <2>2 DEF StoreResult
<1>2. ASSUME UNCHANGED <<judged, confHash>>, clearing' \in {clearing, TRUE, FALSE}
      PROVE  Rest'
  BY <1>2
<1> QED
  BY <1>1, <1>2 DEF Next, vars, Checking, Meanwhile, CheckStart, FetchPage, FetchFails,
     SkipSame, Record, ProcessFails, FindText, FindNoDifference, FindNothing, SkipDone, FilterMissing,
     StepFails, Evaluate, NothingToSave, SaveSnapshot, SaveStep, Trim, TrimGoesOn,
     SaveFails, Notify, FinishQuietly, Finish, Edit, EditTag, EditSettings, ClearFiles,
     ClearFields, Cancel, Restart, CutShort, UseHistory

\* Every variable keeps its type, and a snapshot is only saved by a check that is
\* at it: pc and save_history_blob() go together.
THEOREM TypeCorrect == Spec => []TypeOK
<1>1. Init => Counted /\ Rest
  <2>1. Init => Counted
    BY ThresholdAssumption DEF Init, Counted
  <2>2. Init => Rest
    BY DEF Init, Rest, Names
  <2> QED
    BY <2>1, <2>2
<1>2. Inv /\ Kept /\ Counted /\ Rest => TypeOK
  <2> SUFFICES ASSUME Inv, Kept, Counted, Rest PROVE TypeOK
    OBVIOUS
  <2>1. /\ check.readRaw \in Pages \cup {NoPage} /\ check.seen \in Pages \cup {NoPage}
        /\ check.verdict \subseteq Verdicts
    BY DEF Inv, Types
  <2> QED
    BY <2>1 DEF Inv, Types, Kept, HistoryTypes, Counted, Rest, TypeOK
<1> QED
  BY <1>1, <1>2, InvInit, InvStep, KeptInit, KeptStep, CountedStep, RestStep, PTL DEF Spec

-----------------------------------------------------------------------------
\* The fetch.
HIDE DEF fields, ghosts, Settled, Processing, Go, End, Happens

Places == {"start", "page", "goto", "race", "quiet", "last", "script", "settle", "loading", "status", "steps",
           "extract", "shoot", "quit", "driver", "done", "failed", "raised"}
Tabs == [doc : Nat, next : Nat, answer : Nat, loaded : BOOLEAN, last : Nat,
         status : Seq(Statuses \cup {Good})]
Fetches == [backend : Backends, pc : Places, goto : Nat, tries : Nat, response : Nat,
            again : BOOLEAN, resets : Nat, content : Nat]

FetchTypes == /\ tab \in Tabs /\ fetch \in Fetches
              /\ tried \in Seq(Backends) /\ waits \in Nat
              /\ stirred \in {"no", "loading", "later"}

Before == {"start", "page", "goto", "race", "settle"}
\* How often it has waited, by where it is.
Waited == /\ fetch.pc \in Before \/ (fetch.pc = "script" /\ Kind # "puppeteer") => waits = 0
          /\ fetch.pc \in {"start", "page", "goto", "race"} => fetch.resets = 0
          /\ fetch.pc = "quiet" => waits = fetch.resets /\ waits <= MaxResets
          /\ fetch.pc = "last" => waits <= MaxResets + 1
          /\ fetch.pc \in {"quiet", "last"} => Kind = "puppeteer"
          /\ WaitBounded

\* Nothing is stored before it is judged, and what was judged is shown, until the site moves.
Shown == /\ fetch.pc \in Before \cup {"quiet", "last", "script", "loading", "status", "steps", "extract",
                                        "driver"}
              => fetch.content = 0
         /\ (FetchJudged \/ fetch.pc = "loading") /\ stirred = "no"
              => fetch.pc = "shoot" \/ fetch.response = tab.doc
         /\ JudgedIsExtracted

Closed == ClosedAfterwards /\ (fetch.pc = "start" => open = {})

FetchInv == FetchTypes /\ Waited /\ Shown /\ Closed /\ EachAtMostOnce

LEMMA AppendIsSeq == ASSUME NEW S, NEW q \in Seq(S), NEW x \in S PROVE Append(q, x) \in Seq(S)
OBVIOUS

LEMMA ChangedIsSeq ==
  ASSUME NEW S, NEW q \in Seq(S), NEW n, NEW x \in S
  PROVE  [q EXCEPT ![n] = x] \in Seq(S)
<1>1. q \in [1..Len(q) -> S] /\ Len(q) \in Nat
  OBVIOUS
<1> DEFINE r == [q EXCEPT ![n] = x]
<1>2. r \in [1..Len(q) -> S]
  BY <1>1
<1> HIDE DEF r
<1>3. r \in UNION {[1..k -> S] : k \in Nat}
  BY <1>1, <1>2
<1>4. r \in Seq(S)
  BY <1>3, SeqDef
<1>5. QED
  BY <1>4 DEF r

LEMMA FetchInit == FetchingInit => FetchInv
<1> SUFFICES ASSUME FetchingInit PROVE FetchInv
  OBVIOUS
<1>1. PICK b \in Backends : fetch = NewFetch(b) /\ tried = <<b>>
  BY DEF FetchingInit
<1>2. tab \in Tabs /\ fetch \in Fetches
  BY <1>1 DEF FetchingInit, Tabs, Fetches, Blank, NewFetch, Places
<1>3. fetch.pc = "start" /\ fetch.content = 0 /\ fetch.resets = 0
  BY <1>1 DEF NewFetch
<1>4. waits = 0 /\ open = {} /\ stirred = "no"
  BY DEF FetchingInit
<1>5. tried \in Seq(Backends) /\ Len(tried) = 1 /\ DOMAIN tried = {1}
  BY <1>1
<1>6. EachAtMostOnce
  BY <1>5, MaxAttemptsAssumption DEF EachAtMostOnce, IsInjective
<1>7. QED
  BY <1>2, <1>3, <1>4, <1>5, <1>6, MaxResetsAssumption
     DEF FetchInv, FetchTypes, Waited, WaitBounded, Shown, JudgedIsExtracted, FetchJudged, FetchAt, Closed,
         ClosedAfterwards

LEMMA RenavigatesKeepsInv ==
  ASSUME FetchInv, Renavigates
  PROVE  FetchInv'
<1> USE MaxResetsAssumption
<1>1. FetchTypes'
  <2>1. /\ tab \in Tabs /\ fetch \in Fetches /\ waits \in Nat
        /\ tried \in Seq(Backends) /\ stirred \in {"no", "loading", "later"}
    BY DEF FetchInv, FetchTypes
  <2>2. tab' \in Tabs
    <3>1. /\ tab.next \in Nat /\ tab.last \in Nat /\ tab.last + 1 \in Nat
          /\ Append(tab.status, Good) \in Seq(Statuses \cup {Good})
      BY <2>1, AppendIsSeq DEF Tabs
    <3>2. QED
      BY <2>1, <3>1 DEF Tabs, Renavigates
  <2>3. fetch' \in Fetches
    BY <2>1 DEF Fetches, Renavigates
  <2>4. QED
    BY <2>1, <2>2, <2>3 DEF FetchTypes, Renavigates, Stirs
<1>2. Waited'
  BY DEF FetchInv, FetchTypes, Fetches, Waited, WaitBounded, Before, Places, Kind, Renavigates, FetchAt,
     Goes, Raise, Closing, Alive, Kind
<1>3. Shown'
  BY DEF FetchInv, FetchTypes, Tabs, Fetches, Shown, JudgedIsExtracted, Before, Places, Kind, FetchJudged,
     Renavigates, FetchAt, Goes, Raise, Closing, Alive, Kind, Stirs
<1>4. Closed'
  BY DEF FetchInv, FetchTypes, Fetches, Closed, ClosedAfterwards, Kind, Renavigates, FetchAt, Goes, Raise,
     Closing, Alive, Kind
<1>5. EachAtMostOnce'
  BY DEF FetchInv, EachAtMostOnce, Renavigates, FetchAt, Goes, Raise, Closing, Alive, Kind
<1>6. QED
  BY <1>1, <1>2, <1>3, <1>4, <1>5 DEF FetchInv

LEMMA AnswersKeepsInv ==
  ASSUME FetchInv, Answers
  PROVE  FetchInv'
<1> USE MaxResetsAssumption
<1>1. FetchTypes'
  <2>1. /\ tab \in Tabs /\ fetch \in Fetches /\ waits \in Nat
        /\ tried \in Seq(Backends) /\ stirred \in {"no", "loading", "later"}
    BY DEF FetchInv, FetchTypes
  <2>2. tab' \in Tabs
    <3>1. PICK s \in Statuses : tab' = [tab EXCEPT !.answer = tab.next, !.status[tab.next] = s]
      BY DEF Answers
    <3>2. tab.next \in Nat /\ tab.status \in Seq(Statuses \cup {Good}) /\ s \in Statuses \cup {Good}
      BY <2>1 DEF Tabs
    <3>3. [tab.status EXCEPT ![tab.next] = s] \in Seq(Statuses \cup {Good})
      BY <3>2, ChangedIsSeq
    <3>4. tab' = [tab EXCEPT !.answer = tab.next, !.status = [tab.status EXCEPT ![tab.next] = s]]
      BY <3>1
    <3>5. QED
      BY <2>1, <3>2, <3>3, <3>4 DEF Tabs
  <2>3. fetch' \in Fetches
    BY <2>1 DEF Answers
  <2>4. QED
    BY <2>1, <2>2, <2>3 DEF FetchTypes, Answers, Stirs
<1>2. Waited'
  BY DEF FetchInv, FetchTypes, Fetches, Waited, WaitBounded, Before, Places, Kind, Answers, FetchAt, Goes,
     Raise, Closing, Alive, Kind
<1>3. Shown'
  BY DEF FetchInv, FetchTypes, Tabs, Fetches, Shown, JudgedIsExtracted, Before, Places, Kind, FetchJudged,
     Answers, FetchAt, Goes, Raise, Closing, Alive, Kind, Stirs
<1>4. Closed'
  BY DEF FetchInv, FetchTypes, Fetches, Closed, ClosedAfterwards, Kind, Answers, FetchAt, Goes, Raise,
     Closing, Alive, Kind
<1>5. EachAtMostOnce'
  BY DEF FetchInv, EachAtMostOnce, Answers, FetchAt, Goes, Raise, Closing, Alive, Kind
<1>6. QED
  BY <1>1, <1>2, <1>3, <1>4, <1>5 DEF FetchInv

LEMMA CommitsKeepsInv ==
  ASSUME FetchInv, Commits
  PROVE  FetchInv'
<1> USE MaxResetsAssumption
<1>1. FetchTypes'
  <2>1. /\ tab \in Tabs /\ fetch \in Fetches /\ waits \in Nat
        /\ tried \in Seq(Backends) /\ stirred \in {"no", "loading", "later"}
    BY DEF FetchInv, FetchTypes
  <2>2. tab' \in Tabs
    <3>1. tab.next \in Nat
      BY <2>1 DEF Tabs
    <3>2. QED
      BY <2>1, <3>1 DEF Tabs, Commits
  <2>3. fetch' \in Fetches
    BY <2>1 DEF Commits
  <2>4. QED
    BY <2>1, <2>2, <2>3 DEF FetchTypes, Commits, Stirs
<1>2. Waited'
  BY DEF FetchInv, FetchTypes, Fetches, Waited, WaitBounded, Before, Places, Kind, Commits, FetchAt, Goes,
     Raise, Closing, Alive, Kind
<1>3. Shown'
  BY DEF FetchInv, FetchTypes, Tabs, Fetches, Shown, JudgedIsExtracted, Before, Places, Kind, FetchJudged,
     Commits, FetchAt, Goes, Raise, Closing, Alive, Kind, Stirs
<1>4. Closed'
  BY DEF FetchInv, FetchTypes, Fetches, Closed, ClosedAfterwards, Kind, Commits, FetchAt, Goes, Raise,
     Closing, Alive, Kind
<1>5. EachAtMostOnce'
  BY DEF FetchInv, EachAtMostOnce, Commits, FetchAt, Goes, Raise, Closing, Alive, Kind
<1>6. QED
  BY <1>1, <1>2, <1>3, <1>4, <1>5 DEF FetchInv

LEMMA LoadsKeepsInv ==
  ASSUME FetchInv, Loads
  PROVE  FetchInv'
<1> USE MaxResetsAssumption
<1>1. FetchTypes'
  BY OffersAssumption
     DEF FetchInv, FetchTypes, Tabs, Fetches, Places, Loads, FetchAt, Goes, Raise, Closing, Alive, Kind
<1>2. Waited'
  BY DEF FetchInv, FetchTypes, Fetches, Waited, WaitBounded, Before, Places, Kind, Loads, FetchAt, Goes,
     Raise, Closing, Alive, Kind
<1>3. Shown'
  BY DEF FetchInv, FetchTypes, Tabs, Fetches, Shown, JudgedIsExtracted, Before, Places, Kind, FetchJudged,
     Loads, FetchAt, Goes, Raise, Closing, Alive, Kind, Stirs
<1>4. Closed'
  BY DEF FetchInv, FetchTypes, Fetches, Closed, ClosedAfterwards, Kind, Loads, FetchAt, Goes, Raise,
     Closing, Alive, Kind
<1>5. EachAtMostOnce'
  BY DEF FetchInv, EachAtMostOnce, Loads, FetchAt, Goes, Raise, Closing, Alive, Kind
<1>6. QED
  BY <1>1, <1>2, <1>3, <1>4, <1>5 DEF FetchInv

LEMMA GoneKeepsInv ==
  ASSUME FetchInv, Gone
  PROVE  FetchInv'
<1> USE MaxResetsAssumption
<1>1. FetchTypes'
  BY OffersAssumption DEF FetchInv, FetchTypes, Tabs, Fetches, Places, Gone, FetchAt, Goes, Raise, Closing
<1>2. Waited'
  BY DEF FetchInv, FetchTypes, Fetches, Waited, WaitBounded, Before, Places, Kind, Gone, FetchAt, Goes,
     Raise, Closing
<1>3. Shown'
  BY DEF FetchInv, FetchTypes, Tabs, Fetches, Shown, JudgedIsExtracted, Before, Places, Kind, FetchJudged,
     Gone, FetchAt, Goes, Raise, Closing, Stirs
<1>4. Closed'
  BY DEF FetchInv, FetchTypes, Fetches, Closed, ClosedAfterwards, Kind, Gone, FetchAt, Goes, Raise, Closing
<1>5. EachAtMostOnce'
  BY DEF FetchInv, EachAtMostOnce, Gone, FetchAt, Goes, Raise, Closing
<1>6. QED
  BY <1>1, <1>2, <1>3, <1>4, <1>5 DEF FetchInv

LEMMA ConnectKeepsInv ==
  ASSUME FetchInv, Connect
  PROVE  FetchInv'
<1> USE MaxResetsAssumption
<1>1. FetchTypes'
  BY OffersAssumption
     DEF FetchInv, FetchTypes, Tabs, Fetches, Places, Connect, Connects, FetchAt, Goes, Raise, Closing
<1>2. Waited'
  BY DEF FetchInv, FetchTypes, Fetches, Waited, WaitBounded, Before, Places, Kind, Connect, Connects,
     FetchAt, Goes, Raise, Closing
<1>3. Shown'
  BY DEF FetchInv, FetchTypes, Tabs, Fetches, Shown, JudgedIsExtracted, Before, Places, Kind, FetchJudged,
     Connect, Connects, FetchAt, Goes, Raise, Closing, Stirs
<1>4. Closed'
  BY DEF FetchInv, FetchTypes, Fetches, Closed, ClosedAfterwards, Kind, Connect, Connects, FetchAt, Goes,
     Raise, Closing
<1>5. EachAtMostOnce'
  BY DEF FetchInv, EachAtMostOnce, Connect, Connects, FetchAt, Goes, Raise, Closing
<1>6. QED
  BY <1>1, <1>2, <1>3, <1>4, <1>5 DEF FetchInv

LEMMA ConnectAsyncKeepsInv ==
  ASSUME FetchInv, ConnectAsync
  PROVE  FetchInv'
<1> USE MaxResetsAssumption
<1>1. FetchTypes'
  BY OffersAssumption
     DEF FetchInv, FetchTypes, Tabs, Fetches, Places, ConnectAsync, Connects, FetchAt, Goes, Raise, Closing
<1>2. Waited'
  BY DEF FetchInv, FetchTypes, Fetches, Waited, WaitBounded, Before, Places, Kind, ConnectAsync, Connects,
     FetchAt, Goes, Raise, Closing
<1>3. Shown'
  BY DEF FetchInv, FetchTypes, Tabs, Fetches, Shown, JudgedIsExtracted, Before, Places, Kind, FetchJudged,
     ConnectAsync, Connects, FetchAt, Goes, Raise, Closing, Stirs
<1>4. Closed'
  BY DEF FetchInv, FetchTypes, Fetches, Closed, ClosedAfterwards, Kind, ConnectAsync, Connects, FetchAt,
     Goes, Raise, Closing
<1>5. EachAtMostOnce'
  BY DEF FetchInv, EachAtMostOnce, ConnectAsync, Connects, FetchAt, Goes, Raise, Closing
<1>6. QED
  BY <1>1, <1>2, <1>3, <1>4, <1>5 DEF FetchInv

LEMMA PageFailsKeepsInv ==
  ASSUME FetchInv, PageFails
  PROVE  FetchInv'
<1> USE MaxResetsAssumption
<1>1. FetchTypes'
  BY OffersAssumption
     DEF FetchInv, FetchTypes, Tabs, Fetches, Places, PageFails, FetchAt, Goes, Raise, Closing
<1>2. Waited'
  BY DEF FetchInv, FetchTypes, Fetches, Waited, WaitBounded, Before, Places, Kind, PageFails, FetchAt,
     Goes, Raise, Closing
<1>3. Shown'
  BY DEF FetchInv, FetchTypes, Tabs, Fetches, Shown, JudgedIsExtracted, Before, Places, Kind, FetchJudged,
     PageFails, FetchAt, Goes, Raise, Closing, Stirs
<1>4. Closed'
  BY DEF FetchInv, FetchTypes, Fetches, Closed, ClosedAfterwards, Kind, PageFails, FetchAt, Goes, Raise,
     Closing
<1>5. EachAtMostOnce'
  BY DEF FetchInv, EachAtMostOnce, PageFails, FetchAt, Goes, Raise, Closing
<1>6. QED
  BY <1>1, <1>2, <1>3, <1>4, <1>5 DEF FetchInv

LEMMA NewPageKeepsInv ==
  ASSUME FetchInv, NewPage
  PROVE  FetchInv'
<1> USE MaxResetsAssumption
<1>1. FetchTypes'
  BY OffersAssumption
     DEF FetchInv, FetchTypes, Tabs, Fetches, Places, NewPage, SetUp, FetchAt, Goes, Raise, Closing
<1>2. Waited'
  BY DEF FetchInv, FetchTypes, Fetches, Waited, WaitBounded, Before, Places, Kind, NewPage, SetUp, FetchAt,
     Goes, Raise, Closing
<1>3. Shown'
  BY DEF FetchInv, FetchTypes, Tabs, Fetches, Shown, JudgedIsExtracted, Before, Places, Kind, FetchJudged,
     NewPage, SetUp, FetchAt, Goes, Raise, Closing, Stirs
<1>4. Closed'
  BY DEF FetchInv, FetchTypes, Fetches, Closed, ClosedAfterwards, Kind, NewPage, SetUp, FetchAt, Goes,
     Raise, Closing
<1>5. EachAtMostOnce'
  BY DEF FetchInv, EachAtMostOnce, NewPage, SetUp, FetchAt, Goes, Raise, Closing
<1>6. QED
  BY <1>1, <1>2, <1>3, <1>4, <1>5 DEF FetchInv

LEMMA NewContextKeepsInv ==
  ASSUME FetchInv, NewContext
  PROVE  FetchInv'
<1> USE MaxResetsAssumption
<1>1. FetchTypes'
  BY OffersAssumption
     DEF FetchInv, FetchTypes, Tabs, Fetches, Places, NewContext, SetUp, FetchAt, Goes, Raise, Closing
<1>2. Waited'
  BY DEF FetchInv, FetchTypes, Fetches, Waited, WaitBounded, Before, Places, Kind, NewContext, SetUp,
     FetchAt, Goes, Raise, Closing
<1>3. Shown'
  BY DEF FetchInv, FetchTypes, Tabs, Fetches, Shown, JudgedIsExtracted, Before, Places, Kind, FetchJudged,
     NewContext, SetUp, FetchAt, Goes, Raise, Closing, Stirs
<1>4. Closed'
  BY DEF FetchInv, FetchTypes, Fetches, Closed, ClosedAfterwards, Kind, NewContext, SetUp, FetchAt, Goes,
     Raise, Closing
<1>5. EachAtMostOnce'
  BY DEF FetchInv, EachAtMostOnce, NewContext, SetUp, FetchAt, Goes, Raise, Closing
<1>6. QED
  BY <1>1, <1>2, <1>3, <1>4, <1>5 DEF FetchInv

LEMMA GotoKeepsInv ==
  ASSUME FetchInv, Goto
  PROVE  FetchInv'
<1> USE MaxResetsAssumption
<1>1. FetchTypes'
  <2>1. /\ tab \in Tabs /\ fetch \in Fetches /\ waits \in Nat
        /\ tried \in Seq(Backends) /\ stirred \in {"no", "loading", "later"}
    BY DEF FetchInv, FetchTypes
  <2>2. tab' \in Tabs
    <3>1. /\ tab.next \in Nat /\ tab.last \in Nat /\ tab.last + 1 \in Nat
          /\ Append(tab.status, Good) \in Seq(Statuses \cup {Good})
      BY <2>1, AppendIsSeq DEF Tabs
    <3>2. QED
      BY <2>1, <3>1 DEF Tabs, Goto
  <2>3. fetch' \in Fetches
    <3>1. tab.last + 1 \in Nat
      BY <2>1 DEF Tabs
    <3>2. QED
      BY <2>1, <3>1 DEF Fetches, Places, Goto
  <2>4. QED
    BY <2>1, <2>2, <2>3 DEF FetchTypes, Goto
<1>2. Waited'
  BY DEF FetchInv, FetchTypes, Fetches, Waited, WaitBounded, Before, Places, Kind, Goto, FetchAt, Goes,
     Raise, Closing, Responded
<1>3. Shown'
  BY DEF FetchInv, FetchTypes, Tabs, Fetches, Shown, JudgedIsExtracted, Before, Places, Kind, FetchJudged,
     Goto, FetchAt, Goes, Raise, Closing, Responded, Stirs
<1>4. Closed'
  BY DEF FetchInv, FetchTypes, Fetches, Closed, ClosedAfterwards, Kind, Goto, FetchAt, Goes, Raise,
     Closing, Responded
<1>5. EachAtMostOnce'
  BY DEF FetchInv, EachAtMostOnce, Goto, FetchAt, Goes, Raise, Closing, Responded
<1>6. QED
  BY <1>1, <1>2, <1>3, <1>4, <1>5 DEF FetchInv

LEMMA GotoReturnsKeepsInv ==
  ASSUME FetchInv, GotoReturns
  PROVE  FetchInv'
<1> USE MaxResetsAssumption
<1>1. FetchTypes'
  BY OffersAssumption
     DEF FetchInv, FetchTypes, Tabs, Fetches, Places, GotoReturns, FetchAt, Goes, Raise, Closing, Responded
<1>2. Waited'
  BY DEF FetchInv, FetchTypes, Fetches, Waited, WaitBounded, Before, Places, Kind, GotoReturns, FetchAt,
     Goes, Raise, Closing, Responded
<1>3. Shown'
  BY DEF FetchInv, FetchTypes, Tabs, Fetches, Shown, JudgedIsExtracted, Before, Places, Kind, FetchJudged,
     GotoReturns, FetchAt, Goes, Raise, Closing, Responded, Stirs
<1>4. Closed'
  BY DEF FetchInv, FetchTypes, Fetches, Closed, ClosedAfterwards, Kind, GotoReturns, FetchAt, Goes, Raise,
     Closing, Responded
<1>5. EachAtMostOnce'
  BY DEF FetchInv, EachAtMostOnce, GotoReturns, FetchAt, Goes, Raise, Closing, Responded
<1>6. QED
  BY <1>1, <1>2, <1>3, <1>4, <1>5 DEF FetchInv

LEMMA GotoAbortedKeepsInv ==
  ASSUME FetchInv, GotoAborted
  PROVE  FetchInv'
<1> USE MaxResetsAssumption
<1>1. FetchTypes'
  BY OffersAssumption
     DEF FetchInv, FetchTypes, Tabs, Fetches, Places, GotoAborted, FetchAt, Goes, Raise, Closing, Responded
<1>2. Waited'
  BY DEF FetchInv, FetchTypes, Fetches, Waited, WaitBounded, Before, Places, Kind, GotoAborted, FetchAt,
     Goes, Raise, Closing, Responded
<1>3. Shown'
  BY DEF FetchInv, FetchTypes, Tabs, Fetches, Shown, JudgedIsExtracted, Before, Places, Kind, FetchJudged,
     GotoAborted, FetchAt, Goes, Raise, Closing, Responded, Stirs
<1>4. Closed'
  BY DEF FetchInv, FetchTypes, Fetches, Closed, ClosedAfterwards, Kind, GotoAborted, FetchAt, Goes, Raise,
     Closing, Responded
<1>5. EachAtMostOnce'
  BY DEF FetchInv, EachAtMostOnce, GotoAborted, FetchAt, Goes, Raise, Closing, Responded
<1>6. QED
  BY <1>1, <1>2, <1>3, <1>4, <1>5 DEF FetchInv

LEMMA GotoOvertakenKeepsInv ==
  ASSUME FetchInv, GotoOvertaken
  PROVE  FetchInv'
<1> USE MaxResetsAssumption
<1>1. FetchTypes'
  BY OffersAssumption
     DEF FetchInv, FetchTypes, Tabs, Fetches, Places, GotoOvertaken, FetchAt, Goes, Raise, Closing,
         Responded
<1>2. Waited'
  BY DEF FetchInv, FetchTypes, Fetches, Waited, WaitBounded, Before, Places, Kind, GotoOvertaken, FetchAt,
     Goes, Raise, Closing, Responded
<1>3. Shown'
  BY DEF FetchInv, FetchTypes, Tabs, Fetches, Shown, JudgedIsExtracted, Before, Places, Kind, FetchJudged,
     GotoOvertaken, FetchAt, Goes, Raise, Closing, Responded, Stirs
<1>4. Closed'
  BY DEF FetchInv, FetchTypes, Fetches, Closed, ClosedAfterwards, Kind, GotoOvertaken, FetchAt, Goes,
     Raise, Closing, Responded
<1>5. EachAtMostOnce'
  BY DEF FetchInv, EachAtMostOnce, GotoOvertaken, FetchAt, Goes, Raise, Closing, Responded
<1>6. QED
  BY <1>1, <1>2, <1>3, <1>4, <1>5 DEF FetchInv

LEMMA GotoEmptyKeepsInv ==
  ASSUME FetchInv, GotoEmpty
  PROVE  FetchInv'
<1> USE MaxResetsAssumption
<1>1. FetchTypes'
  <2>1. /\ tab \in Tabs /\ fetch \in Fetches /\ waits \in Nat
        /\ tried \in Seq(Backends) /\ stirred \in {"no", "loading", "later"}
    BY DEF FetchInv, FetchTypes
  <2>2. tab' \in Tabs
    BY <2>1 DEF GotoEmpty, Raise
  <2>3. fetch' \in Fetches
    <3>1. fetch.tries + 1 \in Nat
      BY <2>1 DEF Fetches
    <3>2. QED
      BY <2>1, <3>1, ZenonT(30) DEF Fetches, Places, GotoEmpty, Raise, Goes
  <2>4. QED
    BY <2>1, <2>2, <2>3 DEF FetchTypes, GotoEmpty, Raise
<1>2. Waited'
  BY DEF FetchInv, FetchTypes, Fetches, Waited, WaitBounded, Before, Places, Kind, GotoEmpty, FetchAt,
     Goes, Raise, Closing, Responded
<1>3. Shown'
  BY DEF FetchInv, FetchTypes, Tabs, Fetches, Shown, JudgedIsExtracted, Before, Places, Kind, FetchJudged,
     GotoEmpty, FetchAt, Goes, Raise, Closing, Responded, Stirs
<1>4. Closed'
  BY DEF FetchInv, FetchTypes, Fetches, Closed, ClosedAfterwards, Kind, GotoEmpty, FetchAt, Goes, Raise,
     Closing, Responded
<1>5. EachAtMostOnce'
  BY DEF FetchInv, EachAtMostOnce, GotoEmpty, FetchAt, Goes, Raise, Closing, Responded
<1>6. QED
  BY <1>1, <1>2, <1>3, <1>4, <1>5 DEF FetchInv

LEMMA WaitAgainKeepsInv ==
  ASSUME FetchInv, WaitAgain
  PROVE  FetchInv'
<1> USE MaxResetsAssumption
<1>1. FetchTypes'
  <2>1. /\ tab \in Tabs /\ fetch \in Fetches /\ waits \in Nat
        /\ tried \in Seq(Backends) /\ stirred \in {"no", "loading", "later"}
    BY DEF FetchInv, FetchTypes
  <2>2. tab' \in Tabs
    BY <2>1 DEF WaitAgain
  <2>3. fetch' \in Fetches
    <3>1. CountsReset(fetch.resets) \in Nat
      BY <2>1 DEF Fetches, CountsReset
    <3>2. QED
      BY <2>1, <3>1 DEF Fetches, Places, WaitAgain
  <2>4. QED
    BY <2>1, <2>2, <2>3 DEF FetchTypes, WaitAgain
<1>2. Waited'
  BY DEF FetchInv, FetchTypes, Fetches, Waited, WaitBounded, Before, Places, Kind, WaitAgain, FetchAt,
     Goes, Raise, Closing, CountsReset
<1>3. Shown'
  BY DEF FetchInv, FetchTypes, Tabs, Fetches, Shown, JudgedIsExtracted, Before, Places, Kind, FetchJudged,
     WaitAgain, FetchAt, Goes, Raise, Closing, CountsReset, Stirs
<1>4. Closed'
  BY DEF FetchInv, FetchTypes, Fetches, Closed, ClosedAfterwards, Kind, WaitAgain, FetchAt, Goes, Raise,
     Closing, CountsReset
<1>5. EachAtMostOnce'
  BY DEF FetchInv, EachAtMostOnce, WaitAgain, FetchAt, Goes, Raise, Closing, CountsReset
<1>6. QED
  BY <1>1, <1>2, <1>3, <1>4, <1>5 DEF FetchInv

LEMMA StopAndJudgeKeepsInv ==
  ASSUME FetchInv, StopAndJudge
  PROVE  FetchInv'
<1> USE MaxResetsAssumption
<1>1. FetchTypes'
  <2>1. /\ tab \in Tabs /\ fetch \in Fetches /\ waits \in Nat
        /\ tried \in Seq(Backends) /\ stirred \in {"no", "loading", "later"}
    BY DEF FetchInv, FetchTypes
  <2>2. tab' \in Tabs
    BY <2>1 DEF StopAndJudge, Tabs
  <2>3. fetch' \in Fetches
    <3>1. Latest \in Nat
      BY <2>1 DEF Tabs, Latest
    <3>2. QED
      BY <2>1, <3>1 DEF Fetches, Places, StopAndJudge
  <2>4. QED
    BY <2>1, <2>2, <2>3 DEF FetchTypes, StopAndJudge
<1>2. Waited'
  BY DEF FetchInv, FetchTypes, Fetches, Waited, WaitBounded, Before, Places, Kind, StopAndJudge, FetchAt,
     Goes, Raise, Closing, Latest
<1>3. Shown'
  BY DEF FetchInv, FetchTypes, Tabs, Fetches, Shown, JudgedIsExtracted, Before, Places, Kind, FetchJudged,
     StopAndJudge, FetchAt, Goes, Raise, Closing, Latest, Stirs
<1>4. Closed'
  BY DEF FetchInv, FetchTypes, Fetches, Closed, ClosedAfterwards, Kind, StopAndJudge, FetchAt, Goes, Raise,
     Closing, Latest
<1>5. EachAtMostOnce'
  BY DEF FetchInv, EachAtMostOnce, StopAndJudge, FetchAt, Goes, Raise, Closing, Latest
<1>6. QED
  BY <1>1, <1>2, <1>3, <1>4, <1>5 DEF FetchInv

LEMMA RunScriptKeepsInv ==
  ASSUME FetchInv, RunScript
  PROVE  FetchInv'
<1> USE MaxResetsAssumption
<1>1. FetchTypes'
  BY OffersAssumption
     DEF FetchInv, FetchTypes, Tabs, Fetches, Places, RunScript, FetchAt, Goes, Raise, Closing
<1>2. Waited'
  BY DEF FetchInv, FetchTypes, Fetches, Waited, WaitBounded, Before, Places, Kind, RunScript, FetchAt,
     Goes, Raise, Closing
<1>3. Shown'
  BY DEF FetchInv, FetchTypes, Tabs, Fetches, Shown, JudgedIsExtracted, Before, Places, Kind, FetchJudged,
     RunScript, FetchAt, Goes, Raise, Closing, Stirs
<1>4. Closed'
  BY DEF FetchInv, FetchTypes, Fetches, Closed, ClosedAfterwards, Kind, RunScript, FetchAt, Goes, Raise,
     Closing
<1>5. EachAtMostOnce'
  BY DEF FetchInv, EachAtMostOnce, RunScript, FetchAt, Goes, Raise, Closing
<1>6. QED
  BY <1>1, <1>2, <1>3, <1>4, <1>5 DEF FetchInv

LEMMA SettleKeepsInv ==
  ASSUME FetchInv, Settle
  PROVE  FetchInv'
<1> USE MaxResetsAssumption
<1>1. FetchTypes'
  <2>1. /\ tab \in Tabs /\ fetch \in Fetches /\ waits \in Nat
        /\ tried \in Seq(Backends) /\ stirred \in {"no", "loading", "later"}
    BY DEF FetchInv, FetchTypes
  <2>2. tab' \in Tabs
    BY <2>1 DEF Settle
  <2>3. fetch' \in Fetches
    <3>1. Latest \in Nat
      BY <2>1 DEF Tabs, Latest
    <3>2. QED
      BY <2>1, <3>1 DEF Fetches, Places, Settle
  <2>4. QED
    BY <2>1, <2>2, <2>3 DEF FetchTypes, Settle
<1>2. Waited'
  BY DEF FetchInv, FetchTypes, Fetches, Waited, WaitBounded, Before, Places, Kind, Settle, FetchAt, Goes,
     Raise, Closing, Latest
<1>3. Shown'
  BY DEF FetchInv, FetchTypes, Tabs, Fetches, Shown, JudgedIsExtracted, Before, Places, Kind, FetchJudged,
     Settle, FetchAt, Goes, Raise, Closing, Latest, Stirs
<1>4. Closed'
  BY DEF FetchInv, FetchTypes, Fetches, Closed, ClosedAfterwards, Kind, Settle, FetchAt, Goes, Raise,
     Closing, Latest
<1>5. EachAtMostOnce'
  BY DEF FetchInv, EachAtMostOnce, Settle, FetchAt, Goes, Raise, Closing, Latest
<1>6. QED
  BY <1>1, <1>2, <1>3, <1>4, <1>5 DEF FetchInv

LEMMA LoadStateKeepsInv ==
  ASSUME FetchInv, LoadState
  PROVE  FetchInv'
<1> USE MaxResetsAssumption
<1>1. FetchTypes'
  BY OffersAssumption
     DEF FetchInv, FetchTypes, Tabs, Fetches, Places, LoadState, FetchAt, Goes, Raise, Closing
<1>2. Waited'
  BY DEF FetchInv, FetchTypes, Fetches, Waited, WaitBounded, Before, Places, Kind, LoadState, FetchAt,
     Goes, Raise, Closing
<1>3. Shown'
  BY DEF FetchInv, FetchTypes, Tabs, Fetches, Shown, JudgedIsExtracted, Before, Places, Kind, FetchJudged,
     LoadState, FetchAt, Goes, Raise, Closing, Stirs
<1>4. Closed'
  BY DEF FetchInv, FetchTypes, Fetches, Closed, ClosedAfterwards, Kind, LoadState, FetchAt, Goes, Raise,
     Closing
<1>5. EachAtMostOnce'
  BY DEF FetchInv, EachAtMostOnce, LoadState, FetchAt, Goes, Raise, Closing
<1>6. QED
  BY <1>1, <1>2, <1>3, <1>4, <1>5 DEF FetchInv

LEMMA JudgeStatusKeepsInv ==
  ASSUME FetchInv, JudgeStatus
  PROVE  FetchInv'
<1> USE MaxResetsAssumption
<1>1. FetchTypes'
  <2>1. CASE \E place \in {"steps", "extract"} : Goes(place) /\ UNCHANGED <<tab, tried, open, waits, stirred, steps>>
    BY <2>1 DEF FetchInv, FetchTypes, Fetches, Places, Goes
  <2>2. CASE Raise
    BY <2>2, OffersAssumption DEF FetchInv, FetchTypes, Fetches, Places, Goes, Raise, Closing
  <2> QED
    BY <2>1, <2>2 DEF JudgeStatus
<1>2. Waited'
  BY DEF FetchInv, FetchTypes, Fetches, Waited, WaitBounded, Before, Places, Kind, JudgeStatus, FetchAt,
     Goes, Raise, Closing
<1>3. Shown'
  BY DEF FetchInv, FetchTypes, Tabs, Fetches, Shown, JudgedIsExtracted, Before, Places, Kind, FetchJudged,
     JudgeStatus, FetchAt, Goes, Raise, Closing, Stirs
<1>4. Closed'
  BY DEF FetchInv, FetchTypes, Fetches, Closed, ClosedAfterwards, Kind, JudgeStatus, FetchAt, Goes, Raise,
     Closing
<1>5. EachAtMostOnce'
  BY DEF FetchInv, EachAtMostOnce, JudgeStatus, FetchAt, Goes, Raise, Closing
<1>6. QED
  BY <1>1, <1>2, <1>3, <1>4, <1>5 DEF FetchInv

LEMMA BrowserStepsKeepsInv ==
  ASSUME FetchInv, BrowserSteps
  PROVE  FetchInv'
<1> USE MaxResetsAssumption
<1>1. FetchTypes'
  BY OffersAssumption
     DEF FetchInv, FetchTypes, Tabs, Fetches, Places, BrowserSteps, FetchAt, Goes, Raise, Closing
<1>2. Waited'
  BY DEF FetchInv, FetchTypes, Fetches, Waited, WaitBounded, Before, Places, Kind, BrowserSteps, FetchAt,
     Goes, Raise, Closing
<1>3. Shown'
  BY DEF FetchInv, FetchTypes, Tabs, Fetches, Shown, JudgedIsExtracted, Before, Places, Kind, FetchJudged,
     BrowserSteps, FetchAt, Goes, Raise, Closing, Stirs
<1>4. Closed'
  BY DEF FetchInv, FetchTypes, Fetches, Closed, ClosedAfterwards, Kind, BrowserSteps, FetchAt, Goes, Raise,
     Closing
<1>5. EachAtMostOnce'
  BY DEF FetchInv, EachAtMostOnce, BrowserSteps, FetchAt, Goes, Raise, Closing
<1>6. QED
  BY <1>1, <1>2, <1>3, <1>4, <1>5 DEF FetchInv

LEMMA ExtractContentKeepsInv ==
  ASSUME FetchInv, ExtractContent
  PROVE  FetchInv'
<1> USE MaxResetsAssumption
<1>1. FetchTypes'
  BY OffersAssumption
     DEF FetchInv, FetchTypes, Tabs, Fetches, Places, ExtractContent, Takes, FetchAt, Goes, Raise, Closing
<1>2. Waited'
  BY DEF FetchInv, FetchTypes, Fetches, Waited, WaitBounded, Before, Places, Kind, ExtractContent, Takes,
     FetchAt, Goes, Raise, Closing
<1>3. Shown'
  BY DEF FetchInv, FetchTypes, Tabs, Fetches, Shown, JudgedIsExtracted, Before, Places, Kind, FetchJudged,
     ExtractContent, Takes, FetchAt, Goes, Raise, Closing, Stirs
<1>4. Closed'
  BY DEF FetchInv, FetchTypes, Fetches, Closed, ClosedAfterwards, Kind, ExtractContent, Takes, FetchAt,
     Goes, Raise, Closing
<1>5. EachAtMostOnce'
  BY DEF FetchInv, EachAtMostOnce, ExtractContent, Takes, FetchAt, Goes, Raise, Closing
<1>6. QED
  BY <1>1, <1>2, <1>3, <1>4, <1>5 DEF FetchInv

LEMMA ExtractContentAsyncKeepsInv ==
  ASSUME FetchInv, ExtractContentAsync
  PROVE  FetchInv'
<1> USE MaxResetsAssumption
<1>1. FetchTypes'
  BY OffersAssumption
     DEF FetchInv, FetchTypes, Tabs, Fetches, Places, ExtractContentAsync, Takes, FetchAt, Goes, Raise,
         Closing
<1>2. Waited'
  BY DEF FetchInv, FetchTypes, Fetches, Waited, WaitBounded, Before, Places, Kind, ExtractContentAsync,
     Takes, FetchAt, Goes, Raise, Closing
<1>3. Shown'
  BY DEF FetchInv, FetchTypes, Tabs, Fetches, Shown, JudgedIsExtracted, Before, Places, Kind, FetchJudged,
     ExtractContentAsync, Takes, FetchAt, Goes, Raise, Closing, Stirs
<1>4. Closed'
  BY DEF FetchInv, FetchTypes, Fetches, Closed, ClosedAfterwards, Kind, ExtractContentAsync, Takes,
     FetchAt, Goes, Raise, Closing
<1>5. EachAtMostOnce'
  BY DEF FetchInv, EachAtMostOnce, ExtractContentAsync, Takes, FetchAt, Goes, Raise, Closing
<1>6. QED
  BY <1>1, <1>2, <1>3, <1>4, <1>5 DEF FetchInv

LEMMA CaptureFullPageKeepsInv ==
  ASSUME FetchInv, CaptureFullPage
  PROVE  FetchInv'
<1> USE MaxResetsAssumption
<1>1. FetchTypes'
  BY OffersAssumption
     DEF FetchInv, FetchTypes, Tabs, Fetches, Places, CaptureFullPage, Shoots, FetchAt, Goes, Raise,
         Closing
<1>2. Waited'
  BY DEF FetchInv, FetchTypes, Fetches, Waited, WaitBounded, Before, Places, Kind, CaptureFullPage, Shoots,
     FetchAt, Goes, Raise, Closing
<1>3. Shown'
  BY DEF FetchInv, FetchTypes, Tabs, Fetches, Shown, JudgedIsExtracted, Before, Places, Kind, FetchJudged,
     CaptureFullPage, Shoots, FetchAt, Goes, Raise, Closing, Stirs
<1>4. Closed'
  BY DEF FetchInv, FetchTypes, Fetches, Closed, ClosedAfterwards, Kind, CaptureFullPage, Shoots, FetchAt,
     Goes, Raise, Closing
<1>5. EachAtMostOnce'
  BY DEF FetchInv, EachAtMostOnce, CaptureFullPage, Shoots, FetchAt, Goes, Raise, Closing
<1>6. QED
  BY <1>1, <1>2, <1>3, <1>4, <1>5 DEF FetchInv

LEMMA CaptureFullPageAsyncKeepsInv ==
  ASSUME FetchInv, CaptureFullPageAsync
  PROVE  FetchInv'
<1> USE MaxResetsAssumption
<1>1. FetchTypes'
  BY OffersAssumption
     DEF FetchInv, FetchTypes, Tabs, Fetches, Places, CaptureFullPageAsync, Shoots, FetchAt, Goes, Raise,
         Closing
<1>2. Waited'
  BY DEF FetchInv, FetchTypes, Fetches, Waited, WaitBounded, Before, Places, Kind, CaptureFullPageAsync,
     Shoots, FetchAt, Goes, Raise, Closing
<1>3. Shown'
  BY DEF FetchInv, FetchTypes, Tabs, Fetches, Shown, JudgedIsExtracted, Before, Places, Kind, FetchJudged,
     CaptureFullPageAsync, Shoots, FetchAt, Goes, Raise, Closing, Stirs
<1>4. Closed'
  BY DEF FetchInv, FetchTypes, Fetches, Closed, ClosedAfterwards, Kind, CaptureFullPageAsync, Shoots,
     FetchAt, Goes, Raise, Closing
<1>5. EachAtMostOnce'
  BY DEF FetchInv, EachAtMostOnce, CaptureFullPageAsync, Shoots, FetchAt, Goes, Raise, Closing
<1>6. QED
  BY <1>1, <1>2, <1>3, <1>4, <1>5 DEF FetchInv

LEMMA LeaveKeepsInv ==
  ASSUME FetchInv, Leave
  PROVE  FetchInv'
<1> USE MaxResetsAssumption
<1>1. FetchTypes'
  BY OffersAssumption
     DEF FetchInv, FetchTypes, Tabs, Fetches, Places, Leave, Leaves, FetchAt, Goes, Raise, Closing
<1>2. Waited'
  BY DEF FetchInv, FetchTypes, Fetches, Waited, WaitBounded, Before, Places, Kind, Leave, Leaves, FetchAt,
     Goes, Raise, Closing
<1>3. Shown'
  BY DEF FetchInv, FetchTypes, Tabs, Fetches, Shown, JudgedIsExtracted, Before, Places, Kind, FetchJudged,
     Leave, Leaves, FetchAt, Goes, Raise, Closing, Stirs
<1>4. Closed'
  BY DEF FetchInv, FetchTypes, Fetches, Closed, ClosedAfterwards, Kind, Leave, Leaves, FetchAt, Goes,
     Raise, Closing
<1>5. EachAtMostOnce'
  BY DEF FetchInv, EachAtMostOnce, Leave, Leaves, FetchAt, Goes, Raise, Closing
<1>6. QED
  BY <1>1, <1>2, <1>3, <1>4, <1>5 DEF FetchInv

LEMMA LeaveAsyncKeepsInv ==
  ASSUME FetchInv, LeaveAsync
  PROVE  FetchInv'
<1> USE MaxResetsAssumption
<1>1. FetchTypes'
  BY OffersAssumption
     DEF FetchInv, FetchTypes, Tabs, Fetches, Places, LeaveAsync, Leaves, FetchAt, Goes, Raise, Closing
<1>2. Waited'
  BY DEF FetchInv, FetchTypes, Fetches, Waited, WaitBounded, Before, Places, Kind, LeaveAsync, Leaves,
     FetchAt, Goes, Raise, Closing
<1>3. Shown'
  BY DEF FetchInv, FetchTypes, Tabs, Fetches, Shown, JudgedIsExtracted, Before, Places, Kind, FetchJudged,
     LeaveAsync, Leaves, FetchAt, Goes, Raise, Closing, Stirs
<1>4. Closed'
  BY DEF FetchInv, FetchTypes, Fetches, Closed, ClosedAfterwards, Kind, LeaveAsync, Leaves, FetchAt, Goes,
     Raise, Closing
<1>5. EachAtMostOnce'
  BY DEF FetchInv, EachAtMostOnce, LeaveAsync, Leaves, FetchAt, Goes, Raise, Closing
<1>6. QED
  BY <1>1, <1>2, <1>3, <1>4, <1>5 DEF FetchInv

LEMMA RunSyncKeepsInv ==
  ASSUME FetchInv, RunSync
  PROVE  FetchInv'
<1> USE MaxResetsAssumption
<1>1. FetchTypes'
  BY OffersAssumption
     DEF FetchInv, FetchTypes, Tabs, Fetches, Places, RunSync, OneCall, FetchAt, Goes, Raise, Closing
<1>2. Waited'
  BY DEF FetchInv, FetchTypes, Fetches, Waited, WaitBounded, Before, Places, Kind, RunSync, OneCall,
     FetchAt, Goes, Raise, Closing
<1>3. Shown'
  BY DEF FetchInv, FetchTypes, Tabs, Fetches, Shown, JudgedIsExtracted, Before, Places, Kind, FetchJudged,
     RunSync, OneCall, FetchAt, Goes, Raise, Closing, Stirs
<1>4. Closed'
  BY DEF FetchInv, FetchTypes, Fetches, Closed, ClosedAfterwards, Kind, RunSync, OneCall, FetchAt, Goes,
     Raise, Closing
<1>5. EachAtMostOnce'
  BY DEF FetchInv, EachAtMostOnce, RunSync, OneCall, FetchAt, Goes, Raise, Closing
<1>6. QED
  BY <1>1, <1>2, <1>3, <1>4, <1>5 DEF FetchInv

LEMMA RunScraplingKeepsInv ==
  ASSUME FetchInv, RunScrapling
  PROVE  FetchInv'
<1> USE MaxResetsAssumption
<1>1. FetchTypes'
  BY OffersAssumption
     DEF FetchInv, FetchTypes, Tabs, Fetches, Places, RunScrapling, OneCall, FetchAt, Goes, Raise, Closing
<1>2. Waited'
  BY DEF FetchInv, FetchTypes, Fetches, Waited, WaitBounded, Before, Places, Kind, RunScrapling, OneCall,
     FetchAt, Goes, Raise, Closing
<1>3. Shown'
  BY DEF FetchInv, FetchTypes, Tabs, Fetches, Shown, JudgedIsExtracted, Before, Places, Kind, FetchJudged,
     RunScrapling, OneCall, FetchAt, Goes, Raise, Closing, Stirs
<1>4. Closed'
  BY DEF FetchInv, FetchTypes, Fetches, Closed, ClosedAfterwards, Kind, RunScrapling, OneCall, FetchAt,
     Goes, Raise, Closing
<1>5. EachAtMostOnce'
  BY DEF FetchInv, EachAtMostOnce, RunScrapling, OneCall, FetchAt, Goes, Raise, Closing
<1>6. QED
  BY <1>1, <1>2, <1>3, <1>4, <1>5 DEF FetchInv

LEMMA RunStealthKeepsInv ==
  ASSUME FetchInv, RunStealth
  PROVE  FetchInv'
<1> USE MaxResetsAssumption
<1>1. FetchTypes'
  BY OffersAssumption
     DEF FetchInv, FetchTypes, Tabs, Fetches, Places, RunStealth, OneCall, FetchAt, Goes, Raise, Closing
<1>2. Waited'
  BY DEF FetchInv, FetchTypes, Fetches, Waited, WaitBounded, Before, Places, Kind, RunStealth, OneCall,
     FetchAt, Goes, Raise, Closing
<1>3. Shown'
  BY DEF FetchInv, FetchTypes, Tabs, Fetches, Shown, JudgedIsExtracted, Before, Places, Kind, FetchJudged,
     RunStealth, OneCall, FetchAt, Goes, Raise, Closing, Stirs
<1>4. Closed'
  BY DEF FetchInv, FetchTypes, Fetches, Closed, ClosedAfterwards, Kind, RunStealth, OneCall, FetchAt, Goes,
     Raise, Closing
<1>5. EachAtMostOnce'
  BY DEF FetchInv, EachAtMostOnce, RunStealth, OneCall, FetchAt, Goes, Raise, Closing
<1>6. QED
  BY <1>1, <1>2, <1>3, <1>4, <1>5 DEF FetchInv

LEMMA SeleniumConnectKeepsInv ==
  ASSUME FetchInv, SeleniumConnect
  PROVE  FetchInv'
<1> USE MaxResetsAssumption
<1>1. FetchTypes'
  BY OffersAssumption
     DEF FetchInv, FetchTypes, Tabs, Fetches, Places, SeleniumConnect, FetchAt, Goes, Raise, Closing
<1>2. Waited'
  BY DEF FetchInv, FetchTypes, Fetches, Waited, WaitBounded, Before, Places, Kind, SeleniumConnect,
     FetchAt, Goes, Raise, Closing
<1>3. Shown'
  BY DEF FetchInv, FetchTypes, Tabs, Fetches, Shown, JudgedIsExtracted, Before, Places, Kind, FetchJudged,
     SeleniumConnect, FetchAt, Goes, Raise, Closing, Stirs
<1>4. Closed'
  BY DEF FetchInv, FetchTypes, Fetches, Closed, ClosedAfterwards, Kind, SeleniumConnect, FetchAt, Goes,
     Raise, Closing
<1>5. EachAtMostOnce'
  BY DEF FetchInv, EachAtMostOnce, SeleniumConnect, FetchAt, Goes, Raise, Closing
<1>6. QED
  BY <1>1, <1>2, <1>3, <1>4, <1>5 DEF FetchInv

LEMMA SeleniumRunKeepsInv ==
  ASSUME FetchInv, SeleniumRun
  PROVE  FetchInv'
<1> USE MaxResetsAssumption
<1>1. FetchTypes'
  BY OffersAssumption
     DEF FetchInv, FetchTypes, Tabs, Fetches, Places, SeleniumRun, FetchAt, Goes, Raise, Closing
<1>2. Waited'
  BY DEF FetchInv, FetchTypes, Fetches, Waited, WaitBounded, Before, Places, Kind, SeleniumRun, FetchAt,
     Goes, Raise, Closing
<1>3. Shown'
  BY DEF FetchInv, FetchTypes, Tabs, Fetches, Shown, JudgedIsExtracted, Before, Places, Kind, FetchJudged,
     SeleniumRun, FetchAt, Goes, Raise, Closing, Stirs
<1>4. Closed'
  BY DEF FetchInv, FetchTypes, Fetches, Closed, ClosedAfterwards, Kind, SeleniumRun, FetchAt, Goes, Raise,
     Closing
<1>5. EachAtMostOnce'
  BY DEF FetchInv, EachAtMostOnce, SeleniumRun, FetchAt, Goes, Raise, Closing
<1>6. QED
  BY <1>1, <1>2, <1>3, <1>4, <1>5 DEF FetchInv

LEMMA ChooseFirstKeepsInv ==
  ASSUME FetchInv, ChooseFirst
  PROVE  FetchInv'
<1> USE MaxResetsAssumption
<1>1. FetchTypes'
  BY OffersAssumption
     DEF FetchInv, FetchTypes, Tabs, Fetches, Places, ChooseFirst, FetchAt, Goes, Raise, Closing, Use,
         NewFetch, Blank, Offered
<1>2. Waited'
  BY DEF FetchInv, FetchTypes, Fetches, Waited, WaitBounded, Before, Places, Kind, ChooseFirst, FetchAt,
     Goes, Raise, Closing, Use, NewFetch, Blank, Offered
<1>3. Shown'
  BY DEF FetchInv, FetchTypes, Tabs, Fetches, Shown, JudgedIsExtracted, Before, Places, Kind, FetchJudged,
     ChooseFirst, FetchAt, Goes, Raise, Closing, Use, NewFetch, Blank, Offered, Stirs
<1>4. Closed'
  BY DEF FetchInv, FetchTypes, Fetches, Closed, ClosedAfterwards, Kind, ChooseFirst, FetchAt, Goes, Raise,
     Closing, Use, NewFetch, Blank, Offered
<1>5. EachAtMostOnce'
  <2>1. PICK b \in Offers : tried' = <<b>>
    BY DEF ChooseFirst
  <2>2. Len(tried') = 1 /\ DOMAIN tried' = {1}
    BY <2>1
  <2>3. QED
    BY <2>2, MaxAttemptsAssumption DEF EachAtMostOnce, IsInjective
<1>6. QED
  BY <1>1, <1>2, <1>3, <1>4, <1>5 DEF FetchInv

LEMMA FallbackKeepsInv ==
  ASSUME FetchInv, Fallback
  PROVE  FetchInv'
<1> USE MaxResetsAssumption
<1>1. FetchTypes'
  BY OffersAssumption
     DEF FetchInv, FetchTypes, Tabs, Fetches, Places, Fallback, FetchAt, Goes, Raise, Closing, Use,
         NewFetch, Blank, Offered
<1>2. Waited'
  BY DEF FetchInv, FetchTypes, Fetches, Waited, WaitBounded, Before, Places, Kind, Fallback, FetchAt, Goes,
     Raise, Closing, Use, NewFetch, Blank, Offered
<1>3. Shown'
  BY DEF FetchInv, FetchTypes, Tabs, Fetches, Shown, JudgedIsExtracted, Before, Places, Kind, FetchJudged,
     Fallback, FetchAt, Goes, Raise, Closing, Use, NewFetch, Blank, Offered, Stirs
<1>4. Closed'
  BY DEF FetchInv, FetchTypes, Fetches, Closed, ClosedAfterwards, Kind, Fallback, FetchAt, Goes, Raise,
     Closing, Use, NewFetch, Blank, Offered
<1>5. EachAtMostOnce'
  <2>1. PICK b \in Offered : tried' = Append(tried, b)
    BY DEF Fallback
  <2>2. tried \in Seq(Backends) /\ Len(tried) <= MaxAttempts /\ IsInjective(tried)
    BY DEF Fallback, FetchInv, FetchTypes, EachAtMostOnce
  <2>3. b \notin {tried[i] : i \in DOMAIN tried}
    BY DEF Offered, Range
  <2>4. /\ Len(tried') = Len(tried) + 1 /\ DOMAIN tried' = 1..(Len(tried) + 1) /\ DOMAIN tried = 1..Len(tried)
        /\ \A i \in DOMAIN tried : tried'[i] = tried[i]
        /\ tried'[Len(tried) + 1] = b /\ Len(tried) \in Nat
    BY <2>1, <2>2
  <2>5. IsInjective(tried')
    <3>1. SUFFICES ASSUME NEW i \in DOMAIN tried', NEW j \in DOMAIN tried', tried'[i] = tried'[j]
                   PROVE  i = j
      BY DEF IsInjective
    <3>2. CASE i \in DOMAIN tried /\ j \in DOMAIN tried
      BY <2>2, <2>4, <3>1, <3>2 DEF IsInjective
    <3>3. CASE i = Len(tried) + 1 /\ j = Len(tried) + 1
      BY <3>3
    <3>4. CASE i \in DOMAIN tried /\ j = Len(tried) + 1
      BY <2>3, <2>4, <3>1, <3>4
    <3>5. CASE i = Len(tried) + 1 /\ j \in DOMAIN tried
      BY <2>3, <2>4, <3>1, <3>5
    <3>6. QED
      BY <2>4, <3>2, <3>3, <3>4, <3>5
  <2>6. QED
    BY <2>2, <2>4, <2>5, MaxAttemptsAssumption DEF EachAtMostOnce
<1>6. QED
  BY <1>1, <1>2, <1>3, <1>4, <1>5 DEF FetchInv

LEMMA GiveUpKeepsInv ==
  ASSUME FetchInv, GiveUp
  PROVE  FetchInv'
<1> USE MaxResetsAssumption
<1>1. FetchTypes'
  BY OffersAssumption DEF FetchInv, FetchTypes, Tabs, Fetches, Places, GiveUp, FetchAt, Goes, Raise, Closing
<1>2. Waited'
  BY DEF FetchInv, FetchTypes, Fetches, Waited, WaitBounded, Before, Places, Kind, GiveUp, FetchAt, Goes,
     Raise, Closing
<1>3. Shown'
  BY DEF FetchInv, FetchTypes, Tabs, Fetches, Shown, JudgedIsExtracted, Before, Places, Kind, FetchJudged,
     GiveUp, FetchAt, Goes, Raise, Closing, Stirs
<1>4. Closed'
  BY DEF FetchInv, FetchTypes, Fetches, Closed, ClosedAfterwards, Kind, GiveUp, FetchAt, Goes, Raise,
     Closing
<1>5. EachAtMostOnce'
  BY DEF FetchInv, EachAtMostOnce, GiveUp, FetchAt, Goes, Raise, Closing
<1>6. QED
  BY <1>1, <1>2, <1>3, <1>4, <1>5 DEF FetchInv

LEMMA FetchingKeepsInv == FetchInv /\ [FetchingNext]_fetchingVars => FetchInv'
<1> SUFFICES ASSUME FetchInv, [FetchingNext]_fetchingVars PROVE FetchInv'
  OBVIOUS
<1>1. CASE UNCHANGED fetchingVars
  BY <1>1
     DEF fetchingVars, FetchInv, FetchTypes, Waited, WaitBounded, Shown, JudgedIsExtracted, FetchJudged,
         FetchAt, Kind, Closed, ClosedAfterwards, EachAtMostOnce
<1>2. CASE Site
  BY <1>2, RenavigatesKeepsInv, AnswersKeepsInv, CommitsKeepsInv, LoadsKeepsInv DEF Site
<1>3. CASE Browser
  BY <1>3, ConnectKeepsInv, ConnectAsyncKeepsInv, PageFailsKeepsInv, NewPageKeepsInv, NewContextKeepsInv,
     GotoKeepsInv, GotoReturnsKeepsInv, GotoAbortedKeepsInv, GotoOvertakenKeepsInv, GotoEmptyKeepsInv,
     WaitAgainKeepsInv, StopAndJudgeKeepsInv, RunScriptKeepsInv, SettleKeepsInv, LoadStateKeepsInv,
     JudgeStatusKeepsInv, BrowserStepsKeepsInv, ExtractContentKeepsInv, ExtractContentAsyncKeepsInv,
     CaptureFullPageKeepsInv, CaptureFullPageAsyncKeepsInv, LeaveKeepsInv, LeaveAsyncKeepsInv
     DEF Browser
<1>4. CASE OneCalls
  BY <1>4, RunSyncKeepsInv, RunScraplingKeepsInv, RunStealthKeepsInv, SeleniumConnectKeepsInv,
     SeleniumRunKeepsInv
     DEF OneCalls
<1>5. QED
  BY <1>1, <1>2, <1>3, <1>4, GoneKeepsInv, ChooseFirstKeepsInv, FallbackKeepsInv, GiveUpKeepsInv
     DEF FetchingNext

\* FetchIsSound: whatever the site does while it is fetched and however the fetchers fail,
\* what is stored is what was judged, no fetcher waits more often than it is configured to
\* (puppeteer.py, playwright.py), none leaves its browser behind, and call_browser() uses no
\* fetcher twice and at most FETCH_FALLBACK_MAX_ATTEMPTS more than the first.
THEOREM FetchesAreSound == FetchingSpec => []FetchIsSound
<1>1. FetchInv => FetchIsSound
  BY DEF FetchInv, Waited, Shown, Closed, FetchIsSound
<1>2. QED
  BY <1>1, FetchInit, FetchingKeepsInv, PTL DEF FetchingSpec

-----------------------------------------------------------------------------
\* The schema updates at a start (Upgrade).

\* The datastore as the updates up to version k leave it, and the version that the files say.
At(k) == Through(original.schema, k, original.d)
Version == disk.settings.schema
Awake == boot.pc # "off"
Loaded == boot.pc \in {"next", "saving"}

\* What every object is.  The legacy file never changes.
UpgradeTypes ==
  /\ original.kind \in {"legacy", "split"}
  /\ original.schema \in IF original.kind = "legacy" THEN 0 .. 25 ELSE 26 .. 33
  /\ IsDatastore(original.d) /\ DOMAIN original.d.watch = Watches
  /\ IsRecord(disk, {"legacy", "settings", "watch", "tag", "config"})
  /\ disk.legacy = [d |-> original.d, schema |-> IF original.kind = "legacy" THEN original.schema ELSE -1]
  /\ disk.settings.schema \in -1 .. 33
  /\ IsRecord(disk.settings, {"schema", "app", "tag"})
  /\ IsApp(disk.settings.app) /\ IsTagMap(disk.settings.tag)
  /\ IsWatchMap(disk.watch) /\ IsTagMap(disk.tag)
  /\ IsRecord(disk.config, Watches)
  /\ IsDatastore(mem)
  /\ boot \in [pc : {"off", "next", "saving", "running"}, n : 0 .. 33, todo : SUBSET (Watches \cup DOMAIN mem.tag), legacy : BOOLEAN]
  /\ crashes \in Nat /\ failures \in Nat

\* What is to be saved, and how far the files' version is behind.
Progress ==
  /\ boot.pc # "saving" => boot.todo = {}
  /\ boot.pc = "saving" =>
       /\ boot.n \in Available
       /\ boot.n \in {26, 30, 33} => boot.todo \subseteq DOMAIN mem.watch
       /\ boot.n = 29 => boot.todo \subseteq DOMAIN mem.tag
       /\ boot.n \notin {26, 29, 30, 33} => boot.todo = {}
  /\ boot.pc = "off" => mem = Empty(original.d)
  /\ boot.pc = "next" => Version <= boot.n
  /\ boot.pc = "saving" => Version < boot.n
  /\ boot.pc = "running" => boot.n = 33
  /\ Awake => boot.n >= original.schema
  /\ boot.pc = "saving" => boot.n > original.schema
  /\ IF original.kind = "split" THEN Version >= original.schema ELSE Version = -1 \/ Version > original.schema

\* A datastore that never was updated beyond its version.
Base ==
  \A w \in Watches : LET o == original.d.watch[w] IN
    /\ original.schema \in 18 .. 29 /\ o.processor = "restock_diff" => o.restock_settings # "none"
    /\ original.schema >= 30 => ~MovesSettings(o)
    /\ original.schema >= 33 => Priced(o) = o \/ Unpriced(o)

\* Nothing has been written yet.
Untouched == disk = Files(original.d, original.kind, original.schema)

\* An old datastore before its watches have files.
Unmoved ==
  /\ original.kind = "legacy"
  /\ ~Awake => Version = -1
  /\ \A w \in DOMAIN disk.watch : disk.watch[w] = At(25).watch[w]
  /\ disk.tag = << >>
  /\ Awake => Loaded /\ boot.legacy /\ boot.n \in original.schema .. 26 /\ mem = At(boot.n)
  /\ boot.pc = "next" => boot.n # 26
  /\ DOMAIN disk.watch # {} /\ Awake /\ ~Interrupted => boot.n = 26

\* Where the watches are found again, a version below 26 means that only update 26 can have written any.
Old == WatchesRetried /\ Version < 26 => Unmoved

\* No watch is missing, in the files or in memory, where the watches are found again.
Whole ==
  /\ ~Interrupted /\ ~Awake => Untouched
  /\ WatchesRetried /\ Version >= 26 => DOMAIN disk.watch = Watches
  /\ WatchesRetried /\ Awake => DOMAIN mem.watch = Watches
  /\ ~Interrupted /\ boot.pc = "saving" /\ boot.n = 26 => DOMAIN mem.watch \ boot.todo \subseteq DOMAIN disk.watch

\* What is left to do with a watch after the updates up to n, which are all or none of those of a datastore.
Left(n, x) == IF n < 30 THEN Priced(Dropped(x)) ELSE IF n < 33 THEN Priced(x) ELSE x

\* How far this start has brought a watch: updates 30 and 33 take one watch after the other.
Level(w) == IF boot.pc = "saving" /\ boot.n \in {30, 33} /\ w \in boot.todo THEN boot.n - 1 ELSE boot.n
Reached(n, x) == /\ n >= 30 => ~MovesSettings(x)
                 /\ n >= 33 => Priced(x) = x \/ Unpriced(x)

\* The heart of it: what a watch's file still has to go through gives what an update in one go gives,
\* and memory and file agree.
Alike ==
  WatchesRetried /\ Version >= 26 =>
    \A w \in Watches \ missed :
       /\ Left(Version, disk.watch[w]) = Final.watch[w] \/ Unpriced(disk.watch[w])
       /\ Unpriced(disk.watch[w]) <=> Unpriced(original.d.watch[w])
       /\ Reached(Version, disk.watch[w])
       /\ Awake => /\ mem.watch[w] = disk.watch[w]
                   /\ Reached(Level(w), mem.watch[w])
                   /\ Left(Level(w), mem.watch[w]) = Final.watch[w] \/ (Interrupted /\ Unpriced(mem.watch[w]))

\* A watch whose restock_diff.json is not there yet still has the settings that belong in it.
Moved ==
  WatchesRetried /\ Version >= 26 =>
    \A w \in Watches : original.d.watch[w].processor = "restock_diff" /\ disk.config[w] = "none" =>
       /\ Version < 30 /\ MovesSettings(disk.watch[w])
       /\ Awake => Level(w) < 30 /\ MovesSettings(mem.watch[w])

\* No group is missing, where the groups are found again.
Grouped ==
  TagsRetried =>
    LET owed == DOMAIN original.d.tag \ missed IN
    /\ Awake => owed \subseteq DOMAIN mem.tag
    /\ Version \in 26 .. 28 /\ original.kind = "split" => owed \subseteq DOMAIN disk.settings.tag
    /\ Version >= 29 => owed \subseteq DOMAIN disk.tag
    /\ Awake /\ boot.n >= 29 => owed \subseteq DOMAIN disk.tag \cup (IF boot.n = 29 THEN boot.todo ELSE {})

UpgradeInv == UpgradeTypes /\ Progress /\ Base /\ Old /\ Whole /\ Alike /\ Moved /\ Grouped

\* What Through() has after update k, given what it had before.
Onward(f, a, d, k) == IF k = a THEN d ELSE Update(k, f[k - 1])

\* Through()'s recursion, unfolded.  There is a function that obeys it: by induction over its length.
Chain(f, a, b, d) == f = [k \in a .. b |-> Onward(f, a, d, k)]

LEMMA ChainExists ==
  ASSUME NEW a \in Nat, NEW m \in Nat, NEW d
  PROVE  \E f : Chain(f, a, a + m, d)
<1> DEFINE T == {n \in Nat : \E f : Chain(f, a, a + n, d)}
<1>1. 0 \in T
  <2> DEFINE f == [k \in a .. (a + 0) |-> d]
  <2>1. Chain(f, a, a + 0, d)
    BY DEF Chain, Onward
  <2> QED
    BY <2>1
<1>2. ASSUME NEW n \in Nat, n \in T
      PROVE  n + 1 \in T
  <2>1. PICK f : f = [k \in a .. (a + n) |-> Onward(f, a, d, k)]
    BY <1>2 DEF Chain
  <2> DEFINE g == [k \in a .. (a + (n + 1)) |-> Onward(f, a, d, k)]
  <2>2. ASSUME NEW k \in a .. (a + (n + 1))
        PROVE  Onward(f, a, d, k) = Onward(g, a, d, k)
    <3>1. CASE k = a
      BY <3>1 DEF Onward
    <3>2. CASE k # a
      <4>1. k - 1 \in a .. (a + n) /\ k - 1 \in a .. (a + (n + 1))
        BY <3>2
      <4>2. f[k - 1] = Onward(f, a, d, k - 1)
        BY <2>1, <4>1
      <4>3. g[k - 1] = f[k - 1]
        BY <4>1, <4>2
      <4> HIDE DEF g
      <4> QED
        BY <4>3 DEF Onward
    <3> QED
      BY <3>1, <3>2
  <2>3. g = [k \in a .. (a + (n + 1)) |-> Onward(g, a, d, k)]
    BY <2>2
  <2>4. \E h : Chain(h, a, a + (n + 1), d)
    <3> HIDE DEF g
    <3> QED
      BY <2>3 DEF Chain
  <2> QED
    BY <2>4
<1> HIDE DEF T
<1>3. Nat \subseteq T
  BY <1>1, <1>2, Induct
<1> QED
  BY <1>3 DEF T

\* So Through() is the last member of such a function.
LEMMA ThroughBy ==
  ASSUME NEW a \in Nat, NEW b \in Nat, a <= b, NEW d
  PROVE  \E f : /\ Through(a, b, d) = f[b]
                /\ \A k \in a .. b : f[k] = Onward(f, a, d, k)
<1> DEFINE after == CHOOSE f : f = [k \in a .. b |-> Onward(f, a, d, k)]
<1>1. Through(a, b, d) = after[b]
  BY DEF Through, Onward
<1>2. b - a \in Nat /\ a + (b - a) = b
  OBVIOUS
<1>3. \E f : Chain(f, a, a + (b - a), d)
  BY <1>2, ChainExists
<1>4. after = [k \in a .. b |-> Onward(after, a, d, k)]
  BY <1>2, <1>3 DEF Chain
<1> HIDE DEF after
<1>5. \A k \in a .. b : after[k] = Onward(after, a, d, k)
  BY <1>4
<1> QED
  BY <1>1, <1>5

\* Two such functions agree where both are defined.
LEMMA OnwardUnique ==
  ASSUME NEW a \in Nat, NEW b \in Nat, a <= b, NEW d, NEW f, NEW g,
         \A k \in a .. b : f[k] = Onward(f, a, d, k) /\ g[k] = Onward(g, a, d, k)
  PROVE  f[b] = g[b]
<1> DEFINE T == {n \in Nat : a + n <= b => f[a + n] = g[a + n]}
<1>1. 0 \in T
  <2>1. a + 0 \in a .. b /\ a + 0 = a
    OBVIOUS
  <2>2. f[a] = d /\ g[a] = d
    BY <2>1 DEF Onward
  <2> QED
    BY <2>1, <2>2
<1>2. ASSUME NEW n \in Nat, n \in T
      PROVE  n + 1 \in T
  <2>1. SUFFICES ASSUME a + (n + 1) <= b
                 PROVE  f[a + (n + 1)] = g[a + (n + 1)]
    OBVIOUS
  <2>2. f[a + n] = g[a + n]
    BY <1>2, <2>1
  <2> DEFINE k == a + (n + 1)
  <2>3. k \in a .. b /\ k # a /\ k - 1 = a + n
    BY <2>1
  <2> HIDE DEF k
  <2>4. f[k] = Update(k, f[k - 1]) /\ g[k] = Update(k, g[k - 1])
    BY <2>3 DEF Onward
  <2>5. f[k] = g[k]
    BY <2>2, <2>3, <2>4
  <2> QED
    BY <2>5 DEF k
<1> HIDE DEF T
<1>3. Nat \subseteq T
  BY <1>1, <1>2, Induct
<1>4. b - a \in T /\ a + (b - a) = b
  BY <1>3
<1> QED
  BY <1>4 DEF T

\* Nothing is due.
LEMMA ThroughBase == ASSUME NEW a \in Nat, NEW d PROVE Through(a, a, d) = d
<1>1. PICK f : Through(a, a, d) = f[a] /\ \A k \in a .. a : f[k] = Onward(f, a, d, k)
  BY ThroughBy
<1> QED
  BY <1>1 DEF Onward

\* One update more.
LEMMA ThroughStep ==
  ASSUME NEW a \in Nat, NEW b \in Nat, a < b, NEW d
  PROVE  Through(a, b, d) = Update(b, Through(a, b - 1, d))
<1>1. b - 1 \in Nat /\ a <= b - 1
  OBVIOUS
<1>2. PICK f : Through(a, b, d) = f[b] /\ \A k \in a .. b : f[k] = Onward(f, a, d, k)
  BY ThroughBy
<1>3. PICK g : Through(a, b - 1, d) = g[b - 1] /\ \A k \in a .. (b - 1) : g[k] = Onward(g, a, d, k)
  BY <1>1, ThroughBy
<1>4. f[b] = Update(b, f[b - 1])
  BY <1>2 DEF Onward
<1>5. \A k \in a .. (b - 1) : f[k] = Onward(f, a, d, k) /\ g[k] = Onward(g, a, d, k)
  BY <1>2, <1>3
<1>6. f[b - 1] = g[b - 1]
  BY <1>1, <1>5, OnwardUnique
<1> QED
  BY <1>2, <1>3, <1>4, <1>6

\* A watch that kept what matters for later updates.
SameWatch(w, x) == /\ IsWatch(x)
                   /\ x.processor = w.processor /\ x.history = w.history
                   /\ x.restock_settings = w.restock_settings

\* A datastore with the same watches, and all of its groups.
Keeps(d, e) ==
  /\ IsDatastore(e)
  /\ DOMAIN e.watch = DOMAIN d.watch
  /\ DOMAIN d.tag \subseteq DOMAIN e.tag
  /\ \A w \in DOMAIN d.watch : SameWatch(d.watch[w], e.watch[w])

\* A changed field of a watch leaves it a watch with its processor, history and settings.
LEMMA ChangedField ==
  ASSUME NEW w, IsWatch(w), NEW v,
         NEW f \in WatchFields \ {"processor", "history", "restock_settings", "restock", "include_filters"}
  PROVE  SameWatch(w, [w EXCEPT ![f] = v])
BY DEF IsWatch, IsRecord, SameWatch, WatchFields

LEMMA ChangedFilters ==
  ASSUME NEW w, IsWatch(w), NEW v, IsRecord(v, DOMAIN v)
  PROVE  SameWatch(w, [w EXCEPT !.include_filters = v])
BY DEF IsWatch, IsRecord, SameWatch, WatchFields

LEMMA ChangedRestock ==
  ASSUME NEW w, IsWatch(w), NEW v, IsRecord(v, RestockFields)
  PROVE  SameWatch(w, [w EXCEPT !.restock = v])
BY DEF IsWatch, IsRecord, SameWatch, WatchFields

LEMMA ChangedTwice == ASSUME NEW w, NEW x, NEW y, SameWatch(w, x), SameWatch(x, y) PROVE SameWatch(w, y)
BY DEF SameWatch

LEMMA Unchanged == ASSUME NEW w, IsWatch(w) PROVE SameWatch(w, w)
BY DEF SameWatch

LEMMA ChangedApp ==
  ASSUME NEW a, IsApp(a), NEW v, NEW f \in AppFields \ {"extract_title", "use_page_title"}
  PROVE  IsApp([a EXCEPT ![f] = v])
BY DEF IsApp, IsRecord, AppFields

LEMMA ChangedTag ==
  ASSUME NEW t, IsTag(t), NEW v, NEW f \in TagFields
  PROVE  IsTag([t EXCEPT ![f] = v])
BY DEF IsTag, IsRecord, TagFields

\* A datastore is kept when its parts are.
LEMMA KeptParts ==
  ASSUME NEW d, IsDatastore(d), NEW e, IsRecord(e, {"watch", "app", "tag"}),
         IsRecord(e.watch, DOMAIN d.watch), \A w \in DOMAIN d.watch : SameWatch(d.watch[w], e.watch[w]),
         IsApp(e.app), IsTagMap(e.tag), DOMAIN d.tag \subseteq DOMAIN e.tag
  PROVE  Keeps(d, e)
<1>1. DOMAIN e.watch = DOMAIN d.watch
  BY DEF IsRecord
<1> QED
  BY <1>1 DEF Keeps, IsDatastore, IsWatchMap, SameWatch

\* Two datastores are the same when their parts are.
LEMMA SameParts ==
  ASSUME NEW d, IsRecord(d, {"watch", "app", "tag"}), NEW e, IsRecord(e, {"watch", "app", "tag"}),
         e.watch = d.watch, e.app = d.app, e.tag = d.tag
  PROVE  e = d
BY DEF IsRecord

\* The updates that keep a datastore, each with the reason why its repetition changes nothing more.
LEMMA Keeps2 ==
  ASSUME NEW d, IsDatastore(d)
  PROVE  Keeps(d, Update2(d)) /\ Update2(Update2(d)) = Update2(d)
<1> DEFINE W(w) == IF w.inline THEN [w EXCEPT !.inline = FALSE, !.index = w.dir \/ @] ELSE w
           e == Update2(d)
<1>1. ASSUME NEW w, IsWatch(w) PROVE SameWatch(w, W(w))
  <2> DEFINE x == [w EXCEPT !.inline = FALSE]
  <2>1. SameWatch(w, x)
    BY <1>1, ChangedField DEF WatchFields
  <2>2. IsWatch(x)
    BY <2>1 DEF SameWatch
  <2> HIDE DEF x
  <2>3. SameWatch(x, [x EXCEPT !.index = w.dir \/ x.index])
    BY <2>2, ChangedField DEF WatchFields
  <2>4. SameWatch(w, [x EXCEPT !.index = w.dir \/ x.index])
    BY <2>1, <2>3, ChangedTwice
  <2> QED
    BY <1>1, <2>4, Unchanged DEF x
<1>2. ASSUME NEW w, IsWatch(w) PROVE W(W(w)) = W(w)
  BY <1>2 DEF IsWatch, IsRecord, WatchFields
<1>3. e = [d EXCEPT !.watch = [w \in DOMAIN d.watch |-> W(d.watch[w])]]
  BY DEF Update2, EachWatch
<1>4. /\ IsRecord(e, {"watch", "app", "tag"}) /\ e.app = d.app /\ e.tag = d.tag
      /\ e.watch = [w \in DOMAIN d.watch |-> W(d.watch[w])]
  BY <1>3 DEF IsDatastore, IsRecord
<1> HIDE DEF e
<1>5. Update2(e) = [e EXCEPT !.watch = [w \in DOMAIN e.watch |-> W(e.watch[w])]]
  BY <1>4 DEF Update2, EachWatch
<1> HIDE DEF W
<1>6. \A w \in DOMAIN d.watch : IsWatch(d.watch[w])
  BY DEF IsDatastore, IsWatchMap
<1>7. [w \in DOMAIN e.watch |-> W(e.watch[w])] = e.watch
  BY <1>2, <1>4, <1>6
<1>8. Update2(e) = e
  BY <1>4, <1>5, <1>7 DEF IsRecord
<1>9. Keeps(d, e)
  BY <1>1, <1>4, <1>6, KeptParts DEF IsDatastore, IsRecord
<1> QED
  BY <1>8, <1>9 DEF e

LEMMA Keeps4 ==
  ASSUME NEW d, IsDatastore(d)
  PROVE  Keeps(d, Update4(d)) /\ Update4(Update4(d)) = Update4(d)
<1> DEFINE W(w) == [w EXCEPT !.last_changed = FALSE]
           e == Update4(d)
<1>1. ASSUME NEW w, IsWatch(w) PROVE SameWatch(w, W(w))
  BY <1>1, ChangedField, Unchanged DEF WatchFields
<1>2. ASSUME NEW w, IsWatch(w) PROVE W(W(w)) = W(w)
  BY <1>2 DEF IsWatch, IsRecord
<1>3. e = [d EXCEPT !.watch = [w \in DOMAIN d.watch |-> W(d.watch[w])]]
  BY DEF Update4, EachWatch
<1>4. /\ IsRecord(e, {"watch", "app", "tag"}) /\ e.app = d.app /\ e.tag = d.tag
      /\ e.watch = [w \in DOMAIN d.watch |-> W(d.watch[w])]
  BY <1>3 DEF IsDatastore, IsRecord
<1> HIDE DEF e
<1>5. Update4(e) = [e EXCEPT !.watch = [w \in DOMAIN e.watch |-> W(e.watch[w])]]
  BY <1>4 DEF Update4, EachWatch
<1> HIDE DEF W
<1>6. \A w \in DOMAIN d.watch : IsWatch(d.watch[w])
  BY DEF IsDatastore, IsWatchMap
<1>7. [w \in DOMAIN e.watch |-> W(e.watch[w])] = e.watch
  BY <1>2, <1>4, <1>6
<1>8. Update4(e) = e
  BY <1>4, <1>5, <1>7 DEF IsRecord
<1>9. Keeps(d, e)
  BY <1>1, <1>4, <1>6, KeptParts DEF IsDatastore, IsRecord
<1> QED
  BY <1>8, <1>9 DEF e

LEMMA Keeps5 ==
  ASSUME NEW d, IsDatastore(d)
  PROVE  Keeps(d, Update5(d)) /\ Update5(Update5(d)) = Update5(d)
<1> DEFINE Unset(text) == IF text = d.app.body THEN "none" ELSE text
           W(w) == [w EXCEPT !.body = Unset(@), !.title = Unset(@)]
           e == Update5(d)
<1>1. ASSUME NEW w, IsWatch(w) PROVE SameWatch(w, W(w))
  <2> DEFINE x == [w EXCEPT !.body = Unset(w.body)]
  <2>1. SameWatch(w, x)
    BY <1>1, ChangedField DEF WatchFields
  <2>2. IsWatch(x)
    BY <2>1 DEF SameWatch
  <2> HIDE DEF x
  <2>3. SameWatch(x, [x EXCEPT !.title = Unset(x.title)])
    BY <2>2, ChangedField DEF WatchFields
  <2>4. SameWatch(w, [x EXCEPT !.title = Unset(x.title)])
    BY <2>1, <2>3, ChangedTwice
  <2> QED
    BY <1>1, <2>4, Unchanged DEF x
<1>2. ASSUME NEW w, IsWatch(w) PROVE W(W(w)) = W(w)
  BY <1>2 DEF IsWatch, IsRecord, WatchFields
<1>3. e = [d EXCEPT !.watch = [w \in DOMAIN d.watch |-> W(d.watch[w])]]
  BY DEF Update5, EachWatch
<1>4. /\ IsRecord(e, {"watch", "app", "tag"}) /\ e.app = d.app /\ e.tag = d.tag
      /\ e.watch = [w \in DOMAIN d.watch |-> W(d.watch[w])]
  BY <1>3 DEF IsDatastore, IsRecord
<1> HIDE DEF e
<1>5. Update5(e) = [e EXCEPT !.watch = [w \in DOMAIN e.watch |-> W(e.watch[w])]]
  BY <1>4, ZenonT(30) DEF Update5, EachWatch
<1> HIDE DEF W
<1>6. \A w \in DOMAIN d.watch : IsWatch(d.watch[w])
  BY DEF IsDatastore, IsWatchMap
<1>7. [w \in DOMAIN e.watch |-> W(e.watch[w])] = e.watch
  BY <1>2, <1>4, <1>6
<1>8. Update5(e) = e
  BY <1>4, <1>5, <1>7 DEF IsRecord
<1>9. Keeps(d, e)
  BY <1>1, <1>4, <1>6, KeptParts DEF IsDatastore, IsRecord
<1> QED
  BY <1>8, <1>9 DEF e

LEMMA Keeps8 ==
  ASSUME NEW d, IsDatastore(d)
  PROVE  Keeps(d, Update8(d)) /\ Update8(Update8(d)) = Update8(d)
<1> DEFINE W(w) == IF w.css_filter # "none" THEN [w EXCEPT !.include_filters = <<w.css_filter>>] ELSE w
           e == Update8(d)
<1>1. ASSUME NEW w, IsWatch(w) PROVE SameWatch(w, W(w))
  BY <1>1, ChangedFilters, Unchanged DEF IsRecord
<1>2. ASSUME NEW w, IsWatch(w) PROVE W(W(w)) = W(w)
  BY <1>2 DEF IsWatch, IsRecord, WatchFields
<1>3. e = [d EXCEPT !.watch = [w \in DOMAIN d.watch |-> W(d.watch[w])]]
  BY DEF Update8, EachWatch
<1>4. /\ IsRecord(e, {"watch", "app", "tag"}) /\ e.app = d.app /\ e.tag = d.tag
      /\ e.watch = [w \in DOMAIN d.watch |-> W(d.watch[w])]
  BY <1>3 DEF IsDatastore, IsRecord
<1> HIDE DEF e
<1>5. Update8(e) = [e EXCEPT !.watch = [w \in DOMAIN e.watch |-> W(e.watch[w])]]
  BY <1>4 DEF Update8, EachWatch
<1> HIDE DEF W
<1>6. \A w \in DOMAIN d.watch : IsWatch(d.watch[w])
  BY DEF IsDatastore, IsWatchMap
<1>7. [w \in DOMAIN e.watch |-> W(e.watch[w])] = e.watch
  BY <1>2, <1>4, <1>6
<1>8. Update8(e) = e
  BY <1>4, <1>5, <1>7 DEF IsRecord
<1>9. Keeps(d, e)
  BY <1>1, <1>4, <1>6, KeptParts DEF IsDatastore, IsRecord
<1> QED
  BY <1>8, <1>9 DEF e

LEMMA Keeps10 ==
  ASSUME NEW d, IsDatastore(d)
  PROVE  Keeps(d, Update10(d)) /\ Update10(Update10(d)) = Update10(d)
<1> DEFINE W(w) == IF w.fetch_backend = "none" THEN [w EXCEPT !.fetch_backend = "system"] ELSE w
           e == Update10(d)
<1>1. ASSUME NEW w, IsWatch(w) PROVE SameWatch(w, W(w))
  BY <1>1, ChangedField, Unchanged DEF WatchFields
<1>2. ASSUME NEW w, IsWatch(w) PROVE W(W(w)) = W(w)
  BY <1>2 DEF IsWatch, IsRecord, WatchFields
<1>3. e = [d EXCEPT !.watch = [w \in DOMAIN d.watch |-> W(d.watch[w])]]
  BY DEF Update10, EachWatch
<1>4. /\ IsRecord(e, {"watch", "app", "tag"}) /\ e.app = d.app /\ e.tag = d.tag
      /\ e.watch = [w \in DOMAIN d.watch |-> W(d.watch[w])]
  BY <1>3 DEF IsDatastore, IsRecord
<1> HIDE DEF e
<1>5. Update10(e) = [e EXCEPT !.watch = [w \in DOMAIN e.watch |-> W(e.watch[w])]]
  BY <1>4 DEF Update10, EachWatch
<1> HIDE DEF W
<1>6. \A w \in DOMAIN d.watch : IsWatch(d.watch[w])
  BY DEF IsDatastore, IsWatchMap
<1>7. [w \in DOMAIN e.watch |-> W(e.watch[w])] = e.watch
  BY <1>2, <1>4, <1>6
<1>8. Update10(e) = e
  BY <1>4, <1>5, <1>7 DEF IsRecord
<1>9. Keeps(d, e)
  BY <1>1, <1>4, <1>6, KeptParts DEF IsDatastore, IsRecord
<1> QED
  BY <1>8, <1>9 DEF e

LEMMA Keeps14 ==
  ASSUME NEW d, IsDatastore(d)
  PROVE  Keeps(d, Update14(d)) /\ Update14(Update14(d)) = Update14(d)
<1> DEFINE Xpath1(s) == CASE s = "/" -> "xpath1:/" [] s = "xpath:" -> "xpath1:" [] OTHER -> s
           W(w) == [w EXCEPT !.include_filters = [i \in DOMAIN @ |-> Xpath1(@[i])]]
           e == Update14(d)
<1>1. ASSUME NEW w, IsWatch(w) PROVE SameWatch(w, W(w))
  BY <1>1, ChangedFilters DEF IsRecord
<1>2. ASSUME NEW w, IsWatch(w) PROVE W(W(w)) = W(w)
  BY <1>2 DEF IsWatch, IsRecord, WatchFields
<1>3. e = [d EXCEPT !.watch = [w \in DOMAIN d.watch |-> W(d.watch[w])]]
  BY DEF Update14, EachWatch
<1>4. /\ IsRecord(e, {"watch", "app", "tag"}) /\ e.app = d.app /\ e.tag = d.tag
      /\ e.watch = [w \in DOMAIN d.watch |-> W(d.watch[w])]
  BY <1>3 DEF IsDatastore, IsRecord
<1> HIDE DEF e
<1>5. Update14(e) = [e EXCEPT !.watch = [w \in DOMAIN e.watch |-> W(e.watch[w])]]
  BY <1>4 DEF Update14, EachWatch
<1> HIDE DEF W
<1>6. \A w \in DOMAIN d.watch : IsWatch(d.watch[w])
  BY DEF IsDatastore, IsWatchMap
<1>7. [w \in DOMAIN e.watch |-> W(e.watch[w])] = e.watch
  BY <1>2, <1>4, <1>6
<1>8. Update14(e) = e
  BY <1>4, <1>5, <1>7 DEF IsRecord
<1>9. Keeps(d, e)
  BY <1>1, <1>4, <1>6, KeptParts DEF IsDatastore, IsRecord
<1> QED
  BY <1>8, <1>9 DEF e

LEMMA Keeps15 ==
  ASSUME NEW d, IsDatastore(d)
  PROVE  Keeps(d, Update15(d)) /\ Update15(Update15(d)) = Update15(d)
<1> DEFINE W(w) == [w EXCEPT !.use_default = w.interval \in {d.app.interval, "none"}]
           e == Update15(d)
<1>1. ASSUME NEW w, IsWatch(w) PROVE SameWatch(w, W(w))
  BY <1>1, ChangedField, Unchanged DEF WatchFields
<1>2. ASSUME NEW w, IsWatch(w) PROVE W(W(w)) = W(w)
  BY <1>2 DEF IsWatch, IsRecord, WatchFields
<1>3. e = [d EXCEPT !.watch = [w \in DOMAIN d.watch |-> W(d.watch[w])]]
  BY DEF Update15, EachWatch
<1>4. /\ IsRecord(e, {"watch", "app", "tag"}) /\ e.app = d.app /\ e.tag = d.tag
      /\ e.watch = [w \in DOMAIN d.watch |-> W(d.watch[w])]
  BY <1>3 DEF IsDatastore, IsRecord
<1> HIDE DEF e
<1>5. Update15(e) = [e EXCEPT !.watch = [w \in DOMAIN e.watch |-> W(e.watch[w])]]
  BY <1>4 DEF Update15, EachWatch
<1> HIDE DEF W
<1>6. \A w \in DOMAIN d.watch : IsWatch(d.watch[w])
  BY DEF IsDatastore, IsWatchMap
<1>7. [w \in DOMAIN e.watch |-> W(e.watch[w])] = e.watch
  BY <1>2, <1>4, <1>6
<1>8. Update15(e) = e
  BY <1>4, <1>5, <1>7 DEF IsRecord
<1>9. Keeps(d, e)
  BY <1>1, <1>4, <1>6, KeptParts DEF IsDatastore, IsRecord
<1> QED
  BY <1>8, <1>9 DEF e

LEMMA Keeps16 ==
  ASSUME NEW d, IsDatastore(d)
  PROVE  Keeps(d, Update16(d)) /\ Update16(Update16(d)) = Update16(d)
<1> DEFINE W(w) == IF "as text" \in w.tags THEN [w EXCEPT !.tags = {}] ELSE w
           e == Update16(d)
<1>1. ASSUME NEW w, IsWatch(w) PROVE SameWatch(w, W(w))
  BY <1>1, ChangedField, Unchanged DEF WatchFields
<1>2. ASSUME NEW w, IsWatch(w) PROVE W(W(w)) = W(w)
  BY <1>2 DEF IsWatch, IsRecord, WatchFields
<1>3. e = [d EXCEPT !.watch = [w \in DOMAIN d.watch |-> W(d.watch[w])]]
  BY DEF Update16, EachWatch
<1>4. /\ IsRecord(e, {"watch", "app", "tag"}) /\ e.app = d.app /\ e.tag = d.tag
      /\ e.watch = [w \in DOMAIN d.watch |-> W(d.watch[w])]
  BY <1>3 DEF IsDatastore, IsRecord
<1> HIDE DEF e
<1>5. Update16(e) = [e EXCEPT !.watch = [w \in DOMAIN e.watch |-> W(e.watch[w])]]
  BY <1>4 DEF Update16, EachWatch
<1> HIDE DEF W
<1>6. \A w \in DOMAIN d.watch : IsWatch(d.watch[w])
  BY DEF IsDatastore, IsWatchMap
<1>7. [w \in DOMAIN e.watch |-> W(e.watch[w])] = e.watch
  BY <1>2, <1>4, <1>6
<1>8. Update16(e) = e
  BY <1>4, <1>5, <1>7 DEF IsRecord
<1>9. Keeps(d, e)
  BY <1>1, <1>4, <1>6, KeptParts DEF IsDatastore, IsRecord
<1> QED
  BY <1>8, <1>9 DEF e

LEMMA Keeps17 ==
  ASSUME NEW d, IsDatastore(d)
  PROVE  Keeps(d, Update17(d)) /\ Update17(Update17(d)) = Update17(d)
<1> DEFINE W(w) == IF w.in_stock = "none" THEN w
                   ELSE [w EXCEPT !.restock = [in_stock |-> w.in_stock, price |-> 0, last_price |-> 0,
                                               original_price |-> 0],
                                  !.in_stock = "none"]
           e == Update17(d)
<1>1. ASSUME NEW w, IsWatch(w) PROVE SameWatch(w, W(w))
  <2> DEFINE r == [in_stock |-> w.in_stock, price |-> 0, last_price |-> 0, original_price |-> 0]
             x == [w EXCEPT !.restock = r]
  <2>1. SameWatch(w, x)
    BY <1>1, ChangedRestock DEF IsRecord, RestockFields
  <2>2. IsWatch(x)
    BY <2>1 DEF SameWatch
  <2> HIDE DEF x
  <2>3. SameWatch(x, [x EXCEPT !.in_stock = "none"])
    BY <2>2, ChangedField DEF WatchFields
  <2>4. SameWatch(w, [x EXCEPT !.in_stock = "none"])
    BY <2>1, <2>3, ChangedTwice
  <2> QED
    BY <1>1, <2>4, Unchanged DEF x
<1>2. ASSUME NEW w, IsWatch(w) PROVE W(W(w)) = W(w)
  BY <1>2 DEF IsWatch, IsRecord, WatchFields
<1>3. e = [d EXCEPT !.watch = [w \in DOMAIN d.watch |-> W(d.watch[w])]]
  BY DEF Update17, EachWatch
<1>4. /\ IsRecord(e, {"watch", "app", "tag"}) /\ e.app = d.app /\ e.tag = d.tag
      /\ e.watch = [w \in DOMAIN d.watch |-> W(d.watch[w])]
  BY <1>3 DEF IsDatastore, IsRecord
<1> HIDE DEF e
<1>5. Update17(e) = [e EXCEPT !.watch = [w \in DOMAIN e.watch |-> W(e.watch[w])]]
  BY <1>4 DEF Update17, EachWatch
<1> HIDE DEF W
<1>6. \A w \in DOMAIN d.watch : IsWatch(d.watch[w])
  BY DEF IsDatastore, IsWatchMap
<1>7. [w \in DOMAIN e.watch |-> W(e.watch[w])] = e.watch
  BY <1>2, <1>4, <1>6
<1>8. Update17(e) = e
  BY <1>4, <1>5, <1>7 DEF IsRecord
<1>9. Keeps(d, e)
  BY <1>1, <1>4, <1>6, KeptParts DEF IsDatastore, IsRecord
<1> QED
  BY <1>8, <1>9 DEF e

LEMMA Keeps19 ==
  ASSUME NEW d, IsDatastore(d)
  PROVE  Keeps(d, Update19(d)) /\ Update19(Update19(d)) = Update19(d)
<1> DEFINE W(w) == IF w.elements = "json" THEN [w EXCEPT !.elements = "deflate"] ELSE w
           e == Update19(d)
<1>1. ASSUME NEW w, IsWatch(w) PROVE SameWatch(w, W(w))
  BY <1>1, ChangedField, Unchanged DEF WatchFields
<1>2. ASSUME NEW w, IsWatch(w) PROVE W(W(w)) = W(w)
  BY <1>2 DEF IsWatch, IsRecord, WatchFields
<1>3. e = [d EXCEPT !.watch = [w \in DOMAIN d.watch |-> W(d.watch[w])]]
  BY DEF Update19, EachWatch
<1>4. /\ IsRecord(e, {"watch", "app", "tag"}) /\ e.app = d.app /\ e.tag = d.tag
      /\ e.watch = [w \in DOMAIN d.watch |-> W(d.watch[w])]
  BY <1>3 DEF IsDatastore, IsRecord
<1> HIDE DEF e
<1>5. Update19(e) = [e EXCEPT !.watch = [w \in DOMAIN e.watch |-> W(e.watch[w])]]
  BY <1>4 DEF Update19, EachWatch
<1> HIDE DEF W
<1>6. \A w \in DOMAIN d.watch : IsWatch(d.watch[w])
  BY DEF IsDatastore, IsWatchMap
<1>7. [w \in DOMAIN e.watch |-> W(e.watch[w])] = e.watch
  BY <1>2, <1>4, <1>6
<1>8. Update19(e) = e
  BY <1>4, <1>5, <1>7 DEF IsRecord
<1>9. Keeps(d, e)
  BY <1>1, <1>4, <1>6, KeptParts DEF IsDatastore, IsRecord
<1> QED
  BY <1>8, <1>9 DEF e

LEMMA Keeps33 ==
  ASSUME NEW d, IsDatastore(d)
  PROVE  Keeps(d, Update33(d))
<1> DEFINE W(w) == Priced(w)
           e == Update33(d)
<1>1. ASSUME NEW w, IsWatch(w) PROVE SameWatch(w, W(w))
  BY <1>1, ChangedRestock, Unchanged DEF Priced, IsRecord, RestockFields, IsWatch
<1>3. e = [d EXCEPT !.watch = [w \in DOMAIN d.watch |-> W(d.watch[w])]]
  BY DEF Update33, EachWatch
<1>4. /\ IsRecord(e, {"watch", "app", "tag"}) /\ e.app = d.app /\ e.tag = d.tag
      /\ e.watch = [w \in DOMAIN d.watch |-> W(d.watch[w])]
  BY <1>3 DEF IsDatastore, IsRecord
<1> HIDE DEF W, e
<1>6. \A w \in DOMAIN d.watch : IsWatch(d.watch[w])
  BY DEF IsDatastore, IsWatchMap
<1> QED
  BY <1>1, <1>4, <1>6, KeptParts DEF IsDatastore, IsRecord, e

LEMMA Keeps7 ==
  ASSUME NEW d, IsDatastore(d)
  PROVE  Keeps(d, Update7(d)) /\ Update7(Update7(d)) = Update7(d)
<1> DEFINE e == Update7(d)
<1>1. IsRecord(d, {"watch", "app", "tag"}) /\ IsApp(d.app)
  BY DEF IsDatastore
<1>2. IsApp(e.app)
  BY <1>1, ChangedApp DEF Update7, IsRecord, AppFields
<1>3. /\ IsRecord(e, {"watch", "app", "tag"}) /\ e.watch = d.watch /\ e.tag = d.tag
  BY <1>1 DEF Update7, IsRecord
<1>4. Update7(e) = e
  BY <1>1, ZenonT(30) DEF Update7, IsRecord, IsApp, AppFields
<1> HIDE DEF e
<1>5. Keeps(d, e)
  BY <1>2, <1>3, KeptParts, Unchanged DEF IsDatastore, IsWatchMap, IsRecord
<1> QED
  BY <1>4, <1>5 DEF e

LEMMA Keeps24 ==
  ASSUME NEW d, IsDatastore(d)
  PROVE  Keeps(d, Update24(d)) /\ Update24(Update24(d)) = Update24(d)
<1> DEFINE e == Update24(d)
<1>1. IsRecord(d, {"watch", "app", "tag"}) /\ IsApp(d.app)
  BY DEF IsDatastore
<1>2. IsApp(e.app)
  BY <1>1, ChangedApp DEF Update24, IsRecord, AppFields
<1>3. /\ IsRecord(e, {"watch", "app", "tag"}) /\ e.watch = d.watch /\ e.tag = d.tag
  BY <1>1 DEF Update24, IsRecord
<1>4. Update24(e) = e
  BY <1>1 DEF Update24, IsRecord, IsApp, AppFields
<1> HIDE DEF e
<1>5. Keeps(d, e)
  BY <1>2, <1>3, KeptParts, Unchanged DEF IsDatastore, IsWatchMap, IsRecord
<1> QED
  BY <1>4, <1>5 DEF e

LEMMA Keeps21 ==
  ASSUME NEW d, IsDatastore(d)
  PROVE  Keeps(d, Update21(d)) /\ Update21(Update21(d)) = Update21(d)
<1> DEFINE e == Update21(d)
<1>1. IsRecord(d, {"watch", "app", "tag"}) /\ IsApp(d.app)
  BY DEF IsDatastore
<1>2. IsApp(e.app)
  <2> DEFINE x == [d.app EXCEPT !.scheduler_timezone = d.app.timezone]
  <2>1. IsApp(x)
    BY <1>1, ChangedApp DEF AppFields
  <2> DEFINE y == [x EXCEPT !.timezone = "none"]
  <2>2. IsApp(y)
    <3> HIDE DEF x
    <3> QED
      BY <2>1, ChangedApp DEF AppFields
  <2> QED
    BY <1>1, <2>2 DEF Update21, IsRecord
<1>3. /\ IsRecord(e, {"watch", "app", "tag"}) /\ e.watch = d.watch /\ e.tag = d.tag
  BY <1>1 DEF Update21, IsRecord
<1>4. Update21(e) = e
  BY <1>1 DEF Update21, IsRecord, IsApp, AppFields
<1> HIDE DEF e
<1>5. Keeps(d, e)
  BY <1>2, <1>3, KeptParts, Unchanged DEF IsDatastore, IsWatchMap, IsRecord
<1> QED
  BY <1>4, <1>5 DEF e

LEMMA Keeps31 ==
  ASSUME NEW d, IsDatastore(d)
  PROVE  Keeps(d, Update31(d)) /\ Update31(Update31(d)) = Update31(d)
<1> DEFINE e == Update31(d)
<1>1. IsRecord(d, {"watch", "app", "tag"}) /\ IsApp(d.app)
  BY DEF IsDatastore
<1>2. IsApp(e.app)
  <2> DEFINE x == [d.app EXCEPT !.llm = d.app.llm_flat]
  <2>1. IsApp(x)
    BY <1>1, ChangedApp DEF AppFields
  <2> DEFINE y == [x EXCEPT !.llm_flat = "none"]
  <2>2. IsApp(y)
    <3> HIDE DEF x
    <3> QED
      BY <2>1, ChangedApp DEF AppFields
  <2> QED
    BY <1>1, <2>2 DEF Update31, IsRecord
<1>3. /\ IsRecord(e, {"watch", "app", "tag"}) /\ e.watch = d.watch /\ e.tag = d.tag
  BY <1>1 DEF Update31, IsRecord
<1>4. Update31(e) = e
  BY <1>1 DEF Update31, IsRecord, IsApp, AppFields
<1> HIDE DEF e
<1>5. Keeps(d, e)
  BY <1>2, <1>3, KeptParts, Unchanged DEF IsDatastore, IsWatchMap, IsRecord
<1> QED
  BY <1>4, <1>5 DEF e

LEMMA Keeps32 ==
  ASSUME NEW d, IsDatastore(d)
  PROVE  Keeps(d, Update32(d)) /\ Update32(Update32(d)) = Update32(d)
<1> DEFINE e == Update32(d)
<1>1. IsRecord(d, {"watch", "app", "tag"}) /\ IsApp(d.app)
  BY DEF IsDatastore
<1>2. IsApp(e.app)
  <2> DEFINE x == [d.app EXCEPT !.per_check = "none"]
  <2>1. IsApp(x)
    BY <1>1, ChangedApp DEF AppFields
  <2> DEFINE y == [x EXCEPT !.per_period = IF @ = "none" THEN d.app.cumulative ELSE @]
  <2>2. IsApp(y)
    <3> HIDE DEF x
    <3> QED
      BY <2>1, ChangedApp DEF AppFields
  <2> DEFINE z == [y EXCEPT !.cumulative = "none"]
  <2>3. IsApp(z)
    <3> HIDE DEF x, y
    <3> QED
      BY <2>2, ChangedApp DEF AppFields
  <2> QED
    BY <1>1, <2>3 DEF Update32, IsRecord
<1>3. /\ IsRecord(e, {"watch", "app", "tag"}) /\ e.watch = d.watch /\ e.tag = d.tag
  BY <1>1 DEF Update32, IsRecord
<1>4. Update32(e) = e
  <2>1. e.app.per_check = "none" /\ e.app.cumulative = "none"
    BY <1>1 DEF Update32, IsRecord, IsApp, AppFields
  <2> HIDE DEF e
  <2> DEFINE A(a) == [a EXCEPT !.per_check = "none", !.per_period = IF @ = "none" THEN a.cumulative ELSE @,
                               !.cumulative = "none"]
  <2>2. ASSUME NEW a, IsApp(a), a.per_check = "none", a.cumulative = "none" PROVE A(a) = a
    BY <2>2 DEF IsApp, IsRecord, AppFields
  <2>3. Update32(e) = [e EXCEPT !.app = A(e.app)]
    BY <1>3 DEF Update32, IsRecord
  <2>4. A(e.app) = e.app
    BY <1>2, <2>1, <2>2
  <2> HIDE DEF A
  <2> QED
    BY <1>3, <2>3, <2>4 DEF IsRecord
<1> HIDE DEF e
<1>5. Keeps(d, e)
  BY <1>2, <1>3, KeptParts, Unchanged DEF IsDatastore, IsWatchMap, IsRecord
<1> QED
  BY <1>4, <1>5 DEF e

LEMMA Keeps1 ==
  ASSUME NEW d, IsDatastore(d)
  PROVE  Keeps(d, Update1(d)) /\ Update1(Update1(d)) = Update1(d)
<1> DEFINE W(w) == IF w.minutes # "none" THEN [w EXCEPT !.interval = w.minutes] ELSE w
           A(a) == [a EXCEPT !.interval = IF a.minutes # "none" THEN a.minutes ELSE @]
           G(x) == x.tag
           e == Update1(d)
<1>1. ASSUME NEW w, IsWatch(w) PROVE SameWatch(w, W(w))
  BY <1>1, ChangedField, Unchanged DEF WatchFields
<1>2. ASSUME NEW w, IsWatch(w) PROVE W(W(w)) = W(w)
  BY <1>2 DEF IsWatch, IsRecord, WatchFields
<1>3. ASSUME NEW a, IsApp(a) PROVE IsApp(A(a))
  BY <1>3, ChangedApp DEF AppFields
<1>4. ASSUME NEW a, IsApp(a) PROVE A(A(a)) = A(a)
  BY <1>4 DEF IsApp, IsRecord, AppFields
<1>5. ASSUME NEW x, IsRecord(x, {"watch", "app", "tag"})
      PROVE  /\ IsRecord(Update1(x), {"watch", "app", "tag"})
             /\ Update1(x).watch = [w \in DOMAIN x.watch |-> W(x.watch[w])]
             /\ Update1(x).app = A(x.app) /\ Update1(x).tag = G(x)
  BY <1>5 DEF Update1, EachWatch, IsRecord
<1> HIDE DEF W, A
<1>6. /\ IsRecord(d, {"watch", "app", "tag"}) /\ IsApp(d.app) /\ IsTagMap(d.tag)
      /\ \A w \in DOMAIN d.watch : IsWatch(d.watch[w])
  BY DEF IsDatastore, IsWatchMap
<1>7. /\ IsRecord(e, {"watch", "app", "tag"}) /\ e.watch = [w \in DOMAIN d.watch |-> W(d.watch[w])]
      /\ e.app = A(d.app) /\ e.tag = G(d)
  BY <1>5, <1>6
<1>8. /\ IsRecord(Update1(e), {"watch", "app", "tag"})
      /\ Update1(e).watch = [w \in DOMAIN e.watch |-> W(e.watch[w])]
      /\ Update1(e).app = A(e.app) /\ Update1(e).tag = G(e)
  <2> HIDE DEF e
  <2> QED
    BY <1>5, <1>7
<1> HIDE DEF e
<1>9. IsTagMap(e.tag) /\ DOMAIN d.tag \subseteq DOMAIN e.tag /\ G(e) = e.tag
  BY <1>6, <1>7
<1>10. [w \in DOMAIN e.watch |-> W(e.watch[w])] = e.watch
  BY <1>2, <1>6, <1>7
<1>11. A(e.app) = e.app
  BY <1>4, <1>6, <1>7
<1> HIDE DEF G
<1>12. Update1(e) = e
  BY <1>7, <1>8, <1>9, <1>10, <1>11, SameParts
<1>13. Keeps(d, e)
  BY <1>1, <1>3, <1>6, <1>7, <1>9, KeptParts DEF IsRecord
<1> QED
  BY <1>12, <1>13 DEF e

LEMMA Keeps9 ==
  ASSUME NEW d, IsDatastore(d)
  PROVE  Keeps(d, Update9(d)) /\ Update9(Update9(d)) = Update9(d)
<1> DEFINE Tokens(text) == IF text = "{}" THEN "{{}}" ELSE text
           W(w) == [w EXCEPT !.body = Tokens(@), !.title = Tokens(@)]
           A(a) == [a EXCEPT !.body = Tokens(@), !.title = IF a.body # "none" THEN Tokens(@) ELSE @]
           G(x) == x.tag
           e == Update9(d)
<1>1. ASSUME NEW w, IsWatch(w) PROVE SameWatch(w, W(w))
  <2> DEFINE x == [w EXCEPT !.body = Tokens(w.body)]
  <2>1. SameWatch(w, x)
    BY <1>1, ChangedField DEF WatchFields
  <2>2. IsWatch(x)
    BY <2>1 DEF SameWatch
  <2> HIDE DEF x
  <2>3. SameWatch(x, [x EXCEPT !.title = Tokens(x.title)])
    BY <2>2, ChangedField DEF WatchFields
  <2>4. SameWatch(w, [x EXCEPT !.title = Tokens(x.title)])
    BY <2>1, <2>3, ChangedTwice
  <2> QED
    BY <1>1, <2>4, Unchanged DEF x
<1>2. ASSUME NEW w, IsWatch(w) PROVE W(W(w)) = W(w)
  BY <1>2 DEF IsWatch, IsRecord, WatchFields
<1>3. ASSUME NEW a, IsApp(a) PROVE IsApp(A(a))
  <2> DEFINE x == [a EXCEPT !.body = Tokens(@)]
  <2>1. IsApp(x)
    BY <1>3, ChangedApp DEF AppFields
  <2>2. IsApp([x EXCEPT !.title = IF a.body # "none" THEN Tokens(@) ELSE @])
    <3> HIDE DEF x
    <3> QED
      BY <2>1, ChangedApp DEF AppFields
  <2> QED
    BY <2>2
<1>4. ASSUME NEW a, IsApp(a) PROVE A(A(a)) = A(a)
  BY <1>4 DEF IsApp, IsRecord, AppFields
<1>5. ASSUME NEW x, IsRecord(x, {"watch", "app", "tag"})
      PROVE  /\ IsRecord(Update9(x), {"watch", "app", "tag"})
             /\ Update9(x).watch = [w \in DOMAIN x.watch |-> W(x.watch[w])]
             /\ Update9(x).app = A(x.app) /\ Update9(x).tag = G(x)
  BY <1>5 DEF Update9, EachWatch, IsRecord
<1> HIDE DEF W, A
<1>6. /\ IsRecord(d, {"watch", "app", "tag"}) /\ IsApp(d.app) /\ IsTagMap(d.tag)
      /\ \A w \in DOMAIN d.watch : IsWatch(d.watch[w])
  BY DEF IsDatastore, IsWatchMap
<1>7. /\ IsRecord(e, {"watch", "app", "tag"}) /\ e.watch = [w \in DOMAIN d.watch |-> W(d.watch[w])]
      /\ e.app = A(d.app) /\ e.tag = G(d)
  BY <1>5, <1>6
<1>8. /\ IsRecord(Update9(e), {"watch", "app", "tag"})
      /\ Update9(e).watch = [w \in DOMAIN e.watch |-> W(e.watch[w])]
      /\ Update9(e).app = A(e.app) /\ Update9(e).tag = G(e)
  <2> HIDE DEF e
  <2> QED
    BY <1>5, <1>7
<1> HIDE DEF e
<1>9. IsTagMap(e.tag) /\ DOMAIN d.tag \subseteq DOMAIN e.tag /\ G(e) = e.tag
  BY <1>6, <1>7
<1>10. [w \in DOMAIN e.watch |-> W(e.watch[w])] = e.watch
  BY <1>2, <1>6, <1>7
<1>11. A(e.app) = e.app
  BY <1>4, <1>6, <1>7
<1> HIDE DEF G
<1>12. Update9(e) = e
  BY <1>7, <1>8, <1>9, <1>10, <1>11, SameParts
<1>13. Keeps(d, e)
  BY <1>1, <1>3, <1>6, <1>7, <1>9, KeptParts DEF IsRecord
<1> QED
  BY <1>12, <1>13 DEF e

LEMMA Keeps20 ==
  ASSUME NEW d, IsDatastore(d)
  PROVE  Keeps(d, Update20(d)) /\ Update20(Update20(d)) = Update20(d)
<1> DEFINE W(w) == IF w.extract_title THEN [w EXCEPT !.use_page_title = TRUE, !.extract_title = FALSE] ELSE w
           A(a) == [a EXCEPT !.use_page_title = @ \/ a.extract_title]
           G(x) == x.tag
           e == Update20(d)
<1>1. ASSUME NEW w, IsWatch(w) PROVE SameWatch(w, W(w))
  <2> DEFINE x == [w EXCEPT !.use_page_title = TRUE]
  <2>1. SameWatch(w, x)
    BY <1>1, ChangedField DEF WatchFields
  <2>2. IsWatch(x)
    BY <2>1 DEF SameWatch
  <2> HIDE DEF x
  <2>3. SameWatch(x, [x EXCEPT !.extract_title = FALSE])
    BY <2>2, ChangedField DEF WatchFields
  <2>4. SameWatch(w, [x EXCEPT !.extract_title = FALSE])
    BY <2>1, <2>3, ChangedTwice
  <2> QED
    BY <1>1, <2>4, Unchanged DEF x
<1>2. ASSUME NEW w, IsWatch(w) PROVE W(W(w)) = W(w)
  BY <1>2 DEF IsWatch, IsRecord, WatchFields
<1>3. ASSUME NEW a, IsApp(a) PROVE IsApp(A(a))
  BY <1>3 DEF IsApp, IsRecord, AppFields
<1>4. ASSUME NEW a, IsApp(a) PROVE A(A(a)) = A(a)
  BY <1>4 DEF IsApp, IsRecord, AppFields
<1>5. ASSUME NEW x, IsRecord(x, {"watch", "app", "tag"})
      PROVE  /\ IsRecord(Update20(x), {"watch", "app", "tag"})
             /\ Update20(x).watch = [w \in DOMAIN x.watch |-> W(x.watch[w])]
             /\ Update20(x).app = A(x.app) /\ Update20(x).tag = G(x)
  BY <1>5 DEF Update20, EachWatch, IsRecord
<1> HIDE DEF W, A
<1>6. /\ IsRecord(d, {"watch", "app", "tag"}) /\ IsApp(d.app) /\ IsTagMap(d.tag)
      /\ \A w \in DOMAIN d.watch : IsWatch(d.watch[w])
  BY DEF IsDatastore, IsWatchMap
<1>7. /\ IsRecord(e, {"watch", "app", "tag"}) /\ e.watch = [w \in DOMAIN d.watch |-> W(d.watch[w])]
      /\ e.app = A(d.app) /\ e.tag = G(d)
  BY <1>5, <1>6
<1>8. /\ IsRecord(Update20(e), {"watch", "app", "tag"})
      /\ Update20(e).watch = [w \in DOMAIN e.watch |-> W(e.watch[w])]
      /\ Update20(e).app = A(e.app) /\ Update20(e).tag = G(e)
  <2> HIDE DEF e
  <2> QED
    BY <1>5, <1>7
<1> HIDE DEF e
<1>9. IsTagMap(e.tag) /\ DOMAIN d.tag \subseteq DOMAIN e.tag /\ G(e) = e.tag
  BY <1>6, <1>7
<1>10. [w \in DOMAIN e.watch |-> W(e.watch[w])] = e.watch
  BY <1>2, <1>6, <1>7
<1>11. A(e.app) = e.app
  BY <1>4, <1>6, <1>7
<1> HIDE DEF G
<1>12. Update20(e) = e
  BY <1>7, <1>8, <1>9, <1>10, <1>11, SameParts
<1>13. Keeps(d, e)
  BY <1>1, <1>3, <1>6, <1>7, <1>9, KeptParts DEF IsRecord
<1> QED
  BY <1>12, <1>13 DEF e

LEMMA Keeps23 ==
  ASSUME NEW d, IsDatastore(d)
  PROVE  Keeps(d, Update23(d)) /\ Update23(Update23(d)) = Update23(d)
<1> DEFINE Key(format) == CASE format = "Plain text" -> "text" [] format = "Text" -> "text" [] OTHER -> format
           F(t) == [t EXCEPT !.format = Key(@)]
           W(w) == [w EXCEPT !.format = Key(@)]
           A(a) == [a EXCEPT !.format = Key(@)]
           G(x) == [t \in DOMAIN x.tag |-> F(x.tag[t])]
           e == Update23(d)
<1>1. ASSUME NEW w, IsWatch(w) PROVE SameWatch(w, W(w))
  BY <1>1, ChangedField DEF WatchFields
<1>2. ASSUME NEW w, IsWatch(w) PROVE W(W(w)) = W(w)
  BY <1>2 DEF IsWatch, IsRecord, WatchFields
<1>3. ASSUME NEW a, IsApp(a) PROVE IsApp(A(a))
  BY <1>3, ChangedApp DEF AppFields
<1>4. ASSUME NEW a, IsApp(a) PROVE A(A(a)) = A(a)
  BY <1>4 DEF IsApp, IsRecord, AppFields
<1>5. ASSUME NEW x, IsRecord(x, {"watch", "app", "tag"})
      PROVE  /\ IsRecord(Update23(x), {"watch", "app", "tag"})
             /\ Update23(x).watch = [w \in DOMAIN x.watch |-> W(x.watch[w])]
             /\ Update23(x).app = A(x.app) /\ Update23(x).tag = G(x)
  <2> DEFINE y == [x EXCEPT !.watch = [w \in DOMAIN x.watch |-> W(x.watch[w])]]
  <2>1. Update23(x) = [y EXCEPT !.app.format = Key(@), !.tag = G(y)]
    BY DEF Update23, EachWatch
  <2>2. /\ IsRecord(y, {"watch", "app", "tag"}) /\ y.watch = [w \in DOMAIN x.watch |-> W(x.watch[w])]
        /\ y.app = x.app /\ y.tag = x.tag
    <3> HIDE DEF W, A, G, F
    <3> QED
      BY <1>5 DEF IsRecord
  <2>3. A(x.app) = [x.app EXCEPT !.format = Key(@)]
    OBVIOUS
  <2> HIDE DEF y, F
  <2>4. G(y) = G(x)
    BY <2>2
  <2> HIDE DEF W, A, G
  <2> QED
    BY <2>1, <2>2, <2>3, <2>4 DEF IsRecord
<1>14. ASSUME NEW t, IsTag(t)
       PROVE  IsTag(F(t)) /\ F(F(t)) = F(t)
  BY <1>14, ChangedTag DEF TagFields, IsTag, IsRecord
<1> HIDE DEF W, A, F
<1>6. /\ IsRecord(d, {"watch", "app", "tag"}) /\ IsApp(d.app) /\ IsTagMap(d.tag)
      /\ \A w \in DOMAIN d.watch : IsWatch(d.watch[w])
  BY DEF IsDatastore, IsWatchMap
<1>7. /\ IsRecord(e, {"watch", "app", "tag"}) /\ e.watch = [w \in DOMAIN d.watch |-> W(d.watch[w])]
      /\ e.app = A(d.app) /\ e.tag = G(d)
  BY <1>5, <1>6
<1>8. /\ IsRecord(Update23(e), {"watch", "app", "tag"})
      /\ Update23(e).watch = [w \in DOMAIN e.watch |-> W(e.watch[w])]
      /\ Update23(e).app = A(e.app) /\ Update23(e).tag = G(e)
  <2> HIDE DEF e
  <2> QED
    BY <1>5, <1>7
<1> HIDE DEF e
<1>9. IsTagMap(e.tag) /\ DOMAIN d.tag \subseteq DOMAIN e.tag /\ G(e) = e.tag
  <2>1. \A t : IsTag(t) => IsTag(F(t)) /\ F(F(t)) = F(t)
    BY <1>14
  <2>2. e.tag = [t \in DOMAIN d.tag |-> F(d.tag[t])] /\ G(e) = [t \in DOMAIN e.tag |-> F(e.tag[t])]
    BY <1>7
  <2> HIDE DEF G
  <2>3. DOMAIN e.tag = DOMAIN d.tag /\ \A t \in DOMAIN d.tag : IsTag(d.tag[t])
    BY <1>6, <2>2 DEF IsTagMap
  <2>4. \A t \in DOMAIN d.tag : IsTag(e.tag[t]) /\ F(e.tag[t]) = e.tag[t]
    BY <2>1, <2>2, <2>3
  <2>5. G(e) = e.tag
    BY <2>2, <2>3, <2>4
  <2> QED
    BY <2>2, <2>3, <2>4, <2>5 DEF IsTagMap, IsRecord
<1>10. [w \in DOMAIN e.watch |-> W(e.watch[w])] = e.watch
  BY <1>2, <1>6, <1>7
<1>11. A(e.app) = e.app
  BY <1>4, <1>6, <1>7
<1> HIDE DEF G
<1>12. Update23(e) = e
  BY <1>7, <1>8, <1>9, <1>10, <1>11, SameParts
<1>13. Keeps(d, e)
  BY <1>1, <1>3, <1>6, <1>7, <1>9, KeptParts DEF IsRecord
<1> QED
  BY <1>12, <1>13 DEF e

LEMMA Keeps12 ==
  ASSUME NEW d, IsDatastore(d)
  PROVE  Keeps(d, Update12(d)) /\ Update12(Update12(d)) = Update12(d)
<1> DEFINE W(w) == IF w.tag # {} THEN [w EXCEPT !.tags = w.tag] ELSE w
           A(a) == a
           G(x) == [t \in DOMAIN x.tag \cup UNION {x.watch[w].tag : w \in DOMAIN x.watch} |->
                      IF t \in DOMAIN x.tag THEN x.tag[t] ELSE NewTag]
           e == Update12(d)
<1>1. ASSUME NEW w, IsWatch(w) PROVE SameWatch(w, W(w))
  BY <1>1, ChangedField, Unchanged DEF WatchFields
<1>2. ASSUME NEW w, IsWatch(w) PROVE W(W(w)) = W(w)
  BY <1>2 DEF IsWatch, IsRecord, WatchFields
<1>3. ASSUME NEW a, IsApp(a) PROVE IsApp(A(a))
  BY <1>3
<1>4. ASSUME NEW a, IsApp(a) PROVE A(A(a)) = A(a)
  BY <1>4 DEF IsApp, IsRecord, AppFields
<1>5. ASSUME NEW x, IsRecord(x, {"watch", "app", "tag"})
      PROVE  /\ IsRecord(Update12(x), {"watch", "app", "tag"})
             /\ Update12(x).watch = [w \in DOMAIN x.watch |-> W(x.watch[w])]
             /\ Update12(x).app = A(x.app) /\ Update12(x).tag = G(x)
  BY <1>5 DEF Update12, EachWatch, IsRecord
<1>14. ASSUME NEW w, IsWatch(w) PROVE W(w).tag = w.tag
  BY <1>14 DEF IsWatch, IsRecord, WatchFields
<1> HIDE DEF W, A
<1>6. /\ IsRecord(d, {"watch", "app", "tag"}) /\ IsApp(d.app) /\ IsTagMap(d.tag)
      /\ \A w \in DOMAIN d.watch : IsWatch(d.watch[w])
  BY DEF IsDatastore, IsWatchMap
<1>7. /\ IsRecord(e, {"watch", "app", "tag"}) /\ e.watch = [w \in DOMAIN d.watch |-> W(d.watch[w])]
      /\ e.app = A(d.app) /\ e.tag = G(d)
  BY <1>5, <1>6
<1>8. /\ IsRecord(Update12(e), {"watch", "app", "tag"})
      /\ Update12(e).watch = [w \in DOMAIN e.watch |-> W(e.watch[w])]
      /\ Update12(e).app = A(e.app) /\ Update12(e).tag = G(e)
  <2> HIDE DEF e
  <2> QED
    BY <1>5, <1>7
<1> HIDE DEF e
<1>9. IsTagMap(e.tag) /\ DOMAIN d.tag \subseteq DOMAIN e.tag /\ G(e) = e.tag
  <2>1. IsTag(NewTag)
    BY DEF NewTag, IsTag, IsRecord, TagFields
  <2>2. \A w \in DOMAIN e.watch : e.watch[w].tag = d.watch[w].tag
    BY <1>6, <1>7, <1>14
  <2>3. UNION {e.watch[w].tag : w \in DOMAIN e.watch} \subseteq DOMAIN e.tag
    BY <1>7, <2>2
  <2>4. IsTagMap(e.tag) /\ DOMAIN d.tag \subseteq DOMAIN e.tag
    BY <1>6, <1>7, <2>1 DEF IsTagMap, IsRecord
  <2>5. G(e) = e.tag
    BY <2>3, <2>4 DEF IsTagMap, IsRecord
  <2> QED
    BY <2>4, <2>5
<1>10. [w \in DOMAIN e.watch |-> W(e.watch[w])] = e.watch
  BY <1>2, <1>6, <1>7
<1>11. A(e.app) = e.app
  BY <1>4, <1>6, <1>7
<1> HIDE DEF G
<1>12. Update12(e) = e
  BY <1>7, <1>8, <1>9, <1>10, <1>11, SameParts
<1>13. Keeps(d, e)
  BY <1>1, <1>3, <1>6, <1>7, <1>9, KeptParts DEF IsRecord
<1> QED
  BY <1>12, <1>13 DEF e

LEMMA Keeps13 ==
  ASSUME NEW d, IsDatastore(d)
  PROVE  Keeps(d, Update13(d)) /\ Update13(Update13(d)) = Update13(d)
<1> DEFINE C(x, w) == [x EXCEPT !.created = IF @ = 0 THEN Position[w] ELSE @]
           e == Update13(d)
<1>1. \A x, w : IsWatch(x) => SameWatch(x, C(x, w))
  BY ChangedField DEF WatchFields
<1>2. ASSUME NEW x, IsWatch(x), NEW w PROVE C(C(x, w), w) = C(x, w)
  <2> DEFINE v == IF x.created = 0 THEN Position[w] ELSE x.created
             y == [x EXCEPT !.created = v]
  <2>1. C(x, w) = y
    OBVIOUS
  <2>2. y.created = v /\ IsRecord(y, WatchFields)
    <3> HIDE DEF v
    <3> QED
      BY <1>2 DEF IsWatch, IsRecord, WatchFields
  <2>3. (IF v = 0 THEN Position[w] ELSE v) = v
    OBVIOUS
  <2> HIDE DEF v, y
  <2>4. C(y, w) = [y EXCEPT !.created = v]
    BY <2>2, <2>3
  <2>5. C(y, w) = y
    BY <2>2, <2>4 DEF IsRecord, WatchFields
  <2> QED
    BY <2>1, <2>5
<1>3. e = [d EXCEPT !.watch = [w \in DOMAIN d.watch |-> C(d.watch[w], w)]]
  BY DEF Update13
<1>4. /\ IsRecord(e, {"watch", "app", "tag"}) /\ e.app = d.app /\ e.tag = d.tag
      /\ e.watch = [w \in DOMAIN d.watch |-> C(d.watch[w], w)]
  BY <1>3 DEF IsDatastore, IsRecord
<1> HIDE DEF e
<1>5. Update13(e) = [e EXCEPT !.watch = [w \in DOMAIN e.watch |-> C(e.watch[w], w)]]
  BY DEF Update13
<1> HIDE DEF C
<1>6. \A w \in DOMAIN d.watch : IsWatch(d.watch[w])
  BY DEF IsDatastore, IsWatchMap
<1>7. [w \in DOMAIN e.watch |-> C(e.watch[w], w)] = e.watch
  BY <1>2, <1>4, <1>6
<1>8. Update13(e) = e
  BY <1>4, <1>5, <1>7 DEF IsRecord
<1>9. Keeps(d, e)
  BY <1>1, <1>4, <1>6, KeptParts DEF IsDatastore, IsRecord
<1> QED
  BY <1>8, <1>9 DEF e

\* What every update keeps of a watch, the one that sets and the one that drops settings included.
OneWatch(w, x) == IsWatch(x) /\ x.processor = w.processor /\ x.history = w.history

\* A datastore with the same watches but for their settings, and all of its groups.
Within(d, e) ==
  /\ IsDatastore(e)
  /\ DOMAIN e.watch = DOMAIN d.watch
  /\ DOMAIN d.tag \subseteq DOMAIN e.tag
  /\ \A w \in DOMAIN d.watch : OneWatch(d.watch[w], e.watch[w])

LEMMA WithinParts ==
  ASSUME NEW d, IsDatastore(d), NEW e, IsRecord(e, {"watch", "app", "tag"}),
         IsRecord(e.watch, DOMAIN d.watch), \A w \in DOMAIN d.watch : OneWatch(d.watch[w], e.watch[w]),
         IsApp(e.app), IsTagMap(e.tag), DOMAIN d.tag \subseteq DOMAIN e.tag
  PROVE  Within(d, e)
<1>1. DOMAIN e.watch = DOMAIN d.watch
  BY DEF IsRecord
<1> QED
  BY <1>1 DEF Within, IsDatastore, IsWatchMap, OneWatch

LEMMA KeptIsWithin == ASSUME NEW d, NEW e, Keeps(d, e) PROVE Within(d, e)
BY DEF Keeps, Within, SameWatch, OneWatch

LEMMA NothingIsKept == ASSUME NEW d, IsDatastore(d) PROVE Keeps(d, d)
BY Unchanged DEF Keeps, IsDatastore, IsWatchMap

LEMMA ChangedSettings ==
  ASSUME NEW w, IsWatch(w), NEW v
  PROVE  LET x == [w EXCEPT !.restock_settings = v]
         IN  OneWatch(w, x) /\ x.restock_settings = v
BY DEF IsWatch, IsRecord, OneWatch, WatchFields

\* Update 18 gives every watch settings, so that update 30 finds some to move.
LEMMA Within18 ==
  ASSUME NEW d, IsDatastore(d)
  PROVE  /\ Within(d, Update18(d))
         /\ \A w \in DOMAIN d.watch : Update18(d).watch[w].restock_settings # "none"
<1> DEFINE V(w) == IF w.in_stock_only THEN "in_stock_only" ELSE "all_changes"
           W(w) == [w EXCEPT !.restock_settings = V(w), !.in_stock_only = FALSE]
           e == Update18(d)
<1>1. ASSUME NEW w, IsWatch(w) PROVE OneWatch(w, W(w)) /\ W(w).restock_settings # "none"
  <2> DEFINE x == [w EXCEPT !.restock_settings = V(w)]
  <2>1. OneWatch(w, x) /\ x.restock_settings = V(w)
    BY <1>1, ChangedSettings
  <2>2. V(w) # "none"
    OBVIOUS
  <2>3. W(w) = [x EXCEPT !.in_stock_only = FALSE]
    OBVIOUS
  <2> HIDE DEF x, W, V
  <2>4. SameWatch(x, W(w))
    BY <2>1, <2>3, ChangedField DEF WatchFields, OneWatch
  <2> QED
    BY <2>1, <2>2, <2>4 DEF SameWatch, OneWatch
<1>3. e = [d EXCEPT !.watch = [w \in DOMAIN d.watch |-> W(d.watch[w])]]
  BY DEF Update18, EachWatch
<1>4. /\ IsRecord(e, {"watch", "app", "tag"}) /\ e.app = d.app /\ e.tag = d.tag
      /\ e.watch = [w \in DOMAIN d.watch |-> W(d.watch[w])]
  BY <1>3 DEF IsDatastore, IsRecord
<1> HIDE DEF W, V, e
<1>6. \A w \in DOMAIN d.watch : IsWatch(d.watch[w])
  BY DEF IsDatastore, IsWatchMap
<1>7. Within(d, e)
  BY <1>1, <1>4, <1>6, WithinParts DEF IsDatastore, IsRecord
<1> QED
  BY <1>1, <1>4, <1>6, <1>7 DEF e

\* Dropping the settings is done once.
LEMMA DroppedIs ==
  ASSUME NEW w, IsWatch(w)
  PROVE  /\ OneWatch(w, Dropped(w)) /\ ~MovesSettings(Dropped(w)) /\ Dropped(Dropped(w)) = Dropped(w)
         /\ ~MovesSettings(w) => Dropped(w) = w
<1>1. CASE MovesSettings(w)
  <2>1. OneWatch(w, Dropped(w)) /\ Dropped(w).restock_settings = "none"
    BY <1>1, ChangedSettings DEF Dropped
  <2> QED
    BY <1>1, <2>1 DEF Dropped, MovesSettings
<1>2. CASE ~MovesSettings(w)
  BY <1>2 DEF Dropped, OneWatch
<1> QED
  BY <1>1, <1>2

LEMMA ConfigIs ==
  ASSUME NEW t, IsTag(t)
  PROVE  IsTag(Update30Tag(t)) /\ Update30Tag(Update30Tag(t)) = Update30Tag(t)
BY DEF IsTag, IsRecord, TagFields, Update30Tag

\* So is update 30.
LEMMA Within30 ==
  ASSUME NEW d, IsDatastore(d)
  PROVE  /\ Within(d, Update30(d)) /\ Update30(Update30(d)) = Update30(d)
         /\ \A w \in DOMAIN d.watch : Update30(d).watch[w] = Dropped(d.watch[w])
<1> DEFINE e == Update30(d)
<1>1. ASSUME NEW x, IsRecord(x, {"watch", "app", "tag"})
      PROVE  /\ IsRecord(Update30(x), {"watch", "app", "tag"})
             /\ Update30(x).watch = [w \in DOMAIN x.watch |-> Dropped(x.watch[w])]
             /\ Update30(x).app = x.app
             /\ Update30(x).tag = [t \in DOMAIN x.tag |-> Update30Tag(x.tag[t])]
  BY <1>1 DEF Update30, EachWatch, IsRecord
<1>2. /\ IsRecord(d, {"watch", "app", "tag"}) /\ IsApp(d.app) /\ IsTagMap(d.tag)
      /\ \A w \in DOMAIN d.watch : IsWatch(d.watch[w])
  BY DEF IsDatastore, IsWatchMap
<1>3. /\ IsRecord(e, {"watch", "app", "tag"}) /\ e.watch = [w \in DOMAIN d.watch |-> Dropped(d.watch[w])]
      /\ e.app = d.app /\ e.tag = [t \in DOMAIN d.tag |-> Update30Tag(d.tag[t])]
  BY <1>1, <1>2
<1>4. /\ IsRecord(Update30(e), {"watch", "app", "tag"})
      /\ Update30(e).watch = [w \in DOMAIN e.watch |-> Dropped(e.watch[w])]
      /\ Update30(e).app = e.app
      /\ Update30(e).tag = [t \in DOMAIN e.tag |-> Update30Tag(e.tag[t])]
  <2> HIDE DEF e
  <2> QED
    BY <1>1, <1>3
<1> HIDE DEF e
<1>5. /\ DOMAIN e.tag = DOMAIN d.tag
      /\ \A t \in DOMAIN d.tag : IsTag(e.tag[t]) /\ Update30Tag(e.tag[t]) = e.tag[t]
  BY <1>2, <1>3, ConfigIs DEF IsTagMap
<1>6. IsTagMap(e.tag)
  BY <1>3, <1>5 DEF IsTagMap, IsRecord
<1>7. Update30(e).tag = e.tag
  BY <1>3, <1>4, <1>5
<1>8. Update30(e).watch = e.watch
  BY <1>2, <1>3, <1>4, DroppedIs
<1>9. Update30(e) = e
  BY <1>3, <1>4, <1>7, <1>8, SameParts
<1>10. Within(d, e)
  BY <1>2, <1>3, <1>5, <1>6, DroppedIs, WithinParts DEF IsRecord
<1> QED
  BY <1>3, <1>9, <1>10 DEF e

\* Pricing again changes nothing, but for a watch without a price before its last: the prices that
\* the first time used are what it finds the second time.
LEMMA PricedIs ==
  ASSUME NEW w, IsWatch(w)
  PROVE  SameWatch(w, Priced(w)) /\ (Priced(Priced(w)) = Priced(w) \/ Unpriced(w))
<1>1. CASE w.processor # "restock_diff"
  BY <1>1, Unchanged DEF Priced
<1>2. CASE w.processor = "restock_diff"
  <2> DEFINE n == Len(w.history)
             price == IF n >= 1 /\ w.restock.price = 0 THEN w.history[n] ELSE w.restock.price
             before == IF n >= 2 THEN w.history[n - 1] ELSE w.restock.last_price
             last == IF before = 0 THEN w.restock.original_price ELSE before
             r == [w.restock EXCEPT !.price = price, !.last_price = last, !.original_price = 0]
             x == Priced(w)
  <2>1. x = [w EXCEPT !.restock = r]
    BY <1>2 DEF Priced
  <2>2. IsRecord(w.restock, RestockFields)
    BY DEF IsWatch
  <2>3. IsRecord(r, RestockFields) /\ r.price = price /\ r.last_price = last /\ r.original_price = 0
    <3> HIDE DEF price, last
    <3> QED
      BY <2>2 DEF IsRecord, RestockFields
  <2> HIDE DEF r, x
  <2>4. SameWatch(w, x) /\ x.restock = r
    BY <2>1, <2>3, ChangedRestock DEF IsWatch, IsRecord, WatchFields
  <2>5. ASSUME ~Unpriced(w)
        PROVE  Priced(x) = x
    <3> DEFINE price2 == IF n >= 1 /\ x.restock.price = 0 THEN w.history[n] ELSE x.restock.price
               before2 == IF n >= 2 THEN w.history[n - 1] ELSE x.restock.last_price
               last2 == IF before2 = 0 THEN x.restock.original_price ELSE before2
    <3>1. Priced(x) = [x EXCEPT !.restock = [x.restock EXCEPT !.price = price2, !.last_price = last2, !.original_price = 0]]
      BY <1>2, <2>4 DEF Priced, SameWatch
    <3>2. n \in Nat /\ (n >= 2 => w.history[n - 1] # 0)
      BY <1>2, <2>5 DEF IsWatch, Unpriced
    <3>3. price2 = r.price
      BY <2>3, <2>4
    <3>4. last2 = r.last_price
      BY <2>3, <2>4, <3>2
    <3> HIDE DEF price2, last2
    <3>5. [x.restock EXCEPT !.price = price2, !.last_price = last2, !.original_price = 0] = r
      <4> HIDE DEF price, last, n
      <4> QED
        BY <2>3, <2>4, <3>3, <3>4 DEF IsRecord, RestockFields
    <3>6. IsRecord(x, WatchFields)
      BY <2>4 DEF SameWatch, IsWatch
    <3> QED
      BY <2>4, <3>1, <3>5, <3>6 DEF IsRecord, WatchFields
  <2> QED
    BY <2>4, <2>5 DEF x
<1> QED
  BY <1>1, <1>2

\* Whether a watch is one of those, no update changes.
LEMMA UnpricedKept ==
  ASSUME NEW w, NEW x, OneWatch(w, x)
  PROVE  Unpriced(x) <=> Unpriced(w)
BY DEF OneWatch, Unpriced

\* So is update 33, where there is none of those.
LEMMA Is33 ==
  ASSUME NEW d, IsDatastore(d)
  PROVE  /\ \A w \in DOMAIN d.watch : Update33(d).watch[w] = Priced(d.watch[w])
         /\ (\A w \in DOMAIN d.watch : ~Unpriced(d.watch[w])) => Update33(Update33(d)) = Update33(d)
<1> DEFINE e == Update33(d)
<1>1. ASSUME NEW x, IsRecord(x, {"watch", "app", "tag"})
      PROVE  /\ IsRecord(Update33(x), {"watch", "app", "tag"})
             /\ Update33(x).watch = [w \in DOMAIN x.watch |-> Priced(x.watch[w])]
             /\ Update33(x).app = x.app /\ Update33(x).tag = x.tag
  BY <1>1 DEF Update33, EachWatch, IsRecord
<1>2. IsRecord(d, {"watch", "app", "tag"}) /\ \A w \in DOMAIN d.watch : IsWatch(d.watch[w])
  BY DEF IsDatastore, IsWatchMap
<1>3. /\ IsRecord(e, {"watch", "app", "tag"}) /\ e.watch = [w \in DOMAIN d.watch |-> Priced(d.watch[w])]
  BY <1>1, <1>2
<1>4. /\ IsRecord(Update33(e), {"watch", "app", "tag"})
      /\ Update33(e).watch = [w \in DOMAIN e.watch |-> Priced(e.watch[w])]
      /\ Update33(e).app = e.app /\ Update33(e).tag = e.tag
  <2> HIDE DEF e
  <2> QED
    BY <1>1, <1>3
<1> HIDE DEF e
<1>5. ASSUME \A w \in DOMAIN d.watch : ~Unpriced(d.watch[w])
      PROVE  Update33(e) = e
  <2>1. Update33(e).watch = e.watch
    BY <1>2, <1>3, <1>4, <1>5, PricedIs
  <2> QED
    BY <1>3, <1>4, <2>1, SameParts
<1> QED
  BY <1>3, <1>5 DEF e

\* Updates that can be repeated.
LEMMA UpdateKeeps ==
  ASSUME NEW n \in Nat \ {18, 30, 33}, NEW d, IsDatastore(d)
  PROVE  Keeps(d, Update(n, d)) /\ Update(n, Update(n, d)) = Update(n, d)
<1>1. CASE n = 1
  BY <1>1, Keeps1 DEF Update
<1>2. CASE n = 2
  BY <1>2, Keeps2 DEF Update
<1>3. CASE n = 4
  BY <1>3, Keeps4 DEF Update
<1>4. CASE n = 5
  BY <1>4, Keeps5 DEF Update
<1>5. CASE n = 7
  BY <1>5, Keeps7 DEF Update
<1>6. CASE n = 8
  BY <1>6, Keeps8 DEF Update
<1>7. CASE n = 9
  BY <1>7, Keeps9 DEF Update
<1>8. CASE n = 10
  BY <1>8, Keeps10 DEF Update
<1>9. CASE n = 12
  BY <1>9, Keeps12 DEF Update
<1>10. CASE n = 13
  BY <1>10, Keeps13 DEF Update
<1>11. CASE n = 14
  BY <1>11, Keeps14 DEF Update
<1>12. CASE n = 15
  BY <1>12, Keeps15 DEF Update
<1>13. CASE n = 16
  BY <1>13, Keeps16 DEF Update
<1>14. CASE n = 17
  BY <1>14, Keeps17 DEF Update
<1>15. CASE n = 19
  BY <1>15, Keeps19 DEF Update
<1>16. CASE n = 20
  BY <1>16, Keeps20 DEF Update
<1>17. CASE n = 21
  BY <1>17, Keeps21 DEF Update
<1>18. CASE n = 23
  BY <1>18, Keeps23 DEF Update
<1>19. CASE n = 24
  BY <1>19, Keeps24 DEF Update
<1>20. CASE n = 31
  BY <1>20, Keeps31 DEF Update
<1>21. CASE n = 32
  BY <1>21, Keeps32 DEF Update
<1>22. CASE n \notin {1, 2, 4, 5, 7, 8, 9, 10, 12, 13, 14, 15, 16, 17, 19, 20, 21, 23, 24, 31, 32}
  <2>1. \A e : Update(n, e) = e
    BY <1>22 DEF Update, Update25
  <2> QED
    BY <2>1, NothingIsKept
<1> QED
  BY <1>1, <1>2, <1>3, <1>4, <1>5, <1>6, <1>7, <1>8, <1>9, <1>10, <1>11, <1>12, <1>13, <1>14, <1>15, <1>16, <1>17, <1>18, <1>19, <1>20, <1>21, <1>22

\* The updates from 25 on by their names; 25 to 29 change nothing in memory.
LEMMA UpdateIs ==
  ASSUME NEW d
  PROVE  /\ Update(18, d) = Update18(d) /\ Update(30, d) = Update30(d) /\ Update(33, d) = Update33(d)
         /\ \A n \in {25, 26, 27, 28, 29} : Update(n, d) = d
         /\ Update(31, d) = Update31(d) /\ Update(32, d) = Update32(d)
BY DEF Update, Update25

\* Every update keeps the watches and the groups.
LEMMA UpdateWithin ==
  ASSUME NEW n \in Nat, NEW d, IsDatastore(d)
  PROVE  Within(d, Update(n, d))
<1>1. CASE n = 18
  BY <1>1, Within18, UpdateIs
<1>2. CASE n = 30
  BY <1>2, Within30, UpdateIs
<1>3. CASE n = 33
  BY <1>3, Keeps33, KeptIsWithin, UpdateIs
<1>4. CASE n \notin {18, 30, 33}
  BY <1>4, UpdateKeeps, KeptIsWithin
<1> QED
  BY <1>1, <1>2, <1>3, <1>4

\* The updates after 25 that leave the watches alone.
LEMMA LateWatches ==
  ASSUME NEW n \in {25, 26, 27, 28, 29, 31, 32}, NEW d, IsDatastore(d)
  PROVE  Update(n, d).watch = d.watch
<1>1. IsRecord(d, {"watch", "app", "tag"})
  BY DEF IsDatastore
<1>2. Update31(d).watch = d.watch /\ Update32(d).watch = d.watch
  BY <1>1 DEF Update31, Update32, IsRecord
<1> QED
  BY <1>2, UpdateIs

LEMMA WithinTwice ==
  ASSUME NEW d, NEW e, NEW f, Within(d, e), Within(e, f)
  PROVE  Within(d, f)
BY DEF Within, OneWatch

LEMMA WithinItself == ASSUME NEW d, IsDatastore(d) PROVE Within(d, d)
BY NothingIsKept, KeptIsWithin

\* So do all of them, one after another.
LEMMA ThroughWithin ==
  ASSUME NEW a \in Nat, NEW b \in Nat, a <= b, NEW d, IsDatastore(d)
  PROVE  Within(d, Through(a, b, d))
<1> DEFINE T == {n \in Nat : Within(d, Through(a, a + n, d))}
<1>1. 0 \in T
  <2>1. a + 0 = a /\ Through(a, a, d) = d
    BY ThroughBase
  <2>2. Through(a, a + 0, d) = d
    BY <2>1
  <2> QED
    BY <2>2, WithinItself
<1>2. ASSUME NEW n \in Nat, n \in T
      PROVE  n + 1 \in T
  <2> DEFINE b1 == a + (n + 1)
  <2>1. b1 \in Nat /\ a < b1 /\ b1 - 1 = a + n
    OBVIOUS
  <2>2. Within(d, Through(a, a + n, d))
    BY <1>2
  <2> HIDE DEF b1
  <2>3. Through(a, b1, d) = Update(b1, Through(a, b1 - 1, d))
    BY <2>1, ThroughStep
  <2>4. Within(Through(a, a + n, d), Through(a, b1, d))
    BY <2>1, <2>2, <2>3, UpdateWithin DEF Within
  <2>5. Within(d, Through(a, b1, d))
    BY <2>2, <2>4, WithinTwice
  <2> QED
    BY <2>5 DEF b1
<1> HIDE DEF T
<1>3. Nat \subseteq T
  BY <1>1, <1>2, Induct
<1>4. b - a \in T /\ a + (b - a) = b
  BY <1>3
<1> QED
  BY <1>4 DEF T

\* From update 18 on, and up to 30, a restock watch has settings.
HasRestock(e) ==
  \A w \in DOMAIN e.watch : e.watch[w].processor = "restock_diff" => e.watch[w].restock_settings # "none"

\* Settings that update 18 gave, or that a datastore of its version has, are there until update 30.
LEMMA RestockStays ==
  ASSUME NEW a \in 0 .. 29, NEW n \in 18 .. 29, a <= n, NEW d, IsDatastore(d), a >= 18 => HasRestock(d)
  PROVE  HasRestock(Through(a, n, d))
<1> DEFINE T == {k \in Nat : a + k \in 18 .. 29 => HasRestock(Through(a, a + k, d))}
<1>1. 0 \in T
  <2>1. a + 0 = a /\ Through(a, a, d) = d
    BY ThroughBase
  <2>2. a + 0 \in 18 .. 29 => HasRestock(Through(a, a + 0, d))
    BY <2>1
  <2> QED
    BY <2>2
<1>2. ASSUME NEW k \in Nat, k \in T
      PROVE  k + 1 \in T
  <2> DEFINE m == a + (k + 1)
             p == Through(a, m - 1, d)
  <2>1. SUFFICES ASSUME m \in 18 .. 29 PROVE HasRestock(Through(a, m, d))
    OBVIOUS
  <2>2. m - 1 = a + k /\ a < m /\ m - 1 \in Nat /\ a <= m - 1
    OBVIOUS
  <2>3. m # 18 => HasRestock(Through(a, a + k, d))
    BY <1>2, <2>1, <2>2
  <2> HIDE DEF m
  <2>4. Through(a, m, d) = Update(m, p)
    BY <2>1, <2>2, ThroughStep
  <2>5. IsDatastore(p)
    BY <2>2, ThroughWithin DEF Within
  <2>6. m # 18 => HasRestock(p)
    BY <2>2, <2>3
  <2> HIDE DEF p
  <2>7. CASE m = 18
    <3>1. Update(m, p) = Update18(p)
      BY <2>7, UpdateIs
    <3> QED
      BY <2>4, <2>5, <3>1, Within18 DEF Within, HasRestock
  <2>8. CASE m # 18
    <3>1. m \in Nat \ {18, 30, 33}
      BY <2>1, <2>8
    <3>2. Keeps(p, Update(m, p))
      BY <2>5, <3>1, UpdateKeeps
    <3> QED
      BY <2>4, <2>6, <2>8, <3>2 DEF Keeps, SameWatch, HasRestock
  <2> QED
    BY <2>7, <2>8
<1> HIDE DEF T
<1>3. Nat \subseteq T
  BY <1>1, <1>2, Induct
<1>4. n - a \in T /\ a + (n - a) = n
  BY <1>3
<1> QED
  BY <1>4 DEF T

\* One step of Through, with its watches.
LEMMA LateStep ==
  ASSUME NEW a \in Nat, NEW b \in 26 .. 33, a < b, NEW d, IsDatastore(d)
  PROVE  LET p == Through(a, b - 1, d)  e == Through(a, b, d)
         IN  /\ IsDatastore(p) /\ IsDatastore(e) /\ DOMAIN p.watch = DOMAIN d.watch /\ DOMAIN e.watch = DOMAIN d.watch
             /\ b \notin {30, 33} => e.watch = p.watch
             /\ b = 30 => \A w \in DOMAIN d.watch : e.watch[w] = Dropped(p.watch[w])
             /\ b = 33 => \A w \in DOMAIN d.watch : e.watch[w] = Priced(p.watch[w])
<1> DEFINE p == Through(a, b - 1, d)
           e == Through(a, b, d)
<1>1. Within(d, p) /\ Within(d, e)
  BY ThroughWithin
<1>2. e = Update(b, p)
  BY ThroughStep
<1> HIDE DEF p, e
<1>3. IsDatastore(p) /\ IsDatastore(e) /\ DOMAIN p.watch = DOMAIN d.watch /\ DOMAIN e.watch = DOMAIN d.watch
  BY <1>1 DEF Within
<1>4. b \notin {30, 33} => e.watch = p.watch
  <2>1. SUFFICES ASSUME b \notin {30, 33} PROVE e.watch = p.watch
    OBVIOUS
  <2>2. b \in {25, 26, 27, 28, 29, 31, 32}
    BY <2>1
  <2> QED
    BY <1>2, <1>3, <2>2, LateWatches
<1>5. b = 30 => \A w \in DOMAIN d.watch : e.watch[w] = Dropped(p.watch[w])
  BY <1>2, <1>3, Within30, UpdateIs
<1>6. b = 33 => \A w \in DOMAIN d.watch : e.watch[w] = Priced(p.watch[w])
  BY <1>2, <1>3, Is33, UpdateIs
<1> QED
  BY <1>3, <1>4, <1>5, <1>6 DEF p, e

\* What a datastore that came to version s by its updates can be relied on for.
LEMMA StartedFrom ==
  ASSUME NEW d, IsDatastore(d), NEW s \in 0 .. 33, NEW w \in DOMAIN d.watch
  PROVE  LET o == Through(0, s, d).watch[w]
         IN  /\ s \in 18 .. 29 => (o.processor = "restock_diff" => o.restock_settings # "none")
             /\ s >= 30 => ~MovesSettings(o)
             /\ s >= 33 => Priced(o) = o \/ Unpriced(o)
<1> DEFINE X(k) == Through(0, k, d).watch[w]
<1>1. ASSUME NEW k \in 0 .. 33 PROVE IsWatch(X(k)) /\ w \in DOMAIN Through(0, k, d).watch
  BY <1>1, ThroughWithin DEF Within, OneWatch
<1>2. s \in 18 .. 29 => (X(s).processor = "restock_diff" => X(s).restock_settings # "none")
  <2>1. s \in 18 .. 29 => HasRestock(Through(0, s, d))
    BY RestockStays
  <2> QED
    BY <1>1, <2>1 DEF HasRestock
<1>3. /\ X(30) = Dropped(X(29)) /\ Through(0, 31, d).watch = Through(0, 30, d).watch
      /\ Through(0, 32, d).watch = Through(0, 31, d).watch /\ X(33) = Priced(X(32))
  <2>1. 30 - 1 = 29 /\ 31 - 1 = 30 /\ 32 - 1 = 31 /\ 33 - 1 = 32
    OBVIOUS
  <2>2. X(30) = Dropped(X(30 - 1)) /\ X(33) = Priced(X(33 - 1))
    BY LateStep
  <2>3. Through(0, 31, d).watch = Through(0, 31 - 1, d).watch /\ Through(0, 32, d).watch = Through(0, 32 - 1, d).watch
    BY LateStep
  <2> QED
    BY <2>1, <2>2, <2>3
<1>4. X(31) = X(30) /\ X(32) = X(30)
  BY <1>3
<1> HIDE DEF X
<1>5. ~MovesSettings(X(30))
  BY <1>1, <1>3, DroppedIs
<1>6. SameWatch(X(32), X(33)) /\ (Priced(X(33)) = X(33) \/ Unpriced(X(32)))
  BY <1>1, <1>3, PricedIs
<1>7. ~MovesSettings(X(33)) /\ (Unpriced(X(33)) <=> Unpriced(X(32)))
  BY <1>4, <1>5, <1>6 DEF SameWatch, MovesSettings, Unpriced
<1>8. s >= 30 => s \in {30, 31, 32, 33}
  OBVIOUS
<1> QED
  BY <1>2, <1>4, <1>5, <1>6, <1>7, <1>8 DEF X

\* What the last updates make of a watch.
LEMMA FinalIs ==
  ASSUME NEW d, IsDatastore(d), NEW s \in 0 .. 33, NEW w \in DOMAIN d.watch,
         NEW m \in 25 .. 33, s <= m
  PROVE  Through(s, 33, d).watch[w] = Left(m, Through(s, m, d).watch[w])
<1> DEFINE X(k) == Through(s, k, d).watch[w]
           R(k) == Left(k, X(k))
<1>1. ASSUME NEW b \in 26 .. 33, s < b PROVE R(b - 1) = R(b)
  <2>1. /\ b \notin {30, 33} => X(b) = X(b - 1)
        /\ b = 30 => X(b) = Dropped(X(b - 1))
        /\ b = 33 => X(b) = Priced(X(b - 1))
    BY <1>1, LateStep
  <2> HIDE DEF X
  <2> QED
    BY <2>1 DEF Left
<1>2. R(33) = X(33)
  BY DEF Left
<1> HIDE DEF R
<1>3. /\ s < 33 => R(32) = R(33)
      /\ s < 32 => R(31) = R(32)
      /\ s < 31 => R(30) = R(31)
      /\ s < 30 => R(29) = R(30)
      /\ s < 29 => R(28) = R(29)
      /\ s < 28 => R(27) = R(28)
      /\ s < 27 => R(26) = R(27)
      /\ s < 26 => R(25) = R(26)
  <2>1. /\ 33 - 1 = 32 /\ 32 - 1 = 31 /\ 31 - 1 = 30 /\ 30 - 1 = 29 /\ 29 - 1 = 28 /\ 28 - 1 = 27
        /\ 27 - 1 = 26 /\ 26 - 1 = 25
    OBVIOUS
  <2>2. /\ s < 33 => R(33 - 1) = R(33)
        /\ s < 32 => R(32 - 1) = R(32)
        /\ s < 31 => R(31 - 1) = R(31)
        /\ s < 30 => R(30 - 1) = R(30)
    BY <1>1
  <2>3. /\ s < 29 => R(29 - 1) = R(29)
        /\ s < 28 => R(28 - 1) = R(28)
        /\ s < 27 => R(27 - 1) = R(27)
        /\ s < 26 => R(26 - 1) = R(26)
    BY <1>1
  <2> QED
    BY <2>1, <2>2, <2>3
<1>4. m \in {25, 26, 27, 28, 29, 30, 31, 32, 33}
  OBVIOUS
<1>5. R(m) = R(33)
  BY <1>3, <1>4
<1> QED
  BY <1>2, <1>5 DEF R

\* The number of the next update, without its CHOOSE.
LEMMA NextIs ==
  ASSUME NEW n \in 0 .. 33
  PROVE  LET k == NextUpdate(n)
         IN  /\ k \in (n + 1) .. 34 /\ (k = 34 <=> n = 33)
             /\ k < 34 => k \in Available
             /\ n <= 25 => k \in {n + 1, n + 2} /\ k <= 26 /\ (k = n + 2 => n + 1 \notin Available)
             /\ n \in 26 .. 28 => k = 29
             /\ n \in 29 .. 33 => k = n + 1
<1> DEFINE Due(k) == (k = 34 \/ k \in Available) /\ (n + 1) .. (k - 1) \cap Available = {}
           next == IF n \in {5, 10, 21, 27} THEN n + 2 ELSE IF n = 26 THEN 29 ELSE n + 1
<1>1. next \in (n + 1) .. 34 /\ (next = 34 \/ next \in Available)
  BY DEF Available
<1>2. ASSUME NEW j \in (n + 1) .. (next - 1) PROVE j \notin Available
  BY <1>2 DEF Available
<1>3. Due(next)
  BY <1>1, <1>2
<1>4. ASSUME NEW k \in (n + 1) .. 34, Due(k) PROVE k = next
  <2>1. ~(k < next)
    BY <1>1, <1>2, <1>4
  <2>2. ~(next < k)
    <3>1. SUFFICES ASSUME next < k PROVE FALSE
      OBVIOUS
    <3>2. next \in (n + 1) .. (k - 1)
      BY <1>1, <3>1
    <3>3. next # 34
      BY <3>1
    <3> HIDE DEF next
    <3> QED
      BY <1>1, <1>4, <3>2, <3>3
  <2> QED
    BY <1>1, <2>1, <2>2
<1>5. NextUpdate(n) = CHOOSE k \in (n + 1) .. 34 : Due(k)
  BY DEF NextUpdate
<1>6. NextUpdate(n) = next
  <2> HIDE DEF next, Due
  <2> QED
    BY <1>1, <1>3, <1>4, <1>5
<1> QED
  BY <1>6 DEF Available

\* One map over another, and one entry over a map.
LEMMA OverIs ==
  ASSUME NEW f, NEW g
  PROVE  /\ DOMAIN Over(f, g) = DOMAIN f \cup DOMAIN g
         /\ \A x \in DOMAIN f \cup DOMAIN g : Over(f, g)[x] = IF x \in DOMAIN f THEN f[x] ELSE g[x]
         /\ IsRecord(Over(f, g), DOMAIN f \cup DOMAIN g)
BY DEF Over, IsRecord

LEMMA OverWatches == ASSUME NEW f, NEW g, IsWatchMap(f), IsWatchMap(g) PROVE IsWatchMap(Over(f, g))
<1> DEFINE h == Over(f, g)
<1>1. /\ DOMAIN h = DOMAIN f \cup DOMAIN g
      /\ \A x \in DOMAIN f \cup DOMAIN g : h[x] = IF x \in DOMAIN f THEN f[x] ELSE g[x]
      /\ IsRecord(h, DOMAIN f \cup DOMAIN g)
  BY OverIs
<1> HIDE DEF h
<1>2. IsRecord(h, DOMAIN h)
  BY <1>1
<1> QED
  BY <1>1, <1>2 DEF IsWatchMap, h

LEMMA OverTags == ASSUME NEW f, NEW g, IsTagMap(f), IsTagMap(g) PROVE IsTagMap(Over(f, g))
<1> DEFINE h == Over(f, g)
<1>1. /\ DOMAIN h = DOMAIN f \cup DOMAIN g
      /\ \A x \in DOMAIN f \cup DOMAIN g : h[x] = IF x \in DOMAIN f THEN f[x] ELSE g[x]
      /\ IsRecord(h, DOMAIN f \cup DOMAIN g)
  BY OverIs
<1> HIDE DEF h
<1>2. IsRecord(h, DOMAIN h)
  BY <1>1
<1> QED
  BY <1>1, <1>2 DEF IsTagMap, h

LEMMA PutIs ==
  ASSUME NEW f, NEW x, NEW v
  PROVE  /\ DOMAIN Put(f, x, v) = DOMAIN f \cup {x}
         /\ \A y \in DOMAIN f \cup {x} : Put(f, x, v)[y] = IF y = x THEN v ELSE f[y]
         /\ IsRecord(Put(f, x, v), DOMAIN f \cup {x})
BY DEF Put, Over, IsRecord

LEMMA PutAt ==
  ASSUME NEW f, NEW x, NEW v, NEW y \in DOMAIN f \cup {x} PROVE Put(f, x, v)[y] = IF y = x THEN v ELSE f[y]
BY DEF Put, Over

LEMMA PutWatch ==
  ASSUME NEW f, IsWatchMap(f), NEW w \in Watches, NEW v, IsWatch(v) PROVE IsWatchMap(Put(f, w, v))
<1> DEFINE h == Put(f, w, v)
<1>1. /\ DOMAIN h = DOMAIN f \cup {w}
      /\ \A x \in DOMAIN f \cup {w} : h[x] = IF x = w THEN v ELSE f[x]
      /\ IsRecord(h, DOMAIN f \cup {w})
  BY PutIs
<1> HIDE DEF h
<1>2. IsRecord(h, DOMAIN h)
  BY <1>1
<1> QED
  BY <1>1, <1>2 DEF IsWatchMap, h

LEMMA PutTag == ASSUME NEW f, IsTagMap(f), NEW t, NEW v, IsTag(v) PROVE IsTagMap(Put(f, t, v))
<1> DEFINE h == Put(f, t, v)
<1>1. /\ DOMAIN h = DOMAIN f \cup {t}
      /\ \A x \in DOMAIN f \cup {t} : h[x] = IF x = t THEN v ELSE f[x]
      /\ IsRecord(h, DOMAIN f \cup {t})
  BY PutIs
<1> HIDE DEF h
<1>2. IsRecord(h, DOMAIN h)
  BY <1>1
<1> QED
  BY <1>1, <1>2 DEF IsTagMap, h

LEMMA NoMap == IsWatchMap(<< >>) /\ IsTagMap(<< >>) /\ DOMAIN << >> = {}
BY DEF IsWatchMap, IsTagMap, IsRecord

LEMMA EmptyIs ==
  ASSUME NEW d, IsDatastore(d)
  PROVE  IsDatastore(Empty(d)) /\ DOMAIN Empty(d).watch = {} /\ DOMAIN Empty(d).tag = {}
BY NoMap DEF IsDatastore, Empty, IsRecord

LEMMA OverNothing == ASSUME NEW f, IsRecord(f, DOMAIN f) PROVE Over(<< >>, f) = f
BY NoMap DEF Over, IsRecord

\* Groups and watches that are loaded.
LEMMA LoadedIs ==
  ASSUME UpgradeTypes
  PROVE  /\ IsDatastore(LoadSplit) /\ LoadSplit.watch = disk.watch
         /\ DOMAIN LoadSplit.tag = DOMAIN disk.tag \cup DOMAIN disk.settings.tag
         /\ IsDatastore(LoadLegacy)
         /\ DOMAIN LoadLegacy.tag = DOMAIN disk.tag \cup DOMAIN original.d.tag
         /\ DOMAIN LoadLegacy.watch = DOMAIN disk.watch \cup DOMAIN original.d.watch
<1>1. disk.legacy.d = original.d
  BY DEF UpgradeTypes
<1>2. /\ IsWatchMap(disk.watch) /\ IsApp(disk.settings.app) /\ IsTagMap(disk.tag) /\ IsTagMap(disk.settings.tag)
      /\ IsApp(original.d.app) /\ IsWatchMap(original.d.watch) /\ IsTagMap(original.d.tag)
  BY DEF UpgradeTypes, IsDatastore
<1>3. IsTagMap(Over(disk.tag, disk.settings.tag)) /\ IsTagMap(Over(disk.tag, original.d.tag))
      /\ IsWatchMap(Over(disk.watch, original.d.watch))
  BY <1>2, OverWatches, OverTags
<1>4. IsDatastore(LoadSplit) /\ LoadSplit.watch = disk.watch /\ LoadSplit.tag = Over(disk.tag, disk.settings.tag)
  BY <1>2, <1>3 DEF LoadSplit, IsDatastore, IsRecord
<1>5. /\ IsDatastore(LoadLegacy) /\ LoadLegacy.watch = Over(disk.watch, original.d.watch)
      /\ LoadLegacy.tag = Over(disk.tag, original.d.tag)
  BY <1>1, <1>2, <1>3 DEF LoadLegacy, IsDatastore, IsRecord
<1>6. /\ DOMAIN Over(disk.tag, disk.settings.tag) = DOMAIN disk.tag \cup DOMAIN disk.settings.tag
      /\ DOMAIN Over(disk.tag, original.d.tag) = DOMAIN disk.tag \cup DOMAIN original.d.tag
      /\ DOMAIN Over(disk.watch, original.d.watch) = DOMAIN disk.watch \cup DOMAIN original.d.watch
  BY OverIs
<1> QED
  BY <1>4, <1>5, <1>6

\* The versions for which there is no update change nothing.
LEMMA SkipsNone ==
  ASSUME UpgradeTypes, NEW n \in original.schema .. 25
  PROVE  At(NextUpdate(n)) = Update(NextUpdate(n), At(n))
<1> DEFINE k == NextUpdate(n)
           s == original.schema
           d == original.d
<1>1. /\ s \in Nat /\ n \in 0 .. 33 /\ n <= 25 /\ s <= n
  BY DEF UpgradeTypes
<1>2. k \in {n + 1, n + 2} /\ (k = n + 2 => n + 1 \notin Available)
  BY <1>1, NextIs
<1> HIDE DEF k, s, d
<1>3. CASE k = n + 1
  <2>1. k \in Nat /\ s < k /\ k - 1 = n
    BY <1>1, <1>3
  <2> QED
    BY <1>1, <2>1, ThroughStep DEF At, k, s, d
<1>4. CASE k = n + 2
  <2> DEFINE j == n + 1
  <2>1. k \in Nat /\ s < k /\ k - 1 = j /\ j \in Nat /\ s < j /\ j - 1 = n /\ j \in 1 .. 26
    BY <1>1, <1>4
  <2>2. j \notin Available
    BY <1>2, <1>4
  <2> HIDE DEF j
  <2>3. Through(s, k, d) = Update(k, Through(s, j, d)) /\ Through(s, j, d) = Update(j, Through(s, n, d))
    BY <1>1, <2>1, ThroughStep
  <2>4. j \in {6, 11, 22}
    BY <2>1, <2>2 DEF Available
  <2>5. \A x : Update(j, x) = x
    BY <2>4 DEF Update
  <2> QED
    BY <2>3, <2>5 DEF At, k, s, d
<1> QED
  BY <1>2, <1>3, <1>4

\* What At() gives.
LEMMA AtIs ==
  ASSUME UpgradeTypes, NEW k \in original.schema .. 33
  PROVE  Within(original.d, At(k)) /\ IsDatastore(At(k)) /\ DOMAIN At(k).watch = Watches
<1>1. original.schema \in Nat /\ k \in Nat /\ original.schema <= k /\ IsDatastore(original.d) /\ DOMAIN original.d.watch = Watches
  BY DEF UpgradeTypes
<1> QED
  BY <1>1, ThroughWithin DEF At, Within

LEMMA AtStart == ASSUME UpgradeTypes PROVE At(original.schema) = original.d
<1>1. original.schema \in Nat
  BY DEF UpgradeTypes
<1> QED
  BY <1>1, ThroughBase DEF At

\* Update 26 itself changes nothing of a datastore.
LEMMA At26 == ASSUME UpgradeTypes, original.schema <= 25 PROVE At(26) = At(25)
<1>1. original.schema \in Nat /\ 26 - 1 = 25
  BY DEF UpgradeTypes
<1>2. At(26) = Update(26, At(26 - 1))
  BY <1>1, ThroughStep DEF At
<1> QED
  BY <1>1, <1>2, UpdateIs

\* An update in one go, from any version on the way.
LEMMA FinalFrom ==
  ASSUME UpgradeTypes, NEW w \in Watches, NEW m \in 25 .. 33, original.schema <= m
  PROVE  Final.watch[w] = Left(m, At(m).watch[w])
<1>1. original.schema \in 0 .. 33 /\ IsDatastore(original.d) /\ w \in DOMAIN original.d.watch
  BY DEF UpgradeTypes
<1> QED
  BY <1>1, FinalIs DEF Final, At

\* The files of a datastore that starts with version schema.
FirstFiles(f, d, kind, schema) ==
  /\ IsRecord(f, {"legacy", "settings", "watch", "tag", "config"})
  /\ f.legacy = [d |-> d, schema |-> IF kind = "legacy" THEN schema ELSE -1]
  /\ IsRecord(f.settings, {"schema", "app", "tag"})
  /\ f.settings.schema = (IF kind = "legacy" THEN -1 ELSE schema)
  /\ IsApp(f.settings.app) /\ IsTagMap(f.settings.tag) /\ IsWatchMap(f.watch) /\ IsTagMap(f.tag)
  /\ IsRecord(f.config, Watches)
  /\ f.watch = IF kind = "legacy" THEN << >> ELSE d.watch
  /\ kind # "legacy" /\ schema < 29 => f.settings.tag = d.tag
  /\ f.tag = IF kind = "legacy" \/ schema < 29 THEN << >> ELSE d.tag
  /\ \A w \in Watches : f.config[w] = "none" => ~(schema >= 30 /\ d.watch[w].processor = "restock_diff")

\* What the first files hold.
LEMMA FilesIs ==
  ASSUME NEW d, IsDatastore(d), DOMAIN d.watch = Watches, NEW kind, NEW schema
  PROVE  FirstFiles(Files(d, kind, schema), d, kind, schema)
<1> DEFINE f == Files(d, kind, schema)
<1>1. IsApp(d.app) /\ IsTagMap(d.tag) /\ IsWatchMap(d.watch)
  BY DEF IsDatastore
<1>2. /\ IsRecord(f, {"legacy", "settings", "watch", "tag", "config"})
      /\ f.legacy = [d |-> d, schema |-> IF kind = "legacy" THEN schema ELSE -1]
      /\ f.watch = IF kind = "legacy" THEN << >> ELSE d.watch
      /\ f.tag = IF kind = "legacy" \/ schema < 29 THEN << >> ELSE d.tag
  BY DEF Files, IsRecord
<1>3. /\ IsRecord(f.settings, {"schema", "app", "tag"})
      /\ f.settings.schema = (IF kind = "legacy" THEN -1 ELSE schema) /\ f.settings.app = d.app
      /\ f.settings.tag = IF kind = "legacy" THEN << >> ELSE IF schema < 29 THEN d.tag ELSE << >>
  BY DEF Files, IsRecord
<1>4. /\ IsRecord(f.config, Watches)
      /\ \A w \in Watches : f.config[w] = IF schema >= 30 /\ d.watch[w].processor = "restock_diff" THEN "moved" ELSE "none"
  BY DEF Files, IsRecord
<1> HIDE DEF f
<1> QED
  BY <1>1, <1>2, <1>3, <1>4, NoMap DEF f, FirstFiles

\* The first start finds files that hold all of that.
LEMMA UpgradeInitially == ASSUME UpdatesInit PROVE UpgradeInv
<1>1. PICK dd \in Originals, s \in Starts : original = [d |-> Through(0, s[2], dd), kind |-> s[1], schema |-> s[2]]
  BY DEF UpdatesInit
<1>2. IsDatastore(dd) /\ DOMAIN dd.watch = Watches
  BY OriginalsAssumption
<1>3. \/ s[1] = "legacy" /\ s[2] \in 0 .. 25
      \/ s[1] = "split" /\ s[2] \in 26 .. 33
  BY StartsAssumption
<1>4. /\ original.kind \in {"legacy", "split"} /\ original.schema \in 0 .. 33 /\ original.schema = s[2] /\ original.d = Through(0, s[2], dd)
      /\ original.kind = "legacy" => original.schema \in 0 .. 25
      /\ original.kind # "legacy" => original.schema \in 26 .. 33
  BY <1>1, <1>3
<1>5. Within(dd, original.d)
  BY <1>2, <1>4, ThroughWithin
<1>6. IsDatastore(original.d) /\ DOMAIN original.d.watch = Watches
  BY <1>2, <1>5 DEF Within
<1> DEFINE d == original.d
           f == Files(d, original.kind, original.schema)
<1>7. disk = f /\ mem = Empty(d) /\ boot = [pc |-> "off", n |-> 0, todo |-> {}, legacy |-> FALSE] /\ crashes = 0 /\ failures = 0 /\ missed = {}
  BY DEF UpdatesInit, Off
<1>19. FirstFiles(f, d, original.kind, original.schema)
  BY <1>6, FilesIs
<1> HIDE DEF f
<1>8. IsDatastore(mem)
  BY <1>6, <1>7, EmptyIs
<1>9. ~Interrupted /\ ~Awake /\ boot.pc = "off"
  BY <1>7 DEF Interrupted, Awake
<1>10. UpgradeTypes
  <2>1. boot \in [pc : {"off", "next", "saving", "running"}, n : 0 .. 33, todo : SUBSET (Watches \cup DOMAIN mem.tag), legacy : BOOLEAN]
    BY <1>7
  <2>2. /\ IsRecord(disk, {"legacy", "settings", "watch", "tag", "config"})
        /\ disk.legacy = [d |-> d, schema |-> IF original.kind = "legacy" THEN original.schema ELSE -1]
        /\ IsRecord(disk.settings, {"schema", "app", "tag"})
        /\ disk.settings.schema = (IF original.kind = "legacy" THEN -1 ELSE original.schema)
        /\ IsApp(disk.settings.app) /\ IsTagMap(disk.settings.tag) /\ IsWatchMap(disk.watch) /\ IsTagMap(disk.tag)
        /\ IsRecord(disk.config, Watches)
    BY <1>7, <1>19 DEF FirstFiles
  <2>3. disk.settings.schema \in -1 .. 33
    BY <1>4, <2>2
  <2> QED
    BY <1>4, <1>6, <1>7, <1>8, <2>1, <2>2, <2>3 DEF UpgradeTypes
<1>11. /\ disk.watch = IF original.kind = "legacy" THEN << >> ELSE d.watch
       /\ disk.tag = IF original.kind = "legacy" \/ original.schema < 29 THEN << >> ELSE d.tag
       /\ original.kind # "legacy" /\ original.schema < 29 => disk.settings.tag = d.tag
       /\ Version = (IF original.kind = "legacy" THEN -1 ELSE original.schema)
       /\ \A w \in Watches : disk.config[w] = "none" => ~(original.schema >= 30 /\ d.watch[w].processor = "restock_diff")
  <2>1. /\ f.watch = IF original.kind = "legacy" THEN << >> ELSE d.watch
        /\ f.tag = IF original.kind = "legacy" \/ original.schema < 29 THEN << >> ELSE d.tag
        /\ original.kind # "legacy" /\ original.schema < 29 => f.settings.tag = d.tag
        /\ f.settings.schema = (IF original.kind = "legacy" THEN -1 ELSE original.schema)
    BY <1>19 DEF FirstFiles
  <2>2. \A w \in Watches : f.config[w] = "none" => ~(original.schema >= 30 /\ d.watch[w].processor = "restock_diff")
    BY <1>19 DEF FirstFiles
  <2> HIDE DEF f
  <2> QED
    BY <1>7, <2>1, <2>2 DEF Version
<1>12. Base
  BY <1>2, <1>4, StartedFrom DEF Base
<1> HIDE DEF f
<1>13. Progress
  BY <1>4, <1>7, <1>9, <1>11 DEF Progress
<1>14. Old
  BY <1>4, <1>9, <1>11, NoMap DEF Old, Unmoved
<1>15. Whole
  BY <1>4, <1>6, <1>7, <1>9, <1>11, NoMap DEF Whole, Untouched, f
<1>16. Alike
  <2>1. SUFFICES ASSUME Version >= 26, NEW w \in Watches
                 PROVE  /\ Left(Version, disk.watch[w]) = Final.watch[w]
                        /\ disk.watch[w] = d.watch[w]
                        /\ Reached(Version, disk.watch[w])
    BY <1>9 DEF Alike
  <2>2. original.kind = "split" /\ Version = original.schema /\ disk.watch = d.watch
    BY <1>4, <1>11, <2>1
  <2>3. At(Version) = d
    BY <1>10, <2>2, AtStart
  <2>4. Version \in 25 .. 33
    BY <1>4, <2>1, <2>2
  <2>5. Final.watch[w] = Left(Version, d.watch[w])
    BY <1>10, <2>2, <2>3, <2>4, FinalFrom
  <2>6. Reached(Version, d.watch[w])
    BY <1>4, <1>12, <2>2, <2>4 DEF Base, Reached
  <2> QED
    BY <2>2, <2>5, <2>6
<1>17. Moved
  <2>1. SUFFICES ASSUME Version >= 26, NEW w \in Watches, d.watch[w].processor = "restock_diff", disk.config[w] = "none"
                 PROVE  Version < 30 /\ MovesSettings(disk.watch[w])
    BY <1>9 DEF Moved
  <2>2. original.kind = "split" /\ Version = original.schema /\ disk.watch = d.watch /\ original.schema \in 26 .. 33
    BY <1>4, <1>11, <2>1
  <2>3. Version < 30
    BY <1>11, <2>1, <2>2
  <2> QED
    BY <1>12, <2>1, <2>2, <2>3 DEF Base, MovesSettings
<1>18. Grouped
  BY <1>4, <1>9, <1>11 DEF Grouped
<1> QED
  BY <1>10, <1>12, <1>13, <1>14, <1>15, <1>16, <1>17, <1>18 DEF UpgradeInv

\* What depends on the datastore before the first start alone.
LEMMA Fixed ==
  ASSUME original' = original
  PROVE  /\ Final' = Final /\ (\A k : At(k)' = At(k)) /\ (Base => Base')
BY DEF Final, At, Base

\* A start reads the new files, or the legacy file where the new ones have no settings yet.
LEMMA StepLoad == ASSUME UpgradeInv, Load PROVE UpgradeInv'
<1> DEFINE n == IF HasSettings THEN disk.settings.schema ELSE disk.legacy.schema
<1>1. /\ UpgradeTypes /\ Progress /\ Base /\ Old /\ Whole /\ Alike /\ Moved /\ Grouped
      /\ boot.pc = "off" /\ ~Awake
  BY DEF UpgradeInv, Load, Awake
<1>2. /\ original' = original /\ disk' = disk /\ crashes' = crashes /\ failures' = failures /\ missed' = missed
      /\ mem' = (IF HasSettings THEN LoadSplit ELSE LoadLegacy)
      /\ boot' = [pc |-> "next", n |-> n, todo |-> {}, legacy |-> ~HasSettings]
  BY DEF Load
<1> HIDE DEF n
<1>3. Version' = Version /\ Interrupted' = Interrupted /\ WatchesRetried' = WatchesRetried /\ TagsRetried' = TagsRetried
      /\ Awake' /\ boot'.pc = "next" /\ boot'.n = n /\ boot'.todo = {} /\ boot'.legacy = ~HasSettings
      /\ (\A w : Level(w)' = n) /\ Final' = Final
      /\ \A k : At(k)' = At(k)
  BY <1>2 DEF Version, Interrupted, WatchesRetried, TagsRetried, Awake, Level, Final, At
<1>4. /\ HasSettings <=> Version # -1
      /\ Version \in -1 .. 33 /\ original.schema \in 0 .. 33
      /\ original.kind \in {"legacy", "split"}
      /\ original.kind = "legacy" => original.schema \in 0 .. 25
      /\ original.kind = "split" => original.schema \in 26 .. 33 /\ Version >= original.schema
  BY <1>1 DEF UpgradeTypes, Progress, HasSettings, Version
<1>5. n = IF HasSettings THEN Version ELSE original.schema
  <2>1. disk.legacy.schema = IF original.kind = "legacy" THEN original.schema ELSE -1
    BY <1>1 DEF UpgradeTypes
  <2> QED
    BY <1>4, <2>1 DEF n, Version
<1>6. n \in 0 .. 33 /\ Version <= n
  BY <1>4, <1>5
<1>7. /\ IsDatastore(LoadSplit) /\ LoadSplit.watch = disk.watch
      /\ DOMAIN LoadSplit.tag = DOMAIN disk.tag \cup DOMAIN disk.settings.tag
      /\ IsDatastore(LoadLegacy)
      /\ DOMAIN LoadLegacy.tag = DOMAIN disk.tag \cup DOMAIN original.d.tag
      /\ DOMAIN LoadLegacy.watch = DOMAIN disk.watch \cup DOMAIN original.d.watch
  BY <1>1, LoadedIs
<1>8. UpgradeTypes'
  <2>1. IsDatastore(mem')
    BY <1>2, <1>7
  <2>2. boot' \in [pc : {"off", "next", "saving", "running"}, n : 0 .. 33, todo : SUBSET (Watches \cup DOMAIN mem'.tag), legacy : BOOLEAN]
    BY <1>2, <1>6 DEF HasSettings
  <2> QED
    BY <1>1, <1>2, <2>1, <2>2 DEF UpgradeTypes
<1>18. n >= original.schema /\ (original.kind = "legacy" => Version = -1 \/ Version > original.schema)
  BY <1>1, <1>4, <1>5 DEF Progress
<1>9. Progress'
  BY <1>1, <1>2, <1>3, <1>4, <1>6, <1>18 DEF Progress
<1>10. Base'
  BY <1>1, <1>2 DEF Base
\* Before update 26: what was there at the first start.
<1>11. ASSUME WatchesRetried, Version < 26
       PROVE  /\ original.kind = "legacy" /\ Version = -1 /\ ~HasSettings /\ n = original.schema
              /\ mem' = original.d /\ disk.tag = << >>
              /\ DOMAIN disk.watch = {} \/ Interrupted
  <2>1. /\ original.kind = "legacy" /\ Version = -1 /\ disk.tag = << >>
        /\ \A w \in DOMAIN disk.watch : disk.watch[w] = At(25).watch[w]
    BY <1>1, <1>11 DEF Old, Unmoved
  <2>2. ~HasSettings /\ n = original.schema
    BY <1>4, <1>5, <2>1
  <2>3. DOMAIN disk.watch = {} \/ Interrupted
    <3>1. SUFFICES ASSUME ~Interrupted PROVE DOMAIN disk.watch = {}
      OBVIOUS
    <3>2. disk.watch = << >>
      BY <1>1, <2>1, <3>1 DEF Whole, Untouched, Files
    <3> QED
      BY <3>2, NoMap
  <2>4. ASSUME NEW w \in DOMAIN disk.watch
        PROVE  disk.watch[w] = original.d.watch[w]
    <3>1. original.schema = 25
      BY <1>11, <2>1, <2>3, <2>4 DEF WatchesRetried
    <3>2. At(25) = original.d
      BY <1>1, <3>1, AtStart
    <3> QED
      BY <2>1, <3>2
  <2>5. /\ IsDatastore(original.d) /\ DOMAIN original.d.watch = Watches /\ DOMAIN disk.watch \subseteq Watches
        /\ disk.legacy.d = original.d
    BY <1>1 DEF UpgradeTypes, IsWatchMap
  <2>6. Over(disk.watch, original.d.watch) = original.d.watch
    <3>1. IsRecord(original.d.watch, Watches)
      BY <2>5 DEF IsDatastore, IsWatchMap
    <3>2. DOMAIN disk.watch \cup DOMAIN original.d.watch = Watches
      BY <2>5
    <3> DEFINE a == disk.watch
               b == original.d.watch
               h == Over(disk.watch, original.d.watch)
    <3>6. h = Over(a, b)
      OBVIOUS
    <3> HIDE DEF a, b, h
    <3>3. /\ \A x \in DOMAIN a \cup DOMAIN b : h[x] = IF x \in DOMAIN a THEN a[x] ELSE b[x]
          /\ IsRecord(h, DOMAIN a \cup DOMAIN b)
      BY <3>6, OverIs
    <3>4. (\A w \in Watches : h[w] = original.d.watch[w]) /\ IsRecord(h, Watches)
      BY <2>4, <3>2, <3>3 DEF a, b
    <3>5. h = original.d.watch
      BY <3>1, <3>4 DEF IsRecord
    <3> QED
      BY <3>5 DEF h
  <2>7. Over(disk.tag, original.d.tag) = original.d.tag
    BY <2>1, <2>5, OverNothing DEF IsDatastore, IsTagMap
  <2>8. LoadLegacy = original.d
    BY <2>5, <2>6, <2>7 DEF LoadLegacy, IsDatastore, IsRecord
  <2> QED
    BY <1>2, <2>1, <2>2, <2>3, <2>8
<1>12. Old'
  <2>1. SUFFICES ASSUME WatchesRetried', Version' < 26 PROVE Unmoved'
    BY DEF Old
  <2>2. /\ original.kind = "legacy" /\ mem' = original.d /\ n = original.schema /\ disk.tag = << >>
        /\ DOMAIN disk.watch = {} \/ (Interrupted /\ ~HasSettings)
    BY <1>3, <1>11, <2>1
  <2>3. At(n) = original.d
    BY <1>1, <2>2, AtStart
  <2>4. Unmoved
    BY <1>1, <1>3, <2>1 DEF Old
  <2>5. n \in original.schema .. 26 /\ n # 26
    <3>1. n = original.schema
      BY <2>2
    <3>2. original.schema \in 0 .. 25
      BY <1>4, <2>2
    <3> QED
      BY <3>1, <3>2
  <2>6. \A w \in DOMAIN disk'.watch : disk'.watch[w] = At(25)'.watch[w]
    BY <1>2, <1>3, <2>4 DEF Unmoved
  <2>7. Loaded' /\ boot'.legacy /\ boot'.n \in original'.schema .. 26 /\ boot'.n # 26
    BY <1>2, <1>3, <1>11, <2>1, <2>5 DEF Loaded
  <2>8. mem' = At(boot.n)'
    BY <1>2, <1>3, <2>2, <2>3 DEF At
  <2>9. DOMAIN disk'.watch = {} \/ Interrupted'
    BY <1>2, <1>3, <2>2
  <2> QED
    BY <1>2, <1>3, <2>2, <2>6, <2>7, <2>8, <2>9 DEF Unmoved
<1>13. Whole'
  <2>1. ASSUME WatchesRetried PROVE DOMAIN mem'.watch = Watches
    <3>1. CASE Version >= 26
      BY <1>1, <1>2, <1>4, <1>7, <2>1, <3>1 DEF Whole
    <3>2. CASE Version < 26
      BY <1>1, <1>11, <2>1, <3>2 DEF UpgradeTypes
    <3> QED
      BY <1>4, <3>1, <3>2
  <2> QED
    BY <1>1, <1>2, <1>3, <2>1 DEF Whole
<1>14. Alike'
  <2>1. SUFFICES ASSUME WatchesRetried, Version >= 26, NEW w \in Watches \ missed
                 PROVE  /\ Left(Version, disk.watch[w]) = Final.watch[w] \/ Unpriced(disk.watch[w])
                        /\ Unpriced(disk.watch[w]) <=> Unpriced(original.d.watch[w])
                        /\ Reached(Version, disk.watch[w])
                        /\ mem'.watch[w] = disk.watch[w]
                        /\ Reached(n, mem'.watch[w])
                        /\ Left(n, mem'.watch[w]) = Final.watch[w] \/ (Interrupted /\ Unpriced(mem'.watch[w]))
    BY <1>2, <1>3 DEF Alike
  <2>2. /\ Left(Version, disk.watch[w]) = Final.watch[w] \/ Unpriced(disk.watch[w])
        /\ Unpriced(disk.watch[w]) <=> Unpriced(original.d.watch[w])
        /\ Reached(Version, disk.watch[w])
    BY <1>1, <2>1 DEF Alike
  <2>3. n = Version /\ mem'.watch = disk.watch
    BY <1>2, <1>4, <1>5, <1>7, <2>1
  <2>4. ASSUME ~Interrupted PROVE Left(Version, disk.watch[w]) = Final.watch[w]
    <3>1. Untouched
      BY <1>1, <2>4 DEF Whole
    <3>2. original.kind = "split" /\ Version = original.schema /\ disk.watch = original.d.watch
      BY <1>4, <2>1, <3>1 DEF Untouched, Files, Version
    <3>3. At(Version) = original.d
      BY <1>1, <3>2, AtStart
    <3>4. Version \in 25 .. 33 /\ original.schema <= Version
      BY <1>4, <2>1, <3>2
    <3> QED
      BY <1>1, <3>2, <3>3, <3>4, FinalFrom
  <2> QED
    BY <2>2, <2>3, <2>4
<1>15. Moved'
  <2>1. SUFFICES ASSUME WatchesRetried, Version >= 26, NEW w \in Watches,
                        original.d.watch[w].processor = "restock_diff", disk.config[w] = "none"
                 PROVE  Version < 30 /\ MovesSettings(disk.watch[w]) /\ n < 30 /\ MovesSettings(mem'.watch[w])
    BY <1>2, <1>3 DEF Moved
  <2>2. n = Version /\ mem'.watch = disk.watch
    BY <1>2, <1>4, <1>5, <1>7, <2>1
  <2>3. Version < 30 /\ MovesSettings(disk.watch[w])
    BY <1>1, <2>1 DEF Moved
  <2> QED
    BY <2>2, <2>3
<1>16. Grouped'
  <2>1. SUFFICES ASSUME TagsRetried
                 PROVE  LET owed == DOMAIN original.d.tag \ missed
                        IN  /\ owed \subseteq DOMAIN mem'.tag
                            /\ Version \in 26 .. 28 /\ original.kind = "split" => owed \subseteq DOMAIN disk.settings.tag
                            /\ Version >= 29 => owed \subseteq DOMAIN disk.tag
                            /\ n >= 29 => owed \subseteq DOMAIN disk.tag
    BY <1>2, <1>3 DEF Grouped
  <2> DEFINE owed == DOMAIN original.d.tag \ missed
  <2>2. /\ Version \in 26 .. 28 /\ original.kind = "split" => owed \subseteq DOMAIN disk.settings.tag
        /\ Version >= 29 => owed \subseteq DOMAIN disk.tag
    BY <1>1, <2>1 DEF Grouped
  <2>3. n >= 29 => Version = n
    BY <1>4, <1>5
  <2>4. owed \subseteq DOMAIN mem'.tag
    <3>1. CASE original.kind = "split"
      BY <1>2, <1>4, <1>7, <2>2, <3>1
    <3>2. CASE original.kind = "legacy"
      <4>1. Untouched
        BY <1>1, <2>1, <3>2 DEF TagsRetried, Whole
      <4>2. ~HasSettings
        BY <3>2, <4>1 DEF Untouched, Files, HasSettings
      <4> QED
        BY <1>2, <1>7, <4>2
    <3> QED
      BY <1>4, <3>1, <3>2
  <2> QED
    BY <2>2, <2>3, <2>4
<1> QED
  BY <1>8, <1>9, <1>10, <1>12, <1>13, <1>14, <1>15, <1>16 DEF UpgradeInv

\* An update that writes nothing goes on from what is in memory.
LEMMA StepApply == ASSUME UpgradeInv, Apply PROVE UpgradeInv'
<1> DEFINE k == NextUpdate(boot.n)
           saves == CASE k \in {26, 30, 33} -> DOMAIN mem.watch [] k = 29 -> DOMAIN mem.tag [] OTHER -> {}
<1>1. /\ UpgradeTypes /\ Progress /\ Base /\ Old /\ Whole /\ Alike /\ Moved /\ Grouped
      /\ boot.pc = "next" /\ Awake
  BY DEF UpgradeInv, Apply, Awake
<1>2. /\ original' = original /\ disk' = disk /\ crashes' = crashes /\ failures' = failures /\ missed' = missed
      /\ k < 34
      /\ mem' = (IF k \in {26, 29, 30, 33} THEN mem ELSE Update(k, mem))
      /\ boot' = [boot EXCEPT !.pc = "saving", !.n = k, !.todo = saves]
  BY DEF Apply
<1>3. boot.n \in 0 .. 33 /\ boot.legacy \in BOOLEAN /\ IsDatastore(mem)
      /\ boot \in [pc : {"off", "next", "saving", "running"}, n : 0 .. 33, todo : SUBSET (Watches \cup DOMAIN mem.tag), legacy : BOOLEAN]
  BY <1>1 DEF UpgradeTypes
<1>4. /\ k \in (boot.n + 1) .. 34 /\ (k < 34 => k \in Available)
      /\ boot.n <= 25 => k \in {boot.n + 1, boot.n + 2} /\ k <= 26
      /\ boot.n \in 26 .. 28 => k = 29
      /\ boot.n \in 29 .. 33 => k = boot.n + 1
  BY <1>3, NextIs
<1> HIDE DEF k, saves
<1>5. boot'.pc = "saving" /\ boot'.n = k /\ boot'.todo = saves /\ boot'.legacy = boot.legacy
      /\ k \in 1 .. 33 /\ k \in Available
      /\ boot' = [pc |-> "saving", n |-> k, todo |-> saves, legacy |-> boot.legacy]
  <2>1. k \in 1 .. 33 /\ k \in Available
    BY <1>2, <1>3, <1>4
  <2>2. boot = [pc |-> boot.pc, n |-> boot.n, todo |-> boot.todo, legacy |-> boot.legacy]
    BY <1>3
  <2>3. boot' = [pc |-> "saving", n |-> k, todo |-> saves, legacy |-> boot.legacy]
    BY <1>2, <2>2
  <2> QED
    BY <2>1, <2>3
<1>6. Version' = Version /\ Interrupted' = Interrupted /\ WatchesRetried' = WatchesRetried /\ TagsRetried' = TagsRetried
      /\ Awake' /\ Final' = Final /\ \A j : At(j)' = At(j)
  BY <1>2, <1>5 DEF Version, Interrupted, WatchesRetried, TagsRetried, Awake, Final, At
<1>7. Version <= boot.n /\ Version < k /\ Version \in -1 .. 33 /\ boot.todo = {}
  BY <1>1, <1>3, <1>4 DEF Progress, UpgradeTypes, Version
<1>8. Within(mem, mem')
  <2>1. Within(mem, Update(k, mem)) /\ Within(mem, mem)
    BY <1>3, <1>5, UpdateWithin, WithinItself
  <2> QED
    BY <1>2, <2>1
<1>9. IsDatastore(mem') /\ DOMAIN mem'.watch = DOMAIN mem.watch /\ DOMAIN mem.tag \subseteq DOMAIN mem'.tag
  BY <1>8 DEF Within
<1>10. /\ k \in {26, 30, 33} => saves = DOMAIN mem.watch /\ mem' = mem
       /\ k = 29 => saves = DOMAIN mem.tag /\ mem' = mem
       /\ k \notin {26, 29, 30, 33} => saves = {}
  BY <1>2 DEF saves
<1>11. UpgradeTypes'
  <2>1. DOMAIN mem.watch \subseteq Watches
    BY <1>3 DEF IsDatastore, IsWatchMap
  <2>2. saves \subseteq Watches \cup DOMAIN mem'.tag
    BY <1>10, <2>1
  <2>3. boot' \in [pc : {"off", "next", "saving", "running"}, n : 0 .. 33, todo : SUBSET (Watches \cup DOMAIN mem'.tag), legacy : BOOLEAN]
    BY <1>3, <1>5, <2>2
  <2> QED
    BY <1>1, <1>2, <1>9, <2>3 DEF UpgradeTypes
<1>20. k > original.schema
  BY <1>1, <1>3, <1>4 DEF Progress, UpgradeTypes
<1>12. Progress'
  <2>1. IF original.kind = "split" THEN Version >= original.schema ELSE Version = -1 \/ Version > original.schema
    BY <1>1 DEF Progress
  <2>2. /\ k \in {26, 30, 33} => saves \subseteq DOMAIN mem'.watch
        /\ k = 29 => saves \subseteq DOMAIN mem'.tag
        /\ k \notin {26, 29, 30, 33} => saves = {}
    BY <1>10
  <2>3. boot'.pc = "saving" /\ boot'.n = k /\ boot'.todo = saves
    BY <1>5
  <2>4. Version' = Version /\ original' = original
    BY <1>2, <1>6
  <2>5. Version < k /\ k \in Available
    BY <1>5, <1>7
  <2>6. k >= original.schema
    BY <1>1, <1>5, <1>20 DEF UpgradeTypes
  <2> QED
    BY <1>20, <2>1, <2>2, <2>3, <2>4, <2>5, <2>6 DEF Progress
<1>13. Base'
  BY <1>1, <1>2 DEF Base
<1>14. Old'
  <2>1. SUFFICES ASSUME WatchesRetried', Version' < 26 PROVE Unmoved'
    BY DEF Old
  <2>2. Unmoved
    BY <1>1, <1>6, <2>1 DEF Old
  <2>3. boot.n \in original.schema .. 25 /\ original.schema \in 0 .. 33
    BY <1>1, <1>3, <2>2 DEF Unmoved, UpgradeTypes
  <2>4. At(k) = Update(k, At(boot.n))
    BY <1>1, <2>3, SkipsNone DEF k
  <2>5. mem = At(boot.n)
    BY <1>1, <2>2 DEF Unmoved
  <2>6. mem' = At(k)
    <3>1. CASE k = 26
      BY <1>2, <2>4, <2>5, <3>1, UpdateIs
    <3>2. CASE k # 26
      BY <1>2, <1>4, <2>3, <2>4, <2>5, <3>2
    <3> QED
      BY <3>1, <3>2
  <2>7. mem' = At(boot.n)'
    BY <1>2, <1>5, <2>6 DEF At
  <2>8. k \in original.schema .. 26
    BY <1>4, <1>5, <2>3
  <2>9. DOMAIN disk.watch = {} \/ Interrupted
    BY <1>1, <2>2, <2>3 DEF Unmoved
  <2>10. \A w \in DOMAIN disk'.watch : disk'.watch[w] = At(25)'.watch[w]
    BY <1>2, <1>6, <2>2 DEF Unmoved
  <2>11. Loaded' /\ boot'.legacy /\ boot'.n \in original'.schema .. 26 /\ boot'.pc # "next"
    BY <1>1, <1>2, <1>5, <2>2, <2>8 DEF Loaded, Unmoved
  <2>12. original'.kind = "legacy" /\ disk'.tag = << >> /\ Awake'
    BY <1>2, <1>6, <2>2 DEF Unmoved
  <2>13. DOMAIN disk'.watch = {} \/ Interrupted'
    BY <1>2, <1>6, <2>9
  <2> QED
    BY <2>7, <2>10, <2>11, <2>12, <2>13 DEF Unmoved
<1>15. Whole'
  BY <1>1, <1>2, <1>5, <1>6, <1>9, <1>10 DEF Whole
\* From update 26 on, only updates 30 and 33 change a watch, and those have yet to begin.
<1>16. ASSUME WatchesRetried, Version >= 26, NEW w \in Watches
       PROVE  /\ mem'.watch = mem.watch /\ Level(w) = boot.n
              /\ Level(w)' = IF k \in {30, 33} THEN k - 1 ELSE k
              /\ boot.n \in 26 .. 32
              /\ boot.n < 30 => Level(w)' \in 26 .. 29
              /\ boot.n >= 30 => Level(w)' \in 30 .. 32
  <2>1. boot.n \in 26 .. 32 /\ k \in 29 .. 33
    BY <1>3, <1>4, <1>5, <1>7, <1>16
  <2>2. k \notin {29, 30, 33} => k \in {25, 26, 27, 28, 29, 31, 32}
    BY <2>1
  <2>3. mem'.watch = mem.watch
    BY <1>2, <1>3, <2>1, <2>2, LateWatches
  <2>4. k \in {30, 33} => w \in saves
    BY <1>1, <1>10, <1>16 DEF Whole
  <2>5. Level(w)' = IF k \in {30, 33} THEN k - 1 ELSE k
    BY <1>5, <2>4 DEF Level
  <2>6. Level(w) = boot.n
    BY <1>1 DEF Level
  <2> QED
    BY <1>4, <2>1, <2>3, <2>5, <2>6
<1>17. Alike'
  <2>1. SUFFICES ASSUME WatchesRetried', Version' >= 26, NEW w \in Watches \ missed'
                 PROVE  (/\ Left(Version, disk.watch[w]) = Final.watch[w] \/ Unpriced(disk.watch[w])
                         /\ Unpriced(disk.watch[w]) <=> Unpriced(original.d.watch[w])
                         /\ Reached(Version, disk.watch[w])
                         /\ Awake => /\ mem.watch[w] = disk.watch[w]
                                     /\ Reached(Level(w), mem.watch[w])
                                     /\ Left(Level(w), mem.watch[w]) = Final.watch[w] \/ (Interrupted /\ Unpriced(mem.watch[w])))'
    BY DEF Alike
  <2>2. WatchesRetried /\ Version >= 26 /\ w \in Watches \ missed
    BY <1>2, <1>6, <2>1
  <2>3. /\ Left(Version, disk.watch[w]) = Final.watch[w] \/ Unpriced(disk.watch[w])
        /\ Unpriced(disk.watch[w]) <=> Unpriced(original.d.watch[w])
        /\ Reached(Version, disk.watch[w])
        /\ mem.watch[w] = disk.watch[w]
        /\ Reached(boot.n, mem.watch[w])
        /\ Left(boot.n, mem.watch[w]) = Final.watch[w] \/ (Interrupted /\ Unpriced(mem.watch[w]))
    BY <1>1, <1>16, <2>2 DEF Alike
  <2> DEFINE v == Level(w)'
  <2>4. /\ mem'.watch = mem.watch /\ boot.n \in 26 .. 32
        /\ boot.n < 30 => v \in 26 .. 29
        /\ boot.n >= 30 => v \in 30 .. 32
    BY <1>16, <2>2
  <2> HIDE DEF v
  <2>5. /\ \A x : Left(v, x) = Left(boot.n, x)
        /\ \A x : Reached(boot.n, x) => Reached(v, x)
    BY <2>4 DEF Left, Reached
  <2>6. Reached(v, mem'.watch[w]) /\ (Left(v, mem'.watch[w]) = Final.watch[w] \/ (Interrupted /\ Unpriced(mem'.watch[w])))
    BY <2>3, <2>4, <2>5
  <2>7. Reached(Level(w)', mem'.watch[w]) /\ (Left(Level(w)', mem'.watch[w]) = Final'.watch[w] \/ (Interrupted' /\ Unpriced(mem'.watch[w])))
    BY <1>6, <2>6 DEF v
  <2> QED
    BY <1>2, <1>6, <2>3, <2>4, <2>7
<1>18. Moved'
  <2>1. SUFFICES ASSUME WatchesRetried', Version' >= 26, NEW w \in Watches,
                        original'.d.watch[w].processor = "restock_diff", disk'.config[w] = "none"
                 PROVE  (Version < 30 /\ MovesSettings(disk.watch[w]) /\ Level(w) < 30 /\ MovesSettings(mem.watch[w]))'
    BY DEF Moved
  <2>2. Version < 30 /\ MovesSettings(disk.watch[w]) /\ Level(w) < 30 /\ MovesSettings(mem.watch[w])
    BY <1>1, <1>2, <1>6, <2>1 DEF Moved
  <2>3. mem'.watch = mem.watch /\ Level(w)' < 30
    BY <1>6, <1>16, <2>1, <2>2
  <2> QED
    BY <1>2, <1>6, <2>2, <2>3
<1>19. Grouped'
  <2> DEFINE owed == DOMAIN original.d.tag \ missed
  <2>1. SUFFICES ASSUME TagsRetried
                 PROVE  /\ owed \subseteq DOMAIN mem'.tag
                        /\ Version \in 26 .. 28 /\ original.kind = "split" => owed \subseteq DOMAIN disk.settings.tag
                        /\ Version >= 29 => owed \subseteq DOMAIN disk.tag
                        /\ k >= 29 => owed \subseteq DOMAIN disk.tag \cup (IF k = 29 THEN saves ELSE {})
    BY <1>2, <1>5, <1>6 DEF Grouped
  <2>2. /\ owed \subseteq DOMAIN mem.tag
        /\ Version \in 26 .. 28 /\ original.kind = "split" => owed \subseteq DOMAIN disk.settings.tag
        /\ Version >= 29 => owed \subseteq DOMAIN disk.tag
        /\ boot.n >= 29 => owed \subseteq DOMAIN disk.tag
    BY <1>1, <1>7, <2>1 DEF Grouped
  <2>3. k > 29 => boot.n >= 29
    BY <1>3, <1>4
  <2> HIDE DEF owed
  <2> QED
    BY <1>5, <1>9, <1>10, <2>2, <2>3
<1> QED
  BY <1>11, <1>12, <1>13, <1>14, <1>15, <1>17, <1>18, <1>19 DEF UpgradeInv

\* The files, where only a restock_diff.json may have been added to.
MoreConfig ==
  /\ IsRecord(disk', {"legacy", "settings", "watch", "tag", "config"}) /\ IsRecord(disk'.config, Watches)
  /\ disk'.legacy = disk.legacy /\ disk'.settings = disk.settings /\ disk'.watch = disk.watch /\ disk'.tag = disk.tag
  /\ \A w \in Watches : disk'.config[w] = "none" => disk.config[w] = "none"

\* A start that ends, killed or of its own, forgets what is in memory.
LEMMA StepOff ==
  ASSUME UpgradeInv, original' = original, MoreConfig, missed \subseteq missed', failures' = failures,
         crashes' \in Nat, Interrupted', boot' = Off, mem' = Empty(original.d)
  PROVE  UpgradeInv'
<1>1. UpgradeTypes /\ Progress /\ Base /\ Old /\ Whole /\ Alike /\ Moved /\ Grouped
  BY DEF UpgradeInv
<1>2. boot'.pc = "off" /\ boot'.n = 0 /\ boot'.todo = {} /\ boot'.legacy = FALSE /\ ~Awake'
  BY DEF Off, Awake
<1>3. Version' = Version /\ Final' = Final /\ (\A j : At(j)' = At(j)) /\ Version \in -1 .. 33
      /\ original.schema \in 0 .. 33 /\ original.kind \in {"legacy", "split"}
  BY <1>1 DEF Version, Final, At, MoreConfig, UpgradeTypes
<1>4. /\ WatchesRetried' => WatchesRetried /\ (original.kind = "split" \/ original.schema = 25)
      /\ TagsRetried' => TagsRetried /\ original.kind = "split"
  BY DEF WatchesRetried, TagsRetried
<1>5. /\ disk'.settings = disk.settings /\ disk'.watch = disk.watch /\ disk'.tag = disk.tag
      /\ \A w \in Watches : disk'.config[w] = "none" => disk.config[w] = "none"
  BY DEF MoreConfig
<1>6. UpgradeTypes'
  <2>1. IsDatastore(mem')
    BY <1>1, EmptyIs DEF UpgradeTypes
  <2>2. boot' \in [pc : {"off", "next", "saving", "running"}, n : 0 .. 33, todo : SUBSET (Watches \cup DOMAIN mem'.tag), legacy : BOOLEAN]
    BY DEF Off
  <2>3. /\ IsRecord(disk', {"legacy", "settings", "watch", "tag", "config"}) /\ IsRecord(disk'.config, Watches)
        /\ disk'.legacy = disk.legacy
    BY DEF MoreConfig
  <2> QED
    BY <1>1, <1>5, <2>1, <2>2, <2>3 DEF UpgradeTypes
<1>7. Progress'
  BY <1>1, <1>2, <1>3 DEF Progress
<1>8. Base'
  BY <1>1 DEF Base
<1>9. Old'
  <2>1. SUFFICES ASSUME WatchesRetried', Version' < 26 PROVE Unmoved'
    BY DEF Old
  <2>2. Unmoved /\ original.kind = "legacy"
    BY <1>1, <1>3, <1>4, <2>1 DEF Old, Unmoved
  <2>3. original.schema = 25
    BY <1>4, <2>1, <2>2
  <2>4. Version = -1
    BY <1>1, <1>3, <2>1, <2>2, <2>3 DEF Progress
  <2>5. \A w \in DOMAIN disk'.watch : disk'.watch[w] = At(25)'.watch[w]
    BY <1>3, <1>5, <2>2 DEF Unmoved
  <2> QED
    BY <1>2, <1>3, <1>5, <2>2, <2>4, <2>5 DEF Unmoved
<1>10. Whole'
  BY <1>1, <1>2, <1>3, <1>4, <1>5 DEF Whole
<1>11. Alike'
  BY <1>1, <1>2, <1>3, <1>4, <1>5 DEF Alike
<1>12. Moved'
  BY <1>1, <1>2, <1>3, <1>4, <1>5 DEF Moved
<1>13. Grouped'
  BY <1>1, <1>2, <1>3, <1>4, <1>5 DEF Grouped
<1> QED
  BY <1>6, <1>7, <1>8, <1>9, <1>10, <1>11, <1>12, <1>13 DEF UpgradeInv

LEMMA ConfigKeeps == ASSUME UpgradeTypes, disk' = disk PROVE MoreConfig
BY DEF UpgradeTypes, MoreConfig

LEMMA StepCrash == ASSUME UpgradeInv, Crash PROVE UpgradeInv'
<1>1. UpgradeTypes /\ crashes \in Nat /\ failures \in Nat
  BY DEF UpgradeInv, UpgradeTypes
<1>2. /\ original' = original /\ disk' = disk /\ missed' = missed /\ failures' = failures /\ crashes' = crashes + 1
      /\ boot' = Off /\ mem' = Empty(original.d)
  BY DEF Crash
<1>3. Interrupted' /\ crashes' \in Nat
  BY <1>1, <1>2 DEF Interrupted
<1> QED
  BY <1>1, <1>2, <1>3, StepOff, ConfigKeeps

LEMMA StepMissingFiles == ASSUME UpgradeInv, MissingFiles PROVE UpgradeInv'
<1>1. UpgradeTypes /\ crashes \in Nat /\ failures \in Nat /\ Whole
  BY DEF UpgradeInv, UpgradeTypes
<1>2. /\ original' = original /\ disk' = disk /\ missed' = missed /\ failures' = failures /\ crashes' = crashes
      /\ boot' = Off /\ mem' = Empty(original.d)
      /\ boot.pc = "saving" /\ boot.n = 26 /\ boot.todo = {} /\ ~(DOMAIN mem.watch \subseteq DOMAIN disk.watch)
  BY DEF MissingFiles
<1>3. Interrupted
  BY <1>1, <1>2 DEF Whole
<1>4. Interrupted'
  BY <1>2, <1>3 DEF Interrupted
<1> QED
  BY <1>1, <1>2, <1>4, StepOff, ConfigKeeps

\* A kill in the middle of a file costs that watch its settings: it is missed.
LEMMA StepCutOff == ASSUME UpgradeInv, CutOff PROVE UpgradeInv'
<1>1. /\ UpgradeTypes /\ crashes \in Nat /\ failures \in Nat
      /\ IsRecord(disk, {"legacy", "settings", "watch", "tag", "config"}) /\ IsRecord(disk.config, Watches)
  BY DEF UpgradeInv, UpgradeTypes
<1>2. /\ original' = original /\ failures' = failures /\ crashes' = crashes + 1
      /\ boot' = Off /\ mem' = Empty(original.d)
  BY DEF CutOff
<1>3. PICK w : disk' = [disk EXCEPT !.config[w] = "torn"] /\ missed' = missed \cup {w}
  BY DEF CutOff
<1>4. MoreConfig
  BY <1>1, <1>3 DEF MoreConfig, IsRecord
<1>5. Interrupted' /\ crashes' \in Nat
  BY <1>1, <1>2 DEF Interrupted
<1> QED
  BY <1>2, <1>3, <1>4, <1>5, StepOff

\* Counting, over constants.
LEMMA CountsGrow ==
  ASSUME NEW a \in Nat, NEW b \in Nat, NEW p \in Nat, NEW q \in Nat, p >= a, q >= b, a + b > 0
  PROVE  p + q > 0
OBVIOUS

LEMMA NoneMore ==
  ASSUME NEW a \in Nat, NEW b \in Nat, NEW c \in Nat, b >= c, ~(a + b > 0)
  PROVE  b = c
OBVIOUS

\* Once a start is interrupted it stays so, and what it is compared with never changes.
LEMMA Later ==
  ASSUME original' = original, crashes' = crashes, failures \in Nat, failures' \in Nat, failures' >= failures, crashes \in Nat
  PROVE  /\ Interrupted => Interrupted'
         /\ WatchesRetried' => WatchesRetried
         /\ TagsRetried' => TagsRetried
         /\ Final' = Final /\ \A j : At(j)' = At(j)
<1>1. Interrupted => Interrupted'
  <2>1. crashes' \in Nat /\ crashes' >= crashes
    OBVIOUS
  <2>2. crashes + failures > 0 => crashes' + failures' > 0
    BY <2>1, CountsGrow
  <2> QED
    BY <2>2 DEF Interrupted
<1>2. Final' = Final /\ \A j : At(j)' = At(j)
  BY DEF Final, At
<1>3. (WatchesRetried' => WatchesRetried) /\ (TagsRetried' => TagsRetried)
  BY <1>1 DEF WatchesRetried, TagsRetried
<1> QED
  BY <1>1, <1>2, <1>3

\* A watch that was to be saved.
Committed(w, v) ==
  /\ IsRecord(disk', {"legacy", "settings", "watch", "tag", "config"}) /\ IsWatchMap(disk'.watch)
  /\ disk'.legacy = disk.legacy /\ disk'.settings = disk.settings /\ disk'.tag = disk.tag /\ disk'.config = disk.config
  /\ missed \subseteq missed' /\ failures' \in Nat /\ failures' >= failures
  /\ DOMAIN disk.watch \subseteq DOMAIN disk'.watch
  /\ \A x \in DOMAIN disk'.watch \ {w} : x \in DOMAIN disk.watch /\ disk'.watch[x] = disk.watch[x]
  /\ \/ w \in DOMAIN disk'.watch /\ disk'.watch[w] = v /\ failures' = failures
     \/ disk' = disk /\ failures' = failures + 1 /\ (boot.n # 26 => w \in missed')

\* A commit writes one watch, or fails and is counted.
LEMMA CommitIs ==
  ASSUME UpgradeTypes, NEW w \in Watches, NEW v, IsWatch(v), CommitsWatch(w, v)
  PROVE  Committed(w, v)
<1>1. IsRecord(disk, {"legacy", "settings", "watch", "tag", "config"}) /\ IsWatchMap(disk.watch) /\ failures \in Nat
  BY DEF UpgradeTypes
<1>2. CASE disk' = [disk EXCEPT !.watch = Put(@, w, v)] /\ UNCHANGED <<failures, missed>>
  <2> DEFINE h == Put(disk.watch, w, v)
             f == disk.watch
  <2>1. h = Put(f, w, v)
    OBVIOUS
  <2> HIDE DEF f, h
  <2>6. DOMAIN Put(f, w, v) = DOMAIN f \cup {w}
    BY PutIs
  <2>5. \A y \in DOMAIN f \cup {w} : Put(f, w, v)[y] = IF y = w THEN v ELSE f[y]
    BY PutAt
  <2>2. DOMAIN h = DOMAIN f \cup {w} /\ h[w] = v /\ \A y \in DOMAIN f \ {w} : h[y] = f[y]
    BY <2>1, <2>5, <2>6
  <2>3. IsWatchMap(h)
    BY <1>1, PutWatch DEF h
  <2>4. /\ IsRecord(disk', {"legacy", "settings", "watch", "tag", "config"}) /\ disk'.watch = h
        /\ disk'.legacy = disk.legacy /\ disk'.settings = disk.settings /\ disk'.tag = disk.tag /\ disk'.config = disk.config
    BY <1>1, <1>2 DEF IsRecord, h
  <2> QED
    BY <1>1, <1>2, <2>2, <2>3, <2>4 DEF Committed, f
<1>3. CASE /\ failures < MaxFailures /\ failures' = failures + 1
           /\ missed' = (IF boot.n = 26 THEN missed ELSE missed \cup {w})
           /\ UNCHANGED disk
  BY <1>1, <1>3 DEF Committed
<1> QED
  BY <1>2, <1>3 DEF CommitsWatch

LEMMA NothingCommitted ==
  ASSUME UpgradeTypes, NEW w \in DOMAIN disk.watch, NEW v, disk.watch[w] = v, UNCHANGED <<disk, failures, missed>>
  PROVE  Committed(w, v)
BY DEF UpgradeTypes, Committed

\* Once update 26 is done, the files are those of the new format.
LEMMA Late == ASSUME UpgradeInv, Awake, boot.n > 26, WatchesRetried PROVE Version >= 26
<1>1. Old /\ Version \in -1 .. 33
  BY DEF UpgradeInv, UpgradeTypes, Version
<1>2. SUFFICES ASSUME Version < 26 PROVE FALSE
  BY <1>1
<1>3. boot.n \in original.schema .. 26 /\ original.schema \in 0 .. 33
  BY <1>1, <1>2 DEF Old, Unmoved, UpgradeInv, UpgradeTypes
<1> QED
  BY <1>3

\* One that is done with.
LEMMA DoneIs ==
  ASSUME UpgradeTypes, boot.pc = "saving", NEW x, Done(x)
  PROVE  /\ boot' = [pc |-> "saving", n |-> boot.n, todo |-> boot.todo \ {x}, legacy |-> boot.legacy]
         /\ Awake' /\ Awake
         /\ boot \in [pc : {"off", "next", "saving", "running"}, n : 0 .. 33, todo : SUBSET (Watches \cup DOMAIN mem.tag), legacy : BOOLEAN]
         /\ boot' \in [pc : {"off", "next", "saving", "running"}, n : 0 .. 33, todo : SUBSET (Watches \cup DOMAIN mem.tag), legacy : BOOLEAN]
<1>1. boot \in [pc : {"off", "next", "saving", "running"}, n : 0 .. 33, todo : SUBSET (Watches \cup DOMAIN mem.tag), legacy : BOOLEAN]
  BY DEF UpgradeTypes
<1>2. boot' = [pc |-> "saving", n |-> boot.n, todo |-> boot.todo \ {x}, legacy |-> boot.legacy]
  BY <1>1 DEF Done
<1> QED
  BY <1>1, <1>2 DEF Awake

\* Update 26, watch by watch.
LEMMA StepSaveWatch == ASSUME UpgradeInv, SaveWatch PROVE UpgradeInv'
<1>1. /\ UpgradeTypes /\ Progress /\ Base /\ Old /\ Whole /\ Alike /\ Moved /\ Grouped
      /\ boot.pc = "saving" /\ boot.n = 26 /\ original' = original /\ mem' = mem /\ crashes' = crashes
      /\ Version \in -1 .. 33 /\ original.schema \in 0 .. 33
  BY DEF UpgradeInv, SaveWatch, UpgradeTypes, Version
<1>2. PICK w \in boot.todo : CommitsWatch(w, mem.watch[w]) /\ Done(w)
  BY DEF SaveWatch
<1>3. w \in DOMAIN mem.watch /\ w \in Watches /\ IsWatch(mem.watch[w]) /\ IsDatastore(mem)
  BY <1>1, <1>2 DEF Progress, UpgradeTypes, IsDatastore, IsWatchMap
<1>4. Committed(w, mem.watch[w])
  BY <1>1, <1>2, <1>3, CommitIs
<1>5. /\ boot' = [pc |-> "saving", n |-> boot.n, todo |-> boot.todo \ {w}, legacy |-> boot.legacy] /\ Awake' /\ Awake
      /\ boot' \in [pc : {"off", "next", "saving", "running"}, n : 0 .. 33, todo : SUBSET (Watches \cup DOMAIN mem.tag), legacy : BOOLEAN]
  BY <1>1, <1>2, DoneIs
<1>6. /\ Version' = Version /\ Version < 26 /\ crashes \in Nat /\ failures \in Nat /\ failures' \in Nat /\ failures' >= failures
      /\ disk'.tag = disk.tag /\ disk'.settings = disk.settings /\ disk'.config = disk.config /\ missed \subseteq missed'
  BY <1>1, <1>4 DEF Version, Progress, UpgradeTypes, Committed
<1>7. /\ Interrupted => Interrupted'
      /\ WatchesRetried' => WatchesRetried
      /\ TagsRetried' => TagsRetried
      /\ Final' = Final /\ \A j : At(j)' = At(j)
  BY <1>1, <1>6, Later
<1>8. UpgradeTypes'
  BY <1>1, <1>4, <1>5, <1>6 DEF UpgradeTypes, Committed
<1>9. Progress'
  <2>1. boot'.pc = "saving" /\ boot'.n = 26 /\ boot'.todo \subseteq boot.todo
    BY <1>1, <1>5
  <2> QED
    BY <1>1, <1>5, <1>6, <2>1 DEF Progress
<1>10. Base'
  BY <1>1 DEF Base
<1>11. Old'
  <2>1. SUFFICES ASSUME WatchesRetried' PROVE Unmoved'
    BY DEF Old
  <2>2. Unmoved
    BY <1>1, <1>6, <1>7, <2>1 DEF Old
  <2>3. mem.watch[w] = At(25).watch[w]
    <3>1. mem = At(boot.n) /\ boot.n = 26 /\ original.kind = "legacy"
      BY <1>1, <1>5, <2>2 DEF Unmoved
    <3>2. original.schema <= 25
      BY <1>1, <3>1 DEF UpgradeTypes
    <3> QED
      BY <1>1, <3>1, <3>2, At26
  <2>4. \A x \in DOMAIN disk'.watch : disk'.watch[x] = At(25)'.watch[x]
    BY <1>4, <1>7, <2>2, <2>3 DEF Unmoved, Committed
  <2>5. boot'.pc = "saving" /\ boot'.n = 26 /\ boot'.legacy /\ Loaded' /\ mem' = At(boot.n)'
    BY <1>1, <1>5, <2>2 DEF Unmoved, Loaded, At
  <2>6. 26 \in original'.schema .. 26
    BY <1>1, <1>5, <2>2 DEF Unmoved
  <2> QED
    BY <1>1, <1>5, <1>6, <2>2, <2>4, <2>5, <2>6 DEF Unmoved
<1>12. Whole'
  <2>1. ~Interrupted' => DOMAIN mem.watch \ (boot.todo \ {w}) \subseteq DOMAIN disk'.watch
    <3>1. SUFFICES ASSUME ~Interrupted' PROVE DOMAIN mem.watch \ (boot.todo \ {w}) \subseteq DOMAIN disk'.watch
      OBVIOUS
    <3>2. failures' = failures
      <4>1. crashes \in Nat /\ failures \in Nat /\ failures' \in Nat /\ failures' >= failures /\ crashes' \in Nat
        BY <1>1, <1>6
      <4>2. ~(crashes' + failures' > 0)
        BY <3>1 DEF Interrupted
      <4> QED
        BY <4>1, <4>2, NoneMore
    <3>3. w \in DOMAIN disk'.watch /\ DOMAIN disk.watch \subseteq DOMAIN disk'.watch
      BY <1>4, <1>6, <3>2 DEF Committed
    <3>4. DOMAIN mem.watch \ boot.todo \subseteq DOMAIN disk.watch
      BY <1>1, <1>7, <3>1 DEF Whole
    <3> QED
      BY <3>3, <3>4
  <2> QED
    BY <1>1, <1>5, <1>6, <1>7, <2>1 DEF Whole
<1>13. Alike' /\ Moved'
  BY <1>1, <1>6 DEF Alike, Moved
<1>14. Grouped'
  BY <1>1, <1>5, <1>6, <1>7 DEF Grouped
<1> QED
  BY <1>8, <1>9, <1>10, <1>11, <1>12, <1>13, <1>14 DEF UpgradeInv

\* Update 29, group by group.
LEMMA StepSaveTag == ASSUME UpgradeInv, SaveTag PROVE UpgradeInv'
<1>1. /\ UpgradeTypes /\ Progress /\ Base /\ Old /\ Whole /\ Alike /\ Moved /\ Grouped
      /\ boot.pc = "saving" /\ boot.n = 29 /\ original' = original /\ mem' = mem /\ crashes' = crashes
      /\ Version \in -1 .. 33 /\ original.schema \in 0 .. 33
      /\ IsRecord(disk, {"legacy", "settings", "watch", "tag", "config"}) /\ IsTagMap(disk.tag) /\ crashes \in Nat /\ failures \in Nat
  BY DEF UpgradeInv, SaveTag, UpgradeTypes, Version
<1>2. PICK t \in boot.todo :
        /\ Done(t)
        /\ \/ /\ disk' = [disk EXCEPT !.tag = IF t \in DOMAIN @ THEN @ ELSE Put(@, t, mem.tag[t])]
              /\ UNCHANGED <<failures, missed>>
           \/ /\ t \notin DOMAIN disk.tag
              /\ failures < MaxFailures /\ failures' = failures + 1
              /\ missed' = missed \cup {t}
              /\ UNCHANGED disk
  BY DEF SaveTag
<1>3. t \in DOMAIN mem.tag /\ IsTag(mem.tag[t])
  BY <1>1, <1>2 DEF Progress, UpgradeTypes, IsDatastore, IsTagMap
<1>4. /\ boot' = [pc |-> "saving", n |-> boot.n, todo |-> boot.todo \ {t}, legacy |-> boot.legacy] /\ Awake' /\ Awake
      /\ boot' \in [pc : {"off", "next", "saving", "running"}, n : 0 .. 33, todo : SUBSET (Watches \cup DOMAIN mem.tag), legacy : BOOLEAN]
  BY <1>1, <1>2, DoneIs
<1>5. /\ IsRecord(disk', {"legacy", "settings", "watch", "tag", "config"}) /\ IsTagMap(disk'.tag)
      /\ disk'.legacy = disk.legacy /\ disk'.settings = disk.settings /\ disk'.watch = disk.watch /\ disk'.config = disk.config
      /\ DOMAIN disk.tag \subseteq DOMAIN disk'.tag /\ (t \in DOMAIN disk'.tag \/ t \in missed')
      /\ missed \subseteq missed' /\ failures' \in Nat /\ failures' >= failures
  <2> DEFINE h == IF t \in DOMAIN disk.tag THEN disk.tag ELSE Put(disk.tag, t, mem.tag[t])
  <2>1. IsTagMap(Put(disk.tag, t, mem.tag[t])) /\ DOMAIN Put(disk.tag, t, mem.tag[t]) = DOMAIN disk.tag \cup {t}
    BY <1>1, <1>3, PutTag, PutIs
  <2>2. IsTagMap(h) /\ DOMAIN h = DOMAIN disk.tag \cup {t}
    BY <1>1, <2>1
  <2>3. CASE disk' = [disk EXCEPT !.tag = h] /\ UNCHANGED <<failures, missed>>
    <3> HIDE DEF h
    <3> QED
      BY <1>1, <2>2, <2>3 DEF IsRecord
  <2>4. CASE failures' = failures + 1 /\ missed' = missed \cup {t} /\ UNCHANGED disk
    BY <1>1, <2>4
  <2> QED
    BY <1>2, <2>3, <2>4
<1>6. Version' = Version
  BY <1>5 DEF Version
<1>7. /\ Interrupted => Interrupted'
      /\ WatchesRetried' => WatchesRetried
      /\ TagsRetried' => TagsRetried
      /\ Final' = Final /\ \A j : At(j)' = At(j)
  BY <1>1, <1>5, Later
<1>8. UpgradeTypes'
  BY <1>1, <1>4, <1>5 DEF UpgradeTypes
<1>9. Progress'
  <2>1. boot'.pc = "saving" /\ boot'.n = 29 /\ boot'.todo \subseteq boot.todo
    BY <1>1, <1>4
  <2> QED
    BY <1>1, <1>4, <1>6, <2>1 DEF Progress
<1>10. Base'
  BY <1>1 DEF Base
<1>11. Old'
  <2>1. WatchesRetried => Version >= 26
    BY <1>1, <1>4, Late
  <2> QED
    BY <1>6, <1>7, <2>1, <1>1 DEF Old
<1>12. Whole'
  BY <1>1, <1>4, <1>5, <1>6, <1>7 DEF Whole
<1>13. \A w \in Watches : Level(w) = 29 /\ Level(w)' = 29
  BY <1>1, <1>4 DEF Level
<1>14. Alike'
  BY <1>1, <1>4, <1>5, <1>6, <1>7, <1>13 DEF Alike
<1>15. Moved'
  BY <1>1, <1>4, <1>5, <1>6, <1>7, <1>13 DEF Moved
<1>16. Grouped'
  <2>1. SUFFICES ASSUME TagsRetried' PROVE
          LET owed == DOMAIN original.d.tag \ missed'
          IN  /\ owed \subseteq DOMAIN mem.tag
              /\ Version \in 26 .. 28 /\ original.kind = "split" => owed \subseteq DOMAIN disk.settings.tag
              /\ Version >= 29 => owed \subseteq DOMAIN disk'.tag
              /\ owed \subseteq DOMAIN disk'.tag \cup (boot.todo \ {t})
    BY <1>1, <1>4, <1>5, <1>6 DEF Grouped
  <2>2. LET owed == DOMAIN original.d.tag \ missed
        IN  /\ owed \subseteq DOMAIN mem.tag
            /\ Version \in 26 .. 28 /\ original.kind = "split" => owed \subseteq DOMAIN disk.settings.tag
            /\ Version >= 29 => owed \subseteq DOMAIN disk.tag
            /\ owed \subseteq DOMAIN disk.tag \cup boot.todo
    BY <1>1, <1>4, <1>7, <2>1 DEF Grouped
  <2> QED
    BY <1>5, <2>2
<1> QED
  BY <1>8, <1>9, <1>10, <1>11, <1>12, <1>14, <1>15, <1>16 DEF UpgradeInv

\* Update 30: the settings are in their file before they leave the watch.
LEMMA StepWriteConfig == ASSUME UpgradeInv, WriteConfig PROVE UpgradeInv'
<1>1. /\ UpgradeTypes /\ Progress /\ Base /\ Old /\ Whole /\ Alike /\ Moved /\ Grouped
      /\ original' = original /\ mem' = mem /\ crashes' = crashes /\ boot' = boot /\ failures' = failures /\ missed' = missed
      /\ IsRecord(disk, {"legacy", "settings", "watch", "tag", "config"}) /\ IsRecord(disk.config, Watches)
  BY DEF UpgradeInv, WriteConfig, UpgradeTypes
<1>2. PICK w \in boot.todo : WritesConfig(w) /\ disk' = [disk EXCEPT !.config[w] = mem.watch[w].restock_settings]
  BY DEF WriteConfig
<1>3. mem.watch[w].restock_settings # "none"
  BY <1>2 DEF WritesConfig, MovesSettings
<1>4. /\ IsRecord(disk', {"legacy", "settings", "watch", "tag", "config"}) /\ IsRecord(disk'.config, Watches)
      /\ disk'.legacy = disk.legacy /\ disk'.settings = disk.settings /\ disk'.watch = disk.watch /\ disk'.tag = disk.tag
      /\ \A x \in Watches : disk'.config[x] = "none" => disk.config[x] = "none"
  BY <1>1, <1>2, <1>3 DEF IsRecord
<1>5. /\ Version' = Version /\ Interrupted' = Interrupted /\ WatchesRetried' = WatchesRetried /\ TagsRetried' = TagsRetried
      /\ Awake' = Awake /\ Loaded' = Loaded /\ Final' = Final /\ (\A j : At(j)' = At(j)) /\ \A x : Level(x)' = Level(x)
  BY <1>1, <1>4 DEF Version, Interrupted, WatchesRetried, TagsRetried, Awake, Loaded, Final, At, Level
<1>6. UpgradeTypes'
  BY <1>1, <1>4 DEF UpgradeTypes
<1>7. Progress'
  BY <1>1, <1>5 DEF Progress
<1>8. Base'
  BY <1>1 DEF Base
<1>9. Old'
  <2>1. Unmoved => Unmoved'
    BY <1>1, <1>4, <1>5 DEF Unmoved, At
  <2> QED
    BY <1>1, <1>5, <2>1 DEF Old
<1>10. Whole'
  <2>1. boot.pc = "saving" /\ Awake
    BY DEF WriteConfig, Awake
  <2> QED
    BY <1>1, <1>4, <1>5, <2>1 DEF Whole
<1>11. Alike'
  BY <1>1, <1>4, <1>5 DEF Alike
<1>12. Moved'
  BY <1>1, <1>4, <1>5 DEF Moved
<1>13. Grouped'
  BY <1>1, <1>4, <1>5 DEF Grouped
<1> QED
  BY <1>6, <1>7, <1>8, <1>9, <1>10, <1>11, <1>12, <1>13 DEF UpgradeInv

LEMMA StepConfigTags == ASSUME UpgradeInv, ConfigTags PROVE UpgradeInv'
<1>1. /\ UpgradeTypes /\ Progress /\ Base /\ Old /\ Whole /\ Alike /\ Moved /\ Grouped
      /\ original' = original /\ crashes' = crashes /\ boot' = boot /\ failures' = failures /\ missed' = missed
      /\ boot.pc = "saving" /\ boot.n = 30 /\ boot.todo = {}
      /\ IsRecord(disk, {"legacy", "settings", "watch", "tag", "config"}) /\ IsTagMap(disk.tag)
      /\ IsDatastore(mem)
  BY DEF UpgradeInv, ConfigTags, UpgradeTypes
<1>2. PICK t \in DOMAIN mem.tag :
        /\ mem' = [mem EXCEPT !.tag[t] = Update30Tag(@)]
        /\ disk' = [disk EXCEPT !.tag = Put(@, t, Update30Tag(mem.tag[t]))]
  BY DEF ConfigTags
<1> DEFINE v == Update30Tag(mem.tag[t])
<1>3. /\ IsTagMap(mem.tag) /\ IsTag(mem.tag[t]) /\ IsRecord(mem, {"watch", "app", "tag"})
      /\ IsWatchMap(mem.watch) /\ IsApp(mem.app)
  BY <1>1 DEF IsDatastore, IsTagMap
<1>4. IsTag(v)
  BY <1>3, ConfigIs
<1>5. /\ IsRecord(disk', {"legacy", "settings", "watch", "tag", "config"}) /\ IsTagMap(disk'.tag)
      /\ disk'.legacy = disk.legacy /\ disk'.settings = disk.settings /\ disk'.watch = disk.watch /\ disk'.config = disk.config
      /\ DOMAIN disk.tag \subseteq DOMAIN disk'.tag
  <2> DEFINE h == Put(disk.tag, t, v)
  <2>1. IsTagMap(h) /\ DOMAIN h = DOMAIN disk.tag \cup {t}
    <3>1. IsTagMap(disk.tag)
      BY <1>1
    <3> HIDE DEF v
    <3>2. IsTagMap(h)
      BY <1>4, <3>1, PutTag
    <3>3. DOMAIN h = DOMAIN disk.tag \cup {t}
      BY PutIs
    <3> QED
      BY <3>2, <3>3
  <2>2. disk' = [disk EXCEPT !.tag = h]
    BY <1>2
  <2> HIDE DEF h
  <2> QED
    BY <1>1, <2>1, <2>2 DEF IsRecord
<1>6. IsDatastore(mem') /\ DOMAIN mem'.tag = DOMAIN mem.tag /\ mem'.watch = mem.watch
  <2> DEFINE g == [mem.tag EXCEPT ![t] = v]
  <2>1. mem' = [mem EXCEPT !.tag = g]
    BY <1>2
  <2>2. IsTagMap(g) /\ DOMAIN g = DOMAIN mem.tag
    <3> HIDE DEF v
    <3> QED
      BY <1>3, <1>4 DEF IsTagMap, IsRecord
  <2> HIDE DEF g
  <2> QED
    BY <1>3, <2>1, <2>2 DEF IsDatastore, IsRecord
<1>7. /\ Version' = Version /\ Interrupted' = Interrupted /\ WatchesRetried' = WatchesRetried /\ TagsRetried' = TagsRetried
      /\ Awake' /\ Awake /\ Final' = Final /\ (\A j : At(j)' = At(j)) /\ \A x : Level(x)' = Level(x)
  BY <1>1, <1>5 DEF Version, Interrupted, WatchesRetried, TagsRetried, Awake, Final, At, Level
<1>8. UpgradeTypes'
  BY <1>1, <1>5, <1>6 DEF UpgradeTypes
<1>9. Progress'
  BY <1>1, <1>7 DEF Progress
<1>10. Base'
  BY <1>1 DEF Base
<1>11. Old'
  <2>1. WatchesRetried => Version >= 26
    BY <1>1, <1>7, Late
  <2> QED
    BY <1>1, <1>7, <2>1 DEF Old, UpgradeTypes, Version
<1>12. Whole'
  BY <1>1, <1>5, <1>6, <1>7 DEF Whole
<1>13. Alike'
  BY <1>1, <1>5, <1>6, <1>7 DEF Alike
<1>14. Moved'
  BY <1>1, <1>5, <1>6, <1>7 DEF Moved
<1>15. Grouped'
  BY <1>1, <1>5, <1>6, <1>7 DEF Grouped
<1> QED
  BY <1>8, <1>9, <1>10, <1>11, <1>12, <1>13, <1>14, <1>15 DEF UpgradeInv

\* Update 30: the settings leave the watch, in memory and in its file.
LEMMA StepDropSettings == ASSUME UpgradeInv, DropSettings PROVE UpgradeInv'
<1>1. /\ UpgradeTypes /\ Progress /\ Base /\ Old /\ Whole /\ Alike /\ Moved /\ Grouped
      /\ boot.pc = "saving" /\ boot.n = 30 /\ original' = original /\ crashes' = crashes
      /\ Version \in -1 .. 33 /\ original.schema \in 0 .. 33 /\ IsDatastore(mem) /\ crashes \in Nat /\ failures \in Nat
      /\ IsWatchMap(disk.watch)
  BY DEF UpgradeInv, DropSettings, UpgradeTypes, Version
<1>2. PICK w \in boot.todo :
        /\ MayDrop(w)
        /\ mem' = [mem EXCEPT !.watch[w] = Dropped(@)]
        /\ Done(w)
        /\ IF MovesSettings(mem.watch[w]) THEN CommitsWatch(w, Dropped(mem.watch[w])) ELSE UNCHANGED <<disk, failures, missed>>
  BY DEF DropSettings
<1> DEFINE x == mem.watch[w]
           v == Dropped(x)
<1>3. w \in DOMAIN mem.watch /\ w \in Watches /\ IsWatch(x) /\ IsRecord(mem.watch, DOMAIN mem.watch)
      /\ IsRecord(mem, {"watch", "app", "tag"}) /\ IsApp(mem.app) /\ IsTagMap(mem.tag) /\ IsWatchMap(mem.watch)
  BY <1>1, <1>2 DEF Progress, IsDatastore, IsWatchMap
<1>4. OneWatch(x, v) /\ (~MovesSettings(x) => v = x)
  BY <1>3, DroppedIs
<1>5. IsDatastore(mem') /\ DOMAIN mem'.watch = DOMAIN mem.watch /\ mem'.tag = mem.tag /\ mem'.watch[w] = v
      /\ \A y \in DOMAIN mem.watch \ {w} : mem'.watch[y] = mem.watch[y]
  <2> DEFINE g == [mem.watch EXCEPT ![w] = v]
  <2>1. mem' = [mem EXCEPT !.watch = g]
    BY <1>2
  <2>2. IsWatchMap(g) /\ DOMAIN g = DOMAIN mem.watch /\ g[w] = v /\ \A y \in DOMAIN mem.watch \ {w} : g[y] = mem.watch[y]
    <3> HIDE DEF v
    <3>1. IsWatch(v)
      BY <1>4 DEF OneWatch
    <3> QED
      BY <1>3, <3>1 DEF IsWatchMap, IsRecord
  <2> HIDE DEF g
  <2> QED
    BY <1>3, <2>1, <2>2 DEF IsDatastore, IsRecord
<1>6. /\ boot' = [pc |-> "saving", n |-> boot.n, todo |-> boot.todo \ {w}, legacy |-> boot.legacy] /\ Awake' /\ Awake
      /\ boot' \in [pc : {"off", "next", "saving", "running"}, n : 0 .. 33, todo : SUBSET (Watches \cup DOMAIN mem.tag), legacy : BOOLEAN]
  BY <1>1, <1>2, DoneIs
\* What the save comes to.
<1>7. \/ Committed(w, v)
      \/ v = x /\ UNCHANGED <<disk, failures, missed>>
  BY <1>1, <1>2, <1>3, <1>4, CommitIs DEF OneWatch
<1>8. /\ IsRecord(disk', {"legacy", "settings", "watch", "tag", "config"}) /\ IsWatchMap(disk'.watch)
      /\ disk'.legacy = disk.legacy /\ disk'.settings = disk.settings /\ disk'.tag = disk.tag /\ disk'.config = disk.config
      /\ missed \subseteq missed' /\ failures' \in Nat /\ failures' >= failures
      /\ DOMAIN disk.watch \subseteq DOMAIN disk'.watch
      /\ \A y \in DOMAIN disk.watch \ {w} : disk'.watch[y] = disk.watch[y]
      /\ \/ w \in missed'
         \/ disk'.watch[w] = v
         \/ v = x /\ disk'.watch = disk.watch
  <2>1. CASE Committed(w, v)
    BY <1>1, <2>1 DEF Committed
  <2>2. CASE v = x /\ UNCHANGED <<disk, failures, missed>>
    BY <1>1, <2>2 DEF UpgradeTypes
  <2> QED
    BY <1>7, <2>1, <2>2
<1>9. Version' = Version
  BY <1>8 DEF Version
<1>10. /\ Interrupted => Interrupted'
       /\ WatchesRetried' => WatchesRetried
       /\ TagsRetried' => TagsRetried
       /\ Final' = Final /\ \A j : At(j)' = At(j)
  BY <1>1, <1>8, Later
<1>11. UpgradeTypes'
  BY <1>1, <1>5, <1>6, <1>8 DEF UpgradeTypes
<1>12. Progress'
  <2>1. boot'.pc = "saving" /\ boot'.n = 30 /\ boot'.todo \subseteq boot.todo
    BY <1>1, <1>6
  <2> QED
    BY <1>1, <1>5, <1>6, <1>9, <2>1 DEF Progress
<1>13. Base'
  BY <1>1 DEF Base
<1>14. WatchesRetried => Version >= 26 /\ DOMAIN disk.watch = Watches /\ DOMAIN mem.watch = Watches
  BY <1>1, <1>6, Late DEF Whole
<1>15. Old'
  BY <1>1, <1>9, <1>10, <1>14 DEF Old
<1>16. Whole'
  <2>1. WatchesRetried' => DOMAIN disk'.watch = Watches
    BY <1>8, <1>10, <1>14 DEF IsWatchMap
  <2> QED
    BY <1>1, <1>5, <1>6, <1>9, <1>10, <1>14, <2>1 DEF Whole
\* The other watches are as they were.
<1>17. (\A y \in Watches \ {w} : Level(y)' = Level(y)) /\ Level(w) = 30 - 1 /\ Level(w)' = 30
  BY <1>1, <1>2, <1>6 DEF Level
<1> DEFINE Right(y) ==
             /\ Left(Version, disk.watch[y]) = Final.watch[y] \/ Unpriced(disk.watch[y])
             /\ Unpriced(disk.watch[y]) <=> Unpriced(original.d.watch[y])
             /\ Reached(Version, disk.watch[y])
             /\ mem.watch[y] = disk.watch[y]
             /\ Reached(Level(y), mem.watch[y])
             /\ Left(Level(y), mem.watch[y]) = Final.watch[y] \/ (Interrupted /\ Unpriced(mem.watch[y]))
<1>18. ASSUME WatchesRetried, NEW y \in Watches \ missed PROVE Right(y)
  BY <1>1, <1>6, <1>14, <1>18 DEF Alike
<1>19. Version < 30
  BY <1>1 DEF Progress
<1>20. ASSUME WatchesRetried', w \notin missed' PROVE Right(w)'
  <2>1. WatchesRetried /\ w \in Watches \ missed
    BY <1>3, <1>8, <1>10, <1>20
  <2>2. Right(w)
    BY <1>18, <2>1
  <2>3. x = disk.watch[w] /\ disk'.watch[w] = v
    BY <1>8, <1>20, <2>2
  <2>4. ~MovesSettings(v) /\ Dropped(v) = v /\ (Unpriced(v) <=> Unpriced(x)) /\ v = Dropped(x)
    BY <1>3, <1>4, DroppedIs, UnpricedKept
  <2>5. Version \in 26 .. 29
    BY <1>1, <1>14, <1>19, <2>1
  <2>6. Left(Version, x) = Priced(v) /\ Left(Version, v) = Priced(v) /\ Left(29, x) = Priced(v) /\ Left(30, v) = Priced(v)
    <3> HIDE DEF v, x
    <3> QED
      BY <2>4, <2>5 DEF Left
  <2>7. Reached(Version, v) /\ Reached(30, v)
    <3> HIDE DEF v, x
    <3> QED
      BY <2>4, <2>5 DEF Reached
  <2>8. Level(w)' = 30 /\ Level(w) = 29
    BY <1>17
  <2>9. (Priced(v) = Final.watch[w] \/ Unpriced(v)) /\ (Unpriced(v) <=> Unpriced(original.d.watch[w]))
        /\ (Priced(v) = Final.watch[w] \/ (Interrupted /\ Unpriced(v)))
    BY <2>2, <2>3, <2>4, <2>6, <2>8
  <2> HIDE DEF v, x
  <2> QED
    BY <1>1, <1>5, <1>9, <1>10, <2>3, <2>6, <2>7, <2>8, <2>9
<1>21. ASSUME WatchesRetried', NEW y \in Watches \ missed' PROVE Right(y)'
  <2>1. WatchesRetried /\ y \in Watches \ missed /\ Right(y)
    BY <1>8, <1>10, <1>18, <1>21
  <2>2. CASE y = w
    BY <1>20, <1>21, <2>2
  <2>3. CASE y # w
    <3>1. disk'.watch[y] = disk.watch[y] /\ mem'.watch[y] = mem.watch[y] /\ Level(y)' = Level(y)
      BY <1>5, <1>8, <1>14, <1>17, <2>1, <2>3
    <3> QED
      BY <1>1, <1>9, <1>10, <2>1, <3>1
  <2> QED
    BY <2>2, <2>3
<1>22. Alike'
  BY <1>21 DEF Alike
<1>23. Moved'
  <2>1. SUFFICES ASSUME WatchesRetried', NEW y \in Watches, original'.d.watch[y].processor = "restock_diff", disk'.config[y] = "none"
                 PROVE  (Version < 30 /\ MovesSettings(disk.watch[y]) /\ Level(y) < 30 /\ MovesSettings(mem.watch[y]))'
    BY DEF Moved
  <2>2. Version < 30 /\ MovesSettings(disk.watch[y]) /\ Level(y) < 30 /\ MovesSettings(mem.watch[y])
    BY <1>1, <1>6, <1>8, <1>10, <1>14, <2>1 DEF Moved
  <2>3. y # w
    BY <1>2, <1>8, <2>1, <2>2 DEF MayDrop, WritesConfig
  <2>4. disk'.watch[y] = disk.watch[y] /\ mem'.watch[y] = mem.watch[y] /\ Level(y)' = Level(y)
    BY <1>5, <1>8, <1>10, <1>14, <1>17, <2>1, <2>3
  <2> QED
    BY <1>9, <2>2, <2>4
<1>24. Grouped'
  BY <1>1, <1>5, <1>6, <1>8, <1>9, <1>10 DEF Grouped
<1> QED
  BY <1>11, <1>12, <1>13, <1>15, <1>16, <1>22, <1>23, <1>24 DEF UpgradeInv

\* Update 33, watch by watch.
LEMMA StepSavePrices == ASSUME UpgradeInv, SavePrices PROVE UpgradeInv'
<1>1. /\ UpgradeTypes /\ Progress /\ Base /\ Old /\ Whole /\ Alike /\ Moved /\ Grouped
      /\ boot.pc = "saving" /\ boot.n = 33 /\ original' = original /\ crashes' = crashes
      /\ Version \in -1 .. 33 /\ original.schema \in 0 .. 33 /\ IsDatastore(mem) /\ crashes \in Nat /\ failures \in Nat
      /\ IsWatchMap(disk.watch)
  BY DEF UpgradeInv, SavePrices, UpgradeTypes, Version
<1>2. PICK w \in boot.todo :
        /\ mem' = [mem EXCEPT !.watch[w] = Priced(@)]
        /\ Done(w)
        /\ IF mem.watch[w].processor = "restock_diff" THEN CommitsWatch(w, Priced(mem.watch[w]))
           ELSE UNCHANGED <<disk, failures, missed>>
  BY DEF SavePrices
<1> DEFINE x == mem.watch[w]
           v == Priced(x)
<1>3. w \in DOMAIN mem.watch /\ w \in Watches /\ IsWatch(x) /\ IsRecord(mem.watch, DOMAIN mem.watch)
      /\ IsRecord(mem, {"watch", "app", "tag"}) /\ IsApp(mem.app) /\ IsTagMap(mem.tag) /\ IsWatchMap(mem.watch)
  BY <1>1, <1>2 DEF Progress, IsDatastore, IsWatchMap
<1>4. OneWatch(x, v) /\ (x.processor # "restock_diff" => v = x)
  BY <1>3, PricedIs DEF Priced, SameWatch, OneWatch
<1>5. IsDatastore(mem') /\ DOMAIN mem'.watch = DOMAIN mem.watch /\ mem'.tag = mem.tag /\ mem'.watch[w] = v
      /\ \A y \in DOMAIN mem.watch \ {w} : mem'.watch[y] = mem.watch[y]
  <2> DEFINE g == [mem.watch EXCEPT ![w] = v]
  <2>1. mem' = [mem EXCEPT !.watch = g]
    BY <1>2
  <2>2. IsWatchMap(g) /\ DOMAIN g = DOMAIN mem.watch /\ g[w] = v /\ \A y \in DOMAIN mem.watch \ {w} : g[y] = mem.watch[y]
    <3> HIDE DEF v
    <3>1. IsWatch(v)
      BY <1>4 DEF OneWatch
    <3> QED
      BY <1>3, <3>1 DEF IsWatchMap, IsRecord
  <2> HIDE DEF g
  <2> QED
    BY <1>3, <2>1, <2>2 DEF IsDatastore, IsRecord
<1>6. /\ boot' = [pc |-> "saving", n |-> boot.n, todo |-> boot.todo \ {w}, legacy |-> boot.legacy] /\ Awake' /\ Awake
      /\ boot' \in [pc : {"off", "next", "saving", "running"}, n : 0 .. 33, todo : SUBSET (Watches \cup DOMAIN mem.tag), legacy : BOOLEAN]
  BY <1>1, <1>2, DoneIs
\* What the save comes to.
<1>7. \/ Committed(w, v)
      \/ v = x /\ UNCHANGED <<disk, failures, missed>>
  BY <1>1, <1>2, <1>3, <1>4, CommitIs DEF OneWatch
<1>8. /\ IsRecord(disk', {"legacy", "settings", "watch", "tag", "config"}) /\ IsWatchMap(disk'.watch)
      /\ disk'.legacy = disk.legacy /\ disk'.settings = disk.settings /\ disk'.tag = disk.tag /\ disk'.config = disk.config
      /\ missed \subseteq missed' /\ failures' \in Nat /\ failures' >= failures
      /\ DOMAIN disk.watch \subseteq DOMAIN disk'.watch
      /\ \A y \in DOMAIN disk.watch \ {w} : disk'.watch[y] = disk.watch[y]
      /\ \/ w \in missed'
         \/ disk'.watch[w] = v
         \/ v = x /\ disk'.watch = disk.watch
  <2>1. CASE Committed(w, v)
    BY <1>1, <2>1 DEF Committed
  <2>2. CASE v = x /\ UNCHANGED <<disk, failures, missed>>
    BY <1>1, <2>2 DEF UpgradeTypes
  <2> QED
    BY <1>7, <2>1, <2>2
<1>9. Version' = Version
  BY <1>8 DEF Version
<1>10. /\ Interrupted => Interrupted'
       /\ WatchesRetried' => WatchesRetried
       /\ TagsRetried' => TagsRetried
       /\ Final' = Final /\ \A j : At(j)' = At(j)
  BY <1>1, <1>8, Later
<1>11. UpgradeTypes'
  BY <1>1, <1>5, <1>6, <1>8 DEF UpgradeTypes
<1>12. Progress'
  <2>1. boot'.pc = "saving" /\ boot'.n = 33 /\ boot'.todo \subseteq boot.todo
    BY <1>1, <1>6
  <2> QED
    BY <1>1, <1>5, <1>6, <1>9, <2>1 DEF Progress
<1>13. Base'
  BY <1>1 DEF Base
<1>14. WatchesRetried => Version >= 26 /\ DOMAIN disk.watch = Watches /\ DOMAIN mem.watch = Watches
  BY <1>1, <1>6, Late DEF Whole
<1>15. Old'
  BY <1>1, <1>9, <1>10, <1>14 DEF Old
<1>16. Whole'
  <2>1. WatchesRetried' => DOMAIN disk'.watch = Watches
    BY <1>8, <1>10, <1>14 DEF IsWatchMap
  <2> QED
    BY <1>1, <1>5, <1>6, <1>9, <1>10, <1>14, <2>1 DEF Whole
\* The other watches are as they were.
<1>17. (\A y \in Watches \ {w} : Level(y)' = Level(y)) /\ Level(w) = 33 - 1 /\ Level(w)' = 33
  BY <1>1, <1>2, <1>6 DEF Level
<1> DEFINE Right(y) ==
             /\ Left(Version, disk.watch[y]) = Final.watch[y] \/ Unpriced(disk.watch[y])
             /\ Unpriced(disk.watch[y]) <=> Unpriced(original.d.watch[y])
             /\ Reached(Version, disk.watch[y])
             /\ mem.watch[y] = disk.watch[y]
             /\ Reached(Level(y), mem.watch[y])
             /\ Left(Level(y), mem.watch[y]) = Final.watch[y] \/ (Interrupted /\ Unpriced(mem.watch[y]))
<1>18. ASSUME WatchesRetried, NEW y \in Watches \ missed PROVE Right(y)
  BY <1>1, <1>6, <1>14, <1>18 DEF Alike
<1>19. Version < 33
  BY <1>1 DEF Progress
<1>20. ASSUME WatchesRetried', w \notin missed' PROVE Right(w)'
  <2>1. WatchesRetried /\ w \in Watches \ missed
    BY <1>3, <1>8, <1>10, <1>20
  <2>2. Right(w)
    BY <1>18, <2>1
  <2>3. x = disk.watch[w] /\ disk'.watch[w] = v
    BY <1>8, <1>20, <2>2
  <2>4. SameWatch(x, v) /\ (Priced(v) = v \/ Unpriced(x)) /\ v = Priced(x) /\ (Unpriced(v) <=> Unpriced(x))
    BY <1>3, <1>4, PricedIs, UnpricedKept
  <2>5. Version \in 26 .. 32
    BY <1>1, <1>14, <1>19, <2>1
  <2>6. Level(w)' = 33 /\ Level(w) = 32
    BY <1>17
  <2>7. ~MovesSettings(x)
    BY <2>2, <2>6 DEF Reached
  <2>8. ~MovesSettings(v) /\ Dropped(v) = v
    BY <2>4, <2>7 DEF SameWatch, MovesSettings, Dropped
  <2>9. Left(32, x) = v /\ Left(33, v) = v /\ (Left(Version, v) = v \/ Unpriced(v))
    <3> HIDE DEF v, x
    <3> QED
      BY <2>4, <2>5, <2>8 DEF Left
  <2>10. Reached(Version, v) /\ Reached(33, v)
    <3> HIDE DEF v, x
    <3> QED
      BY <2>4, <2>5, <2>8 DEF Reached
  <2>11. (v = Final.watch[w] \/ (Interrupted /\ Unpriced(v))) /\ (Unpriced(v) <=> Unpriced(original.d.watch[w]))
    BY <2>2, <2>3, <2>4, <2>6, <2>9
  <2> HIDE DEF v, x
  <2> QED
    BY <1>1, <1>5, <1>9, <1>10, <2>3, <2>6, <2>9, <2>10, <2>11
<1>21. ASSUME WatchesRetried', NEW y \in Watches \ missed' PROVE Right(y)'
  <2>1. WatchesRetried /\ y \in Watches \ missed /\ Right(y)
    BY <1>8, <1>10, <1>18, <1>21
  <2>2. CASE y = w
    BY <1>20, <1>21, <2>2
  <2>3. CASE y # w
    <3>1. disk'.watch[y] = disk.watch[y] /\ mem'.watch[y] = mem.watch[y] /\ Level(y)' = Level(y)
      BY <1>5, <1>8, <1>14, <1>17, <2>1, <2>3
    <3> QED
      BY <1>1, <1>9, <1>10, <2>1, <3>1
  <2> QED
    BY <2>2, <2>3
<1>22. Alike'
  BY <1>21 DEF Alike
<1>23. Moved'
  <2>1. SUFFICES ASSUME WatchesRetried', NEW y \in Watches, original'.d.watch[y].processor = "restock_diff", disk'.config[y] = "none"
                 PROVE  (Version < 30 /\ MovesSettings(disk.watch[y]) /\ Level(y) < 30 /\ MovesSettings(mem.watch[y]))'
    BY DEF Moved
  <2>2. Version < 30 /\ MovesSettings(disk.watch[y]) /\ Level(y) < 30 /\ MovesSettings(mem.watch[y])
    BY <1>1, <1>6, <1>8, <1>10, <1>14, <2>1 DEF Moved
  <2>3. Level(y) = 33 \/ Level(y) = 32
    <3>1. boot.n = 33 /\ boot.n - 1 = 32
      BY <1>1
    <3> QED
      BY <3>1 DEF Level
  <2>4. ~(Level(y) < 30)
    BY <2>3
  <2> QED
    BY <2>2, <2>4
<1>24. Grouped'
  BY <1>1, <1>5, <1>6, <1>8, <1>9, <1>10 DEF Grouped
<1> QED
  BY <1>11, <1>12, <1>13, <1>15, <1>16, <1>22, <1>23, <1>24 DEF UpgradeInv

\* The settings that are saved at the end of an update, or not.
Bumped ==
  /\ IsRecord(disk', {"legacy", "settings", "watch", "tag", "config"})
  /\ disk'.legacy = disk.legacy /\ disk'.watch = disk.watch /\ disk'.tag = disk.tag /\ disk'.config = disk.config
  /\ failures' \in Nat /\ failures' >= failures
  /\ \/ disk'.settings = [schema |-> boot.n, app |-> mem.app, tag |-> << >>] /\ failures' = failures
     \/ disk'.settings = disk.settings /\ boot.n # 26 /\ failures' = failures + 1

LEMMA BumpIs == ASSUME UpgradeTypes, Bump PROVE Bumped
<1>1. IsRecord(disk, {"legacy", "settings", "watch", "tag", "config"}) /\ failures \in Nat
  BY DEF UpgradeTypes
<1>2. CASE disk' = [disk EXCEPT !.settings = [schema |-> boot.n, app |-> mem.app, tag |-> << >>]] /\ UNCHANGED failures
  <2> DEFINE s == [schema |-> boot.n, app |-> mem.app, tag |-> << >>]
  <2>1. disk' = [disk EXCEPT !.settings = s]
    BY <1>2
  <2> HIDE DEF s
  <2>2. /\ IsRecord(disk', {"legacy", "settings", "watch", "tag", "config"})
        /\ disk'.legacy = disk.legacy /\ disk'.watch = disk.watch /\ disk'.tag = disk.tag /\ disk'.config = disk.config
        /\ disk'.settings = s
    BY <1>1, <2>1 DEF IsRecord
  <2> QED
    BY <1>1, <1>2, <2>2 DEF Bumped, s
<1>3. CASE boot.n # 26 /\ failures' = failures + 1 /\ UNCHANGED disk
  BY <1>1, <1>3 DEF Bumped
<1> QED
  BY <1>2, <1>3 DEF Bump

\* The version moves only when nothing is left to do, so the files are as far as it says.
LEMMA StepBump == ASSUME UpgradeInv, Bump PROVE UpgradeInv'
<1>1. /\ UpgradeTypes /\ Progress /\ Base /\ Old /\ Whole /\ Alike /\ Moved /\ Grouped
      /\ boot.pc = "saving" /\ Finished /\ original' = original /\ mem' = mem /\ crashes' = crashes /\ missed' = missed
      /\ boot' = [boot EXCEPT !.pc = "next"]
      /\ Version \in -1 .. 33 /\ original.schema \in 0 .. 33 /\ IsDatastore(mem) /\ crashes \in Nat /\ failures \in Nat
      /\ original.kind \in {"legacy", "split"}
  <2>1. UpgradeTypes /\ Progress /\ Base /\ Old /\ Whole /\ Alike /\ Moved /\ Grouped
    BY DEF UpgradeInv
  <2>2. /\ Version \in -1 .. 33 /\ original.schema \in 0 .. 33 /\ IsDatastore(mem) /\ crashes \in Nat /\ failures \in Nat
        /\ original.kind \in {"legacy", "split"}
    BY <2>1 DEF UpgradeTypes, Version
  <2> QED
    BY <2>1, <2>2 DEF Bump
<1>2. Bumped
  BY <1>1, BumpIs
<1>3. /\ boot.todo = {}
      /\ boot.n = 26 => DOMAIN mem.watch \subseteq DOMAIN disk.watch
  BY <1>1 DEF Finished
<1>4. /\ boot \in [pc : {"off", "next", "saving", "running"}, n : 0 .. 33, todo : SUBSET (Watches \cup DOMAIN mem.tag), legacy : BOOLEAN]
      /\ boot.n \in 0 .. 33
  BY <1>1 DEF UpgradeTypes
<1>5. /\ boot' = [pc |-> "next", n |-> boot.n, todo |-> {}, legacy |-> boot.legacy]
      /\ boot' \in [pc : {"off", "next", "saving", "running"}, n : 0 .. 33, todo : SUBSET (Watches \cup DOMAIN mem.tag), legacy : BOOLEAN]
  BY <1>1, <1>3, <1>4
<1>6. Awake /\ Awake' /\ boot'.pc = "next" /\ boot'.n = boot.n /\ boot'.todo = {} /\ boot'.legacy = boot.legacy
      /\ (\A w : Level(w) = boot.n /\ Level(w)' = boot.n)
  BY <1>1, <1>3, <1>5 DEF Awake, Level
<1>7. /\ Interrupted => Interrupted'
      /\ WatchesRetried' => WatchesRetried
      /\ TagsRetried' => TagsRetried
      /\ Final' = Final /\ \A j : At(j)' = At(j)
  BY <1>1, <1>2, Later DEF Bumped
\* The version on disk is the update's, or what it was.
<1>8. \/ Version' = boot.n /\ disk'.settings.tag = << >> /\ disk'.settings.app = mem.app /\ failures' = failures
      \/ Version' = Version /\ disk'.settings = disk.settings /\ boot.n # 26 /\ failures' = failures + 1
  BY <1>2 DEF Bumped, Version
<1>9. /\ disk'.legacy = disk.legacy /\ disk'.watch = disk.watch /\ disk'.tag = disk.tag /\ disk'.config = disk.config
      /\ IsRecord(disk', {"legacy", "settings", "watch", "tag", "config"})
      /\ failures' \in Nat
  BY <1>2 DEF Bumped
<1>10. Version < boot.n /\ boot.n > original.schema /\ boot.n \in Available /\ boot.n >= original.schema
  BY <1>1, <1>6 DEF Progress
<1>11. UpgradeTypes'
  <2>1. /\ IsRecord(disk'.settings, {"schema", "app", "tag"}) /\ disk'.settings.schema \in -1 .. 33
        /\ IsApp(disk'.settings.app) /\ IsTagMap(disk'.settings.tag)
    <3>1. CASE disk'.settings = [schema |-> boot.n, app |-> mem.app, tag |-> << >>]
      <4>1. IsApp(mem.app)
        BY <1>1 DEF IsDatastore
      <4>2. IsRecord(disk'.settings, {"schema", "app", "tag"}) /\ disk'.settings.schema = boot.n /\ disk'.settings.app = mem.app
            /\ disk'.settings.tag = << >>
        BY <3>1 DEF IsRecord
      <4> QED
        BY <1>4, <4>1, <4>2, NoMap
    <3>2. CASE disk'.settings = disk.settings
      BY <1>1, <3>2 DEF UpgradeTypes
    <3> QED
      BY <1>2, <3>1, <3>2 DEF Bumped
  <2> QED
    BY <1>1, <1>5, <1>9, <2>1 DEF UpgradeTypes
<1>12. Version' \in -1 .. 33 /\ Version' <= boot.n /\ Version' >= Version
  <2>1. CASE Version' = boot.n
    BY <1>1, <1>4, <1>10, <2>1
  <2>2. CASE Version' = Version
    BY <1>1, <1>4, <1>10, <2>2
  <2> QED
    BY <1>8, <2>1, <2>2
<1>13. Progress'
  <2>1. IF original.kind = "split" THEN Version' >= original.schema ELSE Version' = -1 \/ Version' > original.schema
    <3>1. CASE Version' = boot.n
      BY <1>4, <1>10, <3>1
    <3>2. CASE Version' = Version
      BY <1>1, <3>2 DEF Progress
    <3> QED
      BY <1>8, <3>1, <3>2
  <2> QED
    BY <1>1, <1>6, <1>10, <1>12, <2>1 DEF Progress
<1>14. Base'
  BY <1>1 DEF Base
\* What is not moved to the new format yet is so still, but for update 26.
<1>15. ASSUME WatchesRetried, Version < 26
       PROVE  /\ original.kind = "legacy" /\ (\A w \in DOMAIN disk.watch : disk.watch[w] = At(25).watch[w])
              /\ disk.tag = << >> /\ boot.legacy /\ boot.n \in original.schema .. 26 /\ mem = At(boot.n)
              /\ DOMAIN disk.watch # {} /\ ~Interrupted => boot.n = 26
  BY <1>1, <1>6, <1>15 DEF Old, Unmoved
<1>16. Old'
  <2>1. SUFFICES ASSUME WatchesRetried', Version' < 26 PROVE Unmoved'
    BY DEF Old
  <2>2. WatchesRetried /\ Version < 26
    BY <1>1, <1>7, <1>12, <2>1
  <2>3. boot.n # 26
    BY <1>8, <2>1
  <2>4. Loaded'
    BY <1>6 DEF Loaded
  <2>5. \A w \in DOMAIN disk'.watch : disk'.watch[w] = At(25)'.watch[w]
    BY <1>7, <1>9, <1>15, <2>2
  <2>6. mem' = At(boot.n)'
    BY <1>1, <1>6, <1>7, <1>15, <2>2 DEF At
  <2>7. DOMAIN disk'.watch # {} /\ ~Interrupted' => boot'.n = 26
    BY <1>6, <1>7, <1>9, <1>15, <2>2
  <2>8. boot'.n \in original'.schema .. 26
    BY <1>1, <1>6, <1>15, <2>2
  <2> QED
    BY <1>1, <1>6, <1>9, <1>15, <2>2, <2>3, <2>4, <2>5, <2>6, <2>7, <2>8 DEF Unmoved
<1>17. ASSUME WatchesRetried, Version < 26, Version' >= 26
       PROVE  /\ boot.n = 26 /\ Version' = 26 /\ DOMAIN disk.watch = Watches /\ DOMAIN mem.watch = Watches
              /\ \A w \in Watches : disk.watch[w] = mem.watch[w] /\ mem.watch[w] = At(26).watch[w]
              /\ original.schema <= 25 /\ At(26) = At(25) /\ At(25) = mem /\ original.kind = "legacy"
  <2>1. Version' = boot.n
    <3>1. Version' # Version
      BY <1>1, <1>12, <1>17
    <3> QED
      BY <1>8, <3>1
  <2>2. boot.n = 26
    BY <1>4, <1>15, <1>17, <2>1
  <2>3. original.schema <= 25
    BY <1>1, <1>10, <2>2
  <2>4. DOMAIN mem.watch = Watches
    BY <1>1, <1>6, <1>17 DEF Whole
  <2>5. DOMAIN disk.watch \subseteq Watches
    BY <1>1 DEF UpgradeTypes, IsWatchMap
  <2>6. At(26) = At(25)
    BY <1>1, <2>3, At26
  <2>7. mem = At(26)
    BY <1>15, <1>17, <2>2
  <2> QED
    BY <1>3, <1>15, <1>17, <2>1, <2>2, <2>3, <2>4, <2>5, <2>6, <2>7
<1>18. Whole'
  <2>1. WatchesRetried' /\ Version' >= 26 => DOMAIN disk'.watch = Watches
    <3>1. SUFFICES ASSUME WatchesRetried', Version' >= 26 PROVE DOMAIN disk.watch = Watches
      BY <1>9
    <3>2. CASE Version >= 26
      BY <1>1, <1>7, <3>1, <3>2 DEF Whole
    <3>3. CASE Version < 26
      BY <1>7, <1>17, <3>1, <3>3
    <3> QED
      BY <1>1, <3>2, <3>3
  <2> QED
    BY <1>1, <1>6, <1>7, <2>1 DEF Whole
<1> DEFINE Right(y) ==
             /\ Left(Version, disk.watch[y]) = Final.watch[y] \/ Unpriced(disk.watch[y])
             /\ Unpriced(disk.watch[y]) <=> Unpriced(original.d.watch[y])
             /\ Reached(Version, disk.watch[y])
             /\ mem.watch[y] = disk.watch[y]
             /\ Reached(boot.n, mem.watch[y])
             /\ Left(boot.n, mem.watch[y]) = Final.watch[y] \/ (Interrupted /\ Unpriced(mem.watch[y]))
<1>19. ASSUME WatchesRetried, Version >= 26, NEW y \in Watches \ missed PROVE Right(y)
  BY <1>1, <1>6, <1>19 DEF Alike
<1>20. ASSUME WatchesRetried', Version' >= 26, NEW y \in Watches \ missed
       PROVE  Right(y)'
  <2>1. WatchesRetried
    BY <1>7, <1>20
  <2>2. CASE Version >= 26
    <3>1. Right(y)
      BY <1>19, <1>20, <2>1, <2>2
    <3>2. CASE Version' = Version
      BY <1>1, <1>6, <1>7, <1>9, <3>1, <3>2
    <3>3. CASE Version' = boot.n
      <4>1. Left(boot.n, mem.watch[y]) = Final.watch[y] \/ Unpriced(mem.watch[y])
        BY <3>1
      <4> QED
        BY <1>1, <1>6, <1>7, <1>9, <3>1, <3>3, <4>1
    <3> QED
      BY <1>8, <3>2, <3>3
  <2>3. CASE Version < 26
    <3> DEFINE o == At(26).watch[y]
    <3>1. /\ boot.n = 26 /\ Version' = 26 /\ disk.watch[y] = o /\ mem.watch[y] = o
          /\ original.schema <= 25
      BY <1>17, <1>20, <2>1, <2>3
    <3>2. Final.watch[y] = Left(26, o)
      BY <1>1, <1>20, <3>1, FinalFrom
    <3>3. Unpriced(o) <=> Unpriced(original.d.watch[y])
      <4>1. Within(original.d, At(26)) /\ y \in DOMAIN original.d.watch
        BY <1>1, <1>20, <3>1, AtIs DEF UpgradeTypes
      <4>2. OneWatch(original.d.watch[y], o)
        BY <4>1 DEF Within
      <4> QED
        BY <4>2, UnpricedKept DEF OneWatch
    <3> HIDE DEF o
    <3>4. Reached(26, o)
      BY DEF Reached
    <3> QED
      BY <1>1, <1>6, <1>7, <1>9, <3>1, <3>2, <3>3, <3>4
  <2> QED
    BY <1>1, <2>2, <2>3
<1>21. Alike'
  BY <1>1, <1>6, <1>20 DEF Alike
<1>22. Moved'
  <2>1. SUFFICES ASSUME WatchesRetried', Version' >= 26, NEW y \in Watches, original.d.watch[y].processor = "restock_diff",
                        disk.config[y] = "none"
                 PROVE  (Version < 30 /\ MovesSettings(disk.watch[y]) /\ Level(y) < 30 /\ MovesSettings(mem.watch[y]))'
    BY <1>1, <1>9 DEF Moved
  <2>2. WatchesRetried
    BY <1>7, <2>1
  <2>3. CASE Version >= 26
    <3>1. Version < 30 /\ MovesSettings(disk.watch[y]) /\ boot.n < 30 /\ MovesSettings(mem.watch[y])
      BY <1>1, <1>6, <2>1, <2>2, <2>3 DEF Moved
    <3>2. Version' < 30
      BY <1>4, <1>12, <3>1
    <3> QED
      BY <1>1, <1>6, <1>9, <3>1, <3>2
  <2>4. CASE Version < 26
    <3> DEFINE o == At(25).watch[y]
    <3>1. /\ boot.n = 26 /\ Version' = 26 /\ disk.watch[y] = o /\ mem.watch[y] = o
          /\ original.schema <= 25
      BY <1>17, <2>1, <2>2, <2>4
    <3>2. /\ DOMAIN At(25).watch = Watches /\ OneWatch(original.d.watch[y], o)
      <4>1. Within(original.d, At(25)) /\ y \in DOMAIN original.d.watch /\ DOMAIN At(25).watch = Watches
        BY <1>1, <2>1, <3>1, AtIs DEF UpgradeTypes
      <4> QED
        BY <4>1 DEF Within
    <3>3. HasRestock(At(25))
      <4>1. original.schema \in 0 .. 29 /\ 25 \in 18 .. 29 /\ IsDatastore(original.d) /\ DOMAIN original.d.watch = Watches
        BY <1>1, <3>1 DEF UpgradeTypes
      <4>2. original.schema >= 18 => HasRestock(original.d)
        BY <1>1, <4>1 DEF Base, HasRestock
      <4> QED
        BY <3>1, <4>1, <4>2, RestockStays DEF At
    <3>4. o.processor = "restock_diff"
      BY <2>1, <3>2 DEF OneWatch
    <3>5. MovesSettings(o)
      BY <3>2, <3>3, <3>4 DEF HasRestock, MovesSettings
    <3> HIDE DEF o
    <3> QED
      BY <1>1, <1>6, <1>9, <3>1, <3>5
  <2> QED
    BY <1>1, <2>3, <2>4
<1>23. Grouped'
  <2>1. SUFFICES ASSUME TagsRetried'
                 PROVE  LET owed == DOMAIN original.d.tag \ missed
                        IN  /\ owed \subseteq DOMAIN mem.tag
                            /\ Version' \in 26 .. 28 /\ original.kind = "split" => owed \subseteq DOMAIN disk'.settings.tag
                            /\ Version' >= 29 => owed \subseteq DOMAIN disk.tag
                            /\ boot.n >= 29 => owed \subseteq DOMAIN disk.tag
    BY <1>1, <1>6, <1>9 DEF Grouped
  <2> DEFINE owed == DOMAIN original.d.tag \ missed
  <2>2. TagsRetried
    BY <1>7, <2>1
  <2>3. /\ owed \subseteq DOMAIN mem.tag
        /\ Version \in 26 .. 28 /\ original.kind = "split" => owed \subseteq DOMAIN disk.settings.tag
        /\ Version >= 29 => owed \subseteq DOMAIN disk.tag
        /\ boot.n >= 29 => owed \subseteq DOMAIN disk.tag
    BY <1>1, <1>3, <1>6, <2>2 DEF Grouped
  <2> HIDE DEF owed
  <2>4. Version' >= 29 => owed \subseteq DOMAIN disk.tag
    <3>1. Version' >= 29 => boot.n >= 29
      BY <1>4, <1>12
    <3> QED
      BY <2>3, <3>1
  <2>5. ASSUME Version' \in 26 .. 28, original.kind = "split" PROVE owed \subseteq DOMAIN disk'.settings.tag
    <3>1. Version' # boot.n
      <4>1. original.schema \in 26 .. 33
        BY <1>1, <2>5 DEF UpgradeTypes
      <4>2. boot.n >= 29
        BY <1>4, <1>10, <4>1 DEF Available
      <4> QED
        BY <1>4, <2>5, <4>2
    <3>2. Version' = Version /\ disk'.settings = disk.settings
      BY <1>8, <3>1
    <3> QED
      BY <2>3, <2>5, <3>2
  <2> QED
    BY <2>3, <2>4, <2>5 DEF owed
<1> QED
  BY <1>11, <1>13, <1>14, <1>16, <1>18, <1>21, <1>22, <1>23 DEF UpgradeInv

\* What is read once more after an upgrade from the legacy file is what was in memory.
LEMMA StepRun == ASSUME UpgradeInv, Run PROVE UpgradeInv'
<1>1. UpgradeTypes /\ Progress /\ Base /\ Old /\ Whole /\ Alike /\ Moved /\ Grouped
  BY DEF UpgradeInv
<1>2. /\ boot.pc = "next" /\ NextUpdate(boot.n) = 34
      /\ boot' = [boot EXCEPT !.pc = "running"]
      /\ mem' = (IF boot.legacy THEN [LoadSplit EXCEPT !.watch = Over(@, mem.watch)] ELSE mem)
      /\ original' = original /\ disk' = disk /\ crashes' = crashes /\ failures' = failures /\ missed' = missed
  BY DEF Run
<1>3. /\ boot \in [pc : {"off", "next", "saving", "running"}, n : 0 .. 33, todo : SUBSET (Watches \cup DOMAIN mem.tag), legacy : BOOLEAN]
      /\ boot.todo = {} /\ original.schema \in 0 .. 33 /\ IsDatastore(mem) /\ IsWatchMap(disk.watch)
      /\ Version \in -1 .. 33
  BY <1>1, <1>2 DEF UpgradeTypes, Progress, Version
<1>4. boot.n = 33
  BY <1>2, <1>3, NextIs
<1>5. boot' = [pc |-> "running", n |-> 33, todo |-> {}, legacy |-> boot.legacy] /\ boot.legacy \in BOOLEAN
  BY <1>2, <1>3, <1>4
<1>6. /\ Version' = Version /\ Interrupted' = Interrupted /\ WatchesRetried' = WatchesRetried /\ TagsRetried' = TagsRetried
      /\ Awake /\ Awake' /\ (\A w : Level(w)' = 33 /\ Level(w) = 33) /\ Final' = Final
      /\ \A k : At(k)' = At(k)
  BY <1>2, <1>4, <1>5 DEF Version, Interrupted, WatchesRetried, TagsRetried, Awake, Level, Final, At
<1>7. WatchesRetried => Version >= 26 /\ DOMAIN disk.watch = Watches /\ DOMAIN mem.watch = Watches
  BY <1>1, <1>4, <1>6, Late DEF Whole, UpgradeInv
\* What is loaded once more.
<1>8. /\ IsDatastore(LoadSplit) /\ LoadSplit.watch = disk.watch
      /\ DOMAIN LoadSplit.tag = DOMAIN disk.tag \cup DOMAIN disk.settings.tag
  BY <1>1, LoadedIs
<1>9. ASSUME boot.legacy
      PROVE  /\ IsDatastore(mem') /\ mem'.watch = Over(disk.watch, mem.watch)
             /\ DOMAIN mem'.tag = DOMAIN disk.tag \cup DOMAIN disk.settings.tag
  <2> DEFINE f == Over(disk.watch, mem.watch)
             l == LoadSplit
  <2>1. mem' = [l EXCEPT !.watch = f]
    BY <1>2, <1>8, <1>9
  <2>2. IsWatchMap(f)
    BY <1>3, OverWatches DEF IsDatastore
  <2> HIDE DEF f, l
  <2>3. IsDatastore(l) /\ DOMAIN l.tag = DOMAIN disk.tag \cup DOMAIN disk.settings.tag
    BY <1>8 DEF l
  <2>4. mem'.watch = f /\ mem'.tag = l.tag /\ mem'.app = l.app /\ IsRecord(mem', {"watch", "app", "tag"})
    BY <2>1, <2>3 DEF IsDatastore, IsRecord
  <2> QED
    BY <2>2, <2>3, <2>4 DEF IsDatastore, f
<1>10. IsDatastore(mem')
  BY <1>2, <1>3, <1>9
<1>11. ASSUME WatchesRetried
       PROVE  /\ DOMAIN mem'.watch = Watches
              /\ \A w \in Watches : mem'.watch[w] \in {disk.watch[w], mem.watch[w]}
  <2>1. CASE boot.legacy
    <3> DEFINE f == disk.watch
               g == mem.watch
               h == Over(f, g)
    <3>5. h = Over(f, g)
      OBVIOUS
    <3>1. DOMAIN f = Watches /\ DOMAIN g = Watches /\ mem'.watch = h
      BY <1>7, <1>9, <1>11, <2>1
    <3> HIDE DEF f, g, h
    <3>2. /\ \A x \in DOMAIN f \cup DOMAIN g : h[x] = IF x \in DOMAIN f THEN f[x] ELSE g[x]
          /\ IsRecord(h, DOMAIN f \cup DOMAIN g)
      BY <3>5, OverIs
    <3>3. DOMAIN h = Watches /\ \A w \in Watches : h[w] = f[w]
      BY <3>1, <3>2 DEF IsRecord
    <3>4. \A w \in Watches : mem'.watch[w] = f[w]
      BY <3>1, <3>3
    <3> QED
      BY <3>1, <3>3, <3>4 DEF f
  <2>2. CASE ~boot.legacy
    BY <1>2, <1>7, <1>11, <2>2
  <2> QED
    BY <1>5, <2>1, <2>2
<1>12. UpgradeTypes'
  <2>1. boot' \in [pc : {"off", "next", "saving", "running"}, n : 0 .. 33, todo : SUBSET (Watches \cup DOMAIN mem'.tag), legacy : BOOLEAN]
    BY <1>5
  <2> QED
    BY <1>1, <1>2, <1>10, <2>1 DEF UpgradeTypes
<1>13. Progress'
  <2>1. boot'.pc = "running" /\ boot'.n = 33 /\ boot'.todo = {}
    BY <1>5
  <2> QED
    BY <1>1, <1>2, <1>3, <1>6, <2>1 DEF Progress
<1>14. Base'
  BY <1>1, <1>2 DEF Base
<1>15. Old'
  BY <1>3, <1>6, <1>7 DEF Old
<1>16. Whole'
  <2>1. boot'.pc = "running"
    BY <1>5
  <2> QED
    BY <1>2, <1>6, <1>7, <1>11, <2>1 DEF Whole
<1>17. Alike'
  <2>1. SUFFICES ASSUME WatchesRetried, Version >= 26, NEW w \in Watches \ missed
                 PROVE  /\ Left(Version, disk.watch[w]) = Final.watch[w] \/ Unpriced(disk.watch[w])
                        /\ Unpriced(disk.watch[w]) <=> Unpriced(original.d.watch[w])
                        /\ Reached(Version, disk.watch[w])
                        /\ mem'.watch[w] = disk.watch[w]
                        /\ Reached(33, mem'.watch[w])
                        /\ Left(33, mem'.watch[w]) = Final.watch[w] \/ (Interrupted /\ Unpriced(mem'.watch[w]))
    BY <1>2, <1>6 DEF Alike
  <2>2. /\ Left(Version, disk.watch[w]) = Final.watch[w] \/ Unpriced(disk.watch[w])
        /\ Unpriced(disk.watch[w]) <=> Unpriced(original.d.watch[w])
        /\ Reached(Version, disk.watch[w])
        /\ mem.watch[w] = disk.watch[w]
        /\ Reached(33, mem.watch[w])
        /\ Left(33, mem.watch[w]) = Final.watch[w] \/ (Interrupted /\ Unpriced(mem.watch[w]))
    BY <1>1, <1>6, <2>1 DEF Alike
  <2>3. mem'.watch[w] = mem.watch[w]
    BY <1>11, <2>1, <2>2
  <2> QED
    BY <2>2, <2>3
<1>18. Moved'
  <2>1. SUFFICES ASSUME WatchesRetried, Version >= 26, NEW w \in Watches,
                        original.d.watch[w].processor = "restock_diff", disk.config[w] = "none"
                 PROVE  FALSE
    BY <1>2, <1>6 DEF Moved
  <2>2. Level(w) < 30
    BY <1>1, <1>6, <2>1 DEF Moved
  <2>3. Level(w) = 33
    BY <1>6
  <2> QED
    BY <2>2, <2>3
<1>19. Grouped'
  <2>1. SUFFICES ASSUME TagsRetried
                 PROVE  LET owed == DOMAIN original.d.tag \ missed
                        IN  /\ owed \subseteq DOMAIN mem'.tag
                            /\ Version \in 26 .. 28 /\ original.kind = "split" => owed \subseteq DOMAIN disk.settings.tag
                            /\ Version >= 29 => owed \subseteq DOMAIN disk.tag
                            /\ owed \subseteq DOMAIN disk.tag
    BY <1>2, <1>5, <1>6 DEF Grouped
  <2> DEFINE owed == DOMAIN original.d.tag \ missed
  <2>2. /\ owed \subseteq DOMAIN mem.tag
        /\ Version \in 26 .. 28 /\ original.kind = "split" => owed \subseteq DOMAIN disk.settings.tag
        /\ Version >= 29 => owed \subseteq DOMAIN disk.tag
        /\ owed \subseteq DOMAIN disk.tag
    BY <1>1, <1>4, <1>6, <2>1 DEF Grouped
  <2> HIDE DEF owed
  <2>3. owed \subseteq DOMAIN mem'.tag
    BY <1>2, <1>9, <2>2
  <2> QED
    BY <2>2, <2>3 DEF owed
<1> QED
  BY <1>12, <1>13, <1>14, <1>15, <1>16, <1>17, <1>18, <1>19 DEF UpgradeInv

LEMMA UpgradeStutters == ASSUME UpgradeInv, UNCHANGED updatesVars PROVE UpgradeInv'
<1>1. /\ original' = original /\ disk' = disk /\ mem' = mem /\ boot' = boot /\ crashes' = crashes
      /\ failures' = failures /\ missed' = missed
  BY DEF updatesVars
<1>2. UpgradeTypes' /\ Progress' /\ Base'
  BY <1>1 DEF UpgradeInv, UpgradeTypes, Progress, Base, Version, Awake
<1>3. /\ Version' = Version /\ Interrupted' = Interrupted /\ WatchesRetried' = WatchesRetried /\ TagsRetried' = TagsRetried
      /\ Awake' = Awake /\ (\A w : Level(w)' = Level(w)) /\ Final' = Final
      /\ \A k : At(k)' = At(k)
  BY <1>1 DEF Version, Interrupted, WatchesRetried, TagsRetried, Awake, Level, Final, At
<1>4. Old'
  BY <1>1, <1>3 DEF UpgradeInv, Old, Unmoved, Loaded
<1>5. Whole'
  BY <1>1, <1>3 DEF UpgradeInv, Whole, Untouched
<1>6. Alike'
  BY <1>1, <1>3 DEF UpgradeInv, Alike
<1>7. Moved'
  BY <1>1, <1>3 DEF UpgradeInv, Moved
<1>8. Grouped'
  BY <1>1, <1>3 DEF UpgradeInv, Grouped
<1> QED
  BY <1>2, <1>4, <1>5, <1>6, <1>7, <1>8 DEF UpgradeInv

\* Every update but 18, repeated on any datastore, changes nothing more, watches without a price before the last aside.
LEMMA RepeatsAreIdle ==
  ASSUME NEW d, IsDatastore(d), NEW n \in Available \ {18}, n = 33 => \A w \in DOMAIN d.watch : ~Unpriced(d.watch[w])
  PROVE  Update(n, Update(n, d)) = Update(n, d)
<1>1. n \in Nat /\ n # 18
  BY DEF Available
<1>2. CASE n = 30
  <2>1. \A e : Update(30, e) = Update30(e)
    BY UpdateIs
  <2> QED
    BY <1>2, <2>1, Within30
<1>3. CASE n = 33
  <2>1. \A e : Update(33, e) = Update33(e)
    BY UpdateIs
  <2> QED
    BY <1>3, <2>1, Is33
<1> QED
  BY <1>1, <1>2, <1>3, UpdateKeeps

\* The invariant says it all.
LEMMA InvariantIsEnough == ASSUME UpgradeInv PROVE AsIfUninterrupted
<1>1. /\ UpgradeTypes /\ Progress /\ Whole /\ Alike /\ Moved /\ Grouped
      /\ Version \in -1 .. 33 /\ IsDatastore(mem) /\ DOMAIN mem.watch \subseteq Watches
      /\ DOMAIN disk.watch \subseteq Watches /\ DOMAIN original.d.watch = Watches
  BY DEF UpgradeInv, UpgradeTypes, Version, IsDatastore, IsWatchMap
<1>2. ASSUME Started PROVE boot.n = 33 /\ Awake /\ (\A w : Level(w) = 33) /\ (WatchesRetried => Version >= 26)
  <2>1. boot.pc = "running" /\ boot.n = 33 /\ Awake
    BY <1>1, <1>2 DEF Started, Progress, Awake
  <2> QED
    BY <2>1, Late DEF Level
<1>3. EndsAlike
  <2>1. SUFFICES ASSUME Started, WatchesRetried, NEW w \in DOMAIN mem.watch \ missed
                 PROVE  mem.watch[w] = Final.watch[w] \/ (Interrupted /\ Unpriced(mem.watch[w]))
    BY DEF EndsAlike
  <2>2. Left(33, mem.watch[w]) = Final.watch[w] \/ (Interrupted /\ Unpriced(mem.watch[w]))
    BY <1>1, <1>2, <2>1 DEF Alike
  <2> QED
    BY <2>2 DEF Left
<1>4. NothingLost
  BY <1>1, <1>2 DEF NothingLost, Whole, Grouped
<1>5. ConfigKept
  <2>1. SUFFICES ASSUME NEW w \in Watches, Started, WatchesRetried, original.d.watch[w].processor = "restock_diff",
                        disk.config[w] = "none"
                 PROVE  FALSE
    BY <1>1 DEF ConfigKept
  <2>2. Level(w) < 30
    BY <1>1, <1>2, <2>1 DEF Moved
  <2>3. Level(w) = 33
    BY <1>2, <2>1
  <2> QED
    BY <2>2, <2>3
<1>6. VersionNotAhead
  <2>1. ASSUME WatchesRetried, Version >= 26, NEW w \in DOMAIN disk.watch, w \notin missed
        PROVE  Reached(Version, disk.watch[w])
    BY <1>1, <2>1 DEF Alike
  <2>2. ASSUME WatchesRetried, Version >= 26 PROVE DOMAIN original.d.watch \subseteq DOMAIN disk.watch
    BY <1>1, <2>2 DEF Whole
  <2>3. ASSUME WatchesRetried, Version >= 30, NEW w \in DOMAIN disk.watch, w \notin missed
        PROVE  ~MovesSettings(disk.watch[w])
    <3>1. Version >= 26
      BY <1>1, <2>3
    <3> QED
      BY <2>1, <2>3, <3>1 DEF Reached
  <2>4. ASSUME WatchesRetried, Version >= 33, NEW w \in DOMAIN disk.watch, w \notin missed
        PROVE  disk.watch[w] = Priced(disk.watch[w]) \/ Unpriced(disk.watch[w])
    <3>1. Version >= 26
      BY <1>1, <2>4
    <3> QED
      BY <2>1, <2>4, <3>1 DEF Reached
  <2> QED
    BY <2>2, <2>3, <2>4 DEF VersionNotAhead, Version
<1>7. UpdatesRepeat
  BY <1>1, RepeatsAreIdle DEF UpdatesRepeat
<1> QED
  BY <1>3, <1>4, <1>5, <1>6, <1>7 DEF AsIfUninterrupted

\* For any datastore, any number of kills between the writes or in the middle of a file and any
\* saves that fail: the schema updates of store/updates.py, cut short and begun again, lose no watch,
\* no group and no settings, end as they would have in one go, never leave the version ahead of the
\* files, and change nothing more when repeated (AsIfUninterrupted, with its excuses).
THEOREM UpdatesAreSafeToRetry == UpdatesSpec => []AsIfUninterrupted
<1>1. UpgradeInv /\ [UpdatesNext]_updatesVars => UpgradeInv'
  BY StepLoad, StepApply, StepSaveWatch, StepMissingFiles, StepSaveTag, StepWriteConfig, StepDropSettings, StepConfigTags,
     StepSavePrices, StepBump, StepRun, StepCrash, StepCutOff, UpgradeStutters DEF UpdatesNext
<1> QED
  BY <1>1, UpgradeInitially, InvariantIsEnough, PTL DEF UpdatesSpec

=============================================================================
