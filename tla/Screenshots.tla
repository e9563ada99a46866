----------------------------- MODULE Screenshots -----------------------------
(***************************************************************************)
(* The screenshot processor: a watch's checks, which compare the picture   *)
(* just taken with the last one kept, the pages that draw differences of   *)
(* kept pictures, and the child process each of them hands its pictures    *)
(* to.  A thread starts the child, waits for its answer under a timeout    *)
(* and takes the child down; its caller waits for the thread, also under a *)
(* timeout, and leaves it behind when that one passes first.               *)
(*                                                                         *)
(* Pictures are numbers, the share of pixels in which two of them differ   *)
(* their distance.  Text is a snapshot of the text processor the watch may *)
(* have had before: no picture can be decoded from it.                     *)
(***************************************************************************)
EXTENDS Integers, Sequences, FiniteSets, SequencesExt

CONSTANTS
  Pictures,    \* a set of numbers
  Text,        \* a snapshot that is no picture
  NoPicture, Error,
  Minima,      \* values of min_change_percentage
  Boxes,       \* of the region compared: among "whole", "part", "beside"
  MaxCalls,    \* bound on the child processes started
  MaxShots     \* bound on the pictures taken

ASSUME PicturesAssumption == Pictures \subseteq Nat /\ Minima \subseteq Nat
ASSUME TextAssumption == Text \notin Pictures /\ NoPicture \notin Pictures

VARIABLES
  rule,      \* the processor's JSON file: [min, box]
  seen,      \* previous_md5: what it is the hash of
  shots,     \* the history's snapshots
  comparing, \* the check under way
  calls,     \* the threads with their children, in the order of their start
  judgedBy,  \* a ghost: the configuration the last verdict was reached under
  taken      \* pictures taken so far

screensVars == <<rule, seen, shots, comparing, calls, judgedBy, taken>>

NoComparison == [pc |-> "idle", shot |-> NoPicture, rule |-> NoPicture, call |-> 0,
                 changed |-> FALSE]

\* The box drawn by the user, the area of the element selected, or the whole picture.  A box
\* beside the picture leaves nothing of it.
Cropped(p, box) == IF box = "part" THEN p \div 2 ELSE p

ScreensInit == /\ rule \in [min : Minima, box : Boxes]
               /\ \/ seen = NoPicture /\ shots = << >>
                  \/ seen = Text /\ shots = <<Text>>
               /\ comparing = NoComparison
               /\ calls = << >>
               /\ judgedBy = rule
               /\ taken = 0

-----------------------------------------------------------------------------
\* What a child answers for its pictures.

Decoded(p) == p # Text
Away(a, b) == IF a > b THEN a - b ELSE b - a

CompareWorker(from, to, box) ==
    IF Decoded(from) /\ Decoded(to) /\ box # "beside"
    THEN Away(Cropped(from, box), Cropped(to, box))
    ELSE Error
\* What a page shows is not looked at any further.
Shown == "shown"
PercentageWorker(from, to) == IF Decoded(from) /\ Decoded(to) THEN Shown ELSE Error
DiffWorker(from, to) == IF Decoded(from) /\ Decoded(to) THEN Shown ELSE Error
BoxWorker(img) == IF Decoded(img) THEN Shown ELSE NoPicture

\* A call's caller, in which order a thread and its caller run out of patience, and what it wants.
Call(op, patient, answer) ==
    [op |-> op, patient |-> patient, answer |-> answer, result |-> NoPicture,
     thread |-> "starting", child |-> "spawned", waiting |-> TRUE]
CompareImages(from, to, box) == Call("compare", TRUE, CompareWorker(from, to, box))
GenerateDiff(from, to) == Call("diff", TRUE, DiffWorker(from, to))
ChangePercentage(from, to) == Call("percentage", TRUE, PercentageWorker(from, to))
DrawBox(img) == Call("draw", FALSE, BoxWorker(img))

RoomForCall == Len(calls) < MaxCalls
Start(call) == RoomForCall /\ calls' = Append(calls, call)

-----------------------------------------------------------------------------
\* The child.

\* It has read its arguments, which is what Process.start() waits for.
Reads(c) == /\ calls[c].child = "spawned"
            /\ calls' = [calls EXCEPT ![c].child = "working", ![c].thread = "polling"]
            /\ UNCHANGED <<rule, seen, shots, comparing, judgedBy, taken>>

\* It never gets so far, and start() is never done writing them.
NeverReads(c) == /\ calls[c].child = "spawned"
                 /\ calls' = [calls EXCEPT ![c].child = "stuck"]
                 /\ UNCHANGED <<rule, seen, shots, comparing, judgedBy, taken>>

\* It answers and ends; it finds the pipe closed, or is killed by the system, and just ends; it
\* hangs.
Works(c) == /\ calls[c].child = "working"
            /\ \E to \in {"answered", "gone", "hung"} :
                  calls' = [calls EXCEPT ![c].child =
                              IF to = "answered" /\ calls[c].thread # "polling" THEN "gone" ELSE to]
            /\ UNCHANGED <<rule, seen, shots, comparing, judgedBy, taken>>

-----------------------------------------------------------------------------
\* The thread, one coroutine in an event loop of its own.

Heard(c, answer) == IF calls[c].waiting THEN answer ELSE NoPicture \* the container nobody reads

Receive(c) == /\ calls[c].thread = "polling" /\ calls[c].child = "answered"
              /\ calls' = [calls EXCEPT ![c].thread = "closing", ![c].child = "gone",
                                        ![c].result = Heard(c, calls[c].answer)]
              /\ UNCHANGED <<rule, seen, shots, comparing, judgedBy, taken>>

Overdue_Zero == 0
Overdue == Error

\* A child that ended without an answer is waited for like one at work: the parent's own copy of
\* the pipe's other end keeps the pipe open.
PollEnds(c) == /\ calls[c].thread = "polling" /\ calls[c].child # "answered"
               /\ calls' = [calls EXCEPT ![c].thread = "closing", ![c].result = Heard(c, Overdue)]
               /\ UNCHANGED <<rule, seen, shots, comparing, judgedBy, taken>>

\* Five seconds to end by itself, then SIGTERM.
Terminate(c) == /\ calls[c].thread = "closing"
                /\ \/ /\ calls[c].child = "gone"
                      /\ calls' = [calls EXCEPT ![c].thread = "returned"]
                   \/ /\ calls[c].child # "gone"
                      /\ \E to \in {"gone", "deaf"} :
                            calls' = [calls EXCEPT ![c].thread = "terminated", ![c].child = to]
                /\ UNCHANGED <<rule, seen, shots, comparing, judgedBy, taken>>

\* Then SIGKILL.
Killed_Not(child) == child
Killed(child) == "gone"
Kill(c) == /\ calls[c].thread = "terminated"
           /\ calls' = [calls EXCEPT ![c].thread = "returned", ![c].child = Killed(calls[c].child)]
           /\ UNCHANGED <<rule, seen, shots, comparing, judgedBy, taken>>

\* The caller's join() ends with the thread, or at its timeout: a thread is done 29
\* seconds after its child has started, and gets 60, but for drawing a box it gets 15.
Joined(c) == calls[c].waiting /\ calls[c].thread = "returned"
JoinEnds(c) == /\ calls[c].waiting /\ calls[c].thread # "returned"
               /\ calls[c].patient => calls[c].thread = "starting"
Abandoned(c) ==
    [calls EXCEPT ![c].waiting = FALSE, ![c].answer = NoPicture, ![c].result = NoPicture]
Got(c) == IF calls[c].thread = "returned" THEN calls[c].result ELSE NoPicture

-----------------------------------------------------------------------------
\* The check.

\* previous_md5 answers first; without history the picture is the baseline; otherwise a child
\* compares, as the settings of the watch, of the application or the defaults say.
Shoot == /\ comparing.pc = "idle" /\ taken < MaxShots
         /\ taken' = taken + 1
         /\ \E p \in Pictures :
               IF p = seen
               THEN UNCHANGED <<comparing, calls, judgedBy>>
               ELSE IF shots = << >>
               THEN /\ comparing' = [NoComparison EXCEPT !.pc = "update", !.shot = p, !.rule = rule]
                    /\ UNCHANGED <<calls, judgedBy>>
               ELSE /\ Start(CompareImages(Last(shots), p, rule.box))
                    /\ comparing' = [NoComparison EXCEPT !.pc = "compare", !.shot = p,
                                                       !.rule = rule, !.call = Len(calls) + 1]
                    /\ UNCHANGED judgedBy
         /\ UNCHANGED <<rule, seen, shots>>

\* The comparison's answer; none, or an error, fails the check.
HearVerdict == /\ comparing.pc = "compare"
               /\ Joined(comparing.call) \/ JoinEnds(comparing.call)
               /\ calls' = Abandoned(comparing.call)
               /\ LET score == Got(comparing.call) IN
                  comparing' = IF score \in {NoPicture, Error} THEN NoComparison
                               ELSE [comparing EXCEPT !.pc = "update",
                                                      !.changed = score > comparing.rule.min]
               /\ UNCHANGED <<rule, seen, shots, judgedBy, taken>>

\* The worker stores the processor's update ...
Update == /\ comparing.pc = "update"
          /\ seen' = comparing.shot
          /\ judgedBy' = comparing.rule
          /\ comparing' = [comparing EXCEPT !.pc = "save"]
          /\ UNCHANGED <<rule, shots, calls, taken>>

Keeps == comparing.changed \/ shots = << >>
SaveShot == /\ comparing.pc = "save"
            /\ shots' = IF Keeps THEN Append(shots, comparing.shot) ELSE shots
            /\ comparing' = NoComparison
            /\ UNCHANGED <<rule, seen, calls, judgedBy, taken>>

-----------------------------------------------------------------------------
\* The interface.

EditConfig == /\ rule' \in [min : Minima, box : Boxes]
              /\ rule' # rule
              /\ UNCHANGED <<seen, shots, comparing, calls, judgedBy, taken>>

\* clear_watch(): it keeps the processor's file and forgets the hash last.
Clear == /\ shots # << >>
         /\ shots' = << >>
         /\ seen' = NoPicture
         /\ UNCHANGED <<rule, comparing, calls, judgedBy, taken>>

\* The pages of two kept pictures: the two with the box drawn on them, their rendered difference
\* and, for the page itself, the share that changed.  The page's own thresholds are not the check's.
AskAsset == /\ Len(shots) > 1
            /\ \E from, to \in ToSet(shots) : Start(GenerateDiff(from, to))
            /\ UNCHANGED <<rule, seen, shots, comparing, judgedBy, taken>>
AskRender == /\ Len(shots) > 1
             /\ \E from, to \in ToSet(shots) : Start(ChangePercentage(from, to))
             /\ UNCHANGED <<rule, seen, shots, comparing, judgedBy, taken>>
AskBoxed == /\ Len(shots) > 1 /\ rule.box # "whole"
            /\ \E img \in ToSet(shots) : Start(DrawBox(img))
            /\ UNCHANGED <<rule, seen, shots, comparing, judgedBy, taken>>

\* The page is answered: with what came, with the picture as it is, or with nothing.
AnswerPage(c) == /\ calls[c].op # "compare"
                 /\ Joined(c) \/ JoinEnds(c)
                 /\ calls' = Abandoned(c)
                 /\ UNCHANGED <<rule, seen, shots, comparing, judgedBy, taken>>

-----------------------------------------------------------------------------
Thread(c) == Receive(c) \/ PollEnds(c) \/ Terminate(c) \/ Kill(c)

ScreensNext == \/ Shoot \/ HearVerdict \/ Update \/ SaveShot
               \/ EditConfig \/ Clear \/ AskAsset \/ AskRender \/ AskBoxed
               \/ \E c \in DOMAIN calls : \/ Reads(c) \/ NeverReads(c) \/ Works(c)
                                          \/ Receive(c) \/ PollEnds(c) \/ Terminate(c) \/ Kill(c)
                                          \/ AnswerPage(c)

\* Every started child is scheduled and every thread runs: its event loop holds nothing else.
\* A child at work owes nothing: it may hang.
ScreensFairness == \A c \in 1..MaxCalls :
                      /\ WF_screensVars(c \in DOMAIN calls /\ (Reads(c) \/ NeverReads(c)))
                      /\ WF_screensVars(c \in DOMAIN calls /\ Thread(c))

ScreensSpec == ScreensInit /\ [][ScreensNext]_screensVars /\ ScreensFairness

-----------------------------------------------------------------------------
\* Between checks, a picture that the hash lets pass without a comparison differs from the one last
\* kept by no more than the configuration of the last verdict allows: no comparison that failed,
\* timed out or was overtaken by a cleared history has passed for one that saw no change, and
\* many small changes do not add up unseen.
PassedIsAlike == comparing.pc = "idle" /\ seen \in Pictures /\ shots # << >> =>
    /\ Decoded(Last(shots))
    /\ CompareWorker(Last(shots), seen, IF judgedBy.box = "beside" THEN "whole" ELSE judgedBy.box)
          <= judgedBy.min

\* Between checks, a watch that has a hash has a snapshot it stands for: a history cleared in the
\* middle of a check does not leave a hash that lets every further check pass unseen.
HashHasBaseline == comparing.pc = "idle" /\ seen # NoPicture => shots # << >>

\* Both of these, as the run checks them.
QuietIsAlike == PassedIsAlike /\ HashHasBaseline

\* Once a child has its arguments it does not outlive its request for ever, whatever it hangs in
\* and whether anybody still waits for its answer.
ChildrenEnd == \A c \in 1..MaxCalls :
    (c \in DOMAIN calls /\ calls[c].child = "working")
       ~> (c \in DOMAIN calls /\ calls[c].child = "gone")
=============================================================================
