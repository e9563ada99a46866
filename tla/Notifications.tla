----------------------------- MODULE Notifications -----------------------------
(***************************************************************************)
(* Notices about one watch: which are queued and where they go             *)
(* (notification_service.py), the alerts about failing checks              *)
(* (watch_health.py), the queue with its global mute (NotificationQueue of *)
(* queue_handlers.py), the runners that send them (flask_app.py) and the   *)
(* loop over a notice's URLs (notification/handler.py).                    *)
(*                                                                         *)
(* A notice is its kind and the URLs it was queued for; texts are filled   *)
(* in when it is sent.  A check's end reads the watch, saves the failures, *)
(* queues an alert and saves that it did, while users mute, unmute and     *)
(* edit and while the program may stop.                                    *)
(***************************************************************************)
EXTENDS Integers, Sequences, FiniteSets, SequencesExt

CONSTANTS
  Urls,        \* notification URLs
  Own, Group, System, \* the lists of URLs a watch, its one tag and the system may be given
  Runners,     \* NOTIFICATION_WORKERS threads
  Threshold,   \* check_failure_notification_threshold_attempts
  MaxFailures, \* bound on the failures counted
  MaxQueued,   \* bound on the queue
  MaxChanges   \* bound on edits, restarts and notices about content and filters

ASSUME ListsAssumption == Own \in Seq(Urls) /\ Group \in Seq(Urls) /\ System \in Seq(Urls)

VARIABLES
  there,      \* the watch is in the datastore
  given,      \* which of "own", "group" and "system" have notification_urls
  muted,      \* which of "watch", "group" and "all" are muted
  enabled,    \* check_failure_notification_send
  recovery,   \* check_recovery_notification_send
  failures,   \* consecutive_check_failures
  alerted,    \* check_failure_alerted
  notifyErr,  \* last_notification_error is set
  health,     \* the end of a check: its place and what it has read
  queue,      \* notification_q
  runner,     \* runner[r]: the notice it sends, the URLs to come, whether one failed
  told,       \* an alert was queued in this run of failures (a ghost)
  changes

watch == <<there, failures, alerted>>
config == <<given, muted, enabled, recovery>>
vars == <<watch, config, notifyErr, health, queue, runner, told, changes>>

Resting == [pc |-> "idle", ok |-> FALSE, alerted |-> FALSE, enabled |-> FALSE]
NoNotice == [pc |-> "idle", urls |-> << >>, todo |-> << >>, failed |-> FALSE, sent |-> {}]

Init == /\ there = TRUE /\ given = {"system"} /\ muted = {} /\ enabled = TRUE /\ recovery = TRUE
        /\ failures = 0 /\ alerted = FALSE /\ notifyErr = FALSE
        /\ health = Resting
        /\ queue = << >>
        /\ runner = [r \in Runners |-> NoNotice]
        /\ told = FALSE
        /\ changes = 0

Change == changes < MaxChanges /\ changes' = changes + 1

-----------------------------------------------------------------------------
\* Where notices go.

\* _get_content_notification_configs(): the watch's own URLs, else those of its tags
\* that are not muted, else the system's; none for a muted watch.
Configs ==
  IF "watch" \in muted THEN {}
  ELSE IF "own" \in given THEN {Own}
  ELSE IF "group" \in given /\ "group" \notin muted THEN {Group}
  ELSE IF "system" \in given THEN {System} ELSE {}

\* Alerts about filters and browser steps do not ask the tags.
FilterAlertUrls == IF "own" \in given THEN {Own} ELSE IF "system" \in given THEN {System} ELSE {}

\* NotificationQueue.put(): nothing is queued while all is muted, and the answer is
\* not looked at by those who put.
Queue(kind, urls) ==
  queue' = IF "all" \in muted THEN queue
           ELSE queue \o SetToSeq({[kind |-> kind, urls |-> u] : u \in urls})

Room == Len(queue) < MaxQueued

-----------------------------------------------------------------------------
\* record_check_outcome()

CheckEnds == /\ health.pc = "idle" /\ there
             /\ \E ok \in BOOLEAN :
                  /\ health' = [pc |-> "decide", ok |-> ok, alerted |-> alerted, enabled |-> enabled /\ Threshold > 0]
                  /\ failures' = IF ok THEN failures ELSE Min({failures + 1, MaxFailures})
             /\ UNCHANGED <<there, alerted, config, notifyErr, queue, runner, told, changes>>

\* Mutant: an outage is told at each failure past the threshold.
Alarming_Again == ~health.ok /\ health.enabled /\ failures >= Threshold

Alarming == ~health.ok /\ health.enabled /\ ~health.alerted /\ failures >= Threshold

Recovered == health.ok /\ health.enabled /\ health.alerted /\ recovery

\* send_check_health_notification() answers whether there was a destination.
Alerted == Configs # {}

\* The alert is queued, one notice per destination.
Decide ==
  /\ health.pc = "decide" /\ Room
  /\ IF Alarming THEN /\ Queue("failure", Configs)
                      /\ health' = [health EXCEPT !.pc = "save", !.alerted = there /\ Alerted]
     ELSE IF Recovered /\ there THEN Queue("recovery", Configs) /\ health' = [health EXCEPT !.pc = "save"]
     ELSE UNCHANGED queue /\ health' = [health EXCEPT !.pc = "save"]
  /\ told' = IF Alarming /\ queue' # queue THEN TRUE ELSE told
  /\ UNCHANGED <<watch, config, notifyErr, runner, changes>>

\* update_watch(): nothing happens for a watch deleted meanwhile.
Save == /\ health.pc = "save"
        /\ health' = Resting
        /\ failures' = IF health.ok /\ there THEN 0 ELSE failures
        /\ alerted' = IF there THEN ~health.ok /\ health.enabled /\ health.alerted ELSE alerted
        /\ told' = IF ~health.ok /\ health.enabled THEN told ELSE FALSE
        /\ UNCHANGED <<there, config, notifyErr, queue, runner, changes>>

\* A change of content, and a filter or a browser step that failed often enough.
ContentChanged == /\ there /\ "watch" \notin muted /\ Room /\ Change
                  /\ Queue("content", Configs)
                  /\ UNCHANGED <<watch, config, notifyErr, health, runner, told>>

FilterAlert == /\ there /\ "watch" \notin muted /\ Room /\ Change
               /\ Queue("filter", FilterAlertUrls)
               /\ UNCHANGED <<watch, config, notifyErr, health, runner, told>>

-----------------------------------------------------------------------------
\* notification_runner() and process_notification()

Take(r) == /\ runner[r].pc = "idle" /\ queue # << >>
           /\ runner' = [runner EXCEPT ![r] = [NoNotice EXCEPT !.pc = "sending", !.urls = Head(queue).urls, !.todo = Head(queue).urls]]
           /\ queue' = Tail(queue)
           /\ UNCHANGED <<watch, config, notifyErr, health, told, changes>>

\* Mutant: the first URL that fails ends the notice.
AfterFailure_Stop(n) == [n EXCEPT !.todo = << >>, !.failed = TRUE]

\* What fails for one URL is logged by apprise; the loop goes on.
AfterFailure(n) == [n EXCEPT !.todo = Tail(@), !.failed = TRUE]

SendOne(r) == /\ runner[r].pc = "sending" /\ runner[r].todo # << >>
              /\ LET n == [runner[r] EXCEPT !.sent = @ \cup {Head(runner[r].todo)}]
                 IN \E ok \in BOOLEAN :
                      runner' = [runner EXCEPT ![r] = IF ok THEN [n EXCEPT !.todo = Tail(@)] ELSE AfterFailure(n)]
              /\ UNCHANGED <<watch, config, notifyErr, health, queue, told, changes>>

\* A template that does not render raises before anything of this URL is sent.
TemplateRaises(r) == /\ runner[r].pc = "sending" /\ runner[r].todo # << >> /\ Change
                     /\ runner' = [runner EXCEPT ![r].pc = "broken", ![r].todo = << >>, ![r].failed = TRUE]
                     /\ UNCHANGED <<watch, config, notifyErr, health, queue, told>>

\* Mutant: what is raised for a notice ends the runner's thread.
Afterwards_Dead(n) == IF n.failed THEN [NoNotice EXCEPT !.pc = "dead"] ELSE NoNotice

\* Whatever is raised for a notice is caught; the runner polls on.
Afterwards(n) == NoNotice

\* What was logged as a warning or an error raises after the loop; the watch is marked.
EndNotice(r) == /\ runner[r].pc \in {"sending", "broken"} /\ runner[r].todo = << >>
                /\ notifyErr' = (notifyErr \/ (runner[r].failed /\ there))
                /\ runner' = [runner EXCEPT ![r] = Afterwards(@)]
                /\ UNCHANGED <<watch, config, health, queue, told, changes>>

-----------------------------------------------------------------------------
\* Users, and a stop of the program: the queue is memory, the watch is on disk.

Mute == /\ Change
        /\ \E x \in {"watch", "group", "all"} : muted' = IF x \in muted THEN muted \ {x} ELSE muted \cup {x}
        /\ UNCHANGED <<watch, given, enabled, recovery, notifyErr, health, queue, runner, told>>

EditUrls == /\ Change
            /\ \E x \in {"own", "group", "system"} : given' = IF x \in given THEN given \ {x} ELSE given \cup {x}
            /\ UNCHANGED <<watch, muted, enabled, recovery, notifyErr, health, queue, runner, told>>

EditAlerts == /\ Change
              /\ \/ enabled' = ~enabled /\ UNCHANGED recovery
                 \/ recovery' = ~recovery /\ UNCHANGED enabled
              /\ UNCHANGED <<watch, given, muted, notifyErr, health, queue, runner, told>>

Delete == /\ there /\ Change
          /\ there' = FALSE
          /\ UNCHANGED <<failures, alerted, config, notifyErr, health, queue, runner, told>>

\* The next check that ends well clears the error.
ErrorCleared == /\ notifyErr /\ notifyErr' = FALSE
                /\ UNCHANGED <<watch, config, health, queue, runner, told, changes>>

Restart == /\ Change
           /\ health' = Resting
           /\ queue' = << >>
           /\ runner' = [r \in Runners |-> NoNotice]
           /\ told' = (told /\ alerted)
           /\ UNCHANGED <<watch, config, notifyErr>>

Checks == CheckEnds \/ Decide \/ Save \/ ContentChanged \/ FilterAlert
Sending == \E r \in Runners : Take(r) \/ SendOne(r) \/ TemplateRaises(r) \/ EndNotice(r)
Users == Mute \/ EditUrls \/ EditAlerts \/ Delete \/ ErrorCleared \/ Restart

Next == Checks \/ Sending \/ Users

\* Each runner is a thread that polls the queue every second; apprise's calls end.
Fairness == \A r \in Runners : WF_vars(Take(r) \/ SendOne(r) \/ EndNotice(r))

Spec == Init /\ [][Next]_vars /\ Fairness

-----------------------------------------------------------------------------
\* Properties.

Queued(kind) == Len(queue') > Len(queue) /\ \E i \in (Len(queue) + 1)..Len(queue') : queue'[i].kind = kind

\* An outage is told once: between two alerts about failures there is a check that went
\* well, one that found the alerts switched off, or a restart before the first was noted.
OneAlertPerOutage == [][Queued("failure") => ~told]_vars

\* No notice is queued to a tag that is muted, nor for a muted watch.
MutedIsSilent == [][\A i \in (Len(queue) + 1)..Len(queue') :
                      /\ "watch" \notin muted
                      /\ queue'[i].urls = Group /\ Group \notin {Own, System} => "group" \notin muted]_vars

\* An outage is told once, and never to a muted group or for a muted watch.
AlertsOnceUnmuted == OneAlertPerOutage /\ MutedIsSilent

\* However many of its URLs fail, a notice is tried at every one of them, unless its texts
\* cannot be rendered: nothing is put back.
EveryUrlTried == \A r \in Runners : runner[r].pc = "sending" =>
                   ToSet(runner[r].urls) = runner[r].sent \cup ToSet(runner[r].todo)

\* Notices do not stay queued: a runner comes back for the next one however the last ended.
QueueMoves == []<>(queue = << >>) \/ []<><<\E r \in Runners : Take(r)>>_vars
=============================================================================
