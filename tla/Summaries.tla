------------------------------- MODULE Summaries -------------------------------
(***************************************************************************)
(* AI change summaries: the registry of background jobs and its small pool *)
(* of threads (llm/summary_jobs.py), the routes that start a job and poll  *)
(* for it (blueprint/ui/diff.py), the browser tabs that call them, the     *)
(* files a summary is kept in (Watch.save_llm_diff_summary), and checks    *)
(* that summarise the same change for a notice (worker.py).                *)
(*                                                                         *)
(* One pair of snapshots; a key is the prompt in effect, whose hash names  *)
(* the files.  A route reads the files, the registry and the files again   *)
(* in steps of its own, beside jobs that write them and users who edit the *)
(* prompt, clear the cache and restart the program.                        *)
(***************************************************************************)
EXTENDS Integers, Sequences, FiniteSets, SequencesExt

CONSTANTS
  Tabs,       \* browser tabs that want the summary
  Prompts,    \* effective prompts, with the model and the limits
  None,       \* no file
  Threads,    \* LLM_SUMMARY_WORKERS
  MaxPending, \* DEFAULT_MAX_PENDING
  MaxActs  \* bound on clicks, edits, checks, clearings and restarts

ASSUME NoneAssumption == None \notin Prompts

VARIABLES
  prompt,   \* the prompt in effect
  txt, json, \* the two files of each key: the prompt the text was made with, or None
  pending,  \* _pending: "no", "queued", or "running"
  errors,   \* keys of _errors
  pool,     \* keys submitted and not begun
  thread,   \* thread[h]: the key it works on, where, and what it made
  tab,      \* tab[t]: where its request is, the key it reads, its restarts
  check,    \* a check's summary: the prompt it was made with, or None
  owed,     \* keys whose outcome nobody was told (a ghost)
  acts

files == <<txt, json>>
registry == <<pending, errors, pool, thread>>
summaryVars == <<prompt, files, registry, tab, check, owed, acts>>

Idle == [pc |-> "idle", key |-> None, made |-> None]
AtRest == [pc |-> "resting", key |-> None, restarts |-> 0]

SummariesInit == /\ prompt \in Prompts
        /\ txt = [k \in Prompts |-> None] /\ json = txt
        /\ pending = [k \in Prompts |-> "no"] /\ errors = {} /\ pool = << >>
        /\ thread = [h \in Threads |-> Idle]
        /\ tab = [t \in Tabs |-> AtRest]
        /\ check = None
        /\ owed = {}
        /\ acts = 0

Act == acts < MaxActs /\ acts' = acts + 1

Goes(t, pc) == tab' = [tab EXCEPT ![t].pc = pc]

\* The tab shows a summary or an error and asks no more.
Told(t) == tab' = [tab EXCEPT ![t] = AtRest]

\* get_llm_diff_summary_result(): the metadata is read first, then the text file.
Cached(k) == IF json[k] # None THEN json[k] ELSE txt[k]

\* _summary_request_context(): the pair of versions and the effective prompt, with the
\* model, the limits and the preferences, whose hash names both the job and the files.
Key == prompt

-----------------------------------------------------------------------------
\* POST llm-summary: start a generation unless its result or its error is there.

Click(t) == /\ tab[t].pc = "resting" /\ Act
            /\ Goes(t, "start")
            /\ UNCHANGED <<prompt, files, registry, check, owed>>

ReadCache(t) == /\ tab[t].pc = "start"
                /\ IF Cached(Key) # None THEN Told(t)
                   ELSE tab' = [tab EXCEPT ![t].pc = "asks error", ![t].key = Key]
                /\ UNCHANGED <<prompt, files, registry, check, owed, acts>>

\* take_error(): one request is told of a failure.
TakeError(t, otherwise) ==
  /\ IF tab[t].key \in errors THEN Told(t) ELSE Goes(t, otherwise)
  /\ errors' = errors \ {tab[t].key}
  /\ owed' = owed \ (errors \cap {tab[t].key})
  /\ UNCHANGED <<prompt, files, pending, pool, thread, check, acts>>

StartTakesError(t) == tab[t].pc = "asks error" /\ TakeError(t, "asks pending")

StartAsksPending(t) == /\ tab[t].pc = "asks pending"
                       /\ Goes(t, IF pending[tab[t].key] # "no" THEN "waiting" ELSE "building")
                       /\ UNCHANGED <<prompt, files, registry, check, owed, acts>>

\* The budget of the month, snapshots that cannot be read and an empty diff end the request;
\* building the diff takes long, so the cache is read again.
BuildDiff(t) == /\ tab[t].pc = "building"
                /\ \/ Told(t)
                   \/ IF Cached(tab[t].key) # None THEN Told(t) ELSE Goes(t, "submitting")
                /\ UNCHANGED <<prompt, files, registry, check, owed, acts>>

\* submit(): nothing is started for a key in flight, nor past the limit, which jobs for other
\* watches may reach too.
Accepts(k) == pending[k] = "no"

Outstanding == {k \in Prompts : pending[k] # "no"}

Submit(t) ==
  /\ tab[t].pc = "submitting"
  /\ \E k \in {tab[t].key}, others \in 0..MaxPending :
        CASE ~Accepts(k) -> Goes(t, "waiting") /\ UNCHANGED <<registry, owed>>
          [] Accepts(k) /\ Cardinality(Outstanding) + others >= MaxPending -> Told(t) /\ UNCHANGED <<registry, owed>>
          [] OTHER -> /\ pending' = [pending EXCEPT ![k] = "queued"]
                      /\ errors' = errors \ {k}
                      /\ pool' = Append(pool, k)
                      /\ owed' = owed \cup {k}
                      /\ Goes(t, "waiting")
                      /\ UNCHANGED thread
  /\ UNCHANGED <<prompt, files, check, acts>>

-----------------------------------------------------------------------------
\* GET llm-summary: read the files, the error, the registry and the files again.

Poll(t) == /\ tab[t].pc = "waiting"
           /\ IF Cached(Key) # None THEN Told(t)
              ELSE tab' = [tab EXCEPT ![t].pc = "polls error", ![t].key = Key]
           /\ UNCHANGED <<prompt, files, registry, check, owed, acts>>

PollTakesError(t) == tab[t].pc = "polls error" /\ TakeError(t, "polls pending")

PollAsksPending(t) == /\ tab[t].pc = "polls pending"
                      /\ Goes(t, IF pending[tab[t].key] # "no" THEN "waiting" ELSE "polls again")
                      /\ UNCHANGED <<prompt, files, registry, check, owed, acts>>

\* "idle": llm-summary.js starts again, once.
PollAgain(t) == /\ tab[t].pc = "polls again"
                /\ IF Cached(tab[t].key) # None \/ tab[t].restarts > 0 THEN Told(t)
                   ELSE tab' = [tab EXCEPT ![t].pc = "start", ![t].restarts = 1]
                /\ UNCHANGED <<prompt, files, registry, check, owed, acts>>

-----------------------------------------------------------------------------
\* _run() on the pool, and _job() of the route.

Begin(h) == /\ thread[h].pc = "idle" /\ pool # << >>
            /\ pool' = Tail(pool)
            /\ pending' = [pending EXCEPT ![Head(pool)] = "running"]
            /\ thread' = [thread EXCEPT ![h] = [pc |-> "runs", key |-> Head(pool), made |-> None]]
            /\ UNCHANGED <<prompt, files, errors, tab, check, owed, acts>>

\* Mutant: the key is free again before its result is written.
PendingMeanwhile_Free(k) == [pending EXCEPT ![k] = "no"]

\* The key stays taken until the result can be read.
PendingMeanwhile(k) == pending

\* summarise_change() reads the prompt in effect now; what it raises, a budget and a reply
\* without a text are kept as the error.
Generate(h) ==
  /\ thread[h].pc = "runs"
  /\ \/ /\ thread' = [thread EXCEPT ![h].pc = "saves", ![h].made = prompt]
        /\ pending' = PendingMeanwhile(thread[h].key)
        /\ UNCHANGED errors
     \/ /\ thread' = [thread EXCEPT ![h].pc = "settles"]
        /\ errors' = errors \cup {thread[h].key}
        /\ UNCHANGED pending
  /\ UNCHANGED <<prompt, files, pool, tab, check, owed, acts>>

SaveSummary(h) == /\ thread[h].pc = "saves"
                  /\ txt' = [txt EXCEPT ![thread[h].key] = thread[h].made]
                  /\ json' = [json EXCEPT ![thread[h].key] = thread[h].made]
                  /\ thread' = [thread EXCEPT ![h].pc = "settles"]
                  /\ UNCHANGED <<prompt, pending, errors, pool, tab, check, owed, acts>>

\* Mutant: a failed generation leaves its key taken.
Settled_IfOk(k) == IF k \in errors THEN pending ELSE [pending EXCEPT ![k] = "no"]

\* finally: the key is free however the job ended; then llm_summary_ready is announced.
Settled(k) == [pending EXCEPT ![k] = "no"]

Settle(h) == /\ thread[h].pc = "settles"
             /\ pending' = Settled(thread[h].key)
             /\ thread' = [thread EXCEPT ![h] = Idle]
             /\ UNCHANGED <<prompt, files, errors, pool, tab, check, owed, acts>>

-----------------------------------------------------------------------------
\* Checks, users and a stop of the program.

CheckSummarises == /\ check = None /\ Act
                   /\ check' = prompt
                   /\ UNCHANGED <<prompt, files, registry, tab, owed>>

\* The worker asks for the prompt again when it saves: its key need not be what it used.
CheckSaves == /\ check # None
              /\ txt' = [txt EXCEPT ![Key] = check] /\ json' = [json EXCEPT ![Key] = check]
              /\ check' = None
              /\ UNCHANGED <<prompt, registry, tab, owed, acts>>

EditPrompt == /\ Act
              /\ prompt' \in Prompts \ {prompt}
              /\ UNCHANGED <<files, registry, tab, check, owed>>

\* clear-summary-cache removes the text files.
ClearCache == /\ Act
              /\ txt' = [k \in Prompts |-> None]
              /\ owed' = {}
              /\ UNCHANGED <<prompt, json, registry, tab, check>>

\* Threads, registry and requests are gone; waiting tabs poll on, a request under way fails.
ProgramRestarts ==
  /\ Act
  /\ pending' = [k \in Prompts |-> "no"] /\ errors' = {} /\ pool' = << >>
  /\ thread' = [h \in Threads |-> Idle]
  /\ tab' = [t \in Tabs |-> IF tab[t].pc = "waiting" THEN tab[t] ELSE AtRest]
  /\ check' = None /\ owed' = {}
  /\ UNCHANGED <<prompt, files>>

Route(t) == \/ ReadCache(t) \/ StartTakesError(t) \/ StartAsksPending(t) \/ BuildDiff(t) \/ Submit(t)
            \/ Poll(t) \/ PollTakesError(t) \/ PollAsksPending(t) \/ PollAgain(t)
Job(h) == Begin(h) \/ Generate(h) \/ SaveSummary(h) \/ Settle(h)

SummariesNext == \/ \E t \in Tabs : Click(t) \/ Route(t)
        \/ \E h \in Threads : Job(h)
        \/ CheckSummarises \/ CheckSaves \/ EditPrompt \/ ClearCache \/ ProgramRestarts

\* Requests are handled, tabs poll on a timer, and a call of the model ends: it has a timeout.
SummariesFairness == (\A t \in Tabs : WF_summaryVars(Route(t))) /\ (\A h \in Threads : WF_summaryVars(Job(h)))

SummariesSpec == SummariesInit /\ [][SummariesNext]_summaryVars /\ SummariesFairness

-----------------------------------------------------------------------------
\* Properties.

Working(k) == {h \in Threads : thread[h].pc # "idle" /\ thread[h].key = k}

\* However many tabs ask at the same time, a key has one job: nobody pays twice for
\* generations that run beside each other.
OneJobPerKey == \A k \in Prompts :
                  Cardinality(Working(k)) + Cardinality({i \in 1..Len(pool) : pool[i] = k}) <= 1

\* A job that is no longer in the registry left a summary or an error to be read: no poll
\* finds that nothing ever ran.
NothingLost == \A k \in owed : pending[k] # "no" \/ Cached(k) # None \/ k \in errors

\* Both: however many ask, a key has one job, and its end leaves a summary or an error.
JobsLeaveResults == OneJobPerKey /\ NothingLost

\* Every tab is shown a summary or an error, whoever else took the error of its job, and
\* whatever was edited, cleared and restarted meanwhile.
TabsAnswered == \A t \in Tabs : []<>(tab[t].pc = "resting")

=============================================================================
