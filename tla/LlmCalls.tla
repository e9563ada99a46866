------------------------------- MODULE LlmCalls -------------------------------
(***************************************************************************)
(* Calls of the language model: the budgets that admit them and the        *)
(* counters charged afterwards (admit, record_usage of llm/evaluator.py),  *)
(* the retries of the client (llm/client.py), the verdicts on changes with *)
(* their cache (evaluate_change), and the settings saved meanwhile         *)
(* (blueprint/settings/llm).                                               *)
(*                                                                         *)
(* Callers are a worker that checks the one watch, whose verdict may       *)
(* suppress an alert, and others - replays, previews, tests - that are     *)
(* charged to the month only.  A change is one diff; the intent may be     *)
(* edited.  A request is a caller's view of both.                          *)
(***************************************************************************)
EXTENDS Integers, FiniteSets, Functions, FiniteSetsExt

CONSTANTS
  Worker,      \* the caller that checks the watch
  Others,      \* callers that do not persist
  Intents,
  Absent,      \* no verdict, no reply
  Retries,     \* DEFAULT_RETRIES
  Timeout,     \* resolve_llm_timeout()
  Times,       \* the times a provider may take, Timeout at most
  Backoff,     \* Backoff[n]: the n-th sleep
  MaxBackoff,  \* _RETRY_BACKOFF_MAX; a Retry-After may be twice as long
  MonthLimit, WatchLimit, \* token_budget_month, max_tokens_per_count_period
  Usages,      \* the tokens a reply may report
  MaxMonth,    \* bound on the months
  MaxEvents    \* bound on requests, edits and saves

VARIABLES
  month,
  used,      \* tokens_this_month of the month [month, tokens]
  watchUsed, \* llm_tokens_this_period, likewise
  intent,    \* resolve_intent()
  verdicts,  \* llm_evaluation_cache: cache[i] is the verdict on the change, or Absent
  call,      \* call[c]: a caller's request and its client's loop
  saving,    \* the counters a settings page has read, or Absent
  said,      \* the intents for which a complete reply said "not important" (a ghost)
  events

counters == <<used, watchUsed>>
modelVars == <<month, counters, intent, verdicts, call, saving, said, events>>

Callers == {Worker} \cup Others

Zero == [month |-> 0, tokens |-> 0]

NoCall == [pc |-> "idle", intent |-> Absent, cut |-> FALSE, attempt |-> 0, dispatched |-> 0, elapsed |-> 0,
           expanded |-> FALSE, stripped |-> FALSE, billed |-> 0, reply |-> Absent, verdict |-> Absent]

ModelInit == /\ month = 1
             /\ used = Zero /\ watchUsed = Zero
             /\ intent \in Intents
             /\ verdicts = [i \in Intents |-> Absent]
             /\ call = [c \in Callers |-> NoCall]
             /\ saving = Absent
             /\ said = {}
             /\ events = 0

Event == events < MaxEvents /\ events' = events + 1

Moves(c, pc) == call' = [call EXCEPT ![c].pc = pc]

\* What the client's loop kept is gone with it.
Decides(c, verdict) == call' = [call EXCEPT ![c] = [NoCall EXCEPT !.pc = "decided", !.intent = call[c].intent,
                                                                 !.verdict = verdict]]

Important == [important |-> TRUE, status |-> "open"]

-----------------------------------------------------------------------------
\* evaluate_change(): the cache, then the budgets.

\* A diff may be cut to the limit on input before it is sent.
Ask(c) == /\ call[c].pc = "idle" /\ Event
          /\ \E i \in (IF c = Worker THEN {intent} ELSE Intents), cut \in BOOLEAN :
               call' = [call EXCEPT ![c] = [NoCall EXCEPT !.pc = "lookup", !.intent = i, !.cut = cut]]
          /\ UNCHANGED <<month, counters, intent, verdicts, saving, said>>

\* Only the live watch's evaluations are looked up.
LookUp(c) == /\ call[c].pc = "lookup"
             /\ IF c = Worker /\ verdicts[call[c].intent] # Absent
                THEN Decides(c, verdicts[call[c].intent])
                ELSE Moves(c, "admit")
             /\ UNCHANGED <<month, counters, intent, verdicts, saving, said, events>>

\* A counter of an earlier month counts nothing.
Spent(counter, limit) == counter.month = month /\ counter.tokens >= limit

\* admit(): the budgets are soft, looked at before the call and charged after it; a change
\* passes as important when they are used up.
Admit(c) == /\ call[c].pc = "admit"
            /\ IF Spent(used, MonthLimit) \/ (c = Worker /\ Spent(watchUsed, WatchLimit))
               THEN Decides(c, Important) ELSE Moves(c, "call")
            /\ UNCHANGED <<month, counters, intent, verdicts, saving, said, events>>

-----------------------------------------------------------------------------
\* completion(): one attempt after another.

Attempting(c) == call[c].pc = "call"

\* The provider answers within the timeout; each attempt of a call is one dispatch.
Tried(c, t) == [call[c] EXCEPT !.dispatched = @ + 1, !.elapsed = @ + t]

Replies == [text : {"empty", "unreadable", "negative", "positive"}, finish : {"stop", "length"}]

\* A reply cut off before its first word is asked again once, with more room, and is no attempt.
AsksAgain(c, r) == r.text = "empty" /\ r.finish = "length" /\ ~call[c].expanded

\* A reply is billed, and so are those asked again; usage is 0 where it is not reported.
Answered(c) ==
  /\ Attempting(c)
  /\ \E r \in Replies, t \in Times, tokens \in Usages :
       LET now == [Tried(c, t) EXCEPT !.billed = @ + tokens]
       IN call' = [call EXCEPT ![c] = IF AsksAgain(c, r) THEN [now EXCEPT !.expanded = TRUE]
                                      ELSE [now EXCEPT !.pc = "charge", !.reply = r]]
  /\ UNCHANGED <<month, counters, intent, verdicts, saving, said, events>>

\* Connection errors, rate limits and overloads are tried again after a sleep, the provider's
\* own where it names one.
TransientError(c) ==
  /\ Attempting(c)
  /\ \E t \in Times, sleep \in {Backoff[call[c].attempt + 1], 2 * MaxBackoff} :
       LET now == [Tried(c, t) EXCEPT !.attempt = @ + 1]
       IN call' = [call EXCEPT ![c] = IF now.attempt < Retries THEN [now EXCEPT !.elapsed = @ + sleep]
                                      ELSE [now EXCEPT !.pc = "raised"]]
  /\ UNCHANGED <<month, counters, intent, verdicts, saving, said, events>>

\* A timeout, an error of the request, a prompt that does not fit: raised at once.
Raises(c) == /\ Attempting(c)
             /\ \E t \in Times : call' = [call EXCEPT ![c] = [Tried(c, t) EXCEPT !.pc = "raised"]]
             /\ UNCHANGED <<month, counters, intent, verdicts, saving, said, events>>

\* A parameter the provider rejects is dropped and the request made again, once.
Rejected(c) == /\ Attempting(c) /\ ~call[c].stripped
               /\ call' = [call EXCEPT ![c] = [Tried(c, 0) EXCEPT !.stripped = TRUE]]
               /\ UNCHANGED <<month, counters, intent, verdicts, saving, said, events>>

-----------------------------------------------------------------------------
\* record_usage() and the verdict.

Charged(counter, tokens) == IF counter.month = month THEN [counter EXCEPT !.tokens = @ + tokens]
                            ELSE [month |-> month, tokens |-> tokens]

Charge(c) == /\ call[c].pc = "charge"
             /\ LET n == call[c].billed
                IN IF n = 0 THEN UNCHANGED counters
                   ELSE /\ used' = Charged(used, n)
                        /\ watchUsed' = IF c = Worker THEN Charged(watchUsed, n) ELSE watchUsed
             /\ call' = [call EXCEPT ![c] = [NoCall EXCEPT !.pc = "judge", !.intent = call[c].intent, !.cut = call[c].cut,
                                                          !.reply = call[c].reply]]
             /\ UNCHANGED <<month, intent, verdicts, saving, said, events>>

\* Mutant: a reply that was cut off counts like another.
Complete_Any(c) == TRUE

\* A verdict on part of the change, or a part of a verdict, never suppresses.
Complete(c) == ~call[c].cut /\ call[c].reply.finish = "stop"

Readable(c) == call[c].reply.text \in {"negative", "positive"}

Verdict(c) == IF Readable(c) /\ Complete(c)
              THEN [important |-> call[c].reply.text = "positive", status |-> "ok"] ELSE Important

\* Only verdicts are kept, and by the live watch alone.
Judge(c) == /\ call[c].pc = "judge"
            /\ Decides(c, Verdict(c))
            /\ verdicts' = IF c = Worker /\ Verdict(c).status = "ok"
                           THEN [verdicts EXCEPT ![call[c].intent] = Verdict(c)] ELSE verdicts
            /\ said' = IF call[c].reply = [text |-> "negative", finish |-> "stop"] /\ ~call[c].cut
                       THEN said \cup {call[c].intent} ELSE said
            /\ UNCHANGED <<month, counters, intent, saving, events>>

\* What is raised passes the change through.
FailOpen(c) == /\ call[c].pc = "raised"
               /\ Decides(c, Important)
               /\ UNCHANGED <<month, counters, intent, verdicts, saving, said, events>>

\* ai_suppresses_change(): the worker sends no alert, and saves the change.
Finish(c) == /\ call[c].pc = "decided"
             /\ call' = [call EXCEPT ![c] = NoCall]
             /\ UNCHANGED <<month, counters, intent, verdicts, saving, said, events>>

Suppressed(c) == c = Worker /\ call[c].pc = "decided" /\ ~call[c].verdict.important

-----------------------------------------------------------------------------
\* Users and the calendar.

EditIntent == /\ Event
              /\ intent' \in Intents \ {intent}
              /\ UNCHANGED <<month, counters, verdicts, call, saving, said>>

NextMonth == /\ month < MaxMonth
             /\ month' = month + 1
             /\ UNCHANGED <<counters, intent, verdicts, call, saving, said, events>>

\* save_llm_form() and llm_clear() read the stored counters with the rest, merge the form
\* and store it all, without the lock that charges take.
ReadSettings == /\ saving = Absent /\ Event
                /\ saving' = used
                /\ UNCHANGED <<month, counters, intent, verdicts, call, said>>

WriteSettings == /\ saving # Absent
                 /\ used' = saving
                 /\ saving' = Absent
                 /\ UNCHANGED <<month, watchUsed, intent, verdicts, call, said, events>>

Client(c) == Answered(c) \/ TransientError(c) \/ Raises(c) \/ Rejected(c)
Caller(c) == LookUp(c) \/ Admit(c) \/ Client(c) \/ Charge(c) \/ Judge(c) \/ FailOpen(c) \/ Finish(c)

ModelNext == \/ \E c \in Callers : Ask(c) \/ Caller(c)
             \/ EditIntent \/ NextMonth \/ ReadSettings \/ WriteSettings

ModelSpec == ModelInit /\ [][ModelNext]_modelVars

-----------------------------------------------------------------------------
\* Properties.

\* An alert is suppressed only by a complete reply that said so about this change under the
\* intent the check went by: not by a failure, a budget, a reply cut off or one of before.
SuppressedByVerdict == Suppressed(Worker) => call[Worker].intent \in said

\* One call is sent a bounded number of times, whatever the provider answers, so a worker
\* that waits for it goes on.
CallBounded == \A c \in Callers : call[c].dispatched <= Retries + 2

\* The budgets are soft: they are passed by no more than the calls that were under way
\* when they were reached, each of two replies at most.
Overshoot == /\ used.tokens < MonthLimit + 2 * Max(Usages) * Cardinality(Callers)
             /\ watchUsed.tokens < WatchLimit + 2 * Max(Usages)

\* An alert is suppressed only by a complete reply about this change, a call ends, and the
\* budgets are passed by no more than the calls that were under way.
VerdictsWithinBudget == SuppressedByVerdict /\ CallBounded /\ Overshoot

=============================================================================
