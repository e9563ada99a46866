------------------------ MODULE BackgroundJobsProofs --------------------------
(***************************************************************************)
(* What threads and child processes do for the users of a watch: the AI    *)
(* summaries they ask for, the notifications they are sent, the calls of   *)
(* the language model, the browsers held open for them, the checks of      *)
(* shops and the comparing of screenshots, for any prompts, tabs, threads, *)
(* runners, URLs, callers, sessions, requests, shops and pictures.         *)
(*                                                                         *)
(* Of summaries: a key has one job, however many tabs ask for it, and the  *)
(* job leaves a text, an answer or an error.  Of notifications: an outage  *)
(* is told once, a muted watch says nothing, and every URL is tried.  Of   *)
(* calls: only a complete reply suppresses an alert, and the budgets are   *)
(* passed by no more than the calls that were under way.  Of browsers:     *)
(* each is in the table, somebody's, or lost in a way that is known.  Of   *)
(* shops: the settings in force judged what is noted.  Of screenshots: a   *)
(* check that found no change found the pictures alike.                    *)
(***************************************************************************)
EXTENDS Notifications, Summaries, LlmCalls, LiveBrowsers, Restock, Screenshots, FiniteSetTheorems,
        TLAPS

-----------------------------------------------------------------------------
\* Summaries.

\* The places of a request that has read the key it works on.
Keyed == {"asks error", "asks pending", "building", "submitting", "polls error",
          "polls pending", "polls again"}

TabRecs == [pc : Keyed \cup {"resting", "start", "waiting"}, key : Prompts \cup {None},
            restarts : Nat]

JobRecs == [pc : {"idle", "runs", "saves", "settles"}, key : Prompts \cup {None},
            made : Prompts \cup {None}]

TabTypes == /\ tab \in [Tabs -> TabRecs]
            /\ \A t \in Tabs : tab[t].pc \in Keyed => tab[t].key \in Prompts

JobTypes == /\ prompt \in Prompts
         /\ txt \in [Prompts -> Prompts \cup {None}] /\ json \in [Prompts -> Prompts \cup {None}]
         /\ pending \in [Prompts -> {"no", "queued", "running"}]
         /\ errors \subseteq Prompts
         /\ pool \in Seq(Prompts)
         /\ thread \in [Threads -> JobRecs]
         /\ TabTypes
         /\ check \in Prompts \cup {None}

Busy(h) == thread[h].pc # "idle"

\* The registry knows every job, and the jobs in the pool and at the threads are of
\* different keys.
OneJob ==
  /\ \A h \in Threads : Busy(h) => thread[h].key \in Prompts /\ pending[thread[h].key] # "no"
  /\ \A i \in 1..Len(pool) : pending[pool[i]] # "no"
  /\ \A h, g \in Threads : Busy(h) /\ Busy(g) /\ thread[h].key = thread[g].key => h = g
  /\ \A i, k \in 1..Len(pool) : pool[i] = pool[k] => i = k
  /\ \A h \in Threads, i \in 1..Len(pool) : Busy(h) => pool[i] # thread[h].key

\* A job about to leave the registry has left its outcome, unless that was asked for or
\* cleared; and what it saves is a summary.
Outcome ==
  /\ \A h \in Threads : thread[h].pc = "saves" => thread[h].made # None
  /\ \A h \in Threads : thread[h].pc = "settles" /\ thread[h].key \in owed =>
                          Cached(thread[h].key) # None \/ thread[h].key \in errors
  /\ owed \subseteq Prompts

JobInv == JobTypes /\ OneJob /\ Outcome /\ NothingLost

LEMMA JobInvInit == SummariesInit => JobInv
<1> SUFFICES ASSUME SummariesInit PROVE JobInv
  OBVIOUS
<1>1. TabTypes
  BY DEF SummariesInit, TabTypes, TabRecs, AtRest, Keyed
<1>2. JobTypes
  BY <1>1 DEF SummariesInit, JobTypes, JobRecs, Idle
<1>3. Len(pool) = 0
  BY DEF SummariesInit
<1>4. OneJob
  BY <1>3 DEF SummariesInit, OneJob, Busy, Idle
<1>5. Outcome /\ NothingLost
  BY DEF SummariesInit, Outcome, NothingLost, Idle
<1> QED
  BY <1>2, <1>4, <1>5 DEF JobInv

-----------------------------------------------------------------------------
\* Where a request goes, and with which key.
LEMMA TabStep ==
  ASSUME TabTypes, NEW t \in Tabs, NEW pc \in Keyed, NEW k \in Prompts,
         tab' = [tab EXCEPT ![t].pc = pc, ![t].key = k]
  PROVE  TabTypes'
BY DEF TabTypes, TabRecs

LEMMA GoesStep ==
  ASSUME TabTypes, NEW t \in Tabs, NEW pc \in Keyed \cup {"resting", "start", "waiting"},
         pc \in Keyed => tab[t].key \in Prompts, Goes(t, pc)
  PROVE  TabTypes'
BY DEF TabTypes, Goes, TabRecs

LEMMA ToldStep ==
  ASSUME TabTypes, NEW t \in Tabs, Told(t)
  PROVE  TabTypes'
BY DEF Told, AtRest, TabTypes, TabRecs, Keyed

\* Steps of tabs and users that leave registry and files alone.
LEMMA JobsStay ==
  ASSUME JobInv, UNCHANGED <<txt, json, pending, errors, pool, thread, owed>>,
         TabTypes', prompt' \in Prompts, check' \in Prompts \cup {None}
  PROVE  JobInv'
BY DEF JobInv, JobTypes, OneJob, Outcome, NothingLost, Busy, Cached

LEMMA TakeErrorStep ==
  ASSUME JobInv, NEW t \in Tabs, NEW pc \in Keyed \cup {"waiting"}, tab[t].key \in Prompts,
         TakeError(t, pc)
  PROVE  JobInv'
<1> USE DEF JobInv
<1>1. TabTypes'
  BY GoesStep, ToldStep DEF TakeError, JobTypes
<1>2. /\ UNCHANGED <<prompt, txt, json, pending, pool, thread, check>>
      /\ errors' = errors \ {tab[t].key} /\ owed' = owed \ (errors \cap {tab[t].key})
  BY DEF TakeError, files
<1>3. JobTypes'
  BY <1>1, <1>2 DEF JobTypes
<1>4. OneJob'
  BY <1>2 DEF OneJob, Busy
<1>5. Outcome' /\ NothingLost'
  BY <1>2 DEF Outcome, NothingLost, Cached
<1> QED
  BY <1>3, <1>4, <1>5

\* A request that starts a generation puts a new job of its key at the end of the pool.
LEMMA SubmitStep ==
  ASSUME JobInv, NEW t \in Tabs, Submit(t)
  PROVE  JobInv'
<1> USE DEF JobInv
<1> DEFINE k == tab[t].key
<1>1. k \in Prompts /\ UNCHANGED <<prompt, txt, json, check>>
  BY DEF Submit, JobTypes, TabTypes, Keyed, files
<1>2. CASE UNCHANGED <<registry, owed>>
  <2>1. TabTypes'
    <3>1. Goes(t, "waiting") \/ Told(t)
      BY DEF Submit
    <3> QED
      BY <3>1, GoesStep, ToldStep DEF JobTypes, Keyed
  <2> QED
    BY <1>1, <1>2, <2>1, JobsStay DEF registry, JobTypes
<1>3. CASE /\ Accepts(k) /\ pending' = [pending EXCEPT ![k] = "queued"]
           /\ errors' = errors \ {k} /\ pool' = Append(pool, k)
           /\ owed' = owed \cup {k} /\ Goes(t, "waiting") /\ UNCHANGED thread
  <2>1. TabTypes'
    BY <1>3, GoesStep DEF JobTypes, Keyed
  <2>2. JobTypes'
    BY <1>1, <1>3, <2>1 DEF JobTypes
  <2>3. pending[k] = "no"
    BY <1>3 DEF Accepts
  <2>4. /\ Len(pool') = Len(pool) + 1 /\ Len(pool) \in Nat
        /\ \A i \in 1..Len(pool) : pool'[i] = pool[i] /\ pool[i] \in Prompts
        /\ pool'[Len(pool) + 1] = k
    BY <1>1, <1>3 DEF JobTypes
  <2>5. OneJob'
    <3>1. \A h \in Threads : Busy(h) => thread[h].key # k
      BY <2>3 DEF OneJob
    <3>2. \A i \in 1..Len(pool) : pool[i] # k
      BY <2>3 DEF OneJob
    <3>3. \A u \in Prompts : pending[u] # "no" => pending'[u] # "no"
      BY <1>3 DEF JobTypes
    <3>4. pending'[k] # "no"
      BY <1>1, <1>3 DEF JobTypes
    <3>5. \A i \in 1..Len(pool') : i \in 1..Len(pool) \/ i = Len(pool) + 1
      BY <2>4
    <3> QED
      BY <1>3, <2>4, <3>1, <3>2, <3>3, <3>4, <3>5 DEF OneJob, Busy
  <2>6. Outcome'
    <3>1. ASSUME NEW h \in Threads, thread[h].pc = "settles" PROVE thread[h].key # k
      BY <2>3, <3>1 DEF OneJob, Busy
    <3> QED
      BY <1>1, <1>3, <3>1 DEF Outcome, Cached
  <2>7. NothingLost'
    BY <1>1, <1>3 DEF NothingLost, Cached, JobTypes
  <2> QED
    BY <2>2, <2>5, <2>6, <2>7
<1> QED
  BY <1>2, <1>3 DEF Submit

LEMMA RouteStep ==
  ASSUME JobInv, NEW t \in Tabs, Route(t)
  PROVE  JobInv'
<1> USE DEF JobInv
<1>1. CASE ReadCache(t)
  <2>1. TabTypes'
    BY <1>1, ToldStep, TabStep DEF ReadCache, Key, JobTypes, Keyed
  <2> QED
    BY <1>1, <2>1, JobsStay DEF ReadCache, files, registry, JobTypes
<1>2. CASE StartTakesError(t)
  BY <1>2, TakeErrorStep DEF StartTakesError, JobTypes, TabTypes, Keyed
<1>3. CASE StartAsksPending(t)
  <2>1. TabTypes'
    BY <1>3, GoesStep DEF StartAsksPending, JobTypes, TabTypes, Keyed
  <2> QED
    BY <1>3, <2>1, JobsStay DEF StartAsksPending, files, registry, JobTypes
<1>4. CASE BuildDiff(t)
  <2>1. TabTypes'
    BY <1>4, GoesStep, ToldStep DEF BuildDiff, JobTypes, TabTypes, Keyed
  <2> QED
    BY <1>4, <2>1, JobsStay DEF BuildDiff, files, registry, JobTypes
<1>5. CASE Submit(t)
  BY <1>5, SubmitStep
<1>6. CASE Poll(t)
  <2>1. TabTypes'
    BY <1>6, ToldStep, TabStep DEF Poll, Key, JobTypes, Keyed
  <2> QED
    BY <1>6, <2>1, JobsStay DEF Poll, files, registry, JobTypes
<1>7. CASE PollTakesError(t)
  BY <1>7, TakeErrorStep DEF PollTakesError, JobTypes, TabTypes, Keyed
<1>8. CASE PollAsksPending(t)
  <2>1. TabTypes'
    BY <1>8, GoesStep DEF PollAsksPending, JobTypes, TabTypes, Keyed
  <2> QED
    BY <1>8, <2>1, JobsStay DEF PollAsksPending, files, registry, JobTypes
<1>9. CASE PollAgain(t)
  <2>1. TabTypes'
    <3>1. Told(t) \/ tab' = [tab EXCEPT ![t].pc = "start", ![t].restarts = 1]
      BY <1>9 DEF PollAgain
    <3>2. CASE tab' = [tab EXCEPT ![t].pc = "start", ![t].restarts = 1]
      <4>1. tab' \in [Tabs -> TabRecs]
        <5>1. [tab[t] EXCEPT !.pc = "start", !.restarts = 1] \in TabRecs
          BY DEF JobTypes, TabTypes, TabRecs
        <5> QED
          BY <3>2, <5>1 DEF JobTypes, TabTypes
      <4>2. tab'[t].pc = "start" /\ \A u \in Tabs \ {t} : tab'[u] = tab[u]
        BY <3>2 DEF JobTypes, TabTypes, TabRecs
      <4> QED
        BY <4>1, <4>2 DEF JobTypes, TabTypes, Keyed
    <3> QED
      BY <3>1, <3>2, ToldStep DEF JobTypes
  <2> QED
    BY <1>9, <2>1, JobsStay DEF PollAgain, files, registry, JobTypes
<1> QED
  BY <1>1, <1>2, <1>3, <1>4, <1>5, <1>6, <1>7, <1>8, <1>9 DEF Route

-----------------------------------------------------------------------------
\* The threads of the pool.
LEMMA BeginStep ==
  ASSUME JobInv, NEW h \in Threads, Begin(h)
  PROVE  JobInv'
<1> USE DEF JobInv
<1> DEFINE k == Head(pool)
<1>1. /\ pool # << >> /\ pool' = Tail(pool) /\ thread[h].pc = "idle"
      /\ pending' = [pending EXCEPT ![k] = "running"]
      /\ thread' = [thread EXCEPT ![h] = [pc |-> "runs", key |-> k, made |-> None]]
      /\ UNCHANGED <<prompt, txt, json, errors, tab, check, owed>>
  BY DEF Begin, files
<1>2. /\ Len(pool) \in Nat /\ Len(pool) >= 1 /\ k = pool[1] /\ k \in Prompts
      /\ Len(pool') = Len(pool) - 1
      /\ \A i \in 1..Len(pool') : i + 1 \in 1..Len(pool) /\ pool'[i] = pool[i + 1]
  BY <1>1 DEF JobTypes
<1>3. JobTypes'
  BY <1>1, <1>2 DEF JobTypes, TabTypes, JobRecs
<1>4. OneJob'
  <2>1. \A g \in Threads : Busy(g) => thread[g].key # k
    BY <1>2 DEF OneJob
  <2>2. \A i \in 1..Len(pool') : pool'[i] # k /\ pending[pool'[i]] # "no"
    BY <1>2 DEF OneJob
  <2>3. \A u \in Prompts : pending[u] # "no" => pending'[u] # "no"
    BY <1>1 DEF JobTypes
  <2>4. pending'[k] # "no"
    BY <1>1, <1>2 DEF JobTypes
  <2>5. \A g \in Threads : g # h => thread'[g] = thread[g]
    BY <1>1 DEF JobTypes
  <2>6. thread'[h].key = k
    BY <1>1 DEF JobTypes
  <2>7. \A i \in 1..Len(pool') : pool'[i] \in Prompts
    BY <1>3 DEF JobTypes
  <2>8. \A g \in Threads : Busy(g)' => thread'[g].key \in Prompts /\ pending'[thread'[g].key] # "no"
    BY <1>2, <2>3, <2>4, <2>5, <2>6 DEF OneJob, Busy
  <2>9. \A i \in 1..Len(pool') : pending'[pool'[i]] # "no"
    BY <2>2, <2>3, <2>7
  <2>10. \A g, f \in Threads : Busy(g)' /\ Busy(f)' /\ thread'[g].key = thread'[f].key => g = f
    BY <2>1, <2>5, <2>6 DEF OneJob, Busy
  <2>11. \A i, j \in 1..Len(pool') : pool'[i] = pool'[j] => i = j
    BY <1>2 DEF OneJob
  <2>12. \A g \in Threads, i \in 1..Len(pool') : Busy(g)' => pool'[i] # thread'[g].key
    BY <1>2, <2>2, <2>5, <2>6, SMTT(30) DEF OneJob, Busy
  <2> QED
    BY <2>8, <2>9, <2>10, <2>11, <2>12 DEF OneJob
<1>5. Outcome' /\ NothingLost'
  BY <1>1, <1>2 DEF Outcome, NothingLost, Cached, JobTypes
<1> QED
  BY <1>3, <1>4, <1>5

\* Steps of a job that keeps its key.
LEMMA JobGoesOn ==
  ASSUME JobInv, NEW h \in Threads, Busy(h), Busy(h)', thread'[h].key = thread[h].key,
         \A g \in Threads \ {h} : thread'[g] = thread[g],
         UNCHANGED <<pending, pool>>
  PROVE  OneJob'
BY DEF JobInv, OneJob, Busy

\* What a job does next, and with which summary.
LEMMA ThreadStep ==
  ASSUME JobTypes, NEW h \in Threads, NEW pc \in {"saves", "settles"}, NEW m \in Prompts,
         \/ thread' = [thread EXCEPT ![h].pc = pc, ![h].made = m]
         \/ pc = "settles" /\ thread' = [thread EXCEPT ![h].pc = pc]
  PROVE  /\ thread' \in [Threads -> JobRecs]
         /\ thread'[h].pc = pc /\ thread'[h].key = thread[h].key
         /\ pc = "saves" => thread'[h].made = m
         /\ \A g \in Threads \ {h} : thread'[g] = thread[g]
BY SMTT(30) DEF JobTypes, JobRecs

LEMMA GenerateStep ==
  ASSUME JobInv, NEW h \in Threads, Generate(h), None \notin Prompts
  PROVE  JobInv'
<1> USE DEF JobInv
<1>1. /\ thread[h].pc = "runs" /\ pending' = pending
      /\ UNCHANGED <<prompt, txt, json, pool, tab, check, owed>>
  BY DEF Generate, PendingMeanwhile, files
<1>2. thread[h].key \in Prompts
  BY <1>1 DEF OneJob, Busy
<1>3. CASE thread' = [thread EXCEPT ![h].pc = "saves", ![h].made = prompt] /\ UNCHANGED errors
  <2>1. /\ thread' \in [Threads -> JobRecs]
        /\ thread'[h].pc = "saves" /\ thread'[h].key = thread[h].key /\ thread'[h].made = prompt
        /\ \A g \in Threads \ {h} : thread'[g] = thread[g]
    BY <1>3, ThreadStep DEF JobTypes
  <2>2. OneJob'
    BY <1>1, <2>1, JobGoesOn DEF Busy
  <2>3. JobTypes'
    BY <1>1, <1>3, <2>1 DEF JobTypes, TabTypes
  <2>4. Outcome'
    BY <1>1, <1>3, <2>1 DEF Outcome, Cached, JobTypes
  <2>5. NothingLost'
    BY <1>1, <1>3 DEF NothingLost, Cached
  <2> QED
    BY <2>2, <2>3, <2>4, <2>5
<1>4. CASE /\ thread' = [thread EXCEPT ![h].pc = "settles"]
           /\ errors' = errors \cup {thread[h].key}
  <2>1. /\ thread' \in [Threads -> JobRecs]
        /\ thread'[h].pc = "settles" /\ thread'[h].key = thread[h].key
        /\ \A g \in Threads \ {h} : thread'[g] = thread[g]
    BY <1>4, ThreadStep DEF JobTypes
  <2>2. OneJob'
    BY <1>1, <2>1, JobGoesOn DEF Busy
  <2>3. JobTypes'
    BY <1>1, <1>2, <1>4, <2>1 DEF JobTypes, TabTypes
  <2>4. Outcome'
    BY <1>1, <1>4, <2>1 DEF Outcome, Cached
  <2>5. NothingLost'
    BY <1>1, <1>4 DEF NothingLost, Cached
  <2> QED
    BY <2>2, <2>3, <2>4, <2>5
<1> QED
  BY <1>3, <1>4 DEF Generate

LEMMA SaveSummaryStep ==
  ASSUME JobInv, NEW h \in Threads, SaveSummary(h)
  PROVE  JobInv'
<1> USE DEF JobInv
<1> DEFINE k == thread[h].key
<1>1. /\ thread[h].pc = "saves" /\ thread' = [thread EXCEPT ![h].pc = "settles"]
      /\ txt' = [txt EXCEPT ![k] = thread[h].made] /\ json' = [json EXCEPT ![k] = thread[h].made]
      /\ UNCHANGED <<prompt, pending, errors, pool, tab, check, owed>>
  BY DEF SaveSummary
<1>2. k \in Prompts /\ thread[h].made # None /\ thread[h].made \in Prompts \cup {None}
  BY <1>1 DEF OneJob, Busy, Outcome, JobTypes, JobRecs
<1>3. /\ thread' \in [Threads -> JobRecs]
      /\ thread'[h].pc = "settles" /\ thread'[h].key = k
      /\ \A g \in Threads \ {h} : thread'[g] = thread[g]
  BY <1>1, <1>2, ThreadStep
<1>4. OneJob'
  BY <1>1, <1>3, JobGoesOn DEF Busy
<1>5. JobTypes'
  BY <1>1, <1>2, <1>3 DEF JobTypes, TabTypes
<1>6. \A u \in Prompts : Cached(u) # None \/ u = k => Cached(u)' # None
  BY <1>1, <1>2 DEF Cached, JobTypes
<1>7. Outcome'
  BY <1>1, <1>3, <1>6 DEF Outcome, JobTypes
<1>8. NothingLost'
  BY <1>1, <1>6 DEF NothingLost, Outcome
<1> QED
  BY <1>4, <1>5, <1>7, <1>8

LEMMA SettleStep ==
  ASSUME JobInv, NEW h \in Threads, Settle(h)
  PROVE  JobInv'
<1> USE DEF JobInv
<1> DEFINE k == thread[h].key
<1>1. /\ thread[h].pc = "settles" /\ pending' = [pending EXCEPT ![k] = "no"]
      /\ thread' = [thread EXCEPT ![h] = [pc |-> "idle", key |-> None, made |-> None]]
      /\ UNCHANGED <<prompt, txt, json, errors, pool, tab, check, owed>>
  BY DEF Settle, Settled, Idle, files
<1>2. JobTypes'
  BY <1>1 DEF JobTypes, TabTypes, JobRecs
<1>3. /\ \A g \in Threads : Busy(g)' => g # h /\ thread'[g] = thread[g] /\ thread[g].key # k
      /\ \A i \in 1..Len(pool) : pool[i] # k
  BY <1>1 DEF OneJob, Busy, JobTypes
<1>4. \A u \in Prompts : u # k => pending'[u] = pending[u]
  BY <1>1 DEF JobTypes
<1>5. \A i \in 1..Len(pool) : pool[i] \in Prompts
  BY DEF JobTypes
<1>6. OneJob'
  BY <1>1, <1>3, <1>4, <1>5 DEF OneJob, Busy
<1>7. Outcome'
  BY <1>1, <1>3 DEF Outcome, Cached, Busy
<1>8. NothingLost'
  BY <1>1, <1>4 DEF NothingLost, Outcome, Cached
<1> QED
  BY <1>2, <1>6, <1>7, <1>8

-----------------------------------------------------------------------------
LEMMA OthersStep ==
  ASSUME JobInv, None \notin Prompts,
         CheckSummarises \/ CheckSaves \/ EditPrompt \/ ClearCache \/ ProgramRestarts
  PROVE  JobInv'
<1> USE DEF JobInv
<1>1. CASE CheckSummarises \/ EditPrompt
  BY <1>1, JobsStay DEF CheckSummarises, EditPrompt, files, registry, JobTypes, TabTypes
<1>2. CASE CheckSaves
  <2>1. /\ txt' = [txt EXCEPT ![prompt] = check] /\ json' = [json EXCEPT ![prompt] = check]
        /\ check # None /\ check' = None
        /\ UNCHANGED <<prompt, pending, errors, pool, thread, tab, owed>>
    BY <1>2 DEF CheckSaves, Key, registry
  <2>2. JobTypes'
    BY <2>1 DEF JobTypes, TabTypes
  <2>3. OneJob'
    BY <2>1 DEF OneJob, Busy
  <2>4. \A u \in Prompts : Cached(u) # None => Cached(u)' # None
    BY <2>1 DEF Cached, JobTypes
  <2>5. Outcome' /\ NothingLost'
    BY <2>1, <2>4 DEF Outcome, NothingLost
  <2> QED
    BY <2>2, <2>3, <2>5
<1>3. CASE ClearCache
  <2>1. /\ txt' = [k \in Prompts |-> None] /\ owed' = {}
        /\ UNCHANGED <<prompt, json, pending, errors, pool, thread, tab, check>>
    BY <1>3 DEF ClearCache, registry
  <2>2. JobTypes'
    BY <2>1 DEF JobTypes, TabTypes
  <2>3. OneJob' /\ Outcome' /\ NothingLost'
    BY <2>1 DEF OneJob, Busy, Outcome, NothingLost
  <2> QED
    BY <2>2, <2>3
<1>4. CASE ProgramRestarts
  <2>1. /\ pending' = [k \in Prompts |-> "no"] /\ errors' = {} /\ pool' = << >>
        /\ thread' = [h \in Threads |-> [pc |-> "idle", key |-> None, made |-> None]]
        /\ tab' = [t \in Tabs |-> IF tab[t].pc = "waiting" THEN tab[t] ELSE AtRest]
        /\ check' = None /\ owed' = {} /\ UNCHANGED <<prompt, txt, json>>
    BY <1>4 DEF ProgramRestarts, files, Idle
  <2>2. TabTypes'
    BY <2>1 DEF JobTypes, TabTypes, TabRecs, AtRest, Keyed
  <2>3. JobTypes'
    BY <2>1, <2>2 DEF JobTypes, JobRecs
  <2>4. Len(pool') = 0
    BY <2>1
  <2>5. OneJob' /\ Outcome' /\ NothingLost'
    BY <2>1, <2>4 DEF OneJob, Busy, Outcome, NothingLost
  <2> QED
    BY <2>3, <2>5
<1> QED
  BY <1>1, <1>2, <1>3, <1>4

LEMMA JobInvStep ==
  ASSUME None \notin Prompts
  PROVE  JobInv /\ [SummariesNext]_summaryVars => JobInv'
<1> SUFFICES ASSUME JobInv, [SummariesNext]_summaryVars PROVE JobInv'
  OBVIOUS
<1>1. ASSUME NEW t \in Tabs, Click(t) PROVE JobInv'
  <2>1. TabTypes'
    BY <1>1, GoesStep DEF Click, JobInv, JobTypes, Keyed
  <2> QED
    BY <1>1, <2>1, JobsStay DEF Click, files, registry, JobInv, JobTypes
<1>2. ASSUME NEW h \in Threads, Job(h) PROVE JobInv'
  BY <1>2, BeginStep, GenerateStep, SaveSummaryStep, SettleStep DEF Job
<1>3. CASE UNCHANGED summaryVars
  BY <1>3, JobsStay DEF summaryVars, files, registry, JobInv, JobTypes, TabTypes
<1> QED
  BY <1>1, <1>2, <1>3, RouteStep, OthersStep DEF SummariesNext

LEMMA JobInvKept == JobInv /\ [SummariesNext]_summaryVars => JobInv'
BY NoneAssumption, JobInvStep

\* However many tabs, checks and threads there are, a key has one job at most.
THEOREM KeysHaveOneJob == SummariesSpec => []OneJobPerKey
<1>1. JobInv => OneJobPerKey
  <2> SUFFICES ASSUME JobInv, NEW k \in Prompts
               PROVE  Cardinality(Working(k))
                        + Cardinality({i \in 1..Len(pool) : pool[i] = k}) <= 1
    BY DEF OneJobPerKey
  <2> DEFINE W == Working(k)
             Q == {i \in 1..Len(pool) : pool[i] = k}
  <2>1. /\ \A h, g \in W : h = g
        /\ \A i, j \in Q : i = j
        /\ W = {} \/ Q = {}
    BY DEF JobInv, OneJob, Busy, Working
  <2>2. ASSUME NEW A, \A x, y \in A : x = y PROVE A = {} \/ \E x \in A : A = {x}
    BY <2>2
  <2>3. W = {} \/ \E x \in W : W = {x}
    BY <2>1, <2>2
  <2>4. Q = {} \/ \E x \in Q : Q = {x}
    BY <2>1, <2>2
  <2>5. Cardinality({}) = 0 /\ \A x : Cardinality({x}) = 1
    BY FS_EmptySet, FS_Singleton
  <2> HIDE DEF W, Q
  <2>6. Cardinality(W) \in {0, 1} /\ (W = {} => Cardinality(W) = 0)
    BY <2>3, <2>5
  <2>7. Cardinality(Q) \in {0, 1} /\ (Q = {} => Cardinality(Q) = 0)
    BY <2>4, <2>5
  <2>8. Cardinality(W) + Cardinality(Q) <= 1
    BY <2>1, <2>6, <2>7
  <2> USE DEF W, Q
  <2> QED
    BY <2>8
<1> QED
  BY <1>1, JobInvInit, JobInvKept, PTL DEF SummariesSpec

\* A job leaves the registry with its outcome there to be read: a poll that finds no job
\* finds a summary or an error, unless another was told of it or somebody cleared it.
THEOREM OutcomesAreKept == SummariesSpec => []NothingLost
<1>1. JobInv => NothingLost
  BY DEF JobInv
<1> QED
  BY <1>1, JobInvInit, JobInvKept, PTL DEF SummariesSpec

\* However many ask, a key has one job, and its end leaves a summary or an error.
THEOREM ResultsAreLeft == SummariesSpec => []JobsLeaveResults
BY KeysHaveOneJob, OutcomesAreKept, PTL DEF JobsLeaveResults

-----------------------------------------------------------------------------
\* Notifications.

Kinds == {"failure", "recovery", "content", "filter"}
Notice == [kind : Kinds, urls : {Own, Group, System}]

HealthRecs == [pc : {"idle", "decide", "save"}, ok : BOOLEAN, alerted : BOOLEAN,
               enabled : BOOLEAN]

Types == /\ there \in BOOLEAN /\ alerted \in BOOLEAN /\ enabled \in BOOLEAN /\ told \in BOOLEAN
         /\ health \in HealthRecs
         /\ queue \in Seq(Notice)

\* What was told in this outage is noted, or about to be, unless the watch is gone.
Noted == /\ told /\ there /\ health.pc = "idle" => alerted
         /\ told /\ health.pc = "decide" => health.alerted
         /\ told /\ there /\ health.pc = "save" /\ ~health.ok /\ health.enabled => health.alerted

Inv == Types /\ Noted

LEMMA InvInit == Init => Inv
<1> SUFFICES ASSUME Init PROVE Inv
  OBVIOUS
<1>1. queue \in Seq(Notice)
  BY DEF Init
<1>2. health \in HealthRecs
  BY DEF Init, Resting, HealthRecs
<1> QED
  BY <1>1, <1>2 DEF Init, Inv, Types, Noted, Resting

-----------------------------------------------------------------------------
\* A set of at most one member as a sequence.
LEMMA SeqOfFew ==
  ASSUME NEW S, S = {} \/ \E x \in S : S = {x}
  PROVE  /\ SetToSeq(S) \in Seq(S)
         /\ Len(SetToSeq(S)) > 0 => S # {}
<1> DEFINE n == Cardinality(S)
<1>1. n \in Nat /\ (S = {} => n = 0)
  <2>1. CASE S = {}
    BY <2>1, FS_EmptySet
  <2>2. ASSUME NEW x \in S, S = {x} PROVE n \in Nat /\ (S = {} => n = 0)
    <3>1. n = 1
      BY <2>2, FS_Singleton
    <3> QED
      BY <3>1
  <2> QED
    BY <2>1, <2>2
<1>2. \E f \in [1..n -> S] : IsInjective(f)
  <2>1. CASE S = {}
    <3>1. [i \in 1..n |-> i] \in [1..n -> S]
      BY <1>1, <2>1
    <3>2. IsInjective([i \in 1..n |-> i])
      BY DEF IsInjective
    <3> QED
      BY <3>1, <3>2
  <2>2. ASSUME NEW x \in S, S = {x} PROVE \E f \in [1..n -> S] : IsInjective(f)
    <3>1. n = 1
      BY <2>2, FS_Singleton
    <3>2. [i \in 1..n |-> x] \in [1..n -> S]
      OBVIOUS
    <3>3. IsInjective([i \in 1..n |-> x])
      BY <3>1 DEF IsInjective
    <3> QED
      BY <3>2, <3>3
  <2> QED
    BY <2>1, <2>2
<1>3. SetToSeq(S) \in [1..n -> S]
  BY <1>2 DEF SetToSeq
<1>4. SetToSeq(S) \in Seq(S) /\ Len(SetToSeq(S)) = n
  BY <1>1, <1>3
<1> QED
  BY <1>1, <1>4

\* What is queued is of the kind and goes to the URLs asked for.
LEMMA QueueStep ==
  ASSUME queue \in Seq(Notice), NEW kind \in Kinds, NEW urls \in SUBSET {Own, Group, System},
         urls = {} \/ \E u \in urls : urls = {u},
         Queue(kind, urls)
  PROVE  /\ queue' \in Seq(Notice)
         /\ queue' # queue => urls # {}
         /\ \A i \in (Len(queue) + 1)..Len(queue') :
              queue'[i].kind = kind /\ queue'[i].urls \in urls
<1> DEFINE S == {[kind |-> kind, urls |-> u] : u \in urls}
<1>1. CASE "all" \in muted
  BY <1>1 DEF Queue
<1>2. CASE "all" \notin muted
  <2>1. S = {} \/ \E x \in S : S = {x}
    OBVIOUS
  <2>2. S \subseteq Notice /\ (S # {} => urls # {})
    BY DEF Notice
  <2>3. SetToSeq(S) \in Seq(S) /\ (Len(SetToSeq(S)) > 0 => S # {})
    BY <2>1, SeqOfFew
  <2>4. queue' = queue \o SetToSeq(S)
    BY <1>2 DEF Queue
  <2> HIDE DEF S
  <2> DEFINE s == SetToSeq(S)
  <2>5. s \in Seq(Notice) /\ (\A i \in 1..Len(s) : s[i] \in S)
    BY <2>2, <2>3
  <2> HIDE DEF s
  <2>6. queue' \in Seq(Notice) /\ Len(queue') = Len(queue) + Len(s)
    BY <2>4, <2>5 DEF s
  <2>7. Len(s) = 0 => queue' = queue
    BY <2>4, <2>5 DEF s
  <2>8. \A i \in (Len(queue) + 1)..Len(queue') : queue'[i] \in S
    BY <2>4, <2>5, <2>6 DEF s
  <2>9. \A x \in S : x.kind = kind /\ x.urls \in urls
    BY DEF S
  <2> QED
    BY <2>2, <2>3, <2>5, <2>6, <2>7, <2>8, <2>9 DEF s
<1> QED
  BY <1>1, <1>2

LEMMA FewConfigs ==
  /\ Configs \in SUBSET {Own, Group, System}
  /\ Configs = {} \/ \E u \in Configs : Configs = {u}
  /\ FilterAlertUrls \in SUBSET {Own, Group, System}
  /\ FilterAlertUrls = {} \/ \E u \in FilterAlertUrls : FilterAlertUrls = {u}
BY DEF Configs, FilterAlertUrls

-----------------------------------------------------------------------------
\* Steps that leave the check's end, the watch and the queue alone.
LEMMA Unnoted ==
  ASSUME Inv, UNCHANGED <<there, alerted, health, told>>, enabled' \in BOOLEAN,
         queue' \in Seq(Notice)
  PROVE  Inv'
BY DEF Inv, Types, Noted

LEMMA NothingQueued ==
  ASSUME Inv, UNCHANGED queue
  PROVE  ~Queued("failure")
<1>1. Len(queue) \in Nat
  BY DEF Inv, Types
<1> QED
  BY <1>1 DEF Queued

LEMMA DecideStep ==
  ASSUME Inv, Decide
  PROVE  Inv' /\ (Queued("failure") => ~told)
<1> USE DEF Inv
<1>1. /\ health.pc = "decide" /\ UNCHANGED <<there, alerted, enabled>>
      /\ told' = IF Alarming /\ queue' # queue THEN TRUE ELSE told
  BY DEF Decide, watch, config
<1>2. CASE Alarming
  <2>1. /\ Queue("failure", Configs)
        /\ health' = [health EXCEPT !.pc = "save", !.alerted = there /\ Alerted]
    BY <1>2 DEF Decide
  <2>2. queue' \in Seq(Notice) /\ (queue' # queue => Configs # {})
    BY <2>1, FewConfigs, QueueStep DEF Types, Kinds
  <2>3. ~told
    BY <1>1, <1>2 DEF Alarming, Noted
  <2>4. told' => Alerted
    BY <1>1, <2>2, <2>3 DEF Alerted
  <2>5. health' \in HealthRecs /\ health'.pc = "save" /\ health'.alerted = (there /\ Alerted)
    BY <2>1 DEF Types, HealthRecs
  <2>6. Types'
    BY <1>1, <2>2, <2>5 DEF Types
  <2>7. Noted'
    BY <1>1, <2>4, <2>5 DEF Noted
  <2> QED
    BY <2>3, <2>6, <2>7
<1>3. CASE ~Alarming
  <2>1. health' = [health EXCEPT !.pc = "save"] /\ told' = told
    BY <1>1, <1>3 DEF Decide
  <2>2. UNCHANGED queue \/ Queue("recovery", Configs)
    BY <1>3 DEF Decide
  <2>3. queue' \in Seq(Notice)
    BY <2>2, FewConfigs, QueueStep DEF Types, Kinds
  <2>4. ~Queued("failure")
    <3>1. CASE UNCHANGED queue
      BY <3>1, NothingQueued
    <3>2. CASE Queue("recovery", Configs)
      BY <3>2, FewConfigs, QueueStep DEF Queued, Types, Kinds
    <3> QED
      BY <2>2, <3>1, <3>2
  <2>5. health' \in HealthRecs /\ health'.pc = "save" /\ health'.alerted = health.alerted
    BY <2>1 DEF Types, HealthRecs
  <2>6. Types'
    BY <1>1, <2>1, <2>3, <2>5 DEF Types
  <2>7. Noted'
    <3>1. told => health.alerted
      BY <1>1 DEF Noted
    <3>2. told' => health'.alerted
      BY <2>1, <2>5, <3>1
    <3> QED
      BY <2>5, <3>2 DEF Noted
  <2> QED
    BY <2>4, <2>6, <2>7
<1> QED
  BY <1>2, <1>3

LEMMA ChecksStep ==
  ASSUME Inv, Checks
  PROVE  Inv' /\ (Queued("failure") => ~told)
<1> USE DEF Inv
<1>1. CASE CheckEnds
  <2>1. PICK ok \in BOOLEAN : health' = [pc |-> "decide", ok |-> ok, alerted |-> alerted,
                                         enabled |-> enabled /\ Threshold > 0]
    BY <1>1 DEF CheckEnds
  <2>2. /\ there /\ health.pc = "idle"
        /\ UNCHANGED <<there, alerted, enabled, queue, told>>
    BY <1>1 DEF CheckEnds, config
  <2>3. health' \in HealthRecs /\ health'.pc = "decide" /\ health'.alerted = alerted
    BY <2>1 DEF Types, HealthRecs
  <2>4. Types'
    BY <2>2, <2>3 DEF Types
  <2>5. Noted'
    BY <2>2, <2>3 DEF Noted
  <2> QED
    BY <2>2, <2>4, <2>5, NothingQueued
<1>2. CASE Decide
  BY <1>2, DecideStep
<1>3. CASE Save
  <2>1. /\ health.pc = "save" /\ health' = Resting /\ UNCHANGED <<there, enabled, queue>>
        /\ alerted' = IF there THEN ~health.ok /\ health.enabled /\ health.alerted ELSE alerted
        /\ told' = IF ~health.ok /\ health.enabled THEN told ELSE FALSE
    BY <1>3 DEF Save, config
  <2>2. Types'
    BY <2>1 DEF Types, HealthRecs, Resting
  <2>3. Noted'
    BY <2>1 DEF Types, Noted, Resting
  <2> QED
    BY <2>1, <2>2, <2>3, NothingQueued
<1>4. CASE ContentChanged \/ FilterAlert
  <2>1. /\ Queue("content", Configs) \/ Queue("filter", FilterAlertUrls)
        /\ UNCHANGED <<there, alerted, enabled, health, told>>
    BY <1>4 DEF ContentChanged, FilterAlert, watch, config
  <2>2. queue' \in Seq(Notice) /\ ~Queued("failure")
    BY <2>1, FewConfigs, QueueStep DEF Queued, Types, Kinds
  <2> QED
    BY <2>1, <2>2, Unnoted DEF Types
<1> QED
  BY <1>1, <1>2, <1>3, <1>4 DEF Checks

LEMMA SendingStep ==
  ASSUME Inv, Sending
  PROVE  Inv' /\ ~Queued("failure")
<1> USE DEF Inv
<1>1. /\ UNCHANGED <<there, alerted, enabled, health, told>>
      /\ queue' = queue \/ (queue # << >> /\ queue' = Tail(queue))
  BY DEF Sending, Take, SendOne, TemplateRaises, EndNotice, watch, config
<1>2. queue' \in Seq(Notice) /\ Len(queue') <= Len(queue)
  BY <1>1 DEF Types
<1>3. ~Queued("failure")
  BY <1>2 DEF Queued, Types
<1> QED
  BY <1>1, <1>2, <1>3, Unnoted DEF Types

LEMMA UsersStep ==
  ASSUME Inv, Users
  PROVE  Inv' /\ ~Queued("failure")
<1> USE DEF Inv
<1>1. CASE Mute \/ EditUrls \/ EditAlerts \/ ErrorCleared
  <2>1. /\ UNCHANGED <<there, alerted, health, told, queue>>
        /\ enabled' = enabled \/ enabled' = ~enabled
    BY <1>1 DEF Mute, EditUrls, EditAlerts, ErrorCleared, watch, config
  <2>2. enabled' \in BOOLEAN /\ queue' \in Seq(Notice)
    BY <2>1 DEF Types
  <2> QED
    BY <2>1, <2>2, Unnoted, NothingQueued
<1>2. CASE Delete
  <2>1. there' = FALSE /\ UNCHANGED <<alerted, enabled, health, queue, told>>
    BY <1>2 DEF Delete, config
  <2>2. Types'
    BY <2>1 DEF Types
  <2>3. Noted'
    BY <2>1 DEF Noted
  <2> QED
    BY <2>1, <2>2, <2>3, NothingQueued
<1>3. CASE Restart
  <2>1. /\ health' = Resting /\ queue' = << >> /\ told' = (told /\ alerted)
        /\ UNCHANGED <<there, alerted, enabled>>
    BY <1>3 DEF Restart, watch, config
  <2>2. Types'
    BY <2>1 DEF Types, HealthRecs, Resting
  <2>3. Noted'
    BY <2>1 DEF Types, Noted, Resting
  <2>4. Len(queue') = 0 /\ Len(queue) >= 0
    BY <2>1 DEF Types
  <2> QED
    BY <2>2, <2>3, <2>4 DEF Queued, Types
<1> QED
  BY <1>1, <1>2, <1>3 DEF Users

LEMMA InvStep == Inv /\ [Next]_vars => Inv'
<1>1. ASSUME Inv, UNCHANGED vars PROVE Inv'
  BY <1>1, Unnoted DEF vars, watch, config, Inv, Types
<1> QED
  BY <1>1, ChecksStep, SendingStep, UsersStep DEF Next

\* An outage is told once: between two alerts about failures there is a check that went well,
\* one that found the alerts switched off, or a restart before the first was noted.
THEOREM OutagesAreToldOnce == Spec => OneAlertPerOutage
<1>1. Inv /\ [Next]_vars => [Queued("failure") => ~told]_vars
  <2>1. ASSUME Inv, Next PROVE Queued("failure") => ~told
    BY <2>1, ChecksStep, SendingStep, UsersStep DEF Next
  <2> QED
    BY <2>1
<1> QED
  BY <1>1, InvInit, InvStep, PTL DEF Spec, OneAlertPerOutage

-----------------------------------------------------------------------------
\* What a step may queue while something is muted.
Silent == \A i \in (Len(queue) + 1)..Len(queue') :
            /\ "watch" \notin muted
            /\ queue'[i].urls = Group /\ Group \notin {Own, System} => "group" \notin muted

LEMMA NoneNew ==
  ASSUME Inv, queue' \in Seq(Notice), Len(queue') <= Len(queue)
  PROVE  Silent
BY DEF Silent, Inv, Types

LEMMA ConfigsUnmuted ==
  ASSUME NEW u
  PROVE  /\ u \in Configs => /\ "watch" \notin muted
                             /\ u = Group /\ Group \notin {Own, System} => "group" \notin muted
         /\ u \in FilterAlertUrls => u \in {Own, System}
BY DEF Configs, FilterAlertUrls

LEMMA SilentStep ==
  ASSUME Inv, Next
  PROVE  Silent
<1> USE DEF Inv
<1>1. ASSUME NEW kind \in Kinds, Queue(kind, Configs) PROVE Silent
  BY <1>1, FewConfigs, QueueStep, ConfigsUnmuted DEF Silent, Types
<1>2. CASE FilterAlert
  <2>1. "watch" \notin muted /\ Queue("filter", FilterAlertUrls)
    BY <1>2 DEF FilterAlert
  <2>2. \A i \in (Len(queue) + 1)..Len(queue') : queue'[i].urls \in {Own, System}
    BY <2>1, FewConfigs, QueueStep, ConfigsUnmuted DEF Types, Kinds
  <2> QED
    BY <2>1, <2>2 DEF Silent
<1>3. CASE UNCHANGED queue
  BY <1>3, NoneNew DEF Types
<1>4. CASE Decide \/ ContentChanged
  <2>1. \/ Queue("failure", Configs) \/ Queue("recovery", Configs)
        \/ Queue("content", Configs) \/ UNCHANGED queue
    BY <1>4 DEF Decide, ContentChanged
  <2> QED
    BY <2>1, <1>1, <1>3 DEF Kinds
<1>5. CASE Sending
  <2>1. queue' = queue \/ (queue # << >> /\ queue' = Tail(queue))
    BY <1>5 DEF Sending, Take, SendOne, TemplateRaises, EndNotice
  <2>2. queue' \in Seq(Notice) /\ Len(queue') <= Len(queue)
    BY <2>1 DEF Types
  <2> QED
    BY <2>2, NoneNew
<1>6. CASE Restart
  <2>1. queue' = << >>
    BY <1>6 DEF Restart
  <2>2. queue' \in Seq(Notice) /\ Len(queue') <= Len(queue)
    BY <2>1 DEF Types
  <2> QED
    BY <2>2, NoneNew
<1>7. UNCHANGED queue \/ Decide \/ ContentChanged \/ FilterAlert \/ Sending \/ Restart
  BY DEF Next, Checks, Users, CheckEnds, Save, Mute, EditUrls, EditAlerts, Delete, ErrorCleared
<1> QED
  BY <1>2, <1>3, <1>4, <1>5, <1>6, <1>7

\* No notice is queued to a tag that is muted, nor for a muted watch.
THEOREM MutesAreKept == Spec => MutedIsSilent
<1>1. Inv /\ [Next]_vars => [Silent]_vars
  BY SilentStep
<1> QED
  BY <1>1, InvInit, InvStep, PTL DEF Spec, MutedIsSilent, Silent

\* An outage is told once, and never to a muted group or for a muted watch.
THEOREM AlertsAreOnceAndUnmuted == Spec => AlertsOnceUnmuted
BY OutagesAreToldOnce, MutesAreKept, PTL DEF AlertsOnceUnmuted

-----------------------------------------------------------------------------
\* What runners send.
RunnerRecs == [pc : {"idle", "sending", "broken"}, urls : Seq(Urls), todo : Seq(Urls),
               failed : BOOLEAN, sent : SUBSET Urls]

RunnerTypes == runner \in [Runners -> RunnerRecs]

RunnerInv == Inv /\ RunnerTypes /\ EveryUrlTried

LEMMA RunnerInit == Init => RunnerTypes /\ EveryUrlTried
<1> SUFFICES ASSUME Init PROVE RunnerTypes /\ EveryUrlTried
  OBVIOUS
<1>1. NoNotice \in RunnerRecs /\ NoNotice.pc = "idle"
  BY DEF NoNotice, RunnerRecs
<1> QED
  BY <1>1 DEF Init, RunnerTypes, EveryUrlTried

\* The first URL of a list and the others.
LEMMA HeadAndTail ==
  ASSUME NEW s \in Seq(Urls), s # << >>
  PROVE  /\ Head(s) \in Urls /\ Tail(s) \in Seq(Urls)
         /\ ToSet(s) = {Head(s)} \cup ToSet(Tail(s))
<1>1. /\ Len(s) \in Nat /\ Len(s) >= 1 /\ Head(s) = s[1] /\ Len(Tail(s)) = Len(s) - 1
      /\ Head(s) \in Urls /\ Tail(s) \in Seq(Urls)
      /\ \A i \in 1..(Len(s) - 1) : Tail(s)[i] = s[i + 1]
  OBVIOUS
<1>2. ASSUME NEW x \in ToSet(s) PROVE x = Head(s) \/ x \in ToSet(Tail(s))
  <2>1. PICK i \in 1..Len(s) : s[i] = x
    BY DEF ToSet
  <2>2. CASE i = 1
    BY <1>1, <2>1, <2>2
  <2>3. CASE i # 1
    <3>1. i - 1 \in 1..Len(Tail(s)) /\ Tail(s)[i - 1] = x
      BY <1>1, <2>1, <2>3
    <3>2. DOMAIN Tail(s) = 1..Len(Tail(s))
      BY <1>1
    <3> QED
      BY <3>1, <3>2 DEF ToSet
  <2> QED
    BY <2>2, <2>3
<1>3. Head(s) \in ToSet(s)
  BY <1>1 DEF ToSet
<1>4. ASSUME NEW x \in ToSet(Tail(s)) PROVE x \in ToSet(s)
  <2>1. PICK i \in 1..Len(Tail(s)) : Tail(s)[i] = x
    BY DEF ToSet
  <2>2. i + 1 \in 1..Len(s) /\ s[i + 1] = x
    BY <1>1, <2>1
  <2> QED
    BY <2>2 DEF ToSet
<1> QED
  BY <1>1, <1>2, <1>3, <1>4

\* What a runner does next, the others being at what they were.
LEMMA OneRunner ==
  ASSUME RunnerTypes, EveryUrlTried, NEW r \in Runners, NEW n \in RunnerRecs,
         n.pc = "sending" => ToSet(n.urls) = n.sent \cup ToSet(n.todo),
         runner' = [runner EXCEPT ![r] = n]
  PROVE  RunnerTypes' /\ EveryUrlTried'
BY DEF RunnerTypes, EveryUrlTried

LEMMA RunnerStep ==
  ASSUME Inv, RunnerTypes, EveryUrlTried, NEW r \in Runners,
         Take(r) \/ SendOne(r) \/ TemplateRaises(r) \/ EndNotice(r)
  PROVE  RunnerTypes' /\ EveryUrlTried'
<1> DEFINE n == runner[r]
<1>0. n \in RunnerRecs
  BY DEF RunnerTypes
<1>1. CASE Take(r)
  <2> DEFINE u == Head(queue).urls
             m == [NoNotice EXCEPT !.pc = "sending", !.urls = u, !.todo = u]
  <2>1. queue # << >> /\ runner' = [runner EXCEPT ![r] = m]
    BY <1>1 DEF Take
  <2>2. Head(queue) \in Notice
    BY <2>1 DEF Inv, Types
  <2>3. u \in Seq(Urls)
    <3>1. u \in {Own, Group, System}
      BY <2>2 DEF Notice
    <3> QED
      BY <3>1, ListsAssumption
  <2>4. NoNotice \in RunnerRecs /\ NoNotice.sent = {}
    BY DEF NoNotice, RunnerRecs
  <2>5. m \in RunnerRecs /\ ToSet(m.urls) = m.sent \cup ToSet(m.todo)
    <3> HIDE DEF u
    <3>1. m \in RunnerRecs
      BY <2>3, <2>4 DEF RunnerRecs
    <3>2. m.urls = u /\ m.sent = {} /\ m.todo = u
      BY <2>4 DEF RunnerRecs
    <3> HIDE DEF m
    <3> QED
      BY <3>1, <3>2
  <2> QED
    BY <2>1, <2>5, OneRunner
<1>2. CASE SendOne(r)
  <2> DEFINE m == [n EXCEPT !.sent = @ \cup {Head(n.todo)}]
             good == [m EXCEPT !.todo = Tail(@)]
             bad == [m EXCEPT !.todo = Tail(@), !.failed = TRUE]
  <2>1. /\ n.pc = "sending" /\ n.todo # << >>
        /\ \/ runner' = [runner EXCEPT ![r] = good]
           \/ runner' = [runner EXCEPT ![r] = bad]
    BY <1>2 DEF SendOne, AfterFailure
  <2>2. /\ Head(n.todo) \in Urls /\ Tail(n.todo) \in Seq(Urls)
        /\ ToSet(n.todo) = {Head(n.todo)} \cup ToSet(Tail(n.todo))
    BY <1>0, <2>1, HeadAndTail DEF RunnerRecs
  <2>3. ToSet(n.urls) = n.sent \cup ToSet(n.todo)
    BY <2>1 DEF EveryUrlTried
  <2>4. /\ good \in RunnerRecs /\ good.urls = n.urls /\ good.todo = Tail(n.todo)
        /\ good.sent = n.sent \cup {Head(n.todo)}
    BY <1>0, <2>2 DEF RunnerRecs
  <2>5. /\ bad \in RunnerRecs /\ bad.urls = n.urls /\ bad.todo = Tail(n.todo)
        /\ bad.sent = n.sent \cup {Head(n.todo)}
    BY <1>0, <2>2 DEF RunnerRecs
  <2> HIDE DEF good, bad
  <2>6. CASE runner' = [runner EXCEPT ![r] = good]
    BY <2>2, <2>3, <2>4, <2>6, OneRunner
  <2>7. CASE runner' = [runner EXCEPT ![r] = bad]
    BY <2>2, <2>3, <2>5, <2>7, OneRunner
  <2> QED
    BY <2>1, <2>6, <2>7
<1>3. CASE TemplateRaises(r)
  <2> DEFINE m == [n EXCEPT !.pc = "broken", !.todo = << >>, !.failed = TRUE]
  <2>1. runner' = [runner EXCEPT ![r] = m]
    BY <1>3 DEF TemplateRaises
  <2>2. << >> \in Seq(Urls)
    OBVIOUS
  <2>3. m \in RunnerRecs /\ m.pc = "broken"
    BY <1>0, <2>2 DEF RunnerRecs
  <2> QED
    BY <2>1, <2>3, OneRunner
<1>4. CASE EndNotice(r)
  <2>1. runner' = [runner EXCEPT ![r] = NoNotice]
    BY <1>4 DEF EndNotice, Afterwards
  <2>2. NoNotice \in RunnerRecs /\ NoNotice.pc # "sending"
    BY DEF NoNotice, RunnerRecs
  <2> QED
    BY <2>1, <2>2, OneRunner
<1> QED
  BY <1>1, <1>2, <1>3, <1>4

\* However many of its URLs fail, a notice is tried at every one of them, unless its texts
\* cannot be rendered.
THEOREM UrlsAreTried == Spec => []EveryUrlTried
<1>1. Init => RunnerInv
  BY InvInit, RunnerInit DEF RunnerInv
<1>2. RunnerInv /\ [Next]_vars => RunnerInv'
  <2> SUFFICES ASSUME RunnerInv, [Next]_vars PROVE RunnerInv'
    OBVIOUS
  <2>1. Inv'
    BY InvStep DEF RunnerInv
  <2>2. CASE Sending
    BY <2>1, <2>2, RunnerStep DEF Sending, RunnerInv
  <2>3. CASE Restart
    <3>1. runner' = [r \in Runners |-> NoNotice]
      BY <2>3 DEF Restart
    <3>2. NoNotice \in RunnerRecs /\ NoNotice.pc = "idle"
      BY DEF NoNotice, RunnerRecs
    <3> QED
      BY <2>1, <3>1, <3>2 DEF RunnerInv, RunnerTypes, EveryUrlTried
  <2>4. CASE UNCHANGED runner
    BY <2>1, <2>4 DEF RunnerInv, RunnerTypes, EveryUrlTried
  <2> QED
    BY <2>2, <2>3, <2>4 DEF Next, vars, Checks, Users, CheckEnds, Decide, Save, ContentChanged,
       FilterAlert, Mute, EditUrls, EditAlerts, Delete, ErrorCleared
<1>3. RunnerInv => EveryUrlTried
  BY DEF RunnerInv
<1> QED
  BY <1>1, <1>2, <1>3, PTL DEF Spec

-----------------------------------------------------------------------------
\* Model calls.

\* The constants as the code has them: at least one attempt, both budgets set (a limit of zero
\* turns one off), replies that report at most so many tokens, times that are numbers, and
\* finitely many callers.
SomeBudgets ==
  /\ Retries \in Nat \ {0} /\ MonthLimit \in Nat \ {0} /\ WatchLimit \in Nat \ {0}
  /\ Times \subseteq Nat /\ MaxBackoff \in Nat /\ \A n \in 1..Retries : Backoff[n] \in Nat
  /\ Usages \subseteq Nat /\ \E most \in Usages : \A u \in Usages : u <= most
  /\ IsFiniteSet(Others)

Most == Max(Usages)

LEMMA MostIsMost == SomeBudgets => Most \in Nat /\ \A u \in Usages : u \in Nat /\ u <= Most
<1> SUFFICES ASSUME SomeBudgets PROVE Most \in Nat /\ \A u \in Usages : u \in Nat /\ u <= Most
  OBVIOUS
<1>1. PICK most \in Usages : \A u \in Usages : u <= most
  BY DEF SomeBudgets
<1>2. \A u \in Usages : u \in Nat
  BY DEF SomeBudgets
<1>3. \A u \in Usages : most >= u
  BY <1>1, <1>2
<1>4. Most \in Usages /\ \A u \in Usages : Most >= u
  BY <1>3 DEF Most, Max
<1> QED
  BY <1>2, <1>4

Counters == [month : Nat, tokens : Nat]
Verdicts == [important : BOOLEAN, status : {"ok", "open"}]

CallRecs == [pc : {"idle", "lookup", "admit", "call", "charge", "raised", "judge", "decided"},
             intent : Intents \cup {Absent}, cut : BOOLEAN, attempt : Nat, dispatched : Nat,
             elapsed : Nat, expanded : BOOLEAN, stripped : BOOLEAN, billed : Nat,
             reply : Replies \cup {Absent}, verdict : Verdicts \cup {Absent}]

ModelTypes == /\ month \in Nat
              /\ used \in Counters /\ watchUsed \in Counters
              /\ saving \in Counters \cup {Absent}
              /\ intent \in Intents
              /\ verdicts \in [Intents -> Verdicts \cup {Absent}]
              /\ call \in [Callers -> CallRecs]

Once(b) == IF b THEN 1 ELSE 0

\* A request is sent once for every attempt, and once more for each of the two repairs; only
\* the reply that asks for more room is billed before the last.
Sent(r) == /\ r.attempt < Retries
           /\ r.dispatched <= r.attempt + Once(r.expanded) + Once(r.stripped)
           /\ r.billed <= IF r.expanded THEN Most ELSE 0

Fits(r) == /\ r.pc # "idle" => r.intent \in Intents
           /\ r.pc \in {"lookup", "admit", "call"} => Sent(r)
           /\ r.dispatched <= Retries + 2
           /\ r.pc = "charge" => r.billed <= 2 * Most
           /\ r.pc \in {"charge", "judge"} => r.reply \in Replies
           /\ r.pc = "decided" => r.verdict \in Verdicts

CallsFit == \A c \in Callers : Fits(call[c])

CallInv == ModelTypes /\ CallsFit

LEMMA NoCallFits ==
  ASSUME SomeBudgets
  PROVE NoCall \in CallRecs /\ Fits(NoCall)
  BY MostIsMost DEF SomeBudgets, NoCall, CallRecs, Fits, Sent, Once

LEMMA CallStep ==
  ASSUME CallInv, NEW c \in Callers, NEW r \in CallRecs, Fits(r), call' = [call EXCEPT ![c] = r]
  PROVE call' \in [Callers -> CallRecs] /\ CallsFit'
  BY DEF CallInv, ModelTypes, CallsFit

\* What is decided has its verdict, and nothing of the client's loop.
LEMMA DecidesStep ==
  ASSUME SomeBudgets, CallInv, NEW c \in Callers, NEW v \in Verdicts,
         call[c].pc # "idle", Decides(c, v)
  PROVE /\ call' \in [Callers -> CallRecs] /\ CallsFit'
        /\ call'[c].pc = "decided" /\ call'[c].verdict = v /\ call'[c].intent = call[c].intent
        /\ \A d \in Callers \ {c} : call'[d] = call[d]
<1>1. call[c] \in CallRecs /\ call[c].intent \in Intents
  BY DEF CallInv, ModelTypes, CallsFit, Fits
<1>2. PICK r : r = [NoCall EXCEPT !.pc = "decided", !.intent = call[c].intent, !.verdict = v]
  OBVIOUS
<1>3. r \in CallRecs /\ Fits(r) /\ r.pc = "decided" /\ r.verdict = v /\ r.intent = call[c].intent
  BY <1>1, <1>2, NoCallFits DEF SomeBudgets, NoCall, CallRecs, Fits, Sent, Once
<1>4. call' = [call EXCEPT ![c] = r]
  BY <1>2 DEF Decides
<1>5. call' \in [Callers -> CallRecs] /\ CallsFit'
  BY <1>3, <1>4, CallStep
<1> QED
  BY <1>3, <1>4, <1>5 DEF CallInv, ModelTypes

LEMMA ImportantIs == Important \in Verdicts /\ Important.important
  BY DEF Important, Verdicts

\* An answer, an error and a rejection are each the one request they were sent in.
LEMMA ClientStep ==
  ASSUME SomeBudgets, CallInv, NEW c \in Callers, Client(c)
  PROVE /\ call' \in [Callers -> CallRecs] /\ CallsFit'
        /\ call[c].pc = "call" /\ call'[c].pc \in {"call", "charge", "raised"}
        /\ \A d \in Callers \ {c} : call'[d] = call[d]
<1>1. /\ call[c] \in CallRecs /\ Fits(call[c]) /\ call[c].pc = "call" /\ Sent(call[c])
      /\ call[c].intent \in Intents /\ call \in [Callers -> CallRecs]
      /\ call[c].attempt \in Nat /\ call[c].dispatched \in Nat /\ call[c].billed \in Nat
      /\ call[c].expanded \in BOOLEAN /\ call[c].stripped \in BOOLEAN
  BY DEF CallRecs, CallInv, ModelTypes, CallsFit, Fits, Client, Attempting, Answered,
     TransientError, Raises, Rejected
<1>2. SUFFICES \E r \in CallRecs : /\ Fits(r) /\ r.pc \in {"call", "charge", "raised"}
                                   /\ call' = [call EXCEPT ![c] = r]
  <2> PICK r \in CallRecs : /\ Fits(r) /\ r.pc \in {"call", "charge", "raised"}
                            /\ call' = [call EXCEPT ![c] = r]
    BY <1>2
  <2>1. call' \in [Callers -> CallRecs] /\ CallsFit'
    BY CallStep
  <2> QED
    BY <1>1, <2>1
<1>3. ASSUME NEW t \in Nat
      PROVE \E q \in CallRecs : /\ q = Tried(c, t)
                                /\ q.pc = "call" /\ q.intent \in Intents
                                /\ q.attempt = call[c].attempt /\ q.billed = call[c].billed
                                /\ q.dispatched = call[c].dispatched + 1
                                /\ q.expanded = call[c].expanded /\ q.stripped = call[c].stripped
  <2> PICK q : q = [call[c] EXCEPT !.dispatched = @ + 1, !.elapsed = @ + t]
    OBVIOUS
  <2>1. call[c] \in CallRecs
    BY <1>1
  <2>2. call[c].elapsed + t \in Nat /\ call[c].dispatched + 1 \in Nat
    BY <2>1 DEF CallRecs
  <2>3. q = [call[c] EXCEPT !.dispatched = call[c].dispatched + 1, !.elapsed = call[c].elapsed + t]
    BY <2>1 DEF CallRecs
  <2>4. q \in CallRecs
    BY <2>1, <2>2, <2>3 DEF CallRecs
  <2>5. q.pc = call[c].pc /\ q.intent = call[c].intent
    BY <2>1 DEF CallRecs
  <2>6. /\ q.attempt = call[c].attempt /\ q.billed = call[c].billed
        /\ q.dispatched = call[c].dispatched + 1
        /\ q.expanded = call[c].expanded /\ q.stripped = call[c].stripped
    BY <1>1 DEF CallRecs
  <2> QED
    BY <1>1, <2>4, <2>5, <2>6 DEF Tried
<1>4. CASE Answered(c)
  <2>1. PICK r \in Replies, t \in Times, tokens \in Usages :
               call' = [call EXCEPT ![c] =
                          IF AsksAgain(c, r)
                          THEN [[Tried(c, t) EXCEPT !.billed = @ + tokens] EXCEPT !.expanded = TRUE]
                          ELSE [[Tried(c, t) EXCEPT !.billed = @ + tokens]
                                  EXCEPT !.pc = "charge", !.reply = r]]
    BY <1>4 DEF Answered
  <2>2. PICK q \in CallRecs : /\ q = Tried(c, t)
                              /\ q.pc = "call" /\ q.intent \in Intents
                              /\ q.attempt = call[c].attempt /\ q.billed = call[c].billed
                              /\ q.dispatched = call[c].dispatched + 1
                              /\ q.expanded = call[c].expanded /\ q.stripped = call[c].stripped
    BY <1>3 DEF SomeBudgets
  <2>3. tokens \in Nat /\ tokens <= Most /\ Most \in Nat
    BY MostIsMost
  <2>4. PICK a : a = [q EXCEPT !.billed = @ + tokens]
    OBVIOUS
  <2>5. a \in CallRecs
    BY <2>2, <2>3, <2>4 DEF CallRecs
  <2>6. /\ a.pc = "call" /\ a.intent \in Intents /\ a.attempt = call[c].attempt
        /\ a.billed = call[c].billed + tokens /\ a.dispatched = call[c].dispatched + 1
        /\ a.expanded = call[c].expanded /\ a.stripped = call[c].stripped
    BY <2>2, <2>3, <2>4 DEF CallRecs
  <2>7. AsksAgain(c, r) => ~call[c].expanded
    BY DEF AsksAgain
  <2>8. CASE AsksAgain(c, r)
    <3>1. PICK n : n = [a EXCEPT !.expanded = TRUE]
      OBVIOUS
    <3>2. /\ n \in CallRecs /\ n.pc = "call" /\ n.intent \in Intents
          /\ n.attempt = call[c].attempt /\ n.billed = call[c].billed + tokens
          /\ n.dispatched = call[c].dispatched + 1 /\ n.expanded
          /\ n.stripped = call[c].stripped
      BY <2>5, <2>6, <3>1 DEF CallRecs
    <3>3. n \in CallRecs /\ Fits(n) /\ n.pc = "call"
      BY <1>1, <2>3, <2>7, <2>8, <3>2 DEF SomeBudgets, Fits, Sent, Once
    <3> QED
      BY <2>1, <2>2, <2>4, <2>8, <3>1, <3>3
  <2>9. CASE ~AsksAgain(c, r)
    <3>1. PICK n : n = [a EXCEPT !.pc = "charge", !.reply = r]
      OBVIOUS
    <3>2. /\ n \in CallRecs /\ n.pc = "charge" /\ n.intent \in Intents
          /\ n.billed = call[c].billed + tokens /\ n.reply \in Replies
          /\ n.dispatched = call[c].dispatched + 1
      BY <2>5, <2>6, <3>1 DEF CallRecs
    <3>3. n \in CallRecs /\ Fits(n) /\ n.pc = "charge"
      BY <1>1, <2>3, <3>2 DEF SomeBudgets, Fits, Sent, Once
    <3> QED
      BY <2>1, <2>2, <2>4, <2>9, <3>1, <3>3
  <2> QED
    BY <2>8, <2>9
<1>5. CASE TransientError(c)
  <2>1. PICK t \in Times, sleep \in {Backoff[call[c].attempt + 1], 2 * MaxBackoff} :
               call' = [call EXCEPT ![c] =
                          IF [Tried(c, t) EXCEPT !.attempt = @ + 1].attempt < Retries
                          THEN [[Tried(c, t) EXCEPT !.attempt = @ + 1] EXCEPT !.elapsed = @ + sleep]
                          ELSE [[Tried(c, t) EXCEPT !.attempt = @ + 1] EXCEPT !.pc = "raised"]]
    BY <1>5 DEF TransientError
  <2>2. PICK q \in CallRecs : /\ q = Tried(c, t)
                              /\ q.pc = "call" /\ q.intent \in Intents
                              /\ q.attempt = call[c].attempt /\ q.billed = call[c].billed
                              /\ q.dispatched = call[c].dispatched + 1
                              /\ q.expanded = call[c].expanded /\ q.stripped = call[c].stripped
    BY <1>3 DEF SomeBudgets
  <2>3. sleep \in Nat
    BY <1>1 DEF Sent, SomeBudgets, CallRecs
  <2>4. PICK a : a = [q EXCEPT !.attempt = @ + 1]
    OBVIOUS
  <2>5. /\ a \in CallRecs /\ a.attempt = call[c].attempt + 1 /\ a.pc = "call" /\ a.billed = q.billed
        /\ a.intent \in Intents /\ a.dispatched = q.dispatched
        /\ a.expanded = q.expanded /\ a.stripped = q.stripped
    BY <2>2, <2>4 DEF CallRecs
  <2>6. CASE a.attempt < Retries
    <3>1. PICK n : n = [a EXCEPT !.elapsed = @ + sleep]
      OBVIOUS
    <3>2. n \in CallRecs /\ Fits(n) /\ n.pc = "call"
      BY <1>1, <2>2, <2>3, <2>5, <2>6, <3>1 DEF SomeBudgets, Fits, Sent, Once, CallRecs
    <3> QED
      BY <2>1, <2>2, <2>4, <2>6, <3>1, <3>2
  <2>7. CASE ~(a.attempt < Retries)
    <3>1. PICK n : n = [a EXCEPT !.pc = "raised"]
      OBVIOUS
    <3>2. n \in CallRecs /\ Fits(n) /\ n.pc = "raised"
      BY <1>1, <2>2, <2>5, <3>1 DEF SomeBudgets, Fits, Sent, Once, CallRecs
    <3> QED
      BY <2>1, <2>2, <2>4, <2>7, <3>1, <3>2
  <2> QED
    BY <2>6, <2>7
<1>6. CASE Raises(c)
  <2>1. PICK t \in Times : call' = [call EXCEPT ![c] = [Tried(c, t) EXCEPT !.pc = "raised"]]
    BY <1>6 DEF Raises
  <2>2. PICK q \in CallRecs : /\ q = Tried(c, t) /\ q.intent \in Intents
                              /\ q.dispatched = call[c].dispatched + 1
    BY <1>3 DEF SomeBudgets
  <2>3. PICK n : n = [q EXCEPT !.pc = "raised"]
    OBVIOUS
  <2>4. n \in CallRecs /\ Fits(n) /\ n.pc = "raised"
    BY <1>1, <2>2, <2>3 DEF SomeBudgets, Fits, Sent, Once, CallRecs
  <2> QED
    BY <2>1, <2>2, <2>3, <2>4
<1>7. CASE Rejected(c)
  <2>1. /\ call' = [call EXCEPT ![c] = [Tried(c, 0) EXCEPT !.stripped = TRUE]]
        /\ ~call[c].stripped
    BY <1>7 DEF Rejected
  <2>2. PICK q \in CallRecs : /\ q = Tried(c, 0)
                              /\ q.pc = "call" /\ q.intent \in Intents
                              /\ q.attempt = call[c].attempt /\ q.billed = call[c].billed
                              /\ q.dispatched = call[c].dispatched + 1
                              /\ q.expanded = call[c].expanded /\ q.stripped = call[c].stripped
    BY <1>3
  <2>3. PICK n : n = [q EXCEPT !.stripped = TRUE]
    OBVIOUS
  <2>4. /\ n \in CallRecs /\ n.pc = "call" /\ n.intent \in Intents
        /\ n.attempt = call[c].attempt /\ n.billed = call[c].billed
        /\ n.dispatched = call[c].dispatched + 1
        /\ n.expanded = call[c].expanded /\ n.stripped
    BY <1>1, <2>2, <2>3 DEF CallRecs
  <2>5. n \in CallRecs /\ Fits(n) /\ n.pc = "call"
    BY <1>1, <2>1, <2>4 DEF SomeBudgets, Fits, Sent, Once
  <2> QED
    BY <2>1, <2>2, <2>3, <2>5
<1> QED
  BY <1>4, <1>5, <1>6, <1>7 DEF Client

LEMMA SummaryAskStep ==
  ASSUME SomeBudgets, CallInv, NEW c \in Callers, Ask(c)
  PROVE /\ call' \in [Callers -> CallRecs] /\ CallsFit'
        /\ call'[c].pc = "lookup" /\ \A d \in Callers \ {c} : call'[d] = call[d]
<1>1. PICK i \in Intents, cut \in BOOLEAN :
             call' = [call EXCEPT ![c] = [NoCall EXCEPT !.pc = "lookup", !.intent = i, !.cut = cut]]
  BY DEF Ask, CallInv, ModelTypes
<1>2. PICK r : r = [NoCall EXCEPT !.pc = "lookup", !.intent = i, !.cut = cut]
  OBVIOUS
<1>3. r \in CallRecs
  BY <1>2, NoCallFits DEF CallRecs
<1>4. /\ r.pc = "lookup" /\ r.intent = i /\ r.attempt = 0 /\ r.dispatched = 0 /\ r.billed = 0
      /\ ~r.expanded /\ ~r.stripped
  BY <1>2 DEF NoCall
<1>5. r \in CallRecs /\ r.pc = "lookup" /\ Fits(r)
  BY <1>3, <1>4 DEF SomeBudgets, Fits, Sent, Once
<1>6. call' = [call EXCEPT ![c] = r]
  BY <1>1, <1>2
<1>7. call' \in [Callers -> CallRecs] /\ CallsFit'
  BY <1>5, <1>6, CallStep
<1> QED
  BY <1>5, <1>6, <1>7 DEF CallInv, ModelTypes

\* A caller that only goes on keeps what it has.
LEMMA MovesStep ==
  ASSUME SomeBudgets, CallInv, NEW c \in Callers,
         \/ call[c].pc = "lookup" /\ Moves(c, "admit")
         \/ call[c].pc = "admit" /\ Moves(c, "call")
  PROVE /\ call' \in [Callers -> CallRecs] /\ CallsFit'
        /\ call'[c].pc = IF call[c].pc = "lookup" THEN "admit" ELSE "call"
        /\ \A d \in Callers \ {c} : call'[d] = call[d]
<1> DEFINE to == IF call[c].pc = "lookup" THEN "admit" ELSE "call"
<1>1. call[c] \in CallRecs /\ Fits(call[c]) /\ call' = [call EXCEPT ![c].pc = to]
  BY DEF CallInv, ModelTypes, CallsFit, Moves
<1>2. PICK r : r = [call[c] EXCEPT !.pc = to]
  OBVIOUS
<1>3. r \in CallRecs /\ r.pc = to /\ r.intent = call[c].intent /\ r.dispatched = call[c].dispatched
  BY <1>1, <1>2 DEF CallRecs
<1>4. /\ r.attempt = call[c].attempt /\ r.expanded = call[c].expanded
      /\ r.stripped = call[c].stripped /\ r.billed = call[c].billed
  BY <1>1, <1>2 DEF CallRecs
<1>5. Fits(r)
  BY <1>1, <1>3, <1>4 DEF Fits, Sent
<1>6. call' = [call EXCEPT ![c] = r]
  BY <1>1, <1>2
<1>7. call' \in [Callers -> CallRecs] /\ CallsFit'
  BY <1>3, <1>5, <1>6, CallStep
<1> QED
  BY <1>3, <1>6, <1>7 DEF CallInv, ModelTypes

LEMMA CounterStep ==
  ASSUME month \in Nat, NEW counter \in Counters, NEW n \in Nat
  PROVE /\ Charged(counter, n) =
             [month |-> month,
              tokens |-> IF counter.month = month THEN counter.tokens + n ELSE n]
        /\ Charged(counter, n) \in Counters
<1>1. [counter EXCEPT !.tokens = @ + n] = [month |-> counter.month, tokens |-> counter.tokens + n]
  BY DEF Counters
<1>2. counter.tokens + n \in Nat
  BY DEF Counters
<1> QED
  BY <1>1, <1>2 DEF Charged, Counters

LEMMA ChargeStep ==
  ASSUME SomeBudgets, CallInv, NEW c \in Callers, Charge(c)
  PROVE /\ call' \in [Callers -> CallRecs] /\ CallsFit'
        /\ used' \in Counters /\ watchUsed' \in Counters
        /\ call'[c].pc = "judge" /\ \A d \in Callers \ {c} : call'[d] = call[d]
<1>1. /\ call[c] \in CallRecs /\ Fits(call[c]) /\ call[c].pc = "charge"
      /\ call[c].intent \in Intents /\ call[c].reply \in Replies /\ call[c].billed \in Nat
      /\ call[c].cut \in BOOLEAN
  BY DEF CallInv, ModelTypes, CallsFit, Fits, Charge, CallRecs
<1>2. PICK r : r = [NoCall EXCEPT !.pc = "judge", !.intent = call[c].intent, !.cut = call[c].cut,
                                  !.reply = call[c].reply]
  OBVIOUS
<1>3. r \in CallRecs /\ r.pc = "judge" /\ Fits(r)
  BY <1>1, <1>2, NoCallFits DEF SomeBudgets, NoCall, CallRecs, Fits
<1>4. call' = [call EXCEPT ![c] = r]
  BY <1>2 DEF Charge
<1>5. call' \in [Callers -> CallRecs] /\ CallsFit'
  BY <1>3, <1>4, CallStep
<1>6. used' \in {used, Charged(used, call[c].billed)}
      /\ watchUsed' \in {watchUsed, Charged(watchUsed, call[c].billed)}
  BY DEF Charge, counters
<1>7. Charged(used, call[c].billed) \in Counters /\ Charged(watchUsed, call[c].billed) \in Counters
  BY <1>1, CounterStep DEF CallInv, ModelTypes
<1> QED
  BY <1>3, <1>4, <1>5, <1>6, <1>7 DEF CallInv, ModelTypes

\* What is read from a reply that is complete is a verdict, any other is open.
LEMMA VerdictIs ==
  ASSUME NEW c \in Callers, call[c].reply \in Replies
  PROVE /\ Verdict(c) \in Verdicts
        /\ ~Verdict(c).important =>
             call[c].reply = [text |-> "negative", finish |-> "stop"] /\ ~call[c].cut
<1>1. CASE Readable(c) /\ Complete(c)
  <2>1. Verdict(c) = [important |-> call[c].reply.text = "positive", status |-> "ok"]
    BY <1>1 DEF Verdict
  <2>2. call[c].reply.text # "positive" =>
          call[c].reply.text = "negative" /\ call[c].reply.finish = "stop" /\ ~call[c].cut
    BY <1>1 DEF Readable, Complete
  <2>3. call[c].reply.text = "negative" /\ call[c].reply.finish = "stop" =>
          call[c].reply = [text |-> "negative", finish |-> "stop"]
    BY DEF Replies
  <2>4. PICK positive \in BOOLEAN : positive = (call[c].reply.text = "positive")
    OBVIOUS
  <2>5. Verdict(c) = [important |-> positive, status |-> "ok"]
    BY <2>1, <2>4
  <2>6. Verdict(c) \in Verdicts /\ Verdict(c).important = positive
    BY <2>5 DEF Verdicts
  <2> QED
    BY <2>2, <2>3, <2>4, <2>6
<1>2. CASE ~(Readable(c) /\ Complete(c))
  BY <1>2, ImportantIs DEF Verdict
<1> QED
  BY <1>1, <1>2

\* How a caller comes to its decision.
Deciding(c) == \/ /\ LookUp(c) /\ c = Worker /\ verdicts[call[c].intent] # Absent
                  /\ Decides(c, verdicts[call[c].intent])
               \/ Admit(c) /\ Decides(c, Important)
               \/ FailOpen(c) /\ Decides(c, Important)
               \/ Judge(c) /\ Decides(c, Verdict(c))

LEMMA DecidingStep ==
  ASSUME SomeBudgets, CallInv, NEW c \in Callers, Deciding(c)
  PROVE /\ call' \in [Callers -> CallRecs] /\ CallsFit'
        /\ verdicts' \in [Intents -> Verdicts \cup {Absent}]
        /\ call'[c].pc = "decided" /\ call[c].intent \in Intents
        /\ call'[c].intent = call[c].intent
        /\ \A d \in Callers \ {c} : call'[d] = call[d]
<1>1. /\ call[c].pc # "idle" /\ call[c].intent \in Intents
      /\ Judge(c) => call[c].reply \in Replies
  BY DEF CallInv, ModelTypes, CallsFit, Fits, Deciding, LookUp, Admit, FailOpen, Judge
<1>2. \E v \in Verdicts : Decides(c, v)
  BY <1>1, ImportantIs, VerdictIs DEF Deciding, CallInv, ModelTypes
<1>3. verdicts' \in [Intents -> Verdicts \cup {Absent}]
  <2>1. CASE Judge(c)
    BY <1>1, <2>1, VerdictIs DEF Judge, CallInv, ModelTypes
  <2>2. CASE UNCHANGED verdicts
    BY <2>2 DEF CallInv, ModelTypes
  <2> QED
    BY <2>1, <2>2 DEF Deciding, LookUp, Admit, FailOpen
<1> QED
  BY <1>1, <1>2, <1>3, DecidesStep

LEMMA FinishStep ==
  ASSUME SomeBudgets, CallInv, NEW c \in Callers, Finish(c)
  PROVE /\ call' \in [Callers -> CallRecs] /\ CallsFit'
        /\ call'[c].pc = "idle" /\ \A d \in Callers \ {c} : call'[d] = call[d]
<1>1. NoCall \in CallRecs /\ Fits(NoCall) /\ NoCall.pc = "idle"
  BY NoCallFits DEF NoCall
<1>2. call' \in [Callers -> CallRecs] /\ CallsFit'
  BY <1>1, CallStep DEF Finish
<1> QED
  BY <1>1, <1>2 DEF Finish, CallInv, ModelTypes

\* A caller that does not decide looks up, is admitted, hears from the provider, is charged or
\* ends.
LEMMA CallerCases ==
  ASSUME NEW c, Caller(c)
  PROVE \/ Deciding(c)
        \/ LookUp(c) /\ call[c].pc = "lookup" /\ Moves(c, "admit")
        \/ Admit(c) /\ call[c].pc = "admit" /\ Moves(c, "call")
        \/ Client(c) \/ Charge(c) \/ Finish(c)
<1>1. CASE LookUp(c)
  BY <1>1 DEF LookUp, Deciding
<1>2. CASE Admit(c)
  BY <1>2 DEF Admit, Deciding
<1>3. CASE Judge(c) \/ FailOpen(c)
  BY <1>3 DEF Judge, FailOpen, Deciding
<1> QED
  BY <1>1, <1>2, <1>3 DEF Caller

LEMMA CallInvStep ==
  ASSUME SomeBudgets, CallInv, [ModelNext]_modelVars
  PROVE CallInv'
<1> USE DEF CallInv, ModelTypes, counters
<1>1. ASSUME NEW c \in Callers, Ask(c)
      PROVE CallInv'
  BY <1>1, SummaryAskStep DEF Ask
<1>2. ASSUME NEW c \in Callers, Caller(c)
      PROVE CallInv'
  <2>1. CASE Deciding(c)
    <3>1. UNCHANGED <<month, counters, intent, saving>>
      BY <2>1 DEF Deciding, LookUp, Admit, FailOpen, Judge
    <3> QED
      BY <2>1, <3>1, DecidingStep
  <2>2. CASE \/ LookUp(c) /\ call[c].pc = "lookup" /\ Moves(c, "admit")
             \/ Admit(c) /\ call[c].pc = "admit" /\ Moves(c, "call")
    BY <2>2, MovesStep DEF LookUp, Admit
  <2>3. CASE Client(c)
    <3>1. UNCHANGED <<month, counters, intent, verdicts, saving>>
      BY <2>3 DEF Client, Answered, TransientError, Raises, Rejected
    <3> QED
      BY <2>3, <3>1, ClientStep
  <2>4. CASE Charge(c)
    BY <2>4, ChargeStep DEF Charge
  <2>5. CASE Finish(c)
    BY <2>5, FinishStep DEF Finish
  <2> QED
    BY <1>2, <2>1, <2>2, <2>3, <2>4, <2>5, CallerCases
<1>3. CASE EditIntent
  BY <1>3 DEF EditIntent, CallsFit
<1>4. CASE NextMonth
  BY <1>4 DEF NextMonth, CallsFit
<1>5. CASE ReadSettings \/ WriteSettings
  BY <1>5 DEF ReadSettings, WriteSettings, CallsFit
<1>6. CASE UNCHANGED modelVars
  BY <1>6 DEF modelVars, CallsFit
<1> QED
  BY <1>1, <1>2, <1>3, <1>4, <1>5, <1>6 DEF ModelNext

LEMMA CallInvInit == SomeBudgets /\ ModelInit => CallInv
<1> SUFFICES ASSUME SomeBudgets, ModelInit PROVE CallInv
  OBVIOUS
<1> QED
  BY NoCallFits DEF CallInv, ModelTypes, CallsFit, ModelInit, Counters, Zero


\* What was ever said not to be important was said by a complete reply under that intent.
Believed == /\ \A i \in Intents : verdicts[i] # Absent /\ ~verdicts[i].important => i \in said
            /\ SuppressedByVerdict

LEMMA BelievedStep ==
  ASSUME SomeBudgets, CallInv, Believed, [ModelNext]_modelVars
  PROVE Believed'
<1>1. ASSUME NEW c \in Callers, Deciding(c)
      PROVE Believed'
  <2>1. /\ call'[c].intent = call[c].intent /\ call[c].intent \in Intents
        /\ \A d \in Callers \ {c} : call'[d] = call[d]
    BY <1>1, DecidingStep
  <2>2. said \subseteq said'
    BY <1>1 DEF Deciding, LookUp, Admit, FailOpen, Judge
  <2>3. CASE Judge(c)
    <3>1. call[c].reply \in Replies /\ Decides(c, Verdict(c))
      BY <2>3 DEF Judge, CallInv, CallsFit, Fits
    <3>2. ~Verdict(c).important => call[c].intent \in said'
      BY <2>3, <3>1, VerdictIs DEF Judge
    <3>3. call'[c].verdict = Verdict(c)
      BY <3>1, <2>3, VerdictIs, DecidesStep DEF Judge
    <3>4. verdicts' = verdicts \/ verdicts' = [verdicts EXCEPT ![call[c].intent] = Verdict(c)]
      BY <2>3 DEF Judge
    <3> QED
      BY <2>1, <2>2, <3>2, <3>3, <3>4
         DEF Believed, SuppressedByVerdict, Suppressed, CallInv, ModelTypes, Callers
  <2>4. CASE ~Judge(c)
    <3>1. UNCHANGED verdicts
      BY <1>1, <2>4 DEF Deciding, LookUp, Admit, FailOpen
    <3>2. call[c].pc # "idle"
      BY <1>1 DEF Deciding, LookUp, Admit, FailOpen, Judge
    <3>3. ~call'[c].verdict.important => call[c].intent \in said
      <4>1. CASE Decides(c, Important)
        BY <3>2, <4>1, ImportantIs, DecidesStep
      <4>2. CASE verdicts[call[c].intent] # Absent /\ Decides(c, verdicts[call[c].intent])
        <5>1. verdicts[call[c].intent] \in Verdicts
          BY <2>1, <4>2 DEF CallInv, ModelTypes
        <5>2. call'[c].verdict = verdicts[call[c].intent]
          BY <3>2, <4>2, <5>1, DecidesStep
        <5> QED
          BY <2>1, <4>2, <5>2 DEF Believed
      <4> QED
        BY <1>1, <2>4, <4>1, <4>2 DEF Deciding
    <3> QED
      BY <2>1, <2>2, <3>1, <3>3 DEF Believed, SuppressedByVerdict, Suppressed, Callers
  <2> QED
    BY <2>3, <2>4
<1>2. ASSUME NEW c \in Callers, call'[c].pc # "decided", UNCHANGED <<verdicts, said>>,
             \A d \in Callers \ {c} : call'[d] = call[d]
      PROVE Believed'
  BY <1>2 DEF Believed, SuppressedByVerdict, Suppressed, Callers
<1>3. ASSUME NEW c \in Callers, Ask(c)
      PROVE Believed'
  BY <1>2, <1>3, SummaryAskStep DEF Ask
<1>4. ASSUME NEW c \in Callers, Caller(c)
      PROVE Believed'
  <2>1. CASE \/ LookUp(c) /\ call[c].pc = "lookup" /\ Moves(c, "admit")
             \/ Admit(c) /\ call[c].pc = "admit" /\ Moves(c, "call")
    BY <1>2, <2>1, MovesStep DEF LookUp, Admit
  <2>2. CASE Client(c)
    <3>1. UNCHANGED <<verdicts, said>>
      BY <2>2 DEF Client, Answered, TransientError, Raises, Rejected
    <3>2. call'[c].pc # "decided" /\ \A d \in Callers \ {c} : call'[d] = call[d]
      BY <2>2, ClientStep
    <3> QED
      BY <1>2, <3>1, <3>2
  <2>3. CASE Charge(c)
    BY <1>2, <2>3, ChargeStep DEF Charge
  <2>4. CASE Finish(c)
    BY <1>2, <2>4, FinishStep DEF Finish
  <2> QED
    BY <1>1, <1>4, <2>1, <2>2, <2>3, <2>4, CallerCases
<1>5. CASE UNCHANGED <<verdicts, said, call>>
  BY <1>5 DEF Believed, SuppressedByVerdict, Suppressed
<1> QED
  BY <1>3, <1>4, <1>5 DEF ModelNext, modelVars, EditIntent, NextMonth, ReadSettings, WriteSettings

\* The calls whose charge the counters do not have yet.
UnderWay == {c \in Callers : call[c].pc \in {"call", "charge"}}

Share(n) == 2 * Most * n

Top == MonthLimit + Share(Cardinality(Callers))

\* A counter of this month leaves room for every call under way.
Roomy(counter, uncounted) ==
  /\ counter.month <= month /\ counter.tokens < Top
  /\ counter.month = month => counter.tokens + Share(Cardinality(uncounted)) < Top

\* The counters a page has read are no more than those stored.
Older == /\ saving.month <= used.month
         /\ saving.month = used.month => saving.tokens <= used.tokens

Budgeted == /\ Roomy(used, UnderWay)
            /\ saving # Absent => Older /\ saving.tokens < Top
            /\ watchUsed.month <= month /\ watchUsed.tokens < WatchLimit + 2 * Most
            /\ watchUsed.month = month /\ Worker \in UnderWay => watchUsed.tokens < WatchLimit

LEMMA CallersAreFew ==
  ASSUME SomeBudgets
  PROVE IsFiniteSet(Callers) /\ Cardinality(Callers) \in Nat
  BY FS_Singleton, FS_Union, FS_CardinalityType DEF SomeBudgets, Callers

LEMMA Shares ==
  ASSUME SomeBudgets, NEW S \in SUBSET Callers
  PROVE /\ Cardinality(S) \in Nat /\ Share(Cardinality(S)) \in Nat /\ Top \in Nat
        /\ \A T \in SUBSET S : Share(Cardinality(T)) <= Share(Cardinality(S))
        /\ \A c \in S : Share(Cardinality(S \ {c})) + 2 * Most = Share(Cardinality(S))
<1>1. IsFiniteSet(S) /\ Cardinality(S) \in Nat /\ Cardinality(Callers) \in Nat
  BY CallersAreFew, FS_Subset, FS_CardinalityType
<1>2. ASSUME NEW m \in Nat, NEW a \in Nat, NEW b \in Nat
      PROVE /\ 2 * m * a \in Nat /\ (a <= b => 2 * m * a <= 2 * m * b)
            /\ (a = b + 1 => 2 * m * a = 2 * m * b + 2 * m)
  OBVIOUS
<1>3. Most \in Nat
  BY MostIsMost
<1>4. ASSUME NEW T \in SUBSET S
      PROVE Share(Cardinality(T)) <= Share(Cardinality(S))
  <2>1. Cardinality(T) \in Nat /\ Cardinality(T) <= Cardinality(S)
    BY <1>1, FS_Subset, FS_CardinalityType
  <2> QED
    BY <1>1, <1>2, <1>3, <2>1 DEF Share
<1>5. ASSUME NEW c \in S
      PROVE Share(Cardinality(S \ {c})) + 2 * Most = Share(Cardinality(S))
  <2>1. Cardinality(S \ {c}) \in Nat /\ Cardinality(S) = Cardinality(S \ {c}) + 1
    BY <1>1, FS_RemoveElement, FS_Subset, FS_CardinalityType
  <2> QED
    BY <1>1, <1>2, <1>3, <2>1 DEF Share
<1> QED
  BY <1>1, <1>2, <1>3, <1>4, <1>5 DEF Share, Top, SomeBudgets

\* A call that ends, or goes on, leaves no less room.
LEMMA RoomStays ==
  ASSUME SomeBudgets, CallInv, Budgeted, CallInv', UNCHANGED <<month, counters, saving>>,
         UnderWay' \subseteq UnderWay
  PROVE Budgeted'
<1>1. PICK S \in SUBSET UnderWay : S = UnderWay'
  OBVIOUS
<1>2. UnderWay \subseteq Callers
  BY DEF UnderWay
<1>3. /\ Share(Cardinality(S)) \in Nat /\ Share(Cardinality(UnderWay)) \in Nat /\ Top \in Nat
      /\ Share(Cardinality(S)) <= Share(Cardinality(UnderWay))
  BY <1>2, Shares
<1>4. Roomy(used, S)
  BY <1>3 DEF Budgeted, Roomy, CallInv, ModelTypes, Counters
<1>5. Roomy(used, UnderWay)'
  BY <1>1, <1>4 DEF Roomy, counters
<1> QED
  BY <1>1, <1>5 DEF Budgeted, Older, counters

LEMMA AdmitStep ==
  ASSUME SomeBudgets, CallInv, Budgeted, CallInv', NEW c \in Callers, Admit(c), Moves(c, "call")
  PROVE Budgeted'
<1>1. /\ call[c] \in CallRecs /\ call[c].pc = "admit" /\ call' = [call EXCEPT ![c].pc = "call"]
      /\ call \in [Callers -> CallRecs]
  BY DEF Admit, Moves, CallInv, ModelTypes
<1>2. UNCHANGED <<month, counters, saving>>
  BY DEF Admit
<1>3. ~Spent(used, MonthLimit) /\ (c = Worker => ~Spent(watchUsed, WatchLimit))
  <2>1. call'[c].pc = "call"
    BY <1>1 DEF CallRecs
  <2>2. ~Decides(c, Important)
    BY <1>1, <2>1, ImportantIs, DecidesStep
  <2> QED
    BY <2>2 DEF Admit
<1>4. PICK S \in SUBSET Callers : S = UnderWay'
  BY DEF UnderWay
<1>5. Share(Cardinality(S)) <= Share(Cardinality(Callers)) /\ Share(Cardinality(S)) \in Nat
      /\ Share(Cardinality(Callers)) \in Nat
  BY Shares
<1>6. Roomy(used, S)
  BY <1>3, <1>5 DEF Budgeted, Roomy, Spent, Top, CallInv, ModelTypes, Counters, SomeBudgets
<1>7. Roomy(used, UnderWay)'
  BY <1>2, <1>4, <1>6 DEF Roomy, counters
<1>8. Worker \in UnderWay' /\ watchUsed.month = month => watchUsed.tokens < WatchLimit
  <2>1. CASE c = Worker
    BY <1>3, <2>1 DEF Spent, CallInv, ModelTypes, Counters, SomeBudgets
  <2>2. CASE c # Worker
    <3>1. Worker \in UnderWay' => Worker \in UnderWay
      BY <1>1, <2>2 DEF UnderWay, Callers
    <3> QED
      BY <3>1 DEF Budgeted
  <2> QED
    BY <2>1, <2>2
<1> QED
  BY <1>2, <1>7, <1>8 DEF Budgeted, Older, counters

LEMMA ChargedStep ==
  ASSUME SomeBudgets, CallInv, Budgeted, CallInv', NEW c \in Callers, Charge(c)
  PROVE Budgeted'
<1>1. /\ call[c].pc = "charge" /\ call[c].billed \in Nat /\ call[c].billed <= 2 * Most
      /\ month' = month /\ saving' = saving /\ month \in Nat /\ Most \in Nat
  BY MostIsMost DEF Charge, CallInv, ModelTypes, CallsFit, Fits, CallRecs
<1>2. UnderWay' = UnderWay \ {c} /\ c \in UnderWay /\ UnderWay \subseteq Callers
  BY <1>1, ChargeStep DEF UnderWay
<1>3. PICK S \in SUBSET Callers : S = UnderWay'
  BY <1>2
<1>4. /\ Share(Cardinality(S)) + 2 * Most = Share(Cardinality(UnderWay))
      /\ Share(Cardinality(S)) \in Nat /\ Share(Cardinality(UnderWay)) \in Nat /\ Top \in Nat
      /\ Share(Cardinality(UnderWay)) <= Share(Cardinality(Callers))
      /\ Share(Cardinality(Callers)) \in Nat
  BY <1>2, <1>3, Shares
<1>5. CASE call[c].billed = 0
  BY <1>2, <1>5, RoomStays DEF Charge
<1>6. CASE call[c].billed # 0
  <2>1. /\ used' = Charged(used, call[c].billed)
        /\ watchUsed' = IF c = Worker THEN Charged(watchUsed, call[c].billed) ELSE watchUsed
    BY <1>6 DEF Charge
  <2>2. used \in Counters /\ watchUsed \in Counters /\ saving \in Counters \cup {Absent}
    BY DEF CallInv, ModelTypes
  <2>3. /\ used'.month = month
        /\ used'.tokens = IF used.month = month THEN used.tokens + call[c].billed
                          ELSE call[c].billed
    <3>1. Charged(used, call[c].billed) =
            [month |-> month, tokens |-> IF used.month = month THEN used.tokens + call[c].billed
                                         ELSE call[c].billed]
      BY <1>1, <2>2, CounterStep
    <3> QED
      BY <2>1, <3>1
  <2>4. used'.tokens \in Nat /\ used'.tokens + Share(Cardinality(S)) < Top
    BY <1>1, <1>4, <2>2, <2>3 DEF Budgeted, Roomy, Top, Counters, SomeBudgets
  <2>5. Roomy(used, UnderWay)'
    BY <1>1, <1>3, <1>4, <2>3, <2>4 DEF Roomy
  <2>6. saving # Absent => Older' /\ saving.tokens < Top
    BY <1>1, <2>2, <2>3 DEF Budgeted, Older, Roomy, Counters
  <2>7. /\ watchUsed'.month <= month /\ watchUsed'.tokens < WatchLimit + 2 * Most
        /\ watchUsed'.month = month /\ Worker \in UnderWay' => watchUsed'.tokens < WatchLimit
    <3>1. CASE c = Worker
      <4>1. /\ watchUsed'.month = month
            /\ watchUsed'.tokens = IF watchUsed.month = month
                                   THEN watchUsed.tokens + call[c].billed ELSE call[c].billed
        <5>1. watchUsed' = Charged(watchUsed, call[c].billed)
          BY <2>1, <3>1
        <5>2. Charged(watchUsed, call[c].billed) =
                [month |-> month, tokens |-> IF watchUsed.month = month
                                             THEN watchUsed.tokens + call[c].billed
                                             ELSE call[c].billed]
          BY <1>1, <2>2, CounterStep
        <5> QED
          BY <5>1, <5>2
      <4>2. watchUsed'.tokens < WatchLimit + 2 * Most
        BY <1>1, <1>2, <2>2, <3>1, <4>1 DEF Budgeted, Counters, SomeBudgets
      <4> QED
        BY <1>1, <1>2, <3>1, <4>1, <4>2
    <3>2. CASE c # Worker
      BY <1>2, <2>1, <3>2 DEF Budgeted
    <3> QED
      BY <3>1, <3>2
  <2> QED
    BY <1>1, <2>5, <2>6, <2>7 DEF Budgeted
<1> QED
  BY <1>5, <1>6

\* A settings page stores again what it read, which is no more than what is stored now.
LEMMA SettingsStep ==
  ASSUME SomeBudgets, CallInv, Budgeted, ReadSettings \/ WriteSettings
  PROVE Budgeted'
<1>1. PICK S \in SUBSET Callers : S = UnderWay /\ S = UnderWay'
  BY DEF UnderWay, ReadSettings, WriteSettings
<1>2. Share(Cardinality(S)) \in Nat /\ Top \in Nat
  BY Shares
<1>3. CASE ReadSettings
  BY <1>3 DEF ReadSettings, Budgeted, Older, Roomy, UnderWay, counters, CallInv, ModelTypes,
     Counters
<1>4. CASE WriteSettings
  <2>1. used' = saving /\ saving' = Absent /\ UNCHANGED <<month, watchUsed>> /\ saving # Absent
    BY <1>4 DEF WriteSettings
  <2>2. used \in Counters /\ saving \in Counters /\ month \in Nat
    BY <2>1 DEF CallInv, ModelTypes
  <2>3. Roomy(saving, S)
    BY <1>1, <1>2, <2>1, <2>2 DEF Budgeted, Older, Roomy, Counters
  <2>4. Roomy(used, UnderWay)'
    BY <1>1, <2>1, <2>3 DEF Roomy
  <2> QED
    BY <1>1, <2>1, <2>4 DEF Budgeted
<1> QED
  BY <1>3, <1>4

LEMMA BudgetedStep ==
  ASSUME SomeBudgets, CallInv, Budgeted, CallInv', [ModelNext]_modelVars
  PROVE Budgeted'
<1>1. ASSUME NEW c \in Callers, UNCHANGED <<month, counters, saving>>,
             call'[c].pc \in {"call", "charge"} => c \in UnderWay,
             \A d \in Callers \ {c} : call'[d] = call[d]
      PROVE Budgeted'
  <2>1. UnderWay' \subseteq UnderWay
    BY <1>1 DEF UnderWay
  <2> QED
    BY <1>1, <2>1, RoomStays
<1>2. ASSUME NEW c \in Callers, Ask(c)
      PROVE Budgeted'
  BY <1>1, <1>2, SummaryAskStep DEF Ask
<1>3. ASSUME NEW c \in Callers, Caller(c)
      PROVE Budgeted'
  <2>1. CASE Deciding(c)
    <3>1. UNCHANGED <<month, counters, saving>>
      BY <2>1 DEF Deciding, LookUp, Admit, FailOpen, Judge
    <3> QED
      BY <1>1, <2>1, <3>1, DecidingStep
  <2>2. CASE LookUp(c) /\ call[c].pc = "lookup" /\ Moves(c, "admit")
    BY <1>1, <2>2, MovesStep DEF LookUp
  <2>3. CASE Admit(c) /\ call[c].pc = "admit" /\ Moves(c, "call")
    BY <2>3, AdmitStep
  <2>4. CASE Client(c)
    <3>1. UNCHANGED <<month, counters, saving>>
      BY <2>4 DEF Client, Answered, TransientError, Raises, Rejected
    <3>2. c \in UnderWay
      BY <2>4, ClientStep DEF UnderWay
    <3> QED
      BY <1>1, <2>4, <3>1, <3>2, ClientStep
  <2>5. CASE Charge(c)
    BY <2>5, ChargedStep
  <2>6. CASE Finish(c)
    BY <1>1, <2>6, FinishStep DEF Finish
  <2> QED
    BY <1>3, <2>1, <2>2, <2>3, <2>4, <2>5, <2>6, CallerCases
<1>4. CASE EditIntent
  BY <1>4, RoomStays DEF EditIntent, UnderWay
<1>5. CASE NextMonth
  <2>1. /\ month' = month + 1 /\ UNCHANGED <<counters, call, saving>>
        /\ month \in Nat /\ used.month \in Nat /\ watchUsed.month \in Nat
    BY <1>5 DEF NextMonth, CallInv, ModelTypes, Counters
  <2> QED
    BY <2>1 DEF Budgeted, Roomy, Older, UnderWay, counters
<1>6. CASE ReadSettings \/ WriteSettings
  BY <1>6, SettingsStep
<1>7. CASE UNCHANGED modelVars
  BY <1>7, RoomStays DEF modelVars, UnderWay
<1> QED
  BY <1>2, <1>3, <1>4, <1>5, <1>6, <1>7 DEF ModelNext

\* An alert is suppressed only by a complete reply under the intent the check went by; a call
\* is sent twice more than the attempts it has, at most; and the budgets are passed by no more
\* than the calls under way when they were reached, though a settings page may put back the
\* counters it has read.
THEOREM VerdictsAreWithinBudget ==
  ASSUME SomeBudgets
  PROVE ModelSpec => []VerdictsWithinBudget
<1> DEFINE ModelInv == CallInv /\ Believed /\ Budgeted
<1>1. ModelInit => ModelInv
  <2> SUFFICES ASSUME ModelInit PROVE ModelInv
    OBVIOUS
  <2>1. UnderWay = {}
    BY DEF ModelInit, UnderWay, NoCall
  <2>2. /\ Share(Cardinality({})) \in Nat /\ Top \in Nat
        /\ Share(Cardinality({})) <= Share(Cardinality(Callers))
        /\ Share(Cardinality(Callers)) \in Nat /\ Most \in Nat
    BY Shares, MostIsMost
  <2>3. Budgeted
    BY <2>1, <2>2 DEF ModelInit, Budgeted, Roomy, Zero, Top, SomeBudgets
  <2>4. Believed
    BY DEF ModelInit, Believed, SuppressedByVerdict, Suppressed, NoCall, Callers
  <2> QED
    BY <2>3, <2>4, CallInvInit
<1>2. ModelInv /\ [ModelNext]_modelVars => ModelInv'
  BY CallInvStep, BelievedStep, BudgetedStep
<1>3. ModelInv => VerdictsWithinBudget
  <2> SUFFICES ASSUME ModelInv PROVE VerdictsWithinBudget
    OBVIOUS
  <2>1. CallBounded
    BY DEF CallBounded, CallInv, CallsFit, Fits
  <2>2. Overshoot
    BY DEF Overshoot, Budgeted, Roomy, Top, Share, Most
  <2> QED
    BY <2>1, <2>2 DEF VerdictsWithinBudget, Believed
<1> QED
  BY <1>1, <1>2, <1>3, PTL DEF ModelSpec

-----------------------------------------------------------------------------
\* Browsers of the visual selector and of previews.

Ops == {"none", "start", "save", "step", "preview", "promote"}
Moments == {"idle", "lookup", "page", "browser", "closed", "unmap", "sweep", "expired", "acquire",
            "connect", "keep", "map", "act", "state", "tidy", "look", "move"}

RequestRecs == [op : Ops, pc : Moments, watch : Watches \cup {Nobody}, sid : Sessions \cup {Nobody},
                todo : SUBSET Sessions, sweeping : BOOLEAN]

BrowserTypes ==
  /\ unused \subseteq Sessions
  /\ table \subseteq Sessions
  /\ mapping \in [Watches -> Sessions \cup {Nobody}]
  /\ running \subseteq Sessions
  /\ pages \in [Sessions -> {"none", "live", "closed", "gone"}]
  /\ aged \subseteq Sessions
  /\ lost \subseteq Sessions
  /\ req \in [Requests -> RequestRecs]
  /\ asked \in Nat
  /\ picture \in [Watches -> {"none", "good", "empty"}]
  /\ parked \in [Sessions -> {"none", "spoilt", "whole", "rotting", "gone", "moved"}]
  /\ promoted \subseteq Sessions \X {"whole", "part"} \X BOOLEAN

\* A request that has a browser: it will be in the table, or closed.
Responsible == {"connect", "keep", "look", "page", "browser"}
InHand == Responsible \cup {"map", "closed", "unmap"}

\* A browser that runs is somebody's.
Held == \A s \in running : \/ s \in table \cup lost
                           \/ \E r \in Requests : req[r].pc \in Responsible /\ req[r].sid = s

Begun == /\ \A r \in Requests : req[r].pc \in InHand => req[r].sid \in Sessions \ unused
         /\ \A r \in Requests : req[r].pc = "lookup" => req[r].watch \in Watches
         /\ \A s \in table : s \notin unused
         /\ \A w \in Watches : mapping[w] # Nobody => mapping[w] \notin unused
         /\ \A s \in running : s \notin unused

\* What was closed does not run, and what is about to be mapped is in the table, unless it was
\* closed.
Over == \A r \in Requests :
          /\ req[r].pc = "closed" => req[r].sid \notin running \/ req[r].sid \in lost
          /\ req[r].pc = "map" =>
               req[r].sid \in table \/ req[r].sid \notin running \/ req[r].sid \in lost

\* The session of a preview is its own.
Alone(r) ==  /\ req[r].sid \notin table
             /\ \A w \in Watches : mapping[w] # req[r].sid
             /\ parked[req[r].sid] = "none"
             /\ \A x \in Requests : x # r /\ req[x].pc \in InHand => req[x].sid # req[r].sid
Private == \A r \in Requests : req[r].op = "preview" =>
             /\ req[r].pc \in {"tidy", "acquire", "connect", "look", "page", "browser", "closed"}
             /\ req[r].pc \in InHand => Alone(r)

Parked == /\ \A s \in Sessions : parked[s] = "rotting" => s \in aged
          /\ \A s \in unused : parked[s] = "none"
          /\ \A r \in Requests : req[r].pc = "tidy" =>
                \A s \in req[r].todo : s \in aged /\ parked[s] # "none"
          /\ \A r \in Requests : req[r].pc = "move" =>
                /\ req[r].sid \in Sessions
                /\ parked[req[r].sid] \in {"whole", "rotting", "gone", "moved"}

BrowserInv == BrowserTypes /\ Held /\ Begun /\ Over /\ Private /\ Parked /\ PreviewsWhole

LEMMA BrowsersBegin == BrowsersInit => BrowserInv
  BY DEF BrowsersInit, BrowserInv, BrowserTypes, Held, Begun, Over, Private, Parked, PreviewsWhole,
         RequestRecs, NoRequest, Ops, Moments, InHand, Responsible

\* What a step does to the requests: it changes one of them.
Becomes(r, q) == /\ q \in RequestRecs
                 /\ req' \in [Requests -> RequestRecs]
                 /\ req'[r] = q
                 /\ \A x \in Requests : x # r => req'[x] = req[x]

LEMMA Puts ==
  ASSUME BrowserTypes, NEW r \in Requests, NEW q \in RequestRecs, req' = [req EXCEPT ![r] = q]
  PROVE  Becomes(r, q)
  BY DEF BrowserTypes, Becomes

LEMMA EndsIt ==
  ASSUME BrowserTypes, NEW r \in Requests, Ends(r)
  PROVE  Becomes(r, NoRequest)
  <1>1. NoRequest \in RequestRecs
    BY DEF NoRequest, RequestRecs, Ops, Moments
  <1> QED BY <1>1, Puts DEF Ends

LEMMA GoesOnTo ==
  ASSUME BrowserTypes, NEW r \in Requests, NEW pc \in Moments, GoesOn(r, pc)
  PROVE  Becomes(r, [req[r] EXCEPT !.pc = pc])
  <1>1. req[r] \in RequestRecs
    BY DEF BrowserTypes
  <1>2. [req[r] EXCEPT !.pc = pc] \in RequestRecs
    BY <1>1 DEF RequestRecs
  <1>3. req' = [req EXCEPT ![r] = [req[r] EXCEPT !.pc = pc]]
    BY DEF GoesOn
  <1> QED BY <1>2, <1>3, Puts

\* The record after it has gone on.
LEMMA GoneFields ==
  ASSUME NEW q \in RequestRecs, NEW pc \in Moments
  PROVE  /\ [q EXCEPT !.pc = pc].pc = pc
         /\ [q EXCEPT !.pc = pc].op = q.op
         /\ [q EXCEPT !.pc = pc].sid = q.sid
         /\ [q EXCEPT !.pc = pc].todo = q.todo
  BY DEF RequestRecs

LEMMA GoesFields ==
  ASSUME BrowserTypes, NEW r \in Requests, NEW pc \in Moments, GoesOn(r, pc)
  PROVE  /\ req' \in [Requests -> RequestRecs]
         /\ \A x \in Requests : x # r => req'[x] = req[x]
         /\ req'[r].pc = pc /\ req'[r].op = req[r].op /\ req'[r].sid = req[r].sid
         /\ req'[r].todo = req[r].todo
  <1>1. req[r] \in RequestRecs
    BY DEF BrowserTypes
  <1>2. Becomes(r, [req[r] EXCEPT !.pc = pc])
    BY GoesOnTo
  <1>3. /\ [req[r] EXCEPT !.pc = pc].pc = pc
        /\ [req[r] EXCEPT !.pc = pc].op = req[r].op
        /\ [req[r] EXCEPT !.pc = pc].sid = req[r].sid
        /\ [req[r] EXCEPT !.pc = pc].todo = req[r].todo
    BY <1>1, GoneFields
  <1> QED BY <1>2, <1>3 DEF Becomes

LEMMA EndsFields ==
  ASSUME BrowserTypes, NEW r \in Requests, Ends(r)
  PROVE  /\ req' \in [Requests -> RequestRecs]
         /\ \A x \in Requests : x # r => req'[x] = req[x]
         /\ req'[r].pc = "idle" /\ req'[r].op = "none"
  BY EndsIt DEF Becomes, NoRequest

LEMMA AskStartKeeps == ASSUME BrowserInv, NEW r \in Requests, AskStart(r) PROVE BrowserInv'
  <1> USE DEF BrowserInv
  <1>0. PICK w \in Watches :
          Asks(r, [NoRequest EXCEPT !.op = "start", !.pc = "lookup", !.watch = w])
    BY DEF AskStart
  <1> DEFINE q == [NoRequest EXCEPT !.op = "start", !.pc = "lookup", !.watch = w]
  <1>a. /\ q \in RequestRecs
        /\ q.pc = "lookup" /\ q.op = "start" /\ q.watch \in Watches
    BY <1>0 DEF RequestRecs, Ops, Moments, BrowserTypes, NoRequest
  <1>b. Becomes(r, q)
    <2>1. req' = [req EXCEPT ![r] = q]
      BY <1>0 DEF Asks
    <2> HIDE DEF q
    <2> QED BY <1>a, <2>1, Puts
  <1>1. /\ req[r].pc = "idle"
        /\ req' \in [Requests -> RequestRecs]
        /\ \A x \in Requests : x # r => req'[x] = req[x]
        /\ UNCHANGED <<tables, browsers, onDisk>> /\ asked' = asked + 1
        /\ req'[r].pc = "lookup" /\ req'[r].op = "start" /\ req'[r].watch \in Watches
    <2> HIDE DEF q
    <2> QED BY <1>0, <1>a, <1>b DEF Becomes, Asks, Is
  <1>2. BrowserTypes'
    BY <1>1 DEF BrowserTypes, browsers, tables, onDisk
  <1>3. Held'
    BY <1>1, <1>2 DEF Held, Responsible, browsers, tables
  <1>4. Begun'
    BY <1>1, <1>2 DEF Begun, InHand, Responsible, browsers, tables
  <1>5. Over'
    BY <1>1, <1>2 DEF Over, browsers, tables
  <1>6. Private'
    BY <1>1, <1>2 DEF Private, Alone, InHand, Responsible, tables, onDisk
  <1>7. Parked'
    BY <1>1, <1>2 DEF Parked, browsers, onDisk
  <1>8. PreviewsWhole'
    BY <1>1, <1>2 DEF PreviewsWhole, onDisk
  <1> QED BY <1>2, <1>3, <1>4, <1>5, <1>6, <1>7, <1>8

LEMMA AskSaveKeeps == ASSUME BrowserInv, NEW r \in Requests, AskSave(r) PROVE BrowserInv'
  <1> USE DEF BrowserInv
  <1>0. PICK w \in Watches : Asks(r, [NoRequest EXCEPT !.op = "save", !.pc = "lookup", !.watch = w])
    BY DEF AskSave
  <1> DEFINE q == [NoRequest EXCEPT !.op = "save", !.pc = "lookup", !.watch = w]
  <1>a. /\ q \in RequestRecs
        /\ q.pc = "lookup" /\ q.op = "save" /\ q.watch \in Watches
    BY <1>0 DEF RequestRecs, Ops, Moments, BrowserTypes, NoRequest
  <1>b. Becomes(r, q)
    <2>1. req' = [req EXCEPT ![r] = q]
      BY <1>0 DEF Asks
    <2> HIDE DEF q
    <2> QED BY <1>a, <2>1, Puts
  <1>1. /\ req[r].pc = "idle"
        /\ req' \in [Requests -> RequestRecs]
        /\ \A x \in Requests : x # r => req'[x] = req[x]
        /\ UNCHANGED <<tables, browsers, onDisk>> /\ asked' = asked + 1
        /\ req'[r].pc = "lookup" /\ req'[r].op = "save" /\ req'[r].watch \in Watches
    <2> HIDE DEF q
    <2> QED BY <1>0, <1>a, <1>b DEF Becomes, Asks, Is
  <1>2. BrowserTypes'
    BY <1>1 DEF BrowserTypes, browsers, tables, onDisk
  <1>3. Held'
    BY <1>1, <1>2 DEF Held, Responsible, browsers, tables
  <1>4. Begun'
    BY <1>1, <1>2 DEF Begun, InHand, Responsible, browsers, tables
  <1>5. Over'
    BY <1>1, <1>2 DEF Over, browsers, tables
  <1>6. Private'
    BY <1>1, <1>2 DEF Private, Alone, InHand, Responsible, tables, onDisk
  <1>7. Parked'
    BY <1>1, <1>2 DEF Parked, browsers, onDisk
  <1>8. PreviewsWhole'
    BY <1>1, <1>2 DEF PreviewsWhole, onDisk
  <1> QED BY <1>2, <1>3, <1>4, <1>5, <1>6, <1>7, <1>8

LEMMA AskStepKeeps == ASSUME BrowserInv, NEW r \in Requests, AskStep(r) PROVE BrowserInv'
  <1> USE DEF BrowserInv
  <1>0. PICK s \in table, w \in Watches :
          Asks(r, [NoRequest EXCEPT !.op = "step", !.pc = "act", !.sid = s, !.watch = w])
    BY DEF AskStep
  <1> DEFINE q == [NoRequest EXCEPT !.op = "step", !.pc = "act", !.sid = s, !.watch = w]
  <1>a. /\ q \in RequestRecs
        /\ q.pc = "act" /\ q.op = "step"
    BY <1>0 DEF RequestRecs, Ops, Moments, BrowserTypes, NoRequest
  <1>b. Becomes(r, q)
    <2>1. req' = [req EXCEPT ![r] = q]
      BY <1>0 DEF Asks
    <2> HIDE DEF q
    <2> QED BY <1>a, <2>1, Puts
  <1>1. /\ req[r].pc = "idle"
        /\ req' \in [Requests -> RequestRecs]
        /\ \A x \in Requests : x # r => req'[x] = req[x]
        /\ UNCHANGED <<tables, browsers, onDisk>> /\ asked' = asked + 1
        /\ req'[r].pc = "act" /\ req'[r].op = "step"
    <2> HIDE DEF q
    <2> QED BY <1>0, <1>a, <1>b DEF Becomes, Asks, Is
  <1>2. BrowserTypes'
    BY <1>1 DEF BrowserTypes, browsers, tables, onDisk
  <1>3. Held'
    BY <1>1, <1>2 DEF Held, Responsible, browsers, tables
  <1>4. Begun'
    BY <1>1, <1>2 DEF Begun, InHand, Responsible, browsers, tables
  <1>5. Over'
    BY <1>1, <1>2 DEF Over, browsers, tables
  <1>6. Private'
    BY <1>1, <1>2 DEF Private, Alone, InHand, Responsible, tables, onDisk
  <1>7. Parked'
    BY <1>1, <1>2 DEF Parked, browsers, onDisk
  <1>8. PreviewsWhole'
    BY <1>1, <1>2 DEF PreviewsWhole, onDisk
  <1> QED BY <1>2, <1>3, <1>4, <1>5, <1>6, <1>7, <1>8

LEMMA AskPreviewKeeps == ASSUME BrowserInv, NEW r \in Requests, AskPreview(r) PROVE BrowserInv'
  <1> USE DEF BrowserInv
  <1>0. Asks(r, [NoRequest EXCEPT !.op = "preview", !.pc = "tidy",
                                  !.todo = {s \in Sessions : Stale(s)}])
    BY DEF AskPreview
  <1> DEFINE q == [NoRequest EXCEPT !.op = "preview", !.pc = "tidy",
                                    !.todo = {s \in Sessions : Stale(s)}]
  <1>a. /\ q \in RequestRecs
        /\ q.pc = "tidy" /\ q.op = "preview"
        /\ q.todo = {s \in Sessions : Stale(s)}
    BY <1>0 DEF RequestRecs, Ops, Moments, BrowserTypes, NoRequest
  <1>b. Becomes(r, q)
    <2>1. req' = [req EXCEPT ![r] = q]
      BY <1>0 DEF Asks
    <2> HIDE DEF q
    <2> QED BY <1>a, <2>1, Puts
  <1>1. /\ req[r].pc = "idle"
        /\ req' \in [Requests -> RequestRecs]
        /\ \A x \in Requests : x # r => req'[x] = req[x]
        /\ UNCHANGED <<tables, browsers, onDisk>> /\ asked' = asked + 1
        /\ req'[r].pc = "tidy" /\ req'[r].op = "preview"
        /\ req'[r].todo = {s \in Sessions : Stale(s)}
    <2> HIDE DEF q
    <2> QED BY <1>0, <1>a, <1>b DEF Becomes, Asks, Is
  <1>2. BrowserTypes'
    BY <1>1 DEF BrowserTypes, browsers, tables, onDisk
  <1>3. Held'
    BY <1>1, <1>2 DEF Held, Responsible, browsers, tables
  <1>4. Begun'
    BY <1>1, <1>2 DEF Begun, InHand, Responsible, browsers, tables
  <1>5. Over'
    BY <1>1, <1>2 DEF Over, browsers, tables
  <1>6. Private'
    BY <1>1, <1>2 DEF Private, Alone, InHand, Responsible, tables, onDisk
  <1>7. Parked'
    BY <1>1, <1>2 DEF Parked, Stale, browsers, onDisk
  <1>8. PreviewsWhole'
    BY <1>1, <1>2 DEF PreviewsWhole, onDisk
  <1> QED BY <1>2, <1>3, <1>4, <1>5, <1>6, <1>7, <1>8

LEMMA AskPromoteKeeps == ASSUME BrowserInv, NEW r \in Requests, AskPromote(r) PROVE BrowserInv'
  <1> USE DEF BrowserInv
  <1>0. PICK s \in {t \in Sessions : parked[t] \in {"whole", "rotting", "gone"}} :
          Asks(r, [NoRequest EXCEPT !.op = "promote", !.pc = "move", !.sid = s])
    BY DEF AskPromote
  <1> DEFINE q == [NoRequest EXCEPT !.op = "promote", !.pc = "move", !.sid = s]
  <1>a. /\ q \in RequestRecs
        /\ q.pc = "move" /\ q.op = "promote"
        /\ q.sid \in Sessions /\ parked[q.sid] \in {"whole", "rotting", "gone"}
    BY <1>0 DEF RequestRecs, Ops, Moments, BrowserTypes, NoRequest
  <1>b. Becomes(r, q)
    <2>1. req' = [req EXCEPT ![r] = q]
      BY <1>0 DEF Asks
    <2> HIDE DEF q
    <2> QED BY <1>a, <2>1, Puts
  <1>1. /\ req[r].pc = "idle"
        /\ req' \in [Requests -> RequestRecs]
        /\ \A x \in Requests : x # r => req'[x] = req[x]
        /\ UNCHANGED <<tables, browsers, onDisk>> /\ asked' = asked + 1
        /\ req'[r].pc = "move" /\ req'[r].op = "promote"
        /\ req'[r].sid \in Sessions /\ parked[req'[r].sid] \in {"whole", "rotting", "gone"}
    <2> HIDE DEF q
    <2> QED BY <1>0, <1>a, <1>b DEF Becomes, Asks, Is
  <1>2. BrowserTypes'
    BY <1>1 DEF BrowserTypes, browsers, tables, onDisk
  <1>3. Held'
    BY <1>1, <1>2 DEF Held, Responsible, browsers, tables
  <1>4. Begun'
    BY <1>1, <1>2 DEF Begun, InHand, Responsible, browsers, tables
  <1>5. Over'
    BY <1>1, <1>2 DEF Over, browsers, tables
  <1>6. Private'
    BY <1>1, <1>2 DEF Private, Alone, tables, onDisk
  <1>7. Parked'
    BY <1>1, <1>2 DEF Parked, browsers, onDisk
  <1>8. PreviewsWhole'
    BY <1>1, <1>2 DEF PreviewsWhole, onDisk
  <1> QED BY <1>2, <1>3, <1>4, <1>5, <1>6, <1>7, <1>8

LEMMA ClosePageKeeps == ASSUME BrowserInv, NEW r \in Requests, ClosePage(r) PROVE BrowserInv'
  <1> USE DEF BrowserInv
  <1>1. /\ req[r].pc = "page"
        /\ req' \in [Requests -> RequestRecs]
        /\ \A x \in Requests : x # r => req'[x] = req[x]
        /\ req'[r].pc = "browser" /\ req'[r].op = req[r].op /\ req'[r].sid = req[r].sid
    BY GoesFields, EndsFields DEF Moments, ClosePage, Is
  <1>2. BrowserTypes'
    BY <1>1 DEF BrowserTypes, ClosePage, tables, onDisk
  <1>3. Held'
    BY <1>1, <1>2 DEF Held, Responsible, ClosePage, tables
  <1>4. Begun'
    BY <1>1, <1>2 DEF Begun, InHand, Responsible, ClosePage, tables
  <1>5. Over'
    BY <1>1, <1>2 DEF Over, ClosePage, tables
  <1>6. Private'
    BY <1>1, <1>2 DEF Private, Alone, InHand, Responsible, ClosePage, tables, onDisk
  <1>7. Parked'
    BY <1>1, <1>2 DEF Parked, ClosePage, onDisk
  <1>8. PreviewsWhole'
    BY <1>1, <1>2 DEF PreviewsWhole, ClosePage, onDisk
  <1> QED BY <1>2, <1>3, <1>4, <1>5, <1>6, <1>7, <1>8

LEMMA CloseBrowserKeeps == ASSUME BrowserInv, NEW r \in Requests, CloseBrowser(r) PROVE BrowserInv'
  <1> USE DEF BrowserInv
  <1>1. /\ req[r].pc = "browser"
        /\ req' \in [Requests -> RequestRecs]
        /\ \A x \in Requests : x # r => req'[x] = req[x]
        /\ req'[r].pc = "closed" /\ req'[r].op = req[r].op /\ req'[r].sid = req[r].sid
    BY GoesFields, EndsFields DEF Moments, CloseBrowser, Is
  <1>2. BrowserTypes'
    BY <1>1 DEF BrowserTypes, Begun, InHand, Responsible, CloseBrowser, tables, onDisk
  <1>3. Held'
    BY <1>1, <1>2 DEF Held, CloseBrowser, tables
  <1>4. Begun'
    BY <1>1, <1>2 DEF Begun, InHand, Responsible, CloseBrowser, tables
  <1>5. Over'
    BY <1>1, <1>2 DEF Over, CloseBrowser, tables
  <1>6. Private'
    BY <1>1, <1>2 DEF Private, Alone, InHand, Responsible, CloseBrowser, tables, onDisk
  <1>7. Parked'
    BY <1>1, <1>2 DEF Parked, CloseBrowser, onDisk
  <1>8. PreviewsWhole'
    BY <1>1, <1>2 DEF PreviewsWhole, CloseBrowser, onDisk
  <1> QED BY <1>2, <1>3, <1>4, <1>5, <1>6, <1>7, <1>8

LEMMA DropKeeps == ASSUME BrowserInv, NEW r \in Requests, Drop(r) PROVE BrowserInv'
  <1> USE DEF BrowserInv
  <1>1. /\ req[r].pc = "closed"
        /\ req' \in [Requests -> RequestRecs]
        /\ \A x \in Requests : x # r => req'[x] = req[x]
        /\ \/ (req'[r].pc = "idle" /\ req'[r].op = "none")
           \/ (req'[r].pc = "unmap" /\ req'[r].op = req[r].op /\ req'[r].sid = req[r].sid)
    BY GoesFields, EndsFields DEF Moments, Drop, Is
  <1>2. BrowserTypes'
    BY <1>1 DEF BrowserTypes, Drop, browsers, onDisk
  <1>3. Held'
    BY <1>1, <1>2 DEF Held, Over, Drop, browsers
  <1>4. Begun'
    BY <1>1, <1>2 DEF Begun, InHand, Responsible, Drop, browsers
  <1>5. Over'
    BY <1>1, <1>2 DEF Over, Drop, browsers
  <1>6. Private'
    BY <1>1, <1>2 DEF Private, Alone, InHand, Responsible, Drop, onDisk
  <1>7. Parked'
    BY <1>1, <1>2 DEF Parked, Drop, browsers, onDisk
  <1>8. PreviewsWhole'
    BY <1>1, <1>2 DEF PreviewsWhole, Drop, onDisk
  <1> QED BY <1>2, <1>3, <1>4, <1>5, <1>6, <1>7, <1>8

LEMMA UnmapKeeps == ASSUME BrowserInv, NEW r \in Requests, Unmap(r) PROVE BrowserInv'
  <1> USE DEF BrowserInv
  <1>1. /\ req[r].pc = "unmap"
        /\ req' \in [Requests -> RequestRecs]
        /\ \A x \in Requests : x # r => req'[x] = req[x]
        /\ \/ (req'[r].pc = "idle" /\ req'[r].op = "none")
           \/ (req'[r].pc = "sweep" /\ req'[r].op = req[r].op /\ req'[r].sid = req[r].sid)
    BY GoesFields, EndsFields DEF Moments, Unmap, Is
  <1>2. BrowserTypes'
    BY <1>1 DEF BrowserTypes, Unmap, browsers, onDisk
  <1>3. Held'
    BY <1>1, <1>2 DEF Held, Responsible, Unmap, browsers
  <1>4. Begun'
    BY <1>1, <1>2 DEF Begun, InHand, Responsible, Unmap, browsers
  <1>5. Over'
    BY <1>1, <1>2 DEF Over, Unmap, browsers
  <1>6. Private'
    BY <1>1, <1>2, NobodyAssumption DEF Private, Alone, InHand, Begun, Responsible, Unmap, onDisk
  <1>7. Parked'
    BY <1>1, <1>2 DEF Parked, Unmap, browsers, onDisk
  <1>8. PreviewsWhole'
    BY <1>1, <1>2 DEF PreviewsWhole, Unmap, onDisk
  <1> QED BY <1>2, <1>3, <1>4, <1>5, <1>6, <1>7, <1>8

LEMMA UnmapExpiredKeeps == ASSUME BrowserInv, NEW r \in Requests, UnmapExpired(r) PROVE BrowserInv'
  <1> USE DEF BrowserInv
  <1>1. /\ req[r].pc = "unmap"
        /\ req' \in [Requests -> RequestRecs]
        /\ \A x \in Requests : x # r => req'[x] = req[x]
        /\ req'[r].pc = "expired" /\ req'[r].op = req[r].op /\ req'[r].sid = req[r].sid
    BY GoesFields, EndsFields DEF Moments, UnmapExpired, Is
  <1>2. BrowserTypes'
    BY <1>1 DEF BrowserTypes, UnmapExpired, browsers, onDisk
  <1>3. Held'
    BY <1>1, <1>2 DEF Held, Responsible, UnmapExpired, browsers
  <1>4. Begun'
    BY <1>1, <1>2 DEF Begun, InHand, BrowserTypes, UnmapExpired, browsers
  <1>5. Over'
    BY <1>1, <1>2 DEF Over, UnmapExpired, browsers
  <1>6. Private'
    BY <1>1, <1>2, NobodyAssumption DEF Private, Alone, InHand, Begun, BrowserTypes, UnmapExpired,
           onDisk
  <1>7. Parked'
    BY <1>1, <1>2 DEF Parked, UnmapExpired, browsers, onDisk
  <1>8. PreviewsWhole'
    BY <1>1, <1>2 DEF PreviewsWhole, UnmapExpired, onDisk
  <1> QED BY <1>2, <1>3, <1>4, <1>5, <1>6, <1>7, <1>8

LEMMA SweptKeeps == ASSUME BrowserInv, NEW r \in Requests, Swept(r) PROVE BrowserInv'
  <1> USE DEF BrowserInv
  <1>1. /\ req[r].pc = "expired"
        /\ req' \in [Requests -> RequestRecs]
        /\ \A x \in Requests : x # r => req'[x] = req[x]
        /\ \/ (req'[r].pc = "idle" /\ req'[r].op = "none")
           \/ (req'[r].pc = "acquire" /\ req'[r].op = req[r].op /\ req'[r].sid = req[r].sid)
    BY GoesFields, EndsFields DEF Moments, Swept, Is
  <1>2. BrowserTypes'
    BY <1>1 DEF BrowserTypes, Swept, browsers, tables, onDisk
  <1>3. Held'
    BY <1>1, <1>2 DEF Held, Responsible, Swept, browsers, tables
  <1>4. Begun'
    BY <1>1, <1>2 DEF Begun, InHand, Responsible, Swept, browsers, tables
  <1>5. Over'
    BY <1>1, <1>2 DEF Over, Swept, browsers, tables
  <1>6. Private'
    BY <1>1, <1>2 DEF Private, Alone, InHand, Responsible, Swept, tables, onDisk
  <1>7. Parked'
    BY <1>1, <1>2 DEF Parked, Swept, browsers, onDisk
  <1>8. PreviewsWhole'
    BY <1>1, <1>2 DEF PreviewsWhole, Swept, onDisk
  <1> QED BY <1>2, <1>3, <1>4, <1>5, <1>6, <1>7, <1>8

LEMMA KeepKeeps == ASSUME BrowserInv, NEW r \in Requests, Keep(r) PROVE BrowserInv'
  <1> USE DEF BrowserInv
  <1>1. /\ req[r].pc = "keep"
        /\ req' \in [Requests -> RequestRecs]
        /\ \A x \in Requests : x # r => req'[x] = req[x]
        /\ req'[r].pc = "map" /\ req'[r].op = req[r].op /\ req'[r].sid = req[r].sid
    BY GoesFields, EndsFields DEF Moments, Keep, Is
  <1>2. BrowserTypes'
    BY <1>1 DEF BrowserTypes, Begun, InHand, Responsible, Keep, browsers, onDisk
  <1>3. Held'
    BY <1>1, <1>2 DEF Held, Keep, browsers
  <1>4. Begun'
    BY <1>1, <1>2 DEF Begun, InHand, Responsible, Keep, browsers
  <1>5. Over'
    BY <1>1, <1>2 DEF Over, Keep, browsers
  <1>6. Private'
    BY <1>1, <1>2 DEF Private, Alone, InHand, Responsible, Keep, onDisk
  <1>7. Parked'
    BY <1>1, <1>2 DEF Parked, Keep, browsers, onDisk
  <1>8. PreviewsWhole'
    BY <1>1, <1>2 DEF PreviewsWhole, Keep, onDisk
  <1> QED BY <1>2, <1>3, <1>4, <1>5, <1>6, <1>7, <1>8

LEMMA MapKeeps == ASSUME BrowserInv, NEW r \in Requests, Map(r) PROVE BrowserInv'
  <1> USE DEF BrowserInv
  <1>1. /\ req[r].pc = "map"
        /\ req' \in [Requests -> RequestRecs]
        /\ \A x \in Requests : x # r => req'[x] = req[x]
        /\ req'[r].pc = "idle" /\ req'[r].op = "none"
    BY GoesFields, EndsFields DEF Moments, Map, Is
  <1>2. BrowserTypes'
    BY <1>1 DEF BrowserTypes, RequestRecs, Map, browsers, onDisk
  <1>3. Held'
    BY <1>1, <1>2 DEF Held, Responsible, Map, browsers
  <1>4. Begun'
    BY <1>1, <1>2 DEF Begun, InHand, Responsible, Map, browsers
  <1>5. Over'
    BY <1>1, <1>2 DEF Over, Map, browsers
  <1>6. Private'
    BY <1>1, <1>2 DEF Private, Alone, InHand, Responsible, Map, onDisk
  <1>7. Parked'
    BY <1>1, <1>2 DEF Parked, Map, browsers, onDisk
  <1>8. PreviewsWhole'
    BY <1>1, <1>2 DEF PreviewsWhole, Map, onDisk
  <1> QED BY <1>2, <1>3, <1>4, <1>5, <1>6, <1>7, <1>8

LEMMA call_actionKeeps == ASSUME BrowserInv, NEW r \in Requests, call_action(r) PROVE BrowserInv'
  <1> USE DEF BrowserInv
  <1>1. /\ req[r].pc = "act"
        /\ req' \in [Requests -> RequestRecs]
        /\ \A x \in Requests : x # r => req'[x] = req[x]
        /\ \/ (req'[r].pc = "idle" /\ req'[r].op = "none")
           \/ (req'[r].pc = "state" /\ req'[r].op = req[r].op /\ req'[r].sid = req[r].sid)
    BY GoesFields, EndsFields DEF Moments, call_action, Is
  <1>2. BrowserTypes'
    BY <1>1 DEF BrowserTypes, call_action, browsers, tables, onDisk
  <1>3. Held'
    BY <1>1, <1>2 DEF Held, Responsible, call_action, browsers, tables
  <1>4. Begun'
    BY <1>1, <1>2 DEF Begun, InHand, Responsible, call_action, browsers, tables
  <1>5. Over'
    BY <1>1, <1>2 DEF Over, call_action, browsers, tables
  <1>6. Private'
    BY <1>1, <1>2 DEF Private, Alone, InHand, Responsible, call_action, tables, onDisk
  <1>7. Parked'
    BY <1>1, <1>2 DEF Parked, call_action, browsers, onDisk
  <1>8. PreviewsWhole'
    BY <1>1, <1>2 DEF PreviewsWhole, call_action, onDisk
  <1> QED BY <1>2, <1>3, <1>4, <1>5, <1>6, <1>7, <1>8

LEMMA get_current_stateKeeps ==
  ASSUME BrowserInv, NEW r \in Requests, get_current_state(r)
  PROVE  BrowserInv'
  <1> USE DEF BrowserInv
  <1>1. /\ req[r].pc = "state"
        /\ req' \in [Requests -> RequestRecs]
        /\ \A x \in Requests : x # r => req'[x] = req[x]
        /\ req'[r].pc = "idle" /\ req'[r].op = "none"
    BY GoesFields, EndsFields DEF Moments, get_current_state, Is
  <1>2. BrowserTypes'
    BY <1>1 DEF BrowserTypes, get_current_state, browsers, tables
  <1>3. Held'
    BY <1>1, <1>2 DEF Held, Responsible, get_current_state, browsers, tables
  <1>4. Begun'
    BY <1>1, <1>2 DEF Begun, InHand, Responsible, get_current_state, browsers, tables
  <1>5. Over'
    BY <1>1, <1>2 DEF Over, get_current_state, browsers, tables
  <1>6. Private'
    BY <1>1, <1>2 DEF Private, Alone, InHand, Responsible, get_current_state, tables
  <1>7. Parked'
    BY <1>1, <1>2 DEF Parked, get_current_state, browsers
  <1>8. PreviewsWhole'
    BY <1>1, <1>2 DEF PreviewsWhole, get_current_state
  <1> QED BY <1>2, <1>3, <1>4, <1>5, <1>6, <1>7, <1>8

LEMMA ParkKeeps == ASSUME BrowserInv, NEW r \in Requests, Park(r) PROVE BrowserInv'
  <1> USE DEF BrowserInv
  <1>1. /\ req[r].pc = "closed"
        /\ req' \in [Requests -> RequestRecs]
        /\ \A x \in Requests : x # r => req'[x] = req[x]
        /\ req'[r].pc = "idle" /\ req'[r].op = "none"
    BY GoesFields, EndsFields DEF Moments, Park, Is
  <1>2. BrowserTypes'
    BY <1>1 DEF BrowserTypes, Park, browsers, tables
  <1>3. Held'
    BY <1>1, <1>2 DEF Held, Responsible, Park, browsers, tables
  <1>4. Begun'
    BY <1>1, <1>2 DEF Begun, InHand, Responsible, Park, browsers, tables
  <1>5. Over'
    BY <1>1, <1>2 DEF Over, Park, browsers, tables
  <1>6. Private'
    BY <1>1, <1>2 DEF Private, Alone, InHand, Begun, Responsible, BrowserTypes, Park, tables
  <1>7. Parked'
    BY <1>1, <1>2 DEF Parked, Private, Begun, Alone, InHand, BrowserTypes, Park, browsers
  <1>8. PreviewsWhole'
    BY <1>1, <1>2 DEF PreviewsWhole, Park
  <1> QED BY <1>2, <1>3, <1>4, <1>5, <1>6, <1>7, <1>8

LEMMA PromoteKeeps == ASSUME BrowserInv, NEW r \in Requests, Promote(r) PROVE BrowserInv'
  <1> USE DEF BrowserInv
  <1>1. /\ req[r].pc = "move"
        /\ req' \in [Requests -> RequestRecs]
        /\ \A x \in Requests : x # r => req'[x] = req[x]
        /\ req'[r].pc = "idle" /\ req'[r].op = "none"
    BY GoesFields, EndsFields DEF Moments, Promote, Is
  <1>s. /\ req[r].sid \in Sessions
        /\ parked' \in [Sessions -> {"none", "spoilt", "whole", "rotting", "gone", "moved"}]
        /\ promoted' \subseteq Sessions \X {"whole", "part"} \X BOOLEAN
    <2>1. req[r].sid \in Sessions
      BY <1>1 DEF Parked
    <2> DEFINE made == <<req[r].sid,
                         IF parked[req[r].sid] = "whole" THEN "whole" ELSE "part",
                         req[r].sid \in aged>>
    <2>2. made \in Sessions \X {"whole", "part"} \X BOOLEAN
      <3> DEFINE old == req[r].sid \in aged
      <3>1. old \in BOOLEAN
        OBVIOUS
      <3>2. made = <<req[r].sid, IF parked[req[r].sid] = "whole" THEN "whole" ELSE "part", old>>
        OBVIOUS
      <3> HIDE DEF old, made
      <3> QED BY <2>1, <3>1, <3>2
    <2>3. \/ UNCHANGED <<parked, promoted>>
          \/ parked' = [parked EXCEPT ![req[r].sid] = "moved"] /\ promoted' = promoted \cup {made}
      BY DEF Promote
    <2> HIDE DEF made
    <2> QED BY <2>1, <2>2, <2>3 DEF BrowserTypes
  <1>2. BrowserTypes'
    BY <1>1, <1>s DEF BrowserTypes, Promote, browsers, tables
  <1>3. Held'
    BY <1>1, <1>2 DEF Held, Responsible, Promote, browsers, tables
  <1>4. Begun'
    BY <1>1, <1>2 DEF Begun, InHand, Responsible, Promote, browsers, tables
  <1>5. Over'
    BY <1>1, <1>2 DEF Over, Promote, browsers, tables
  <1>6. Private'
    BY <1>1, <1>2 DEF Private, Alone, InHand, Begun, Responsible, BrowserTypes, Parked, Promote,
           tables
  <1>7. Parked'
    BY <1>1, <1>2 DEF Parked, BrowserTypes, Promote, browsers
  <1>8. PreviewsWhole'
    BY <1>1, <1>2 DEF PreviewsWhole, Parked, BrowserTypes, Promote
  <1> QED BY <1>2, <1>3, <1>4, <1>5, <1>6, <1>7, <1>8

LEMMA SweepKeeps == ASSUME BrowserInv, NEW r \in Requests, Sweep(r) PROVE BrowserInv'
  <1> USE DEF BrowserInv
  <1> DEFINE late == {s \in table : has_expired(s)}
             q == [req[r] EXCEPT !.pc = "expired", !.sweeping = TRUE, !.todo = late]
  <1>a. /\ q \in RequestRecs
        /\ q.pc = "expired" /\ q.op = req[r].op
    <2>1. req[r] \in RequestRecs /\ late \in SUBSET Sessions
      BY DEF BrowserTypes
    <2> HIDE DEF late
    <2> QED BY <2>1 DEF RequestRecs, Moments
  <1>b. req' = [req EXCEPT ![r] = q]
    BY DEF Sweep
  <1> HIDE DEF q
  <1>1. /\ req[r].pc = "sweep"
        /\ req' \in [Requests -> RequestRecs]
        /\ \A x \in Requests : x # r => req'[x] = req[x]
        /\ req'[r].pc = "expired" /\ req'[r].op = req[r].op
    BY <1>a, <1>b, Puts DEF Becomes, Sweep, Is
  <1>2. BrowserTypes'
    BY <1>1 DEF BrowserTypes, Sweep, browsers, tables, onDisk
  <1>3. Held'
    BY <1>1, <1>2 DEF Held, Responsible, Sweep, browsers, tables
  <1>4. Begun'
    BY <1>1, <1>2 DEF Begun, InHand, Responsible, Sweep, browsers, tables
  <1>5. Over'
    BY <1>1, <1>2 DEF Over, Sweep, browsers, tables
  <1>6. Private'
    BY <1>1, <1>2 DEF Private, Alone, InHand, Responsible, Sweep, tables, onDisk
  <1>7. Parked'
    BY <1>1, <1>2 DEF Parked, Sweep, browsers, onDisk
  <1>8. PreviewsWhole'
    BY <1>1, <1>2 DEF PreviewsWhole, Sweep, onDisk
  <1> QED BY <1>2, <1>3, <1>4, <1>5, <1>6, <1>7, <1>8

LEMMA LookKeeps == ASSUME BrowserInv, NEW r \in Requests, Look(r) PROVE BrowserInv'
  <1> USE DEF BrowserInv
  <1>0. PICK w \in Watches \cup {Nobody} : req' = [req EXCEPT ![r].pc = "page", ![r].watch = w]
    BY DEF Look
  <1> DEFINE q == [req[r] EXCEPT !.pc = "page", !.watch = w]
  <1>a. /\ q \in RequestRecs
        /\ q.pc = "page" /\ q.op = req[r].op /\ q.sid = req[r].sid
    <2>1. req[r] \in RequestRecs
      BY DEF BrowserTypes
    <2> QED BY <2>1 DEF RequestRecs, Moments
  <1>b. req' = [req EXCEPT ![r] = q]
    BY <1>0
  <1> HIDE DEF q
  <1>1. /\ req[r].pc = "look"
        /\ req' \in [Requests -> RequestRecs]
        /\ \A x \in Requests : x # r => req'[x] = req[x]
        /\ req'[r].pc = "page" /\ req'[r].op = req[r].op /\ req'[r].sid = req[r].sid
    BY <1>a, <1>b, Puts DEF Becomes, Look, Is
  <1>2. BrowserTypes'
    BY <1>1 DEF BrowserTypes, Look, browsers, tables, onDisk
  <1>3. Held'
    BY <1>1, <1>2 DEF Held, Responsible, Look, browsers, tables
  <1>4. Begun'
    BY <1>1, <1>2 DEF Begun, InHand, Responsible, Look, browsers, tables
  <1>5. Over'
    BY <1>1, <1>2 DEF Over, Look, browsers, tables
  <1>6. Private'
    BY <1>1, <1>2 DEF Private, Alone, InHand, Responsible, Look, tables, onDisk
  <1>7. Parked'
    BY <1>1, <1>2 DEF Parked, Look, browsers, onDisk
  <1>8. PreviewsWhole'
    BY <1>1, <1>2 DEF PreviewsWhole, Look, onDisk
  <1> QED BY <1>2, <1>3, <1>4, <1>5, <1>6, <1>7, <1>8

LEMMA Meets ==
  ASSUME BrowserTypes, NEW r \in Requests, NEW pc \in Moments, NEW s \in Sessions,
         req' = [req EXCEPT ![r].pc = pc, ![r].sid = s]
  PROVE  /\ req' \in [Requests -> RequestRecs]
         /\ \A x \in Requests : x # r => req'[x] = req[x]
         /\ req'[r].pc = pc /\ req'[r].op = req[r].op /\ req'[r].sid = s
  <1> DEFINE q == [req[r] EXCEPT !.pc = pc, !.sid = s]
  <1>1. req[r] \in RequestRecs
    BY DEF BrowserTypes
  <1>2. /\ q \in RequestRecs
        /\ q.pc = pc /\ q.op = req[r].op /\ q.sid = s
    BY <1>1 DEF RequestRecs
  <1>3. req' = [req EXCEPT ![r] = q]
    OBVIOUS
  <1> HIDE DEF q
  <1> QED BY <1>2, <1>3, Puts DEF Becomes

LEMMA LookupKeeps == ASSUME BrowserInv, NEW r \in Requests, Lookup(r) PROVE BrowserInv'
  <1> USE DEF BrowserInv
  <1>s. PICK s \in Sessions \cup {Nobody} : s = mapping[req[r].watch]
    BY DEF Lookup, Is, Begun, BrowserTypes
  <1>0. /\ req[r].pc = "lookup"
        /\ UNCHANGED <<tables, browsers, onDisk, asked>>
        /\ \/ GoesOn(r, "acquire")
           \/ Ends(r)
           \/ /\ s \in table
              /\ req' = [req EXCEPT ![r].pc = "page", ![r].sid = s]
           \/ /\ s \notin table /\ s # Nobody
              /\ req' = [req EXCEPT ![r].pc = "unmap", ![r].sid = s]
    BY <1>s DEF Lookup, Is
  <1>1. /\ req' \in [Requests -> RequestRecs]
        /\ \A x \in Requests : x # r => req'[x] = req[x]
        /\ \/ req'[r].pc = "acquire" /\ req'[r].op = req[r].op
           \/ req'[r].pc = "idle" /\ req'[r].op = "none"
           \/ /\ s # Nobody /\ req'[r].sid = s /\ req'[r].op = req[r].op
              /\ req'[r].pc \in {"page", "unmap"}
              /\ req'[r].pc = "page" => s \in table
    <2>1. CASE GoesOn(r, "acquire")
      BY <2>1, GoesFields DEF Moments
    <2>2. CASE Ends(r)
      BY <2>2, EndsFields
    <2>3. CASE s \in table /\ req' = [req EXCEPT ![r].pc = "page", ![r].sid = s]
      <3>1. s \in Sessions /\ s # Nobody /\ "page" \in Moments
        BY <2>3, NobodyAssumption DEF Moments, BrowserTypes
      <3> QED BY <2>3, <3>1, Meets, ZenonT(30)
    <2>4. CASE s # Nobody /\ req' = [req EXCEPT ![r].pc = "unmap", ![r].sid = s]
      <3>1. s \in Sessions /\ "unmap" \in Moments
        BY <2>4 DEF Moments
      <3>2. /\ req' \in [Requests -> RequestRecs]
            /\ \A x \in Requests : x # r => req'[x] = req[x]
            /\ req'[r].pc = "unmap" /\ req'[r].op = req[r].op /\ req'[r].sid = s
        <4> DEFINE q == [req[r] EXCEPT !.pc = "unmap", !.sid = s]
        <4>1. req[r] \in RequestRecs
          BY DEF BrowserTypes
        <4>2. /\ q \in RequestRecs
              /\ q.pc = "unmap" /\ q.op = req[r].op /\ q.sid = s
          BY <3>1, <4>1 DEF RequestRecs
        <4>3. req' = [req EXCEPT ![r] = q]
          BY <2>4
        <4> HIDE DEF q
        <4> QED BY <4>2, <4>3, Puts DEF Becomes
      <3> QED BY <2>4, <3>2
    <2> QED BY <1>0, <2>1, <2>2, <2>3, <2>4
  <1>2. BrowserTypes'
    BY <1>0, <1>1 DEF BrowserTypes, browsers, tables, onDisk
  <1>3. Held'
    BY <1>s, <1>0, <1>1, <1>2 DEF Held, Responsible, browsers, tables
  <1>4. Begun'
    BY <1>s, <1>0, <1>1, <1>2 DEF Begun, InHand, Responsible, browsers, tables
  <1>5. Over'
    BY <1>s, <1>0, <1>1, <1>2 DEF Over, browsers, tables
  <1>6. Private'
    BY <1>s, <1>0, <1>1, <1>2 DEF Private, Alone, InHand, Begun, Responsible, tables, onDisk
  <1>7. Parked'
    BY <1>s, <1>0, <1>1, <1>2 DEF Parked, browsers, onDisk
  <1>8. PreviewsWhole'
    BY <1>s, <1>0, <1>1, <1>2 DEF PreviewsWhole, onDisk
  <1> QED BY <1>2, <1>3, <1>4, <1>5, <1>6, <1>7, <1>8

LEMMA ExpireKeeps == ASSUME BrowserInv, NEW r \in Requests, Expire(r) PROVE BrowserInv'
  <1> USE DEF BrowserInv
  <1>0. PICK s \in req[r].todo :
          IF s \in table
          THEN req' = [req EXCEPT ![r].pc = "page", ![r].sid = s, ![r].todo = @ \ {s}]
          ELSE Ends(r)
    BY DEF Expire
  <1>1. /\ req[r].pc = "expired"
        /\ req' \in [Requests -> RequestRecs]
        /\ \A x \in Requests : x # r => req'[x] = req[x]
        /\ \/ req'[r].pc = "idle" /\ req'[r].op = "none"
           \/ req'[r].pc = "page" /\ req'[r].op = req[r].op /\ req'[r].sid \in table
    <2>1. CASE s \in table
      <3> DEFINE left == req[r].todo \ {s}
                 q == [req[r] EXCEPT !.pc = "page", !.sid = s, !.todo = left]
      <3>1. req[r] \in RequestRecs /\ s \in Sessions
        BY <2>1 DEF BrowserTypes
      <3>2. left \in SUBSET Sessions
        BY <3>1 DEF RequestRecs
      <3>3. req' = [req EXCEPT ![r] = q]
        BY <1>0, <2>1
      <3> HIDE DEF left
      <3>4. /\ q \in RequestRecs
            /\ q.pc = "page" /\ q.op = req[r].op /\ q.sid = s
        BY <3>1, <3>2 DEF RequestRecs, Moments
      <3> HIDE DEF q
      <3> QED BY <2>1, <3>3, <3>4, Puts DEF Becomes, Expire, Is
    <2>2. CASE s \notin table
      BY <1>0, <2>2, EndsFields DEF Expire, Is
    <2> QED BY <2>1, <2>2
  <1>2. BrowserTypes'
    BY <1>1 DEF BrowserTypes, Expire, browsers, tables, onDisk
  <1>3. Held'
    BY <1>1, <1>2 DEF Held, Responsible, Expire, browsers, tables
  <1>4. Begun'
    BY <1>1, <1>2 DEF Begun, InHand, Responsible, BrowserTypes, Expire, browsers, tables
  <1>5. Over'
    BY <1>1, <1>2 DEF Over, Expire, browsers, tables
  <1>6. Private'
    BY <1>1, <1>2 DEF Private, Alone, InHand, Responsible, Expire, tables, onDisk
  <1>7. Parked'
    BY <1>1, <1>2 DEF Parked, Expire, browsers, onDisk
  <1>8. PreviewsWhole'
    BY <1>1, <1>2 DEF PreviewsWhole, Expire, onDisk
  <1> QED BY <1>2, <1>3, <1>4, <1>5, <1>6, <1>7, <1>8

LEMMA AcquireKeeps ==
  ASSUME BrowserInv, NEW r \in Requests, acquire_browser_for_fetcher(r)
  PROVE  BrowserInv'
  <1> USE DEF BrowserInv
  <1>0. PICK s \in unused :
       /\ unused' = unused \ {s}
       /\ \/ /\ running' = running \cup {s}
             /\ req' = [req EXCEPT ![r].pc = "connect", ![r].sid = s] /\ UNCHANGED lost
          \/ running' = running \cup {s} /\ lost' = lost \cup {s} /\ Ends(r)
          \/ Ends(r) /\ UNCHANGED <<running, lost>>
    BY DEF acquire_browser_for_fetcher
  <1>1. /\ req[r].pc = "acquire"
        /\ UNCHANGED <<tables, pages, aged, onDisk, asked>>
        /\ unused' = unused \ {s} /\ s \in Sessions
        /\ req' \in [Requests -> RequestRecs]
        /\ \A x \in Requests : x # r => req'[x] = req[x]
        /\ \/ /\ running' = running \cup {s} /\ UNCHANGED lost
              /\ req'[r].pc = "connect" /\ req'[r].op = req[r].op /\ req'[r].sid = s
           \/ /\ running' = running \cup {s} /\ lost' = lost \cup {s}
              /\ req'[r].pc = "idle" /\ req'[r].op = "none"
           \/ UNCHANGED <<running, lost>> /\ req'[r].pc = "idle" /\ req'[r].op = "none"
    <2>1. /\ s \in Sessions /\ req[r].pc = "acquire" /\ "connect" \in Moments
          /\ UNCHANGED <<tables, pages, aged, onDisk, asked>>
      BY DEF acquire_browser_for_fetcher, Is, BrowserTypes, Moments
    <2> QED BY <1>0, <2>1, Meets, EndsFields
  <1>2. BrowserTypes'
    BY <1>1 DEF BrowserTypes, tables, onDisk
  <1>3. Held'
    BY <1>1, <1>2 DEF Held, Responsible, tables
  <1>4. Begun'
    BY <1>1, <1>2 DEF Begun, InHand, Responsible, tables
  <1>5. Over'
    BY <1>1, <1>2 DEF Over, Begun, InHand, tables
  <1>6. Private'
    BY <1>1, <1>2, NobodyAssumption DEF Private, Alone, InHand, Begun, Responsible, Parked, tables,
           onDisk
  <1>7. Parked'
    BY <1>1, <1>2 DEF Parked, onDisk
  <1>8. PreviewsWhole'
    BY <1>1, <1>2 DEF PreviewsWhole, onDisk
  <1> QED BY <1>2, <1>3, <1>4, <1>5, <1>6, <1>7, <1>8

LEMMA ConnectKeeps == ASSUME BrowserInv, NEW r \in Requests, connect(r) PROVE BrowserInv'
  <1> USE DEF BrowserInv
  <1>1. /\ req[r].pc = "connect"
        /\ req' \in [Requests -> RequestRecs]
        /\ \A x \in Requests : x # r => req'[x] = req[x]
        /\ lost \subseteq lost' /\ lost' \subseteq lost \cup {req[r].sid}
        /\ \/ req'[r].pc = "idle" /\ req'[r].op = "none" /\ req[r].sid \in lost'
           \/ /\ req'[r].pc \in {"keep", "look", "page"}
              /\ req'[r].op = req[r].op /\ req'[r].sid = req[r].sid
              /\ req'[r].pc = "keep" => req[r].op = "start"
    <2>1. CASE GoesOn(r, IF req[r].op = "start" THEN "keep" ELSE "look") /\ UNCHANGED lost
      BY <2>1, GoesFields DEF Moments, connect, Is
    <2>2. CASE lost' = lost \cup {req[r].sid} /\ Ends(r)
      BY <2>2, EndsFields DEF connect, Is
    <2>3. CASE req' = [req EXCEPT ![r].pc = "page", ![r].watch = Nobody] /\ UNCHANGED lost
      <3> DEFINE q == [req[r] EXCEPT !.pc = "page", !.watch = Nobody]
      <3>1. req[r] \in RequestRecs
        BY DEF BrowserTypes
      <3>2. /\ q \in RequestRecs
            /\ q.pc = "page" /\ q.op = req[r].op /\ q.sid = req[r].sid
        BY <3>1 DEF RequestRecs, Moments
      <3>3. req' = [req EXCEPT ![r] = q]
        BY <2>3
      <3> HIDE DEF q
      <3> QED BY <2>3, <3>2, <3>3, Puts DEF Becomes, connect, Is
    <2> QED BY <2>1, <2>2, <2>3 DEF connect
  <1>2. BrowserTypes'
    <2>1. req[r].sid \in Sessions
      BY <1>1 DEF Begun, InHand, Responsible
    <2>2. pages' \in [Sessions -> {"none", "live", "closed", "gone"}]
      BY <2>1 DEF BrowserTypes, connect
    <2> QED BY <1>1, <2>1, <2>2 DEF BrowserTypes, connect, browsers, tables, onDisk
  <1>3. Held'
    BY <1>1, <1>2 DEF Held, Responsible, connect, tables
  <1>4. Begun'
    BY <1>1, <1>2 DEF Begun, InHand, Responsible, connect, tables
  <1>5. Over'
    BY <1>1, <1>2 DEF Over, connect, tables
  <1>6. Private'
    BY <1>1, <1>2 DEF Private, Alone, InHand, Responsible, connect, tables, onDisk
  <1>7. Parked'
    BY <1>1, <1>2 DEF Parked, connect, onDisk
  <1>8. PreviewsWhole'
    BY <1>1, <1>2 DEF PreviewsWhole, connect, onDisk
  <1> QED BY <1>2, <1>3, <1>4, <1>5, <1>6, <1>7, <1>8

LEMMA TidyKeeps == ASSUME BrowserInv, NEW r \in Requests, Tidy(r) PROVE BrowserInv'
  <1> USE DEF BrowserInv
  <1>0. \/ \E s \in req[r].todo :
             /\ parked' = [parked EXCEPT ![s] = IF @ = "whole" THEN "rotting"
                                                ELSE IF @ = "moved" THEN @ ELSE "gone"]
             /\ \/ req' = req
                \/ req' = [req EXCEPT ![r].todo = @ \ {s}]
        \/ GoesOn(r, "acquire") /\ UNCHANGED parked
    BY DEF Tidy
  <1>1. /\ req[r].pc = "tidy"
        /\ req' \in [Requests -> RequestRecs]
        /\ \A x \in Requests : x # r => req'[x] = req[x]
        /\ req'[r].pc \in {"tidy", "acquire"} /\ req'[r].op = req[r].op
        /\ req'[r].todo \subseteq req[r].todo
        /\ \/ UNCHANGED parked
           \/ \E s \in req[r].todo :
                parked' = [parked EXCEPT ![s] = IF @ = "whole" THEN "rotting"
                                                ELSE IF @ = "moved" THEN @ ELSE "gone"]
    <2>1. req[r].pc = "tidy" /\ req[r] \in RequestRecs
      BY DEF Tidy, Is, BrowserTypes
    <2>2. CASE GoesOn(r, "acquire") /\ UNCHANGED parked
      BY <2>1, <2>2, GoesFields DEF Moments
    <2>3. ASSUME NEW s \in req[r].todo, 
                 req' = req \/ req' = [req EXCEPT ![r].todo = @ \ {s}]
          PROVE  /\ req' \in [Requests -> RequestRecs]
                 /\ \A x \in Requests : x # r => req'[x] = req[x]
                 /\ req'[r].pc = "tidy" /\ req'[r].op = req[r].op
                 /\ req'[r].todo \subseteq req[r].todo
      <3>1. CASE req' = req
        BY <2>1, <3>1 DEF BrowserTypes
      <3>2. CASE req' = [req EXCEPT ![r].todo = @ \ {s}]
        <4> DEFINE left == req[r].todo \ {s}
                   q == [req[r] EXCEPT !.todo = left]
        <4>1. left \in SUBSET Sessions
          BY <2>1 DEF RequestRecs
        <4>2. req' = [req EXCEPT ![r] = q]
          BY <3>2
        <4>3. left \subseteq req[r].todo
          OBVIOUS
        <4> HIDE DEF left
        <4>4. /\ q \in RequestRecs
              /\ q.pc = "tidy" /\ q.op = req[r].op /\ q.todo = left
          BY <2>1, <4>1 DEF RequestRecs
        <4> HIDE DEF q
        <4> QED BY <4>2, <4>3, <4>4, Puts DEF Becomes
      <3> QED BY <2>3, <3>1, <3>2
    <2> QED BY <1>0, <2>1, <2>2, <2>3
  <1>2. BrowserTypes'
    BY <1>1 DEF BrowserTypes, Tidy, browsers, tables
  <1>t. UNCHANGED <<tables, browsers, picture, promoted, asked>>
    BY DEF Tidy
  <1>3. Held'
    BY <1>1, <1>2, <1>t DEF Held, Responsible, browsers, tables
  <1>4. Begun'
    BY <1>1, <1>2, <1>t DEF Begun, InHand, Responsible, browsers, tables
  <1>5. Over'
    BY <1>1, <1>2, <1>t DEF Over, browsers, tables
  <1>6. Private'
    BY <1>1, <1>2, <1>t DEF Private, Alone, InHand, Begun, Responsible, BrowserTypes, Parked, tables
  <1>7. Parked'
    BY <1>1, <1>2, <1>t DEF Parked, BrowserTypes, browsers
  <1>8. PreviewsWhole'
    BY <1>1, <1>2, <1>t DEF PreviewsWhole
  <1> QED BY <1>2, <1>3, <1>4, <1>5, <1>6, <1>7, <1>8

LEMMA WorldKeeps == ASSUME BrowserInv, PageCloses \/ BrowserGoes \/ Age PROVE BrowserInv'
  <1> USE DEF BrowserInv
  <1>1. /\ UNCHANGED <<tables, unused, lost, onDisk, req, asked>>
        /\ running' \subseteq running
        /\ aged \subseteq aged' /\ aged' \subseteq Sessions
        /\ pages' \in [Sessions -> {"none", "live", "closed", "gone"}]
    BY DEF PageCloses, BrowserGoes, Age, BrowserTypes
  <1>2. BrowserTypes'
    BY <1>1 DEF BrowserTypes, tables, onDisk
  <1>3. Held'
    BY <1>1, <1>2 DEF Held, tables
  <1>4. Begun'
    BY <1>1, <1>2 DEF Begun, tables
  <1>5. Over'
    BY <1>1, <1>2 DEF Over, tables
  <1>6. Private'
    BY <1>1, <1>2 DEF Private, Alone, tables, onDisk
  <1>7. Parked'
    BY <1>1, <1>2 DEF Parked, onDisk
  <1>8. PreviewsWhole'
    BY <1>1, <1>2 DEF PreviewsWhole, onDisk
  <1> QED BY <1>2, <1>3, <1>4, <1>5, <1>6, <1>7, <1>8

LEMMA BrowsersRest == BrowserInv /\ UNCHANGED browsersVars => BrowserInv'
  BY DEF BrowserInv, BrowserTypes, Held, Begun, Over, Private, Alone, Parked, PreviewsWhole,
         browsersVars, tables, browsers, onDisk

\* However many requests start, save and sweep, a browser that runs is in the table or in the hands
\* of a request that will put it there or close it, but where a connection or a closing failed; and
\* a preview becomes a watch as a whole unless it was old (the locks that are not there around
\* browsersteps_sessions, make_temporary_watch_active_watch()).
THEOREM BrowsersAreClosed == BrowsersSpec => []BrowsersClosed
  <1>1. BrowserInv /\ [BrowsersNext]_browsersVars => BrowserInv'
    BY AskStartKeeps, AskSaveKeeps, AskStepKeeps, AskPreviewKeeps, AskPromoteKeeps, LookupKeeps,
       ClosePageKeeps, CloseBrowserKeeps, DropKeeps, UnmapKeeps, SweepKeeps, ExpireKeeps,
       UnmapExpiredKeeps, SweptKeeps, AcquireKeeps, ConnectKeeps, KeepKeeps, MapKeeps,
       call_actionKeeps, get_current_stateKeeps, TidyKeeps, LookKeeps, ParkKeeps, PromoteKeeps,
       WorldKeeps, BrowsersRest
    DEF BrowsersNext, Request
  <1>2. BrowserInv => BrowsersClosed
    BY DEF BrowserInv, Held, Responsible, BrowsersClosed, NoneForgotten
  <1> QED BY <1>1, <1>2, BrowsersBegin, PTL DEF BrowsersSpec

-----------------------------------------------------------------------------
\* Checks of shops.

CheckMoments == {"idle", "settings", "parse", "child", "plugins", "filters"}

\* What was judged, or is being judged, is judged by the settings in force, unless the next check
\* reads the page anyhow or an edit left no mark.
Runs == clearing \/ raw = Unknown \/ unmarked
Judging == run.pc \in {"parse", "child", "plugins", "filters"} => Runs \/ run.by = Effective
Standing == run.pc = "idle" => \/ Runs \/ marks.edited
                               \/ asOf = [by |-> Effective, filter |-> marks.filter]

ShopTypes == /\ page \in Pages
             /\ run = [pc |-> run.pc, page |-> run.page, by |-> run.by,
                      found |-> run.found, many |-> run.many]
             /\ run.pc \in CheckMoments
             /\ marks = [filter |-> marks.filter, edited |-> marks.edited]
             /\ marks.edited \in BOOLEAN /\ clearing \in BOOLEAN /\ unmarked \in BOOLEAN

ShopInv == ShopTypes /\ Judging /\ Standing

LEMMA ShopBegins == RestockInit => ShopInv
  <1> SUFFICES ASSUME RestockInit PROVE ShopInv
    OBVIOUS
  <1>1. run = [pc |-> run.pc, page |-> run.page, by |-> run.by, found |-> run.found,
               many |-> run.many]
    BY DEF RestockInit, NoCheck
  <1>2. run.pc = "idle"
    BY DEF RestockInit, NoCheck
  <1>3. marks = [filter |-> marks.filter, edited |-> marks.edited] /\ marks.edited = FALSE
    BY DEF RestockInit
  <1> QED BY <1>1, <1>2, <1>3
          DEF RestockInit, ShopInv, ShopTypes, Judging, Standing, Runs, CheckMoments

LEMMA ShopKeeps == ASSUME ShopInv, [RestockNext]_restockVars PROVE ShopInv'
  <1> USE DEF ShopInv, ShopTypes, Judging, Standing, Runs, CheckMoments, At, Effective
  <1>1. CASE Skip
    BY <1>1 DEF Skip, settings, results
  <1>2. CASE BeginCheck
    BY <1>2 DEF BeginCheck, settings, NoCheck
  <1>3. CASE ReadsSettings
    BY <1>3 DEF ReadsSettings, settings
  <1>4. CASE Parse
    <2>1. /\ At("parse") /\ UNCHANGED <<page, settings, results>>
          /\ \/ \E f : run' = [run EXCEPT !.found = f, !.pc = "filters"]
             \/ run' = [run EXCEPT !.pc = "child"]
      BY <1>4 DEF Parse
    <2> QED BY <2>1 DEF settings, results
  <1>5. CASE ChildEnds
    BY <1>5 DEF ChildEnds, settings, results
  <1>6. CASE Extruct
    <2>1. /\ At("child") /\ UNCHANGED <<page, settings, results>>
          /\ \/ run' = [run EXCEPT !.many = TRUE, !.pc = "plugins"]
             \/ \E f, pc : /\ pc \in {"filters", "plugins"}
                           /\ run' = [run EXCEPT !.found = f, !.pc = pc]
      BY <1>6 DEF Extruct
    <2> QED BY <2>1 DEF settings, results
  <1>7. CASE Plugins
    <2>1. /\ At("plugins") /\ UNCHANGED <<page, settings, raw, stored, kept, asOf, unmarked>>
          /\ \/ \E f : run' = [run EXCEPT !.found = f, !.pc = "filters"]
             \/ run' = [run EXCEPT !.pc = "filters"]
      BY <1>7 DEF Plugins
    <2> QED BY <2>1 DEF settings
  <1>8. CASE Fail
    BY <1>8 DEF Fail, settings, NoCheck
  <1>9. CASE Store
    BY <1>9 DEF Store, NoCheck
  <1>10. CASE PageChanges
    BY <1>10 DEF PageChanges, settings, results
  <1>11. CASE EditWatch
    BY <1>11 DEF EditWatch
  <1>12. CASE PutProcessorConfig
    BY <1>12 DEF PutProcessorConfig
  <1>13. CASE EditGroup
    BY <1>13 DEF EditGroup, results
  <1>14. CASE ClearChecksums
    BY <1>14 DEF ClearChecksums
  <1>15. CASE RestockRestart
    BY <1>15 DEF RestockRestart, NoCheck
  <1>16. CASE UNCHANGED restockVars
    BY <1>16 DEF restockVars
  <1> QED BY <1>1, <1>2, <1>3, <1>4, <1>5, <1>6, <1>7, <1>8, <1>9, <1>10, <1>11, <1>12, <1>13,
             <1>14, <1>15, <1>16 DEF RestockNext

\* However checks, edits, groups, changes of the page and restarts come between each other, a page
\* that the next check would skip was judged by the settings in force, but for the edits that leave
\* no mark (clear_checksums_for_tag(), was_edited); and a product that the visitor's page calls sold
\* out is never stored as in stock on the word of anything but the user's own phrases.
THEOREM SettingsAreApplied == RestockSpec => []SettingsApplied
  <1>1. ShopInv => InForce
    BY UnknownAssumption DEF ShopInv, ShopTypes, Standing, Runs, InForce, BetweenChecks, At
  <1>2. NeverSoldOut
    BY DEF NeverSoldOut, Stock, NotALie, CustomStock
  <1>3. ShopInv => SettingsApplied
    BY <1>1, <1>2 DEF SettingsApplied
  <1> QED BY <1>3, ShopBegins, ShopKeeps, PTL DEF RestockSpec

-----------------------------------------------------------------------------
\* Screenshots that are compared.

ShotRules == [min : Minima, box : Boxes]
Scores == Int \cup {Shown, NoPicture, Error}
ChildRecs == [op : {"compare", "diff", "percentage", "draw"}, patient : BOOLEAN,
             answer : Scores, result : Scores,
             thread : {"starting", "polling", "closing", "terminated", "returned"},
             child : {"spawned", "working", "stuck", "answered", "gone", "hung", "deaf"},
             waiting : BOOLEAN]

ScreenTypes ==
  /\ rule \in ShotRules /\ judgedBy \in ShotRules
  /\ seen \in Pictures \cup {Text, NoPicture}
  /\ shots \in Seq(Pictures \cup {Text})
  /\ calls \in Seq(ChildRecs)
  /\ comparing = [pc |-> comparing.pc, shot |-> comparing.shot, rule |-> comparing.rule,
                  call |-> comparing.call, changed |-> comparing.changed]
  /\ comparing.pc \in {"idle", "compare", "update", "save"}
  /\ comparing.pc # "idle" => comparing.shot \in Pictures /\ comparing.rule \in ShotRules

\* A picture is alike the one last kept, as a rule has it.
Alike(p, by) ==
  /\ Decoded(Last(shots))
  /\ CompareWorker(Last(shots), p, IF by.box = "beside" THEN "whole" ELSE by.box) <= by.min

\* What the child of a check compares, and what its thread says of it.
Asking == comparing.pc = "compare" =>
  /\ comparing.call \in DOMAIN calls
  /\ calls[comparing.call].op = "compare"
  /\ calls[comparing.call].result \in {NoPicture, Error, calls[comparing.call].answer}
  /\ shots # << >> => calls[comparing.call].answer =
                         CompareWorker(Last(shots), comparing.shot, comparing.rule.box)

\* A check that saw no change has seen a picture alike the one last kept, unless that is cleared.
Seeing == comparing.pc \in {"update", "save"} =>
  shots = << >> \/ comparing.changed \/ Alike(comparing.shot, comparing.rule)

\* The hash is forgotten with the history, also by a check that is about to save.
Saving == comparing.pc = "save" => \/ seen = comparing.shot /\ judgedBy = comparing.rule
                                   \/ seen = NoPicture /\ shots = << >>

\* But for a check that is about to save, what is promised between checks holds in them.
Quiet == comparing.pc # "save" =>
  /\ seen \in Pictures /\ shots # << >> => Alike(seen, judgedBy)
  /\ seen # NoPicture => shots # << >>

ScreenInv == ScreenTypes /\ Asking /\ Seeing /\ Saving /\ Quiet

\* A child compares two pictures, or answers with an error.
LEMMA Compares ==
  ASSUME NEW from \in Pictures \cup {Text}, NEW to \in Pictures \cup {Text}, NEW box
  PROVE  /\ CompareWorker(from, to, box) \in Int \cup {Error}
         /\ CompareWorker(from, to, box) # Error => Decoded(from) /\ Decoded(to) /\ box # "beside"
  <1>1. \A p \in Pictures : p \in Int /\ p \div 2 \in Int
    BY PicturesAssumption
  <1>2. Decoded(from) /\ Decoded(to) =>
          Cropped(from, box) \in Int /\ Cropped(to, box) \in Int
    BY <1>1 DEF Decoded, Cropped
  <1>3. Decoded(from) /\ Decoded(to) => Away(Cropped(from, box), Cropped(to, box)) \in Int
    BY <1>2 DEF Away
  <1> QED BY <1>3 DEF CompareWorker

\* A picture differs from itself by nothing, whatever part of it is compared.
LEMMA AlikeItself ==
  ASSUME NEW p \in Pictures, NEW by \in ShotRules
  PROVE  /\ Decoded(p)
         /\ CompareWorker(p, p, IF by.box = "beside" THEN "whole" ELSE by.box) <= by.min
  <1>1. p \in Int /\ p \div 2 \in Int /\ p # Text
    BY PicturesAssumption, TextAssumption
  <1>2. by.min \in Nat
    BY PicturesAssumption DEF ShotRules
  <1>3. Cropped(p, IF by.box = "beside" THEN "whole" ELSE by.box) \in Int
    BY <1>1 DEF Cropped
  <1>4. Away(Cropped(p, IF by.box = "beside" THEN "whole" ELSE by.box),
             Cropped(p, IF by.box = "beside" THEN "whole" ELSE by.box)) = 0
    BY <1>3 DEF Away
  <1>5. CompareWorker(p, p, IF by.box = "beside" THEN "whole" ELSE by.box) = 0
    BY <1>1, <1>4 DEF CompareWorker, Decoded
  <1> QED BY <1>1, <1>2, <1>5 DEF Decoded

LEMMA ScreenBegins == ScreensInit => ScreenInv
  <1> SUFFICES ASSUME ScreensInit PROVE ScreenInv
    OBVIOUS
  <1>1. /\ rule \in ShotRules /\ judgedBy \in ShotRules /\ calls \in Seq(ChildRecs)
        /\ \/ seen = NoPicture /\ shots = << >>
           \/ seen = Text /\ shots = <<Text>>
    BY DEF ScreensInit, ShotRules
  <1>6. /\ << >> \in Seq(Pictures \cup {Text}) /\ <<Text>> \in Seq(Pictures \cup {Text})
        /\ <<Text>> # << >>
    OBVIOUS
  <1>4. seen \in Pictures \cup {Text, NoPicture} /\ shots \in Seq(Pictures \cup {Text})
    BY <1>1, <1>6
  <1>5. seen # NoPicture => (shots # << >> /\ seen = Text)
    BY <1>1, <1>6
  <1>2. comparing.pc = "idle"
    BY DEF ScreensInit, NoComparison
  <1>3. comparing = [pc |-> comparing.pc, shot |-> comparing.shot, rule |-> comparing.rule,
                     call |-> comparing.call, changed |-> comparing.changed]
    BY DEF ScreensInit, NoComparison
  <1> QED BY <1>1, <1>2, <1>3, <1>4, <1>5, TextAssumption
          DEF ScreenInv, ScreenTypes, Asking, Seeing, Saving, Quiet

\* One call moves on: if it compares, its answer stays and its result is that or none.
LEMMA CallMoves ==
  ASSUME ScreenInv, NEW c \in DOMAIN calls, NEW q \in ChildRecs, q.op = calls[c].op,
         calls[c].op = "compare" =>
            /\ q.answer = calls[c].answer
            /\ q.result \in {NoPicture, Error, calls[c].answer, calls[c].result},
         calls' = [calls EXCEPT ![c] = q],
         UNCHANGED <<rule, seen, shots, comparing, judgedBy>>
  PROVE  ScreenInv'
  <1>1. calls \in Seq(ChildRecs)
    BY DEF ScreenInv, ScreenTypes
  <1>2. calls' \in Seq(ChildRecs) /\ DOMAIN calls' = DOMAIN calls
    BY <1>1
  <1>3. \A d \in DOMAIN calls : calls'[d] = IF d = c THEN q ELSE calls[d]
    BY <1>1
  <1>4. Asking'
    BY <1>2, <1>3 DEF ScreenInv, Asking
  <1> QED BY <1>2, <1>4
          DEF ScreenInv, ScreenTypes, Seeing, Saving, Quiet, Alike

\* A page's call is added to the others.
LEMMA CallAdded ==
  ASSUME ScreenInv, NEW q \in ChildRecs, calls' = Append(calls, q),
         UNCHANGED <<rule, seen, shots, comparing, judgedBy>>
  PROVE  ScreenInv'
  <1>1. calls \in Seq(ChildRecs)
    BY DEF ScreenInv, ScreenTypes
  <1>2. calls' \in Seq(ChildRecs)
    BY <1>1
  <1>3. \A d \in DOMAIN calls : d \in DOMAIN calls' /\ calls'[d] = calls[d]
    BY <1>1
  <1>4. Asking'
    BY <1>3 DEF ScreenInv, Asking
  <1> QED BY <1>2, <1>4
          DEF ScreenInv, ScreenTypes, Seeing, Saving, Quiet, Alike

\* The steps of a child, of its thread and of a page that is answered.
LEMMA CallKeeps ==
  ASSUME ScreenInv, NEW c \in DOMAIN calls,
         \/ Reads(c) \/ NeverReads(c) \/ Works(c) \/ Receive(c) \/ PollEnds(c) \/ Terminate(c)
         \/ Kill(c) \/ AnswerPage(c)
  PROVE  ScreenInv'
  <1>1. calls[c] \in ChildRecs /\ calls \in Seq(ChildRecs)
    BY DEF ScreenInv, ScreenTypes
  <1>c. ASSUME NEW q, q.op = calls[c].op, q \in ChildRecs,
               calls[c].op = "compare" =>
                  /\ q.answer = calls[c].answer
                  /\ q.result \in {NoPicture, Error, calls[c].answer, calls[c].result},
               calls' = [calls EXCEPT ![c] = q],
               UNCHANGED <<rule, seen, shots, comparing, judgedBy>>
        PROVE  ScreenInv'
    BY <1>c, CallMoves
  <1>2. CASE Reads(c)
    <2> DEFINE q == [calls[c] EXCEPT !.child = "working", !.thread = "polling"]
    <2>1. calls' = [calls EXCEPT ![c] = q] /\ UNCHANGED <<rule, seen, shots, comparing, judgedBy>>
      BY <1>2 DEF Reads
    <2>2. q \in ChildRecs /\ q.op = calls[c].op /\ q.answer = calls[c].answer
          /\ q.result = calls[c].result
      BY <1>1 DEF ChildRecs
    <2> HIDE DEF q
    <2> QED BY <1>c, <2>1, <2>2
  <1>3. CASE NeverReads(c)
    <2> DEFINE q == [calls[c] EXCEPT !.child = "stuck"]
    <2>1. calls' = [calls EXCEPT ![c] = q] /\ UNCHANGED <<rule, seen, shots, comparing, judgedBy>>
      BY <1>3 DEF NeverReads
    <2>2. q \in ChildRecs /\ q.op = calls[c].op /\ q.answer = calls[c].answer
          /\ q.result = calls[c].result
      BY <1>1 DEF ChildRecs
    <2> HIDE DEF q
    <2> QED BY <1>c, <2>1, <2>2
  <1>4. CASE Works(c)
    <2>1. PICK to \in {"answered", "gone", "hung"} :
            calls' = [calls EXCEPT ![c].child =
                        IF to = "answered" /\ calls[c].thread # "polling" THEN "gone" ELSE to]
      BY <1>4 DEF Works
    <2> DEFINE ending == IF to = "answered" /\ calls[c].thread # "polling" THEN "gone" ELSE to
               q == [calls[c] EXCEPT !.child = ending]
    <2>2. calls' = [calls EXCEPT ![c] = q]
      BY <2>1
    <2>3. UNCHANGED <<rule, seen, shots, comparing, judgedBy>>
      BY <1>4 DEF Works
    <2>4. ending \in {"answered", "gone", "hung"}
      OBVIOUS
    <2> HIDE DEF ending
    <2>5. q \in ChildRecs /\ q.op = calls[c].op /\ q.answer = calls[c].answer
          /\ q.result = calls[c].result
      BY <1>1, <2>4 DEF ChildRecs
    <2> HIDE DEF q
    <2> QED BY <1>c, <2>2, <2>3, <2>5
  <1>5. CASE Receive(c)
    <2> DEFINE answer == Heard(c, calls[c].answer)
               q == [calls[c] EXCEPT !.thread = "closing", !.child = "gone", !.result = answer]
    <2>1. calls' = [calls EXCEPT ![c] = q] /\ UNCHANGED <<rule, seen, shots, comparing, judgedBy>>
      BY <1>5 DEF Receive
    <2>2. answer \in {NoPicture, calls[c].answer} /\ answer \in Scores
      BY <1>1 DEF Heard, ChildRecs, Scores
    <2> HIDE DEF answer
    <2>3. q \in ChildRecs /\ q.op = calls[c].op /\ q.answer = calls[c].answer /\ q.result = answer
      BY <1>1, <2>2 DEF ChildRecs
    <2> HIDE DEF q
    <2> QED BY <1>c, <2>1, <2>2, <2>3
  <1>6. CASE PollEnds(c)
    <2> DEFINE answer == Heard(c, Overdue)
               q == [calls[c] EXCEPT !.thread = "closing", !.result = answer]
    <2>1. calls' = [calls EXCEPT ![c] = q] /\ UNCHANGED <<rule, seen, shots, comparing, judgedBy>>
      BY <1>6 DEF PollEnds
    <2>2. answer \in {NoPicture, Error} /\ answer \in Scores
      BY DEF Heard, Overdue, Scores
    <2> HIDE DEF answer
    <2>3. q \in ChildRecs /\ q.op = calls[c].op /\ q.answer = calls[c].answer /\ q.result = answer
      BY <1>1, <2>2 DEF ChildRecs
    <2> HIDE DEF q
    <2> QED BY <1>c, <2>1, <2>2, <2>3
  <1>7. CASE Terminate(c)
    <2>1. UNCHANGED <<rule, seen, shots, comparing, judgedBy>>
      BY <1>7 DEF Terminate
    <2>2. CASE calls' = [calls EXCEPT ![c].thread = "returned"]
      <3> DEFINE q == [calls[c] EXCEPT !.thread = "returned"]
      <3>1. calls' = [calls EXCEPT ![c] = q]
        BY <2>2
      <3>2. q \in ChildRecs /\ q.op = calls[c].op /\ q.answer = calls[c].answer
            /\ q.result = calls[c].result
        BY <1>1 DEF ChildRecs
      <3> HIDE DEF q
      <3> QED BY <1>c, <2>1, <3>1, <3>2
    <2>3. ASSUME NEW to \in {"gone", "deaf"},
                 calls' = [calls EXCEPT ![c].thread = "terminated", ![c].child = to]
          PROVE  ScreenInv'
      <3> DEFINE q == [calls[c] EXCEPT !.thread = "terminated", !.child = to]
      <3>1. calls' = [calls EXCEPT ![c] = q]
        BY <2>3
      <3>2. q \in ChildRecs /\ q.op = calls[c].op /\ q.answer = calls[c].answer
            /\ q.result = calls[c].result
        BY <1>1 DEF ChildRecs
      <3> HIDE DEF q
      <3> QED BY <1>c, <2>1, <3>1, <3>2
    <2> QED BY <1>7, <2>2, <2>3 DEF Terminate
  <1>8. CASE Kill(c)
    <2> DEFINE q == [calls[c] EXCEPT !.thread = "returned", !.child = "gone"]
    <2>1. calls' = [calls EXCEPT ![c] = q] /\ UNCHANGED <<rule, seen, shots, comparing, judgedBy>>
      BY <1>8 DEF Kill, Killed
    <2>2. q \in ChildRecs /\ q.op = calls[c].op /\ q.answer = calls[c].answer
          /\ q.result = calls[c].result
      BY <1>1 DEF ChildRecs
    <2> HIDE DEF q
    <2> QED BY <1>c, <2>1, <2>2
  <1>9. CASE AnswerPage(c)
    <2> DEFINE q == [calls[c] EXCEPT !.waiting = FALSE, !.answer = NoPicture, !.result = NoPicture]
    <2>1. calls' = [calls EXCEPT ![c] = q] /\ UNCHANGED <<rule, seen, shots, comparing, judgedBy>>
      BY <1>9 DEF AnswerPage, Abandoned
    <2>2. q \in ChildRecs /\ q.op = calls[c].op
      BY <1>1 DEF ChildRecs, Scores
    <2>3. calls[c].op # "compare"
      BY <1>9 DEF AnswerPage
    <2> HIDE DEF q
    <2> QED BY <1>c, <2>1, <2>2, <2>3
  <1> QED BY <1>2, <1>3, <1>4, <1>5, <1>6, <1>7, <1>8, <1>9

\* The pages ask for pictures that are kept.
LEMMA PageKeeps ==
  ASSUME ScreenInv, AskAsset \/ AskRender \/ AskBoxed
  PROVE  ScreenInv'
  <1>1. UNCHANGED <<rule, seen, shots, comparing, judgedBy>>
    BY DEF AskAsset, AskRender, AskBoxed
  <1>2. PICK op \in {"diff", "percentage", "draw"}, patient \in BOOLEAN, answer \in Scores :
           calls' = Append(calls, Call(op, patient, answer))
    <2>1. \A x, y : DiffWorker(x, y) \in Scores /\ PercentageWorker(x, y) \in Scores
                    /\ BoxWorker(x) \in Scores
      BY DEF DiffWorker, PercentageWorker, BoxWorker, Scores
    <2>2. CASE AskAsset
      BY <2>1, <2>2 DEF AskAsset, Start, GenerateDiff
    <2>3. CASE AskRender
      BY <2>1, <2>3 DEF AskRender, Start, ChangePercentage
    <2>4. CASE AskBoxed
      BY <2>1, <2>4 DEF AskBoxed, Start, DrawBox
    <2> QED BY <2>2, <2>3, <2>4
  <1>3. Call(op, patient, answer) \in ChildRecs
    BY <1>2 DEF Call, ChildRecs, Scores
  <1> QED BY <1>1, <1>2, <1>3, CallAdded

\* A check begins: its picture passes, is the first one, or is compared.
LEMMA ShootKeeps ==
  ASSUME ScreenInv, Shoot PROVE ScreenInv'
  <1> USE DEF ScreenInv, ScreenTypes
  <1>1. PICK p \in Pictures :
          IF p = seen
          THEN UNCHANGED <<comparing, calls, judgedBy>>
          ELSE IF shots = << >>
          THEN /\ comparing' = [NoComparison EXCEPT !.pc = "update", !.shot = p, !.rule = rule]
               /\ UNCHANGED <<calls, judgedBy>>
          ELSE /\ Start(CompareImages(Last(shots), p, rule.box))
               /\ comparing' = [NoComparison EXCEPT !.pc = "compare", !.shot = p, !.rule = rule,
                                                    !.call = Len(calls) + 1]
               /\ UNCHANGED judgedBy
    BY DEF Shoot
  <1>2. UNCHANGED <<rule, seen, shots>> /\ comparing.pc = "idle"
    BY DEF Shoot
  <1>3. Quiet'
    BY <1>1, <1>2 DEF Quiet, Alike
  <1>4. CASE p = seen
    BY <1>1, <1>2, <1>3, <1>4 DEF Asking, Seeing, Saving
  <1>5. CASE p # seen /\ shots = << >>
    <2>1. comparing' = [pc |-> "update", shot |-> p, rule |-> rule, call |-> 0, changed |-> FALSE]
      BY <1>1, <1>5 DEF NoComparison
    <2>2. calls' = calls /\ judgedBy' = judgedBy
      BY <1>1, <1>5
    <2>3. ScreenTypes'
      BY <1>2, <2>1, <2>2
    <2> QED BY <1>2, <1>3, <1>5, <2>1, <2>3 DEF Asking, Seeing, Saving
  <1>6. CASE p # seen /\ shots # << >>
    <2> DEFINE old == Last(shots)
               answer == CompareWorker(old, p, rule.box)
               q == Call("compare", TRUE, answer)
               n == Len(calls) + 1
    <2>1. comparing' = [pc |-> "compare", shot |-> p, rule |-> rule, call |-> n, changed |-> FALSE]
      BY <1>1, <1>6 DEF NoComparison
    <2>2. calls' = Append(calls, q) /\ judgedBy' = judgedBy
      BY <1>1, <1>6 DEF Start, CompareImages
    <2>3. old \in Pictures \cup {Text}
      BY <1>6 DEF Last
    <2>4. answer \in Scores
      <3> HIDE DEF old
      <3> QED BY <2>3, Compares DEF Scores
    <2>5. answer = CompareWorker(Last(shots'), p, rule.box)
      BY <1>2
    <2> HIDE DEF answer
    <2>6. q \in ChildRecs /\ q.op = "compare" /\ q.answer = answer /\ q.result = NoPicture
      BY <2>4 DEF Call, ChildRecs, Scores
    <2> HIDE DEF q
    <2>7. calls' \in Seq(ChildRecs) /\ n \in DOMAIN calls' /\ calls'[n] = q
      BY <2>2, <2>6
    <2> HIDE DEF n
    <2>8. comparing'.pc = "compare" /\ comparing'.shot = p /\ comparing'.rule = rule
          /\ comparing'.call = n
      BY <2>1
    <2>9. ScreenTypes'
      BY <1>2, <2>1, <2>2, <2>7
    <2>10. Asking'
      BY <2>5, <2>6, <2>7, <2>8 DEF Asking
    <2> QED BY <1>3, <2>8, <2>9, <2>10 DEF Seeing, Saving
  <1> QED BY <1>4, <1>5, <1>6

\* Only a comparison that found no more than is allowed lets a picture pass.
LEMMA VerdictKeeps ==
  ASSUME ScreenInv, HearVerdict PROVE ScreenInv'
  <1> USE DEF ScreenInv, ScreenTypes
  <1> DEFINE c == comparing.call
             q == [calls[c] EXCEPT !.waiting = FALSE, !.answer = NoPicture, !.result = NoPicture]
             score == Got(c)
  <1>1. comparing.pc = "compare" /\ UNCHANGED <<rule, seen, shots, judgedBy>>
    BY DEF HearVerdict
  <1>2. c \in DOMAIN calls /\ calls[c] \in ChildRecs
    BY <1>1 DEF Asking
  <1>3. calls' = [calls EXCEPT ![c] = q]
    BY DEF HearVerdict, Abandoned
  <1>4. q \in ChildRecs
    BY <1>2 DEF ChildRecs, Scores
  <1>5. calls' \in Seq(ChildRecs)
    <2> HIDE DEF q
    <2> QED BY <1>2, <1>3, <1>4
  <1>6. Quiet'
    <2>1. comparing'.pc # "save"
      BY DEF HearVerdict, NoComparison
    <2> QED BY <1>1, <2>1 DEF Quiet, Alike
  <1>7. score \in {NoPicture, Error, calls[c].answer}
    BY <1>1 DEF Got, Asking
  <1>8. CASE score \in {NoPicture, Error}
    <2>1. comparing' = NoComparison
      BY <1>8 DEF HearVerdict
    <2> QED BY <1>1, <1>5, <1>6, <2>1 DEF NoComparison, Asking, Seeing, Saving
  <1>9. CASE score \notin {NoPicture, Error}
    <2> DEFINE changed == score > comparing.rule.min
    <2>1. comparing' = [comparing EXCEPT !.pc = "update", !.changed = changed]
      BY <1>9 DEF HearVerdict
    <2>2. score = calls[c].answer
      BY <1>7, <1>9
    <2> HIDE DEF score, q
    <2>3. comparing'.pc = "update" /\ comparing'.shot = comparing.shot
          /\ comparing'.rule = comparing.rule /\ comparing'.changed = changed
      BY <2>1
    <2>4. ScreenTypes'
      BY <1>1, <1>5, <2>1
    <2>5. shots # << >> => changed \/ Alike(comparing.shot, comparing.rule)
      <3> SUFFICES ASSUME shots # << >>, ~changed PROVE Alike(comparing.shot, comparing.rule)
        OBVIOUS
      <3> DEFINE old == Last(shots)
      <3>1. old \in Pictures \cup {Text}
        BY DEF Last
      <3>2. score = CompareWorker(old, comparing.shot, comparing.rule.box)
        BY <1>1, <2>2 DEF Asking
      <3> HIDE DEF old
      <3>3. score # Error
        BY <1>9
      <3>4. comparing.shot \in Pictures \cup {Text}
        BY <1>1
      <3>5. score \in Int /\ Decoded(old) /\ comparing.rule.box # "beside"
        BY <3>1, <3>2, <3>3, <3>4, Compares
      <3>6. comparing.rule.min \in Nat
        BY <1>1, PicturesAssumption DEF ShotRules
      <3>7. score <= comparing.rule.min
        BY <3>5, <3>6
      <3> USE DEF old
      <3> QED BY <3>2, <3>5, <3>7 DEF Alike
    <2>6. Seeing'
      <3> HIDE DEF changed
      <3> QED BY <1>1, <2>3, <2>5 DEF Seeing, Alike
    <2> QED BY <1>6, <2>3, <2>4, <2>6 DEF Asking, Saving
  <1> QED BY <1>8, <1>9

LEMMA UpdateKeeps ==
  ASSUME ScreenInv, Update PROVE ScreenInv'
  <1>1. /\ comparing.pc = "update" /\ seen' = comparing.shot /\ judgedBy' = comparing.rule
        /\ comparing' = [comparing EXCEPT !.pc = "save"] /\ UNCHANGED <<rule, shots, calls>>
    BY DEF Update
  <1>2. comparing'.pc = "save" /\ comparing'.shot = comparing.shot
        /\ comparing'.rule = comparing.rule /\ comparing'.changed = comparing.changed
    BY <1>1 DEF ScreenInv, ScreenTypes
  <1>3. ScreenTypes'
    BY <1>1 DEF ScreenInv, ScreenTypes
  <1> QED BY <1>1, <1>2, <1>3 DEF ScreenInv, Asking, Seeing, Saving, Quiet, Alike

LEMMA SaveKeeps ==
  ASSUME ScreenInv, SaveShot PROVE ScreenInv'
  <1> USE DEF ScreenInv, ScreenTypes
  <1>1. /\ comparing.pc = "save" /\ comparing' = NoComparison
        /\ UNCHANGED <<rule, seen, calls, judgedBy>>
    BY DEF SaveShot
  <1>2. comparing'.pc = "idle"
    BY <1>1 DEF NoComparison
  <1>3. comparing.shot \in Pictures /\ comparing.rule \in ShotRules
    BY <1>1
  <1>4. CASE Keeps
    <2>1. shots' = Append(shots, comparing.shot)
      BY <1>4 DEF SaveShot
    <2>2. shots' \in Seq(Pictures \cup {Text}) /\ shots' # << >> /\ Last(shots') = comparing.shot
      BY <1>3, <2>1 DEF Last
    <2>3. ScreenTypes'
      BY <1>1, <2>2 DEF NoComparison
    <2>4. seen' \in Pictures => seen' = comparing.shot /\ judgedBy' = comparing.rule
      BY <1>1, TextAssumption DEF Saving
    <2>5. seen' \in Pictures => Alike(seen, judgedBy)'
      BY <1>3, <2>2, <2>4, AlikeItself DEF Alike
    <2> QED BY <1>2, <2>2, <2>3, <2>5 DEF Asking, Seeing, Saving, Quiet
  <1>5. CASE ~Keeps
    <2>1. shots' = shots /\ shots # << >> /\ ~comparing.changed
      BY <1>5 DEF SaveShot, Keeps
    <2>2. ScreenTypes'
      BY <1>1, <2>1 DEF NoComparison
    <2>3. seen = comparing.shot /\ judgedBy = comparing.rule
      BY <1>1, <2>1 DEF Saving
    <2>4. Alike(comparing.shot, comparing.rule)
      BY <1>1, <2>1 DEF Seeing
    <2>5. Alike(seen, judgedBy)'
      BY <1>1, <2>1, <2>3, <2>4 DEF Alike
    <2> QED BY <1>2, <2>1, <2>2, <2>5 DEF Asking, Seeing, Saving, Quiet
  <1> QED BY <1>4, <1>5

LEMMA ScreenKeeps == ASSUME ScreenInv, [ScreensNext]_screensVars PROVE ScreenInv'
  <1>1. CASE EditConfig
    BY <1>1 DEF EditConfig, ScreenInv, ScreenTypes, ShotRules, Asking, Seeing, Saving, Quiet, Alike
  <1>2. CASE Clear
    <2>1. shots' \in Seq(Pictures \cup {Text}) /\ shots' = << >> /\ seen' = NoPicture
          /\ UNCHANGED <<rule, comparing, calls, judgedBy>>
      BY <1>2 DEF Clear
    <2> QED BY <2>1, TextAssumption DEF ScreenInv, ScreenTypes, Asking, Seeing, Saving, Quiet
  <1>3. CASE UNCHANGED screensVars
    BY <1>3 DEF screensVars, ScreenInv, ScreenTypes, Asking, Seeing, Saving, Quiet, Alike
  <1> QED BY <1>1, <1>2, <1>3, ShootKeeps, VerdictKeeps, UpdateKeeps, SaveKeeps, PageKeeps,
             CallKeeps DEF ScreensNext

\* Screenshots: between checks, what the hash lets pass unseen is alike the picture last kept, as
\* the verdict's configuration has it, and there is such a picture, through failed, late and
\* abandoned comparisons, edits and cleared histories.
THEOREM PassedPicturesAreAlike == ScreensSpec => []QuietIsAlike
  <1>1. ScreenInv => QuietIsAlike
    BY DEF ScreenInv, Quiet, Alike, QuietIsAlike, PassedIsAlike, HashHasBaseline
  <1> QED BY <1>1, ScreenBegins, ScreenKeeps, PTL DEF ScreensSpec
=============================================================================
