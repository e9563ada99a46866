------------------------------- MODULE Scheduler -------------------------------
(***************************************************************************)
(* The ticker thread of src/changedetectionio/flask_app.py under the       *)
(* supervisor of thread_supervisor.py, and the requests that queue         *)
(* rechecks from the web interface, the API, MCP and the realtime socket.  *)
(*                                                                         *)
(* A pass of the ticker samples which watches are being checked, then      *)
(* which are queued, lists all watches with the longest unchecked first,   *)
(* and decides about one after the other on those two samples while        *)
(* workers and requests go on.  Requests sample in the other order.        *)
(*                                                                         *)
(* Time is an age per watch (seconds since last_checked) and per proxy;    *)
(* ages stop at MaxAge, beyond every threshold, and order tells them       *)
(* apart.  The queue is a count per watch: RecheckQueue has its order,     *)
(* WorkerPool the claims and the jobs held back for a claimed watch.       *)
(***************************************************************************)
EXTENDS Integers, Sequences, FiniteSets, SequencesExt, Filtering

CONSTANTS
  Uuids,         \* the watches there may be
  Own,           \* Own[u]: time_between_check in seconds, 0 when nothing is set
  UsesDefault,   \* the watches with time_between_check_use_default
  DefaultEvery,  \* settings.requests.time_between_check
  Override,      \* Override[u]: what a recheck_seconds_override plugin answers, 0 for none
  Jitters,       \* what random.uniform(-jitter_seconds, jitter_seconds) may give
  Minimum,       \* MINIMUM_SECONDS_RECHECK_TIME
  Proxies, ProxyOf, NoProxy,
  Reuse,         \* Reuse[p]: reuse_time_minimum, 0 when the proxy has none
  MaxQueue,      \* MAX_QUEUE_SIZE
  Stride,        \* the queue's size is looked at before every Stride-th watch
  MaxBackoff,    \* the ceiling of the supervisor's delay
  MaxAge,        \* bound on the ages
  MaxChanges,    \* bound on edits, deletions, requests and the exit
  MaxCount       \* bound on the queued items of one watch

ASSUME UuidsAssumption == IsFiniteSet(Uuids)
ASSUME ProxiesAssumption == Reuse \in [Proxies -> Nat]
ASSUME StrideAssumption == Stride \in Nat \ {0}
ASSUME LimitsAssumption == MaxQueue \in Nat \ {0} /\ MaxBackoff \in Nat \ {0} /\ MaxAge \in Nat
                           /\ MaxCount \in Nat

VARIABLES
  there,     \* the watches in the datastore
  paused,    \* those that are paused
  zone,      \* zone[u]: its time schedule is "open", "closed", or "bad" (raises)
  allPaused, \* settings.application.all_paused
  jitter,    \* jitter[u]: watch.jitter_seconds
  age,       \* age[u]: seconds since last_checked
  order,     \* the watches by last_checked, the longest unchecked first
  queue,     \* queue[u]: how many items of u are in update_q
  running,   \* the claimed watches
  tick,      \* the ticker: its place, sample, list, proxy times, and the supervisor's backoff
  recheck,       \* the request that queues rechecks: its place, sample and list
  exit,      \* app.config.exit is set
  changes,   \* how much of MaxChanges is used
  since      \* what happened since the samples of ticker and request (a ghost)

settings == <<there, paused, zone, allPaused>>
tickerVars == <<settings, jitter, age, order, queue, running, tick, recheck, exit, changes, since>>

\* What others queued since ticker and request sampled the queue, what workers took between
\* the ticker's two samples, and how many puts of others came since it looked at the size.
Quiet == [ticker |-> {}, taken |-> {}, foreign |-> 0, request |-> {}]

\* The ticker's locals at the start of its function: no proxy was ever used.  A proxy's
\* age stops at its reuse time.
Fresh(b) == [pc |-> "pass", busy |-> {}, todo |-> << >>, index |-> 0, backoff |-> b,
             used |-> Reuse]

NoRequest == [pc |-> "idle", todo |-> {}, busy |-> {}]

TickerInit == /\ there = Uuids
              /\ paused = {}
              /\ zone = [u \in Uuids |-> "open"]
              /\ allPaused = FALSE
              /\ jitter = [u \in Uuids |-> 0]
              /\ age = [u \in Uuids |-> MaxAge]
              /\ order \in SetToSeqs(Uuids)
              /\ queue = [u \in Uuids |-> 0]
              /\ running = {}
              /\ tick = Fresh(1)
              /\ recheck = NoRequest
              /\ exit = FALSE
              /\ changes = 0
              /\ since = Quiet

Queued == {u \in Uuids : queue[u] > 0}

\* update_q.qsize(); the items of one watch are numbered.
Items == {item \in Uuids \X (1..MaxCount) : item[2] <= queue[item[1]]}
QueueSize == Cardinality(Items)

MostItems == MaxCount * Cardinality(Uuids)

\* queue_item_async_safe(u)
Put(u) == queue[u] < MaxCount /\ queue' = [queue EXCEPT ![u] = @ + 1]

Looping == tick.pc \in {"list", "loop", "due"}
TickerMissed(u) == IF ~Looping THEN since
                   ELSE [since EXCEPT !.ticker = @ \cup {u},
                                      !.foreign = IF @ < MostItems THEN @ + 1 ELSE @]

-----------------------------------------------------------------------------
\* When a watch is due.

Threshold(u) == IF Override[u] > 0 THEN Override[u]
                ELSE IF u \in UsesDefault \/ Own[u] = 0 THEN DefaultEvery ELSE Own[u]

Due(u, j) == age[u] >= Threshold(u) + j /\ age[u] >= Minimum

\* What the loop skips before it looks at the time.
Skipped(u) == u \notin there \/ u \in paused \/ zone[u] # "open"

-----------------------------------------------------------------------------
\* The ticker.

At(pc) == tick.pc = pc

SampleRunning == /\ At("pass") /\ ~exit
                 /\ tick' = [tick EXCEPT !.pc = "sampled", !.busy = running]
                 /\ UNCHANGED <<settings, jitter, age, order, queue, running, recheck, exit,
                                changes, since>>

SampleQueued == /\ At("sampled")
                /\ tick' = [tick EXCEPT !.pc = "list", !.busy = @ \cup Queued]
                /\ UNCHANGED <<settings, jitter, age, order, queue, running, recheck, exit,
                               changes, since>>

\* sorted(..., key=last_checked): the longest unchecked first.
Listing == AllBut(order, Uuids \ there)

ListWatches == /\ At("list")
               /\ tick' = [tick EXCEPT !.pc = "loop", !.todo = Listing, !.index = 0]
               /\ UNCHANGED <<settings, jitter, age, order, queue, running, recheck, exit,
                              changes, since>>

\* The watches whose turn comes before the queue's size is looked at again.
Looks == tick.index % Stride = 0

QueueFull == Looks /\ QueueSize >= MaxQueue

NextWatch == [tick EXCEPT !.pc = "loop", !.todo = Tail(@), !.index = @ + 1]

\* The pass ends: the list is done, the queue is full, or everything is paused.
\* Then app.config.exit.wait(), a second or none once exit is set.
PassEnds == /\ At("loop")
            /\ tick.todo = << >> \/ QueueFull \/ allPaused
            /\ tick' = [tick EXCEPT !.pc = "pass", !.todo = << >>, !.index = 0, !.busy = {}]
            /\ since' = [Quiet EXCEPT !.request = since.request]
            /\ UNCHANGED <<settings, jitter, age, order, queue, running, recheck, exit, changes>>

\* Mutant: a schedule that raises ends the ticker, as a return there once did.
AfterBadSchedule_Return == [Fresh(MaxBackoff) EXCEPT !.pc = "backoff"]

\* A schedule that raises (an unknown time zone) skips its watch.
AfterBadSchedule == NextWatch

\* The head of the list is judged by what is true now and by the two samples; a
\* watch without a jitter is given one first.
Judge == /\ At("loop") /\ tick.todo # << >> /\ ~QueueFull /\ ~allPaused
         /\ LET u == Head(tick.todo)
            IN \/ /\ Skipped(u)
                  /\ tick' = IF u \in there \ paused /\ zone[u] = "bad" THEN AfterBadSchedule
                             ELSE NextWatch
                  /\ UNCHANGED jitter
               \/ /\ ~Skipped(u)
                  /\ \E j \in (IF jitter[u] = 0 THEN Jitters ELSE {jitter[u]}) :
                       /\ jitter' = [jitter EXCEPT ![u] = j]
                       /\ tick' = IF Due(u, j) /\ u \notin tick.busy
                                   THEN [tick EXCEPT !.pc = "due"] ELSE NextWatch
         /\ since' = IF Looks THEN [since EXCEPT !.foreign = 0] ELSE since
         /\ UNCHANGED <<settings, age, order, queue, running, recheck, exit, changes>>

\* get_preferred_proxy_for_watch() of a watch deleted meanwhile raises.
LosesWatch(u) == u \notin there /\ Proxies # {}

Timed(p) == p # NoProxy /\ Reuse[p] > 0

ProxyBusy(p) == Timed(p) /\ tick.used[p] < Reuse[p]

ProxyNotYet == /\ At("due")
               /\ LET u == Head(tick.todo) IN ~LosesWatch(u) /\ ProxyBusy(ProxyOf[u])
               /\ tick' = NextWatch
               /\ UNCHANGED <<settings, jitter, age, order, queue, running, recheck, exit,
                              changes, since>>

\* The proxy's time is noted, the watch queued and its jitter forgotten.
QueueWatch ==
  /\ At("due")
  /\ LET u == Head(tick.todo)
         p == ProxyOf[u]
         Now(f) == IF Timed(p) THEN [f EXCEPT ![p] = 0] ELSE f
     IN /\ ~LosesWatch(u) /\ ~ProxyBusy(p)
        /\ Put(u)
        /\ since' = IF recheck.pc = "idle" THEN since ELSE [since EXCEPT !.request = @ \cup {u}]
        /\ tick' = [NextWatch EXCEPT !.used = Now(@)]
        /\ jitter' = [jitter EXCEPT ![u] = 0]
  /\ UNCHANGED <<settings, age, order, running, recheck, exit, changes>>

\* while not app.config.exit.is_set(): the function returns, and so does supervise().
LeavesLoop == /\ At("pass") /\ exit
              /\ tick' = [tick EXCEPT !.pc = "over"]
              /\ UNCHANGED <<settings, jitter, age, order, queue, running, recheck, exit, changes,
                             since>>

\* The function raised: supervise() waits, a run of less than HEALTHY_RUNTIME_SECONDS
\* doubling the delay, unless this is a shutdown.
AfterFall(long) ==
  IF exit THEN [tick EXCEPT !.pc = "over", !.todo = << >>, !.busy = {}]
  ELSE [Fresh(IF long THEN 1 ELSE Min({tick.backoff * 2, MaxBackoff})) EXCEPT !.pc = "backoff"]

Falls == /\ At("due") /\ LosesWatch(Head(tick.todo))
         /\ \E long \in BOOLEAN : tick' = AfterFall(long)
         /\ since' = [Quiet EXCEPT !.request = since.request]
         /\ UNCHANGED <<settings, jitter, age, order, queue, running, recheck, exit, changes>>

\* The delay is over: the target starts from nothing, or exit ended the wait.
StartAgain == /\ At("backoff")
              /\ tick' = IF exit THEN [tick EXCEPT !.pc = "over"] ELSE Fresh(tick.backoff)
              /\ UNCHANGED <<settings, jitter, age, order, queue, running, recheck, exit, changes,
                             since>>

Ticker == \/ SampleRunning \/ SampleQueued \/ ListWatches \/ PassEnds \/ Judge \/ ProxyNotYet
          \/ QueueWatch \/ LeavesLoop \/ Falls \/ StartAgain

-----------------------------------------------------------------------------
\* Requests that skip what is already queued or running: queue_rechecks() of API and
\* MCP, checknow of the web interface, recheck_all.  They sample in this order.

Change == changes < MaxChanges /\ changes' = changes + 1

RequestSamplesQueued ==
  /\ recheck.pc = "idle" /\ Change
  /\ \E asked \in (SUBSET there) \ {{}} :
       recheck' = [pc |-> "sampled", todo |-> asked, busy |-> Queued]
  /\ UNCHANGED <<settings, jitter, age, order, queue, running, tick, exit, since>>

\* Mutant: what is being checked is not looked at.
Unneeded_QueuedOnly == recheck.busy

Unneeded == recheck.busy \cup running

Asking(todo) == IF todo = {} THEN NoRequest ELSE [pc |-> "putting", todo |-> todo, busy |-> {}]

RequestSamplesRunning ==
  /\ recheck.pc = "sampled"
  /\ recheck' = Asking(recheck.todo \ Unneeded)
  /\ since' = [since EXCEPT !.request = IF recheck' = NoRequest THEN {} ELSE @]
  /\ UNCHANGED <<settings, jitter, age, order, queue, running, tick, exit, changes>>

RequestPuts == /\ recheck.pc = "putting"
               /\ \E u \in recheck.todo :
                    /\ Put(u)
                    /\ recheck' = Asking(recheck.todo \ {u})
                    /\ since' = [TickerMissed(u) EXCEPT
                                   !.request = IF recheck' = NoRequest THEN {} ELSE @]
               /\ UNCHANGED <<settings, jitter, age, order, running, tick, exit, changes>>

\* Requests that queue whatever is queued or running: a new, cloned or edited watch,
\* GET watch?recheck, tag?recheck, the realtime socket, the command line's -r.
ForceQueue == /\ Change
              /\ \E u \in there :
                   /\ Put(u)
                   /\ since' = [TickerMissed(u) EXCEPT
                                  !.request = IF recheck.pc = "idle" THEN {} ELSE @ \cup {u}]
              /\ UNCHANGED <<settings, jitter, age, order, running, tick, recheck, exit>>

-----------------------------------------------------------------------------
\* Workers, as far as the ticker can see them.

\* A worker takes an item, claims its watch and stamps last_checked; an item for a
\* deleted watch is dropped, one for a claimed watch stays (WorkerPool defers it).
Take == \E u \in Queued \ running :
          /\ queue' = [queue EXCEPT ![u] = @ - 1]
          /\ running' = running \cup ({u} \cap there)
          /\ IF u \in there
             THEN age' = [age EXCEPT ![u] = 0] /\ order' = Append(AllBut(order, {u}), u)
             ELSE UNCHANGED <<age, order>>
          /\ since' = IF At("sampled") THEN [since EXCEPT !.taken = @ \cup {u}] ELSE since
          /\ UNCHANGED <<settings, jitter, tick, recheck, exit, changes>>

Finish == /\ \E u \in running : running' = running \ {u}
          /\ UNCHANGED <<settings, jitter, age, order, queue, tick, recheck, exit, changes, since>>

-----------------------------------------------------------------------------
\* The clock and the settings.

Tick == /\ age' = [u \in Uuids |-> Min({age[u] + 1, MaxAge})]
        /\ tick' = [tick EXCEPT !.used = [p \in Proxies |-> Min({tick.used[p] + 1, Reuse[p]})]]
        /\ UNCHANGED <<settings, jitter, order, queue, running, recheck, exit, changes, since>>

Pause == /\ Change
         /\ \E u \in there : paused' = IF u \in paused THEN paused \ {u} ELSE paused \cup {u}
         /\ UNCHANGED <<there, zone, allPaused, jitter, age, order, queue, running, tick, recheck,
                        exit, since>>

OpenOrClose == /\ Change
               /\ \E u \in there, z \in {"open", "closed", "bad"} : zone' = [zone EXCEPT ![u] = z]
               /\ UNCHANGED <<there, paused, allPaused, jitter, age, order, queue, running, tick,
                              recheck, exit, since>>

PauseAll == /\ Change
            /\ allPaused' = ~allPaused
            /\ UNCHANGED <<there, paused, zone, jitter, age, order, queue, running, tick, recheck,
                           exit, since>>

Delete == /\ Change
          /\ \E u \in there : there' = there \ {u}
          /\ UNCHANGED <<paused, zone, allPaused, jitter, age, order, queue, running, tick,
                         recheck, exit, since>>

Exit == /\ ~exit /\ Change
        /\ exit' = TRUE
        /\ UNCHANGED <<settings, jitter, age, order, queue, running, tick, recheck, since>>

Requests == RequestSamplesQueued \/ RequestSamplesRunning \/ RequestPuts \/ ForceQueue
Settings == Pause \/ OpenOrClose \/ PauseAll \/ Delete \/ Exit

TickerNext == Ticker \/ Requests \/ Take \/ Finish \/ Tick \/ Settings

\* The ticker is a thread of its own that never waits for long, workers take what is
\* queued and end their checks (WorkerPool), and time passes.
Fairness == /\ WF_tickerVars(Ticker) /\ WF_tickerVars(Take) /\ WF_tickerVars(Tick)
            /\ WF_tickerVars(RequestSamplesRunning \/ RequestPuts)
            /\ \A u \in Uuids : WF_tickerVars(Finish /\ u \in running /\ u \notin running')

TickerSpec == TickerInit /\ [][TickerNext]_tickerVars /\ Fairness

-----------------------------------------------------------------------------
\* Properties.

\* Kept by every step.
TypeOK == /\ there \subseteq Uuids /\ paused \subseteq Uuids /\ running \subseteq Uuids
          /\ zone \in [Uuids -> {"open", "closed", "bad"}]
          /\ allPaused \in BOOLEAN /\ exit \in BOOLEAN /\ changes \in Nat
          /\ jitter \in [Uuids -> Jitters \cup {0}] /\ age \in [Uuids -> Nat]
          /\ order \in Seq(Uuids)
          /\ queue \in [Uuids -> 0..MaxCount]
          /\ tick \in [pc : {"pass", "sampled", "list", "loop", "due", "backoff", "over"},
                       busy : SUBSET Uuids, todo : Seq(Uuids), index : Nat, backoff : Nat,
                       used : [Proxies -> Nat]]
          /\ recheck \in [pc : {"idle", "sampled", "putting"}, todo : SUBSET Uuids,
                          busy : SUBSET Uuids]
          /\ since \in [ticker : SUBSET Uuids, taken : SUBSET Uuids, foreign : Nat,
                        request : SUBSET Uuids]

\* A recheck the ticker or a skipping request queues for a watch that is already queued or
\* running is one its samples could not show: somebody queued it after they were taken, or,
\* for the ticker, which samples the running watches first, a worker took and finished with
\* the sample of the queue in between.
NoSeenDouble ==
  [][\A u \in Uuids : queue[u] > 0 \/ u \in running =>
       /\ QueueWatch /\ queue'[u] > queue[u] => u \in since.ticker \cup since.taken
       /\ RequestPuts /\ queue'[u] > queue[u] => u \in since.request]_tickerVars

\* One pass takes the queue past MAX_QUEUE_SIZE by less than a stride of watches and what
\* others put meanwhile.
Overshoot == [][QueueWatch => QueueSize' < MaxQueue + Stride + since.foreign]_tickerVars

\* Stale as they are, the samples do no more harm than that.
QueuesWithinReason == NoSeenDouble /\ Overshoot

\* A watch the ticker may check now and that is overdue is queued or taken, or stops being
\* one, unless the program exits: a bad schedule, a deleted watch or a crash of the ticker
\* holds nobody else up.  (A watch whose proxy another one uses may lose every race for it.)
AlonePerProxy(u) == \A v \in Uuids \ {u} : ProxyOf[v] = ProxyOf[u] => ~Timed(ProxyOf[v])
NobodyStarves == \A u \in Uuids : AlonePerProxy(u) =>
                   []<>(\/ queue[u] > 0 \/ u \in running \/ Skipped(u)
                         \/ allPaused \/ exit \/ age[u] < MaxAge)

=============================================================================
