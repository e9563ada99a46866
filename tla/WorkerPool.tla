------------------------------ MODULE WorkerPool ------------------------------
(***************************************************************************)
(* The worker pool of src/changedetectionio/worker_pool.py and the job     *)
(* loop of src/changedetectionio/worker.py.                                *)
(*                                                                         *)
(* Each worker is a thread with an event loop of its own.  It takes a job  *)
(* from the recheck queue, claims the job's watch, checks it and releases  *)
(* the claim; a job whose watch is claimed already is held for 10 seconds  *)
(* and queued again.  Claims record the worker's ID, not the thread, and   *)
(* IDs are reused.  Web requests and the ticker change the pool while the  *)
(* workers run: they add and remove workers, cancel a check by stopping    *)
(* the worker's loop, and replace workers that died.  The list of workers  *)
(* has no lock.                                                            *)
(*                                                                         *)
(* The queue is the set of its jobs: which one get() returns is left open, *)
(* so nothing here depends on priorities (RecheckQueue has them).          *)
(***************************************************************************)
EXTENDS Filtering, FiniteSets

CONSTANTS
  Watches,      \* watch UUIDs
  Jobs,         \* queued items; several may be for one watch
  WatchOf,      \* WatchOf[j]: the UUID in the item
  MaxThreads,   \* bound on the worker threads alive at once
  StartCount,   \* workers started with the application
  Sizes,        \* worker counts the settings form may be saved with
  Controllers,  \* threads that change the pool: web requests, the ticker
  Ops,          \* Ops[c]: what c may do: "adjust", "cancel", "health"
  Faults,       \* TRUE: a check may end its worker (asyncio.CancelledError)
  NoJob, NoWorker

Threads == 1..MaxThreads

ASSUME WatchOfAssumption == WatchOf \in [Jobs -> Watches]
ASSUME MaxThreadsAssumption == MaxThreads \in Nat
ASSUME StartCountAssumption == StartCount \in 1..MaxThreads
ASSUME SizesAssumption == Sizes \subseteq Nat \ {0}
ASSUME OpsAssumption == Ops \in [Controllers -> SUBSET {"adjust", "cancel", "health"}]
ASSUME FaultsAssumption == Faults \in BOOLEAN
ASSUME NoJobAssumption == NoJob \notin Jobs
ASSUME NoWorkerAssumption == NoWorker \notin Nat

VARIABLES
  unqueued,  \* the jobs nobody has queued yet
  queue,     \* the jobs in update_q
  settled,   \* the jobs that were checked, or given up with their worker
  stage,     \* stage[t]: where thread t's coroutine is suspended
  wid,       \* wid[t]: its worker_id
  job,       \* job[t]: the item it holds
  halting,   \* threads whose event loop was told to stop
  pool,      \* worker_threads, a list
  claims,    \* currently_processing_uuids: watch -> worker_id
  target,    \* settings.requests.workers
  ctl        \* ctl[c]: what controller c is in the middle of

workerVars == <<unqueued, queue, settled, stage, wid, job, halting, claims>>
vars == <<workerVars, pool, target, ctl>>

\* A thread is "none" before it is created and after it has ended, "dead" while
\* an ended thread is still listed.  A "zombie" is a stopped loop's coroutine
\* that has not been finalised, a "ghost" the executor call get() it left.
Stages == {"none", "starting", "getting", "got", "deferring", "checking",
           "finishing", "zombie", "ghost", "dead"}

Idle == [pc |-> "idle"]

Init == /\ unqueued = Jobs
        /\ queue = {}
        /\ settled = {}
        /\ stage = [t \in Threads |-> IF t <= StartCount THEN "starting" ELSE "none"]
        /\ wid = [t \in Threads |-> t - 1]
        /\ job = [t \in Threads |-> NoJob]
        /\ halting = {}
        /\ pool = [i \in 1..StartCount |-> i]
        /\ claims = [u \in Watches |-> NoWorker]
        /\ target = StartCount
        /\ ctl = [c \in Controllers |-> Idle]

Listed == {pool[i] : i \in DOMAIN pool}

\* Thread t is over; the list may still name it.
Gone(t) == stage' = [stage EXCEPT ![t] = IF t \in Listed THEN "dead" ELSE "none"]

Move(t, from, to) == stage[t] = from /\ stage' = [stage EXCEPT ![t] = to]

-----------------------------------------------------------------------------
\* Claims.

\* Mutant: set_uuid_processing(), which does not look first.
claim_uuid_Blind(u, w) == claims' = [claims EXCEPT ![u] = w]

claim_uuid(u, w) == /\ claims[u] = NoWorker
                    /\ claims' = [claims EXCEPT ![u] = w]

release_uuid(u, w) ==
  claims' = [claims EXCEPT ![u] = IF @ = w THEN NoWorker ELSE @]

-----------------------------------------------------------------------------
\* The job loop of a worker: async_update_worker().

\* A web request, the API or the ticker queues a recheck.
Put(j) == /\ j \in unqueued
          /\ unqueued' = unqueued \ {j}
          /\ queue' = queue \cup {j}
          /\ UNCHANGED <<settled, stage, wid, job, halting, claims, pool, target, ctl>>

\* The thread creates its loop and the coroutine reaches its first get().
Boot(t) == /\ Move(t, "starting", "getting")
           /\ UNCHANGED <<unqueued, queue, settled, wid, job, halting, claims, pool, target, ctl>>

\* Mutant: the item stays queued until its check has ended.
Get_Peek(t) == /\ Move(t, "getting", "got")
               /\ \E j \in queue : job' = [job EXCEPT ![t] = j]
               /\ UNCHANGED <<unqueued, queue, settled, wid, halting, claims, pool, target, ctl>>

\* The executor thread pops an item; the coroutine has not run yet.
Get(t) == /\ Move(t, "getting", "got")
          /\ \E j \in queue : /\ queue' = queue \ {j}
                              /\ job' = [job EXCEPT ![t] = j]
          /\ UNCHANGED <<unqueued, settled, wid, halting, claims, pool, target, ctl>>

\* queue.Empty after one second: the loop goes round.
GetEmpty(t) == /\ stage[t] = "getting"
               /\ queue = {}
               /\ UNCHANGED vars

Claim(t) == /\ Move(t, "got", "checking")
            /\ claim_uuid(WatchOf[job[t]], wid[t])
            /\ UNCHANGED <<unqueued, queue, settled, wid, job, halting, pool, target, ctl>>

\* The watch is being checked: sleep with the item in hand.
Defer(t) == /\ Move(t, "got", "deferring")
            /\ claims[WatchOf[job[t]]] # NoWorker
            /\ UNCHANGED <<unqueued, queue, settled, wid, job, halting, claims, pool, target, ctl>>

\* Mutants: the deferred item is not put back, or still kept.
Requeue_Drop(t) == /\ Move(t, "deferring", "getting")
                   /\ job' = [job EXCEPT ![t] = NoJob]
                   /\ UNCHANGED <<unqueued, queue, settled, wid, halting, claims, pool, target, ctl>>

Requeue(t) == /\ Move(t, "deferring", "getting")
              /\ queue' = queue \cup {job[t]}
              /\ job' = [job EXCEPT ![t] = NoJob]
              /\ UNCHANGED <<unqueued, settled, wid, halting, claims, pool, target, ctl>>

\* The check is over, well or with an error; the finally block begins, and
\* may be suspended while the browser is closed.
Finish(t) == /\ Move(t, "checking", "finishing")
             /\ UNCHANGED <<unqueued, queue, settled, wid, job, halting, claims, pool, target, ctl>>

\* Mutants: the claim is not released, or the item not let go.
Release_NoClaim(t) == /\ Move(t, "finishing", "getting")
                      /\ settled' = settled \cup {job[t]}
                      /\ job' = [job EXCEPT ![t] = NoJob]
                      /\ UNCHANGED <<unqueued, queue, wid, halting, claims, pool, target, ctl>>

\* The finally block releases the claim; the loop goes round, or returns
\* "restart" and is called again on the same thread.
Release(t) == /\ Move(t, "finishing", "getting")
              /\ release_uuid(WatchOf[job[t]], wid[t])
              /\ settled' = settled \cup {job[t]}
              /\ job' = [job EXCEPT ![t] = NoJob]
              /\ UNCHANGED <<unqueued, queue, wid, halting, pool, target, ctl>>

\* Mutant: the release is not in a finally block.
Cancelled_NoRelease(t) == /\ Faults
                          /\ stage[t] = "checking"
                          /\ Gone(t)
                          /\ settled' = settled \cup {job[t]}
                          /\ job' = [job EXCEPT ![t] = NoJob]
                          /\ halting' = halting \ {t}
                          /\ UNCHANGED <<unqueued, queue, wid, claims, pool, target, ctl>>

\* CancelledError inside a check is caught by no handler of the job loop: the
\* finally block runs and start_single_async_worker() leaves its loop.
Cancelled(t) == /\ Faults
                /\ stage[t] = "checking"
                /\ Gone(t)
                /\ release_uuid(WatchOf[job[t]], wid[t])
                /\ settled' = settled \cup {job[t]}
                /\ job' = [job EXCEPT ![t] = NoJob]
                /\ halting' = halting \ {t}
                /\ UNCHANGED <<unqueued, queue, wid, pool, target, ctl>>

-----------------------------------------------------------------------------
\* A stopped event loop ends its thread wherever the coroutine is suspended.

\* In get(): the call in the executor goes on, for a second at most.
HaltGetting(t) == /\ t \in halting
                  /\ Move(t, "getting", "ghost")
                  /\ halting' = halting \ {t}
                  /\ UNCHANGED <<unqueued, queue, settled, wid, job, claims, pool, target, ctl>>

\* With an item in hand that it has not claimed: the item is dropped.
HaltHolding(t) == /\ t \in halting
                  /\ stage[t] \in {"got", "deferring"}
                  /\ Gone(t)
                  /\ job' = [job EXCEPT ![t] = NoJob]
                  /\ halting' = halting \ {t}
                  /\ UNCHANGED <<unqueued, queue, settled, wid, claims, pool, target, ctl>>

\* In a check: the coroutine stays suspended until it is garbage collected.
HaltChecking(t) == /\ t \in halting
                   /\ stage[t] \in {"checking", "finishing"}
                   /\ stage' = [stage EXCEPT ![t] = "zombie"]
                   /\ halting' = halting \ {t}
                   /\ UNCHANGED <<unqueued, queue, settled, wid, job, claims, pool, target, ctl>>

\* What the ghost's get() returns is lost: its loop is closed.
GhostGet(t) == /\ stage[t] = "ghost"
               /\ Gone(t)
               /\ \E j \in queue : queue' = queue \ {j}
               /\ UNCHANGED <<unqueued, settled, wid, job, halting, claims, pool, target, ctl>>

GhostEmpty(t) == /\ stage[t] = "ghost"
                 /\ Gone(t)
                 /\ UNCHANGED <<unqueued, queue, settled, wid, job, halting, claims, pool, target, ctl>>

\* GeneratorExit runs the finally block to its end ...
Finalize(t) == /\ stage[t] = "zombie"
               /\ Gone(t)
               /\ release_uuid(WatchOf[job[t]], wid[t])
               /\ settled' = settled \cup {job[t]}
               /\ job' = [job EXCEPT ![t] = NoJob]
               /\ UNCHANGED <<unqueued, queue, wid, halting, pool, target, ctl>>

\* ... or only to its first await that suspends ("coroutine ignored
\* GeneratorExit"), which comes before the release.
Leak(t) == /\ stage[t] = "zombie"
           /\ Gone(t)
           /\ settled' = settled \cup {job[t]}
           /\ job' = [job EXCEPT ![t] = NoJob]
           /\ UNCHANGED <<unqueued, queue, wid, halting, claims, pool, target, ctl>>

-----------------------------------------------------------------------------
\* Changing the pool.

SetCtl(c, r) == ctl' = [ctl EXCEPT ![c] = r]

AddNext(k) == IF k > 0 THEN [pc |-> "add", left |-> k] ELSE Idle

\* stop() does nothing until the thread has a running loop.
Stoppable(t) == stage[t] \notin {"starting", "ghost", "zombie", "dead", "none"}

stop(t) == halting' = IF Stoppable(t) THEN halting \cup {t} ELSE halting

\* Threads that left the list and have ended are no more.
Forget(removed) ==
  stage' = [t \in Threads |->
              IF t \in removed /\ stage[t] = "dead" THEN "none" ELSE stage[t]]

UsedIds == {wid[t] : t \in Listed}

LowestFree(n) == n \notin UsedIds /\ 0..(n - 1) \subseteq UsedIds

Fresh == {t \in Threads : stage[t] = "none" /\ t \notin Listed}

\* add_worker(): the ID is computed from the list ...
AddId(c) == /\ ctl[c].pc = "add"
            /\ \E n \in 0..Len(pool) :
                 /\ LowestFree(n)
                 /\ SetCtl(c, [pc |-> "start", left |-> ctl[c].left, id |-> n])
            /\ UNCHANGED <<workerVars, pool, target>>

\* ... and the thread started and listed, with no lock around the two.
AddStart(c) == /\ ctl[c].pc = "start"
               /\ \E t \in Fresh :
                    /\ \A r \in Fresh : t <= r
                    /\ stage' = [stage EXCEPT ![t] = "starting"]
                    /\ wid' = [wid EXCEPT ![t] = ctl[c].id]
                    /\ pool' = Append(pool, t)
               /\ SetCtl(c, AddNext(ctl[c].left - 1))
               /\ UNCHANGED <<unqueued, queue, settled, job, halting, claims, target>>

\* The settings form is saved with another worker count ...
SaveSettings(c, n) == /\ "adjust" \in Ops[c]
                      /\ ctl[c] = Idle
                      /\ n # target
                      /\ target' = n
                      /\ SetCtl(c, [pc |-> "adjust", count |-> n])
                      /\ UNCHANGED <<workerVars, pool>>

\* ... and adjust_async_worker_count() works from the length of the list.
Adjust(c) == /\ ctl[c].pc = "adjust"
             /\ LET more == ctl[c].count - Len(pool)
                IN  SetCtl(c, IF more < 0 THEN [pc |-> "remove", left |-> 0 - more]
                              ELSE AddNext(more))
             /\ UNCHANGED <<workerVars, pool, target>>

RemoveWorker(c) ==
  /\ ctl[c].pc = "remove"
  /\ SetCtl(c, IF ctl[c].left > 1 THEN [pc |-> "remove", left |-> ctl[c].left - 1] ELSE Idle)
  /\ IF pool = <<>> THEN UNCHANGED <<pool, stage, halting>>
     ELSE LET t == pool[Len(pool)]
          IN  /\ pool' = SubSeq(pool, 1, Len(pool) - 1)
              /\ stop(t)
              /\ Forget({t})
  /\ UNCHANGED <<unqueued, queue, settled, wid, job, claims, target>>

\* cancel_running_uuid(): the claim is dropped under the claims' lock ...
CancelDrop(c, u) == /\ "cancel" \in Ops[c]
                    /\ ctl[c] = Idle
                    /\ claims[u] # NoWorker
                    /\ claims' = [claims EXCEPT ![u] = NoWorker]
                    /\ SetCtl(c, [pc |-> "stop", id |-> claims[u], uuid |-> u])
                    /\ UNCHANGED <<unqueued, queue, settled, stage, wid, job, halting, pool, target>>

\* The first listed worker with an ID, if there is one.
WithId(n) == {t \in Listed : \E i \in DOMAIN pool :
                /\ pool[i] = t /\ wid[t] = n
                /\ \A k \in 1..(i - 1) : wid[pool[k]] # n}

\* Mutant: the stopped worker stays listed.
CancelStop_Listed(c) ==
  /\ ctl[c].pc = "stop"
  /\ halting' = halting \cup {t \in WithId(ctl[c].id) : Stoppable(t)}
  /\ SetCtl(c, AddNext(1))
  /\ UNCHANGED <<unqueued, queue, settled, stage, wid, job, claims, pool, target>>

\* ... then the worker with that ID is stopped and taken off the list, and a
\* replacement added whether or not one was found.
CancelStop(c) ==
  /\ ctl[c].pc = "stop"
  /\ LET found == WithId(ctl[c].id)
     IN  /\ halting' = halting \cup {t \in found : Stoppable(t)}
         /\ Forget(found)
         /\ pool' = AllBut(pool, found)
  /\ SetCtl(c, AddNext(1))
  /\ UNCHANGED <<unqueued, queue, settled, wid, job, claims, target>>

\* thread.is_alive(): the thread of a zombie or a ghost has ended.
IsAlive(t) == stage[t] \notin {"none", "dead", "zombie", "ghost"}

AliveCount == Cardinality({i \in DOMAIN pool : IsAlive(pool[i])})

\* check_worker_health(): the living workers are counted ...
HealthCount(c) == /\ "health" \in Ops[c]
                  /\ ctl[c] = Idle
                  /\ AliveCount # target
                  /\ SetCtl(c, [pc |-> "scan", left |-> target - AliveCount])
                  /\ UNCHANGED <<workerVars, pool, target>>

\* ... then the positions of the dead ones noted, of whom there may be more by now ...
HealthScan(c) == /\ ctl[c].pc = "scan"
                 /\ SetCtl(c, [pc |-> "reap", left |-> ctl[c].left,
                               dead |-> {i \in DOMAIN pool : ~IsAlive(pool[i])}])
                 /\ UNCHANGED <<workerVars, pool, target>>

HealthReap_NoAdd(c) ==
  /\ ctl[c].pc = "reap"
  /\ LET popped == {pool[i] : i \in ctl[c].dead \cap DOMAIN pool}
     IN  Forget(popped) /\ pool' = AllBut(pool, popped)
  /\ SetCtl(c, Idle)
  /\ UNCHANGED <<unqueued, queue, settled, wid, job, halting, claims, target>>

\* ... popped by position from the list as it is by then, and the missing
\* workers added.  There is no surplus to remove: left may be negative.
HealthReap(c) ==
  /\ ctl[c].pc = "reap"
  /\ LET popped == {pool[i] : i \in ctl[c].dead \cap DOMAIN pool}
     IN  Forget(popped) /\ pool' = AllBut(pool, popped)
  /\ SetCtl(c, AddNext(ctl[c].left))
  /\ UNCHANGED <<unqueued, queue, settled, wid, job, halting, claims, target>>

-----------------------------------------------------------------------------
Work(t) == \/ Boot(t) \/ Get(t) \/ GetEmpty(t) \/ Claim(t) \/ Defer(t)
           \/ Requeue(t) \/ Finish(t) \/ Release(t)

Stopped(t) == \/ HaltGetting(t) \/ HaltHolding(t) \/ HaltChecking(t)
              \/ GhostGet(t) \/ GhostEmpty(t) \/ Finalize(t) \/ Leak(t)

\* A controller that has begun carries on.
Continue(c) == \/ AddId(c) \/ AddStart(c) \/ Adjust(c) \/ RemoveWorker(c)
               \/ CancelStop(c) \/ HealthScan(c) \/ HealthReap(c)

Control(c) == \/ Continue(c)
              \/ HealthCount(c)
              \/ \E n \in Sizes : SaveSettings(c, n)
              \/ \E u \in Watches : CancelDrop(c, u)

Next == \/ \E j \in Jobs : Put(j)
        \/ \E t \in Threads : Work(t) \/ Cancelled(t) \/ Stopped(t)
        \/ \E c \in Controllers : Control(c)

Spec == Init /\ [][Next]_vars

\* Threads run; a stopped loop ends and its coroutine is collected in the end;
\* a request once begun completes; the ticker looks at the pool every minute.
Fairness == /\ \A t \in Threads : WF_vars(Work(t)) /\ WF_vars(Stopped(t))
            /\ \A c \in Controllers : WF_vars(Continue(c)) /\ WF_vars(HealthCount(c))

FairSpec == Spec /\ Fairness
-----------------------------------------------------------------------------
\* Every variable keeps its type.
TypeOK == /\ unqueued \subseteq Jobs /\ queue \subseteq Jobs /\ settled \subseteq Jobs
          /\ stage \in [Threads -> Stages]
          /\ wid \in [Threads -> Nat]
          /\ job \in [Threads -> Jobs \cup {NoJob}]
          /\ \A t \in Threads :
               stage[t] \in {"got", "deferring", "checking", "finishing", "zombie"}
                 <=> job[t] # NoJob
          /\ halting \subseteq Threads
          /\ pool \in Seq(Threads)
          /\ claims \in [Watches -> Nat \cup {NoWorker}]
          /\ target \in Nat

\* The threads whose coroutine is between its claim and its release.
Checking(u) == {t \in Threads : /\ stage[t] \in {"checking", "finishing"}
                                /\ WatchOf[job[t]] = u}

\* claim_uuid_for_processing(): "prevents race conditions where multiple
\* workers try to process the same UUID simultaneously".
OneCheckPerWatch ==
  \A t, r \in Threads : (\E u \in Watches : {t, r} \subseteq Checking(u)) => t = r

\* A watch shown as running is being checked: a claim is never left behind, or
\* every later job of the watch would be deferred for ever.
NoClaimLeftBehind ==
  \A u \in Watches : claims[u] # NoWorker => \E t \in Checking(u) : wid[t] = claims[u]

\* The place of a job: nobody's yet, the queue, settled, or one thread's hand.
Places(j) == {p \in {<<"unqueued", 0>>, <<"queue", 0>>, <<"settled", 0>>} :
                \/ p[1] = "unqueued" /\ j \in unqueued
                \/ p[1] = "queue" /\ j \in queue
                \/ p[1] = "settled" /\ j \in settled}
             \cup {<<"hand", t>> : t \in {r \in Threads : job[r] = j}}

\* While nobody stops a worker, no job is dropped or duplicated by a deferral or by a
\* check that ends its worker: a recheck is in exactly one place.  (A worker that is
\* stopped loses the job it holds and has not claimed: LostWithWorkersOnly.)
JobsKept == \A j \in Jobs : Cardinality(Places(j)) = 1

\* However the pool is resized and checks are cancelled, nobody is given a job twice:
\* it is in one place at most (with the worker stopped that holds it, it is lost).
NoJobTwice == \A j \in Jobs : Cardinality(Places(j)) <= 1

\* The step takes job j out of its last place.
Lost(j) == Places(j) # {} /\ Places(j)' = {}

\* It is the end of a worker that was told to stop, which held j unclaimed, or of the
\* get() that such a worker left behind.
EndOfHolder(t, j) ==
  /\ stage'[t] \in {"none", "dead"}
  /\ \/ t \in halting /\ stage[t] \in {"got", "deferring"} /\ job[t] = j
     \/ stage[t] = "ghost" /\ j \in queue

LossExplained ==
  \A j \in Jobs : Lost(j) => /\ \E t \in Threads : EndOfHolder(t, j)
                            /\ \A i \in Jobs : Lost(i) => i = j

\* However the pool is resized, checks are cancelled or end their worker, a job is lost
\* only with a worker that was stopped, one job at its end and no other: every other
\* end of a worker settles the job it was checking, and every deferral puts it back.
LostWithWorkersOnly == [][LossExplained]_vars

\* Every queued recheck is carried out in the end, also those that met a check
\* of the same watch and were deferred.
EventuallySettled == \A j \in Jobs : j \in queue ~> j \in settled

Quiet == \A c \in Controllers : ctl[c] = Idle

\* cancel_running_uuid(): "Spawn a replacement so concurrency stays at the
\* configured level".  When no request is half done, the list is no longer
\* than the setting.
ConfiguredLevel == Quiet => Len(pool) <= target

\* check_worker_health(): "restart any missing ones".  Once checks stop ending
\* workers, the configured number is alive and stays so.
WorkersReplaced == <>[](AliveCount = target)
=============================================================================
