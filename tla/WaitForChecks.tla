---------------------------- MODULE WaitForChecks ----------------------------
(***************************************************************************)
(* wait_for_all_checks() of src/changedetectionio/worker_pool.py, which    *)
(* batch mode and the tests call to learn that every queued recheck has    *)
(* been carried out, beside the workers of WorkerPool.  It samples the     *)
(* queue's size and then the claims, and answers True after two quiet      *)
(* samples in a row, 0.3 seconds apart.                                    *)
(***************************************************************************)
EXTENDS WorkerPool

VARIABLES
  waiter,    \* "idle", "size", "running", "true" or "false"
  empty,     \* the queue was empty in this sample
  quiet,     \* empty_since is set: the sample before was quiet
  owed,      \* the jobs queued by the time of the call
  asleep,    \* the jobs that were deferred at a sample since it became quiet
  handing,   \* threads that have been between get() and the claim since the
             \* loop went to sleep; no handover takes as long as that
  sleepers   \* threads seen deferring at the last sample or the call; the 10
             \* seconds of a deferral are longer than a round of the loop

WaitInit == /\ Init
            /\ waiter = "idle"
            /\ empty = FALSE
            /\ quiet = FALSE
            /\ owed = {}
            /\ asleep = {}
            /\ handing = {}
            /\ sleepers = {}

HandingOver == {t \in Threads : stage[t] = "got"}
Deferring == {t \in Threads : stage[t] = "deferring"}

Call == /\ waiter = "idle"
        /\ waiter' = "size"
        /\ quiet' = FALSE
        /\ owed' = Jobs \ unqueued
        /\ handing' = HandingOver
        /\ sleepers' = Deferring
        /\ UNCHANGED <<vars, empty, asleep>>

\* sleep, then q_length = update_q.qsize()
SampleSize == /\ waiter = "size"
              /\ handing = {}
              /\ waiter' = "running"
              /\ empty' = (queue = {})
              /\ asleep' = (IF quiet THEN asleep ELSE {})
                            \cup {job[t] : t \in Deferring}
              /\ sleepers' = Deferring
              /\ UNCHANGED <<vars, quiet, owed, handing>>

\* Mutant: one quiet sample is enough.
SampleRunning_Once ==
  LET calm == empty /\ \A u \in Watches : claims[u] = NoWorker
  IN  /\ waiter = "running"
      /\ waiter' = IF calm THEN "true" ELSE "size"
      /\ quiet' = calm
      /\ handing' = HandingOver
      /\ UNCHANGED <<vars, empty, owed, asleep, sleepers>>

\* running_uuids = get_running_uuids(), and the verdict on the sample.
SampleRunning ==
  LET calm == empty /\ \A u \in Watches : claims[u] = NoWorker
  IN  /\ waiter = "running"
      /\ waiter' = IF calm /\ quiet THEN "true" ELSE "size"
      /\ quiet' = calm
      /\ handing' = HandingOver
      /\ UNCHANGED <<vars, empty, owed, asleep, sleepers>>

\* All attempts are used up.
GiveUp == /\ waiter = "size"
          /\ waiter' = "false"
          /\ UNCHANGED <<vars, empty, quiet, owed, asleep, handing, sleepers>>

Again == /\ waiter \in {"true", "false"}
         /\ waiter' = "idle"
         /\ UNCHANGED <<vars, empty, quiet, owed, asleep, handing, sleepers>>

\* What a step of the pool leaves of the waiter's times: while it waits, a deferral that
\* began after the last sample goes on.
InTime == /\ waiter \in {"size", "running"} =>
               \A t \in Deferring \ sleepers : stage'[t] = "deferring"
          /\ handing' = {t \in handing : stage'[t] = "got"}
          /\ sleepers' = {t \in sleepers : stage'[t] = "deferring"}
          /\ UNCHANGED <<waiter, empty, quiet, owed, asleep>>

Pool == Next /\ InTime

WaitNext == Pool \/ Call \/ SampleSize \/ SampleRunning \/ GiveUp \/ Again

waitVars == <<vars, waiter, empty, quiet, owed, asleep, handing, sleepers>>

\* The pool's fairness within these times, and the loop's sleep ends.
WaitFairness ==
  /\ \A t \in Threads : WF_waitVars(Work(t) /\ InTime) /\ WF_waitVars(Stopped(t) /\ InTime)
  /\ \A c \in Controllers : /\ WF_waitVars(Continue(c) /\ InTime)
                            /\ WF_waitVars(HealthCount(c) /\ InTime)
  /\ WF_waitVars(SampleSize) /\ WF_waitVars(SampleRunning)

WaitSpec == WaitInit /\ [][WaitNext]_waitVars

FairWaitSpec == WaitSpec /\ WaitFairness

-----------------------------------------------------------------------------
\* The answer True misses no check that runs and no job that is being handed
\* over: what is not carried out by then of the jobs queued before the call was
\* in the hands of a worker that had met a claim, and slept at a sample.
TrueMissesOnlyDeferred == waiter = "true" => owed \subseteq settled \cup asleep
=============================================================================
