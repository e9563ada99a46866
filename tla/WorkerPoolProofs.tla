--------------------------- MODULE WorkerPoolProofs ---------------------------
(***************************************************************************)
(* Mutual exclusion of checks, proved for any number of watches, jobs,     *)
(* workers and controllers: while nobody cancels a running check, no watch *)
(* is checked by two workers at once, even if worker IDs are duplicated,   *)
(* workers are removed in the middle of a check, or checks end workers.    *)
(***************************************************************************)
EXTENDS WaitForChecks, FilteringProofs, FiniteSetTheorems

\* The stages in which a thread's job has been claimed and not yet released.
Holding == {"checking", "finishing", "zombie"}

CtlOK == /\ DOMAIN ctl = Controllers
         /\ ctl = [c \in Controllers |-> ctl[c]]
         /\ \A c \in Controllers : ctl[c].pc = "start" => ctl[c].id \in Nat

Types == /\ queue \subseteq Jobs /\ unqueued \subseteq Jobs
         /\ stage \in [Threads -> Stages]
         /\ wid \in [Threads -> Nat]
         /\ job \in [Threads -> Jobs \cup {NoJob}]
         /\ claims \in [Watches -> Nat \cup {NoWorker}]
         /\ CtlOK
         /\ \A t \in Threads :
              stage[t] \in Holding \cup {"got", "deferring"} => job[t] \in Jobs

\* A thread that holds a watch is the one recorded by ID, and the only one:
\* the ID alone would not be enough, since two threads may share it.
Exclusive ==
  /\ \A t \in Threads : stage[t] \in Holding => claims[WatchOf[job[t]]] = wid[t]
  /\ \A t, r \in Threads :
       (stage[t] \in Holding /\ stage[r] \in Holding /\ WatchOf[job[t]] = WatchOf[job[r]])
         => t = r

Inv == Types /\ Exclusive

NoCancel == \A c \in Controllers : "cancel" \notin Ops[c]

LEMMA InvInit == Init => Inv
<1> SUFFICES ASSUME Init PROVE Inv
  OBVIOUS
<1>1. \A t \in Threads : t - 1 \in Nat
  BY MaxThreadsAssumption DEF Threads
<1> QED
  BY <1>1 DEF Init, Inv, Types, CtlOK, Exclusive, Holding, Stages, Idle

-----------------------------------------------------------------------------
\* Steps that move no thread into or out of Holding, and touch no claim.
LEMMA KeepsExclusive ==
  ASSUME Inv,
         stage' \in [Threads -> Stages], wid' \in [Threads -> Nat],
         claims' = claims,
         \A t \in Threads : stage'[t] \in Holding =>
            stage[t] \in Holding /\ job'[t] = job[t] /\ wid'[t] = wid[t]
  PROVE  Exclusive'
BY DEF Inv, Exclusive

\* Steps in which t lays down its job and releases the watch.
LEMMA ReleaseKeepsExclusive ==
  ASSUME Inv, NEW t \in Threads, stage[t] \in Holding,
         release_uuid(WatchOf[job[t]], wid[t]),
         \A r \in Threads : r # t => stage'[r] = stage[r] /\ job'[r] = job[r],
         stage'[t] \notin Holding,
         wid' = wid
  PROVE  Exclusive'
<1>1. ASSUME NEW r \in Threads, stage'[r] \in Holding
      PROVE  claims'[WatchOf[job'[r]]] = wid'[r]
  <2>1. r # t /\ stage[r] \in Holding /\ job'[r] = job[r]
    BY <1>1
  <2>2. WatchOf[job[r]] # WatchOf[job[t]]
    BY <2>1 DEF Inv, Exclusive
  <2>3. WatchOf[job[r]] \in Watches
    BY <2>1, WatchOfAssumption DEF Inv, Types
  <2> QED
    BY <2>1, <2>2, <2>3 DEF release_uuid, Inv, Types, Exclusive
<1>2. ASSUME NEW r \in Threads, NEW s \in Threads, stage'[r] \in Holding,
             stage'[s] \in Holding, WatchOf[job'[r]] = WatchOf[job'[s]]
      PROVE  r = s
  BY <1>2 DEF Inv, Exclusive
<1> QED
  BY <1>1, <1>2 DEF Exclusive

-----------------------------------------------------------------------------
LEMMA WorkStep ==
  ASSUME Inv, NEW t \in Threads, Work(t)
  PROVE  Inv'
<1> USE DEF Inv
<1>1. CASE Boot(t)
  <2>1. Types'
    BY <1>1 DEF Boot, Move, Types, CtlOK, Holding, Stages
  <2> QED
    BY <1>1, <2>1, KeepsExclusive DEF Boot, Move, Types, CtlOK, Holding, Stages
<1>2. CASE Get(t)
  <2>1. Types'
    BY <1>2 DEF Get, Move, Types, CtlOK, Holding, Stages
  <2> QED
    BY <1>2, <2>1, KeepsExclusive DEF Get, Move, Types, CtlOK, Holding, Stages
<1>3. CASE GetEmpty(t)
  BY <1>3 DEF GetEmpty, vars, workerVars, Types, CtlOK, Exclusive
<1>4. CASE Claim(t)
  <2> DEFINE u == WatchOf[job[t]]
  <2>1. job[t] \in Jobs /\ u \in Watches /\ wid[t] \in Nat
    BY <1>4, WatchOfAssumption DEF Claim, Move, Types
  <2>2. /\ stage' = [stage EXCEPT ![t] = "checking"] /\ stage[t] = "got"
        /\ claims[u] = NoWorker /\ claims' = [claims EXCEPT ![u] = wid[t]]
        /\ UNCHANGED <<queue, unqueued, wid, job, ctl>>
    BY <1>4 DEF Claim, Move, claim_uuid
  <2>3. Types'
    BY <2>1, <2>2 DEF Types, CtlOK, Holding, Stages
  <2>4. ASSUME NEW r \in Threads, stage[r] \in Holding PROVE WatchOf[job[r]] # u
    BY <2>1, <2>2, <2>4, NoWorkerAssumption DEF Types, Exclusive
  <2>5. Exclusive'
    <3>1. ASSUME NEW r \in Threads, stage'[r] \in Holding
          PROVE  claims'[WatchOf[job'[r]]] = wid'[r]
      <4>1. CASE r = t
        BY <2>1, <2>2, <4>1 DEF Types
      <4>2. CASE r # t
        BY <2>1, <2>2, <2>4, <3>1, <4>2 DEF Types, Exclusive
      <4> QED
        BY <4>1, <4>2
    <3>2. ASSUME NEW r \in Threads, NEW s \in Threads, stage'[r] \in Holding,
                 stage'[s] \in Holding, WatchOf[job'[r]] = WatchOf[job'[s]]
          PROVE  r = s
      BY <2>2, <2>4, <3>2 DEF Types, Exclusive
    <3> QED
      BY <3>1, <3>2 DEF Exclusive
  <2> QED
    BY <2>3, <2>5
<1>5. CASE Defer(t)
  <2>1. Types'
    BY <1>5 DEF Defer, Move, Types, CtlOK, Holding, Stages
  <2> QED
    BY <1>5, <2>1, KeepsExclusive DEF Defer, Move, Types, CtlOK, Holding, Stages
<1>6. CASE Requeue(t)
  <2>1. Types'
    BY <1>6 DEF Requeue, Move, Types, CtlOK, Holding, Stages
  <2> QED
    BY <1>6, <2>1, KeepsExclusive DEF Requeue, Move, Types, CtlOK, Holding, Stages
<1>7. CASE Finish(t)
  <2>1. Types'
    BY <1>7 DEF Finish, Move, Types, CtlOK, Holding, Stages
  <2> QED
    BY <1>7, <2>1, KeepsExclusive DEF Finish, Move, Types, CtlOK, Holding, Stages
<1>8. CASE Release(t)
  <2>1. Types'
    BY <1>8 DEF Release, Move, release_uuid, Types, CtlOK, Holding, Stages
  <2> QED
    BY <1>8, <2>1, ReleaseKeepsExclusive DEF Release, Move, Types, CtlOK, Holding, Stages
<1> QED
  BY <1>1, <1>2, <1>3, <1>4, <1>5, <1>6, <1>7, <1>8 DEF Work

LEMMA CancelledStep ==
  ASSUME Inv, NEW t \in Threads, Cancelled(t)
  PROVE  Inv'
<1> USE DEF Inv
<1>1. Types'
  BY DEF Cancelled, Gone, release_uuid, Types, CtlOK, Holding, Stages
<1> QED
  BY <1>1, ReleaseKeepsExclusive DEF Cancelled, Gone, Types, CtlOK, Holding, Stages

LEMMA StoppedStep ==
  ASSUME Inv, NEW t \in Threads, Stopped(t)
  PROVE  Inv'
<1> USE DEF Inv
<1>1. CASE HaltGetting(t)
  <2>1. Types'
    BY <1>1 DEF HaltGetting, Move, Types, CtlOK, Holding, Stages
  <2> QED
    BY <1>1, <2>1, KeepsExclusive DEF HaltGetting, Move, Types, CtlOK, Holding, Stages
<1>2. CASE HaltHolding(t)
  <2>1. Types'
    BY <1>2 DEF HaltHolding, Gone, Types, CtlOK, Holding, Stages
  <2> QED
    BY <1>2, <2>1, KeepsExclusive DEF HaltHolding, Gone, Types, CtlOK, Holding, Stages
<1>3. CASE HaltChecking(t)
  <2>1. Types'
    BY <1>3 DEF HaltChecking, Types, CtlOK, Holding, Stages
  <2> QED
    BY <1>3, <2>1, KeepsExclusive DEF HaltChecking, Types, CtlOK, Holding, Stages
<1>4. CASE GhostGet(t) \/ GhostEmpty(t)
  <2>1. Types'
    BY <1>4 DEF GhostGet, GhostEmpty, Gone, Types, CtlOK, Holding, Stages
  <2> QED
    BY <1>4, <2>1, KeepsExclusive DEF GhostGet, GhostEmpty, Gone, Types, CtlOK, Holding, Stages
<1>5. CASE Finalize(t)
  <2>1. Types'
    BY <1>5 DEF Finalize, Gone, release_uuid, Types, CtlOK, Holding, Stages
  <2> QED
    BY <1>5, <2>1, ReleaseKeepsExclusive DEF Finalize, Gone, Types, CtlOK, Holding, Stages
<1>6. CASE Leak(t)
  <2>1. Types'
    BY <1>6 DEF Leak, Gone, Types, CtlOK, Holding, Stages
  <2> QED
    BY <1>6, <2>1, KeepsExclusive DEF Leak, Gone, Types, CtlOK, Holding, Stages
<1> QED
  BY <1>1, <1>2, <1>3, <1>4, <1>5, <1>6 DEF Stopped

\* Controllers that do not reach the point between an ID and its thread.
LEMMA CtlStep ==
  ASSUME CtlOK, NEW c \in Controllers, NEW r, SetCtl(c, r), r.pc # "start"
  PROVE  CtlOK'
BY DEF CtlOK, SetCtl

LEMMA ControlStep ==
  ASSUME Inv, NoCancel, NEW c \in Controllers, Control(c)
  PROVE  Inv'
<1> USE DEF Inv
<1>1. CASE AddId(c)
  <2>1. PICK n \in 0..Len(pool) :
          ctl' = [ctl EXCEPT ![c] = [pc |-> "start", left |-> ctl[c].left, id |-> n]]
    BY <1>1 DEF AddId, SetCtl
  <2>2. UNCHANGED workerVars
    BY <1>1 DEF AddId
  <2>3. Types'
    BY <2>1, <2>2 DEF Types, CtlOK, workerVars
  <2> QED
    BY <2>2, <2>3, KeepsExclusive DEF workerVars, Types
<1>2. CASE AddStart(c)
  <2>1. PICK t \in Fresh : /\ stage' = [stage EXCEPT ![t] = "starting"]
                           /\ wid' = [wid EXCEPT ![t] = ctl[c].id]
    BY <1>2 DEF AddStart
  <2>2. t \in Threads /\ stage[t] = "none" /\ ctl[c].id \in Nat
    BY <1>2, <2>1 DEF AddStart, Fresh, Types, CtlOK
  <2>3. /\ UNCHANGED <<queue, unqueued, job, claims>>
        /\ ctl' = [ctl EXCEPT ![c] = AddNext(ctl[c].left - 1)]
    BY <1>2 DEF AddStart, SetCtl
  <2>4. Types'
    BY <2>1, <2>2, <2>3 DEF Types, CtlOK, AddNext, Idle, Holding, Stages
  <2> QED
    BY <2>1, <2>2, <2>3, <2>4, KeepsExclusive DEF Types, Holding
<1>3. CASE Adjust(c)
  <2> DEFINE r == LET more == ctl[c].count - Len(pool)
                  IN  IF more < 0 THEN [pc |-> "remove", left |-> 0 - more]
                      ELSE AddNext(more)
  <2>a. SetCtl(c, r) /\ r.pc # "start"
    BY <1>3 DEF Adjust, AddNext, Idle
  <2>b. CtlOK'
    BY <2>a, CtlStep DEF Types
  <2>1. UNCHANGED workerVars
    BY <1>3 DEF Adjust
  <2>2. Types'
    BY <2>b, <2>1 DEF Types, workerVars
  <2> QED
    BY <2>1, <2>2, KeepsExclusive DEF workerVars, Types
<1>4. CASE RemoveWorker(c)
  <2> DEFINE r == IF ctl[c].left > 1 THEN [pc |-> "remove", left |-> ctl[c].left - 1] ELSE Idle
  <2>a. SetCtl(c, r) /\ r.pc # "start"
    BY <1>4 DEF RemoveWorker, Idle
  <2>b. CtlOK'
    BY <2>a, CtlStep DEF Types
  <2>1. UNCHANGED <<queue, unqueued, wid, job, claims>>
    BY <1>4 DEF RemoveWorker
  <2>2. stage' \in [Threads -> Stages]
        /\ \A t \in Threads : stage'[t] \in {stage[t], "none"}
    BY <1>4 DEF RemoveWorker, Forget, Types, Stages
  <2>3. Types'
    BY <2>b, <2>1, <2>2 DEF Types, Holding
  <2> QED
    BY <2>1, <2>2, <2>3, KeepsExclusive DEF Types, Holding
<1>5. CASE CancelStop(c)
  <2> DEFINE r == AddNext(1)
  <2>a. SetCtl(c, r) /\ r.pc # "start"
    BY <1>5 DEF CancelStop, AddNext, Idle
  <2>b. CtlOK'
    BY <2>a, CtlStep DEF Types
  <2>1. UNCHANGED <<queue, unqueued, wid, job, claims>>
    BY <1>5 DEF CancelStop
  <2>2. stage' \in [Threads -> Stages]
        /\ \A t \in Threads : stage'[t] \in {stage[t], "none"}
    BY <1>5 DEF CancelStop, Forget, Types, Stages
  <2>3. Types'
    BY <2>b, <2>1, <2>2 DEF Types, Holding
  <2> QED
    BY <2>1, <2>2, <2>3, KeepsExclusive DEF Types, Holding
<1>6. CASE HealthReap(c)
  <2> DEFINE r == AddNext(ctl[c].left)
  <2>a. SetCtl(c, r) /\ r.pc # "start"
    BY <1>6 DEF HealthReap, AddNext, Idle
  <2>b. CtlOK'
    BY <2>a, CtlStep DEF Types
  <2>1. UNCHANGED <<queue, unqueued, wid, job, claims>>
    BY <1>6 DEF HealthReap
  <2>2. stage' \in [Threads -> Stages]
        /\ \A t \in Threads : stage'[t] \in {stage[t], "none"}
    BY <1>6 DEF HealthReap, Forget, Types, Stages
  <2>3. Types'
    BY <2>b, <2>1, <2>2 DEF Types, Holding
  <2> QED
    BY <2>1, <2>2, <2>3, KeepsExclusive DEF Types, Holding
<1>7. CASE HealthCount(c) \/ HealthScan(c) \/ \E n \in Sizes : SaveSettings(c, n)
  <2>1. UNCHANGED workerVars
    BY <1>7 DEF HealthCount, HealthScan, SaveSettings
  <2>2. CtlOK'
    <3>1. CASE HealthCount(c) \/ HealthScan(c)
      BY <3>1 DEF HealthCount, HealthScan, SetCtl, CtlOK, Types
    <3>2. ASSUME NEW n \in Sizes, SaveSettings(c, n) PROVE CtlOK'
      BY <3>2 DEF SaveSettings, SetCtl, CtlOK, Types
    <3> QED
      BY <1>7, <3>1, <3>2
  <2>3. Types'
    BY <2>1, <2>2 DEF Types, workerVars
  <2> QED
    BY <2>1, <2>3, KeepsExclusive DEF workerVars, Types
<1>8. ASSUME NEW u \in Watches, CancelDrop(c, u) PROVE FALSE
  BY <1>8 DEF CancelDrop, NoCancel
<1> QED
  BY <1>1, <1>2, <1>3, <1>4, <1>5, <1>6, <1>7, <1>8 DEF Control, Continue

LEMMA InvStep ==
  ASSUME NoCancel
  PROVE  Inv /\ [Next]_vars => Inv'
<1> SUFFICES ASSUME Inv, [Next]_vars PROVE Inv'
  OBVIOUS
<1>1. ASSUME NEW j \in Jobs, Put(j) PROVE Inv'
  <2>1. Types'
    BY <1>1 DEF Put, Inv, Types, CtlOK
  <2> QED
    BY <1>1, <2>1, KeepsExclusive DEF Put, Inv, Types, CtlOK
<1>2. CASE UNCHANGED vars
  BY <1>2 DEF vars, workerVars, Inv, Types, CtlOK, Exclusive
<1> QED
  BY <1>1, <1>2, WorkStep, CancelledStep, StoppedStep, ControlStep DEF Next

\* As long as no running check is cancelled, two workers never check the same
\* watch at the same time.
THEOREM MutualExclusion ==
  ASSUME NoCancel
  PROVE  Spec => []OneCheckPerWatch
<1>1. Inv => OneCheckPerWatch
  BY DEF Inv, Exclusive, OneCheckPerWatch, Checking, Holding
<1> QED
  BY <1>1, InvInit, InvStep, PTL DEF Spec

-----------------------------------------------------------------------------
\* Jobs, for any controllers: the sets are disjoint, a thread holds a job in the
\* stages that have one, and no two threads hold the same.
Handed == Holding \cup {"got", "deferring"}

JobTypes == /\ unqueued \subseteq Jobs /\ queue \subseteq Jobs /\ settled \subseteq Jobs
            /\ stage \in [Threads -> Stages]
            /\ job \in [Threads -> Jobs \cup {NoJob}]
            /\ \A t \in Threads : stage[t] \in Handed <=> job[t] # NoJob

OnePlace == /\ unqueued \cap queue = {} /\ unqueued \cap settled = {} /\ queue \cap settled = {}
            /\ \A t \in Threads : job[t] \notin unqueued \cup queue \cup settled
            /\ \A t, r \in Threads : job[t] # NoJob /\ job[t] = job[r] => t = r

JobInv == JobTypes /\ OnePlace

LEMMA JobInit == Init => JobInv
BY NoJobAssumption DEF Init, JobInv, JobTypes, OnePlace, Handed, Holding, Stages

\* Steps that leave every job where it is.
LEMMA JobsStay ==
  ASSUME JobInv, UNCHANGED <<unqueued, queue, settled, job>>,
         stage' \in [Threads -> Stages],
         \A t \in Threads : stage'[t] \in Handed <=> stage[t] \in Handed
  PROVE  JobInv'
BY DEF JobInv, JobTypes, OnePlace

\* Steps in which t has checked its job, or given it up as checked.
LEMMA JobSettled ==
  ASSUME JobInv, NEW t \in Threads, stage[t] \in Handed,
         settled' = settled \cup {job[t]}, job' = [job EXCEPT ![t] = NoJob],
         UNCHANGED <<unqueued, queue>>,
         stage' \in [Threads -> Stages], stage'[t] \notin Handed,
         \A r \in Threads \ {t} : stage'[r] = stage[r]
  PROVE  JobInv'
<1>1. job[t] \in Jobs
  BY DEF JobInv, JobTypes
<1>2. JobTypes'
  BY <1>1 DEF JobInv, JobTypes
<1>3. OnePlace'
  BY <1>1, NoJobAssumption DEF JobInv, JobTypes, OnePlace
<1> QED
  BY <1>2, <1>3 DEF JobInv

LEMMA GoneStage ==
  ASSUME NEW t \in Threads, stage \in [Threads -> Stages], Gone(t)
  PROVE  /\ stage' \in [Threads -> Stages] /\ stage'[t] \notin Handed
         /\ \A r \in Threads \ {t} : stage'[r] = stage[r]
BY DEF Gone, Stages, Handed, Holding

LEMMA JobWork ==
  ASSUME JobInv, NEW t \in Threads, Work(t)
  PROVE  JobInv'
<1> USE DEF Move, Handed, Holding, Stages
<1>1. CASE Boot(t) \/ Claim(t) \/ Defer(t) \/ Finish(t)
  BY <1>1, JobsStay DEF Boot, Claim, Defer, Finish, JobInv, JobTypes
<1>2. CASE Get(t)
  <2>1. PICK j \in queue : queue' = queue \ {j} /\ job' = [job EXCEPT ![t] = j]
    BY <1>2 DEF Get
  <2>2. /\ stage[t] = "getting" /\ stage' = [stage EXCEPT ![t] = "got"]
        /\ UNCHANGED <<unqueued, settled>>
    BY <1>2 DEF Get
  <2>3. j \in Jobs /\ j # NoJob
    BY NoJobAssumption DEF JobInv, JobTypes
  <2>4. JobTypes'
    BY <2>1, <2>2, <2>3 DEF JobInv, JobTypes
  <2>5. OnePlace'
    BY <2>1, <2>2, <2>3 DEF JobInv, JobTypes, OnePlace
  <2> QED
    BY <2>4, <2>5 DEF JobInv
<1>3. CASE GetEmpty(t)
  BY <1>3 DEF GetEmpty, vars, workerVars, JobInv, JobTypes, OnePlace
<1>4. CASE Requeue(t)
  <2>1. /\ stage[t] = "deferring" /\ stage' = [stage EXCEPT ![t] = "getting"]
        /\ queue' = queue \cup {job[t]} /\ job' = [job EXCEPT ![t] = NoJob]
        /\ UNCHANGED <<unqueued, settled>>
    BY <1>4 DEF Requeue
  <2>2. job[t] \in Jobs
    BY <2>1 DEF JobInv, JobTypes
  <2>3. JobTypes'
    BY <2>1, <2>2 DEF JobInv, JobTypes
  <2>4. OnePlace'
    BY <2>1, <2>2, NoJobAssumption DEF JobInv, JobTypes, OnePlace
  <2> QED
    BY <2>3, <2>4 DEF JobInv
<1>5. CASE Release(t)
  BY <1>5, JobSettled DEF Release, JobInv, JobTypes
<1> QED
  BY <1>1, <1>2, <1>3, <1>4, <1>5 DEF Work

LEMMA JobCancelled ==
  ASSUME JobInv, NEW t \in Threads, Cancelled(t)
  PROVE  JobInv'
BY GoneStage, JobSettled DEF Cancelled, JobInv, JobTypes, Handed, Holding

LEMMA JobStopped ==
  ASSUME JobInv, NEW t \in Threads, Stopped(t)
  PROVE  JobInv'
<1>1. CASE HaltGetting(t) \/ HaltChecking(t)
  BY <1>1, JobsStay
  DEF HaltGetting, HaltChecking, Move, Handed, Holding, Stages, JobInv, JobTypes
<1>2. CASE HaltHolding(t)
  <2>1. /\ stage[t] \in Handed /\ job' = [job EXCEPT ![t] = NoJob]
        /\ UNCHANGED <<unqueued, queue, settled>> /\ Gone(t)
    BY <1>2 DEF HaltHolding, Handed
  <2>2. JobTypes'
    BY <2>1, GoneStage DEF JobInv, JobTypes
  <2>3. OnePlace'
    BY <2>1, NoJobAssumption DEF JobInv, JobTypes, OnePlace
  <2> QED
    BY <2>2, <2>3 DEF JobInv
<1>3. CASE GhostGet(t)
  <2>1. /\ stage[t] \notin Handed /\ Gone(t)
        /\ queue' \subseteq queue /\ UNCHANGED <<unqueued, settled, job>>
    BY <1>3 DEF GhostGet, Handed, Holding
  <2>2. JobTypes'
    BY <2>1, GoneStage DEF JobInv, JobTypes
  <2>3. OnePlace'
    BY <2>1 DEF JobInv, OnePlace
  <2> QED
    BY <2>2, <2>3 DEF JobInv
<1>4. CASE GhostEmpty(t)
  BY <1>4, GoneStage, JobsStay DEF GhostEmpty, Handed, Holding, JobInv, JobTypes
<1>5. CASE Finalize(t) \/ Leak(t)
  BY <1>5, GoneStage, JobSettled DEF Finalize, Leak, Handed, Holding, JobInv, JobTypes
<1> QED
  BY <1>1, <1>2, <1>3, <1>4, <1>5 DEF Stopped

LEMMA JobControl ==
  ASSUME JobInv, NEW c \in Controllers, Control(c)
  PROVE  JobInv'
<1> USE DEF Handed, Holding, Stages
<1>1. UNCHANGED <<unqueued, queue, settled, job>>
  BY DEF Control, Continue, AddId, AddStart, Adjust, RemoveWorker, CancelStop, HealthReap,
         HealthCount, HealthScan, SaveSettings, CancelDrop, workerVars
<1>2. /\ stage' \in [Threads -> Stages]
      /\ \A t \in Threads : stage'[t] \in Handed <=> stage[t] \in Handed
  <2>1. CASE AddStart(c)
    BY <2>1 DEF AddStart, Fresh, JobInv, JobTypes
  <2>2. CASE RemoveWorker(c) \/ CancelStop(c) \/ HealthReap(c)
    BY <2>2 DEF RemoveWorker, CancelStop, HealthReap, Forget, JobInv, JobTypes
  <2>3. CASE UNCHANGED stage
    BY <2>3 DEF JobInv, JobTypes
  <2> QED
    BY <2>1, <2>2, <2>3 DEF Control, Continue, AddId, Adjust, HealthCount, HealthScan,
                            SaveSettings, CancelDrop, workerVars
<1> QED
  BY <1>1, <1>2, JobsStay

LEMMA JobStep == JobInv /\ [Next]_vars => JobInv'
<1> SUFFICES ASSUME JobInv, [Next]_vars PROVE JobInv'
  OBVIOUS
<1>1. ASSUME NEW j \in Jobs, Put(j) PROVE JobInv'
  BY <1>1, NoJobAssumption DEF Put, JobInv, JobTypes, OnePlace
<1>2. CASE UNCHANGED vars
  BY <1>2 DEF vars, workerVars, JobInv, JobTypes, OnePlace
<1> QED
  BY <1>1, <1>2, JobWork, JobCancelled, JobStopped, JobControl DEF Next

LEMMA PlacesOf ==
  ASSUME JobInv, NEW j \in Jobs
  PROVE  /\ Cardinality(Places(j)) <= 1
         /\ (j \in unqueued \cup queue \cup settled \/ \E t \in Threads : job[t] = j)
              => Cardinality(Places(j)) = 1
<1>1. \A p, q \in Places(j) : p = q
  BY NoJobAssumption DEF JobInv, JobTypes, OnePlace, Places
<1>2. CASE Places(j) = {}
  <2>1. j \notin unqueued /\ j \notin queue /\ j \notin settled
    <3>1. j \in unqueued => <<"unqueued", 0>> \in Places(j)
      BY DEF Places
    <3>2. j \in queue => <<"queue", 0>> \in Places(j)
      BY DEF Places
    <3>3. j \in settled => <<"settled", 0>> \in Places(j)
      BY DEF Places
    <3> QED
      BY <1>2, <3>1, <3>2, <3>3
  <2>2. ASSUME NEW t \in Threads PROVE job[t] # j
    <3>1. job[t] = j => <<"hand", t>> \in Places(j)
      BY DEF Places
    <3> QED
      BY <1>2, <3>1
  <2> QED
    BY <1>2, <2>1, <2>2, FS_EmptySet
<1>3. ASSUME NEW p \in Places(j) PROVE Cardinality(Places(j)) = 1
  <2>1. Places(j) = {p}
    BY <1>1
  <2> QED
    BY <2>1, FS_Singleton
<1> QED
  BY <1>2, <1>3

\* A job is in one place at most, whatever controllers do to the workers.
THEOREM JobsAreNotDoubled == Spec => []NoJobTwice
<1>1. JobInv => NoJobTwice
  BY PlacesOf DEF NoJobTwice
<1> QED
  BY <1>1, JobInit, JobStep, PTL DEF Spec

-----------------------------------------------------------------------------
\* A job that a step leaves in some place is not lost in it.
LEMMA NotLost ==
  ASSUME NEW j \in Jobs,
         \/ j \in (unqueued \cup queue \cup settled)'
         \/ \E t \in Threads : job'[t] = j
  PROVE  ~Lost(j)
<1>1. j \in unqueued' => <<"unqueued", 0>> \in Places(j)'
  BY DEF Places
<1>2. j \in queue' => <<"queue", 0>> \in Places(j)'
  BY DEF Places
<1>3. j \in settled' => <<"settled", 0>> \in Places(j)'
  BY DEF Places
<1>4. ASSUME NEW t \in Threads, job'[t] = j PROVE <<"hand", t>> \in Places(j)'
  BY <1>4 DEF Places
<1> QED
  BY <1>1, <1>2, <1>3, <1>4 DEF Lost

\* A job that is lost had a place, and all its places are gone.
LEMMA LostFrom ==
  ASSUME NEW j \in Jobs, Lost(j)
  PROVE  /\ j \in unqueued \cup queue \cup settled \/ \E t \in Threads : job[t] = j
         /\ j \notin (unqueued \cup queue \cup settled)'
         /\ \A t \in Threads : job'[t] # j
<1>1. PICK p \in Places(j) : TRUE
  BY DEF Lost
<1>2. j \in unqueued \cup queue \cup settled \/ \E t \in Threads : job[t] = j
  BY <1>1 DEF Places
<1> QED
  BY <1>2, NotLost

\* Whatever controllers do, a job is lost only with a worker that was stopped, and no
\* other job with it.
THEOREM JobsAreLostWithWorkersOnly == Spec => LostWithWorkersOnly
<1>1. JobInv /\ [Next]_vars => [LossExplained]_vars
  <2> SUFFICES ASSUME JobInv, Next, NEW j \in Jobs, Lost(j)
               PROVE  /\ \E t \in Threads : EndOfHolder(t, j)
                      /\ \A i \in Jobs : Lost(i) => i = j
    BY DEF LossExplained
  <2>1. ~\E i \in Jobs : Put(i)
    BY LostFrom DEF Put
  <2>2. ~\E c \in Controllers : Control(c)
    BY LostFrom DEF Control, Continue, AddId, AddStart, Adjust, RemoveWorker, CancelStop,
       HealthReap, HealthCount, HealthScan, SaveSettings, CancelDrop, workerVars
  <2>3. PICK t \in Threads : Work(t) \/ Cancelled(t) \/ Stopped(t)
    BY <2>1, <2>2 DEF Next
  <2>4. CASE Work(t) \/ Cancelled(t)
    <3>1. job \in [Threads -> Jobs \cup {NoJob}]
      BY DEF JobInv, JobTypes
    <3>2. CASE Boot(t) \/ GetEmpty(t) \/ Claim(t) \/ Defer(t) \/ Finish(t)
      BY <3>2, LostFrom DEF Boot, GetEmpty, Claim, Defer, Finish, vars, workerVars
    <3>3. CASE Get(t)
      <4>1. stage[t] = "getting" /\ job[t] = NoJob
        BY <3>3 DEF Get, Move, JobInv, JobTypes, Handed, Holding
      <4>2. PICK i \in queue : queue' = queue \ {i} /\ job' = [job EXCEPT ![t] = i]
        BY <3>3 DEF Get
      <4> QED
        BY <3>1, <3>3, <4>1, <4>2, LostFrom, NoJobAssumption DEF Get
    <3>4. CASE Requeue(t)
      BY <3>1, <3>4, LostFrom DEF Requeue
    <3>5. CASE Release(t) \/ Cancelled(t)
      BY <3>1, <3>5, LostFrom DEF Release, Cancelled
    <3> QED
      BY <2>4, <3>2, <3>3, <3>4, <3>5 DEF Work
  <2>5. CASE HaltGetting(t) \/ HaltChecking(t) \/ GhostEmpty(t)
    BY <2>5, LostFrom DEF HaltGetting, HaltChecking, GhostEmpty
  <2>6. CASE Finalize(t) \/ Leak(t)
    BY <2>6, LostFrom DEF Finalize, Leak, JobInv, JobTypes
  <2>7. CASE HaltHolding(t)
    <3>1. \A i \in Jobs : Lost(i) => job[t] = i
      BY <2>7, LostFrom DEF HaltHolding, JobInv, JobTypes
    <3> QED
      BY <2>7, <3>1 DEF HaltHolding, Gone, EndOfHolder, JobInv, JobTypes
  <2>8. CASE GhostGet(t)
    <3>1. PICK i \in queue : queue' = queue \ {i}
      BY <2>8 DEF GhostGet
    <3>2. \A k \in Jobs : Lost(k) => k = i
      BY <2>8, <3>1, LostFrom DEF GhostGet
    <3> QED
      BY <2>8, <3>1, <3>2 DEF GhostGet, Gone, EndOfHolder, JobInv, JobTypes
  <2> QED
    BY <2>3, <2>4, <2>5, <2>6, <2>7, <2>8 DEF Stopped
<1> QED
  BY <1>1, JobInit, JobStep, PTL DEF Spec, LostWithWorkersOnly

-----------------------------------------------------------------------------
\* The pool while the ticker's health check is all that changes it: checks may
\* end their workers, but nobody stops one.
NobodyStops == \A c \in Controllers : Ops[c] \subseteq {"health"}

Unstopped == /\ halting = {}
             /\ \A t \in Threads : stage[t] \notin {"ghost", "zombie"}
             /\ \A c \in Controllers : ctl[c].pc \notin {"adjust", "remove", "stop"}

Kept == \A j \in Jobs : j \in unqueued \cup queue \cup settled \/ \E t \in Threads : job[t] = j

HealthInv == Inv /\ JobInv /\ Unstopped /\ Kept /\ NoClaimLeftBehind

LEMMA HealthInit == Init => HealthInv
<1> SUFFICES ASSUME Init PROVE HealthInv
  OBVIOUS
<1>1. Unstopped
  BY DEF Init, Unstopped, Idle
<1>2. Kept /\ NoClaimLeftBehind
  BY DEF Init, Kept, NoClaimLeftBehind
<1> QED
  BY <1>1, <1>2, InvInit, JobInit DEF HealthInv

\* Steps after which every claim is as before and so is the check it is for.
LEMMA ClaimsStay ==
  ASSUME NoClaimLeftBehind, claims' = claims,
         \A t \in Threads : stage[t] \in {"checking", "finishing"} =>
           /\ stage'[t] \in {"checking", "finishing"}
           /\ job'[t] = job[t] /\ wid'[t] = wid[t]
  PROVE  NoClaimLeftBehind'
BY DEF NoClaimLeftBehind, Checking

\* Steps that end the check of t and release its claim.
LEMMA ClaimsReleased ==
  ASSUME Inv, NoClaimLeftBehind, NEW t \in Threads, stage[t] \in {"checking", "finishing"},
         release_uuid(WatchOf[job[t]], wid[t]), wid' = wid,
         \A r \in Threads \ {t} : stage'[r] = stage[r] /\ job'[r] = job[r]
  PROVE  NoClaimLeftBehind'
<1>1. claims[WatchOf[job[t]]] = wid[t] /\ WatchOf[job[t]] \in Watches
  BY WatchOfAssumption DEF Inv, Types, Exclusive, Holding
<1>2. SUFFICES ASSUME NEW u \in Watches, claims'[u] # NoWorker
               PROVE  \E r \in Checking(u)' : wid'[r] = claims'[u]
  BY DEF NoClaimLeftBehind
<1>3. u # WatchOf[job[t]] /\ claims'[u] = claims[u]
  BY <1>1, <1>2 DEF release_uuid, Inv, Types
<1>4. PICK r \in Checking(u) : wid[r] = claims[u]
  BY <1>2, <1>3 DEF NoClaimLeftBehind
<1>5. r # t
  BY <1>3, <1>4 DEF Checking
<1> QED
  BY <1>3, <1>4, <1>5 DEF Checking

LEMMA HealthWork ==
  ASSUME HealthInv, NEW t \in Threads, Work(t) \/ Cancelled(t)
  PROVE  Unstopped' /\ Kept' /\ NoClaimLeftBehind'
<1> USE DEF HealthInv, Move
<1>1. Unstopped'
  BY DEF Work, Boot, Get, GetEmpty, Claim, Defer, Requeue, Finish, Release, Cancelled, Gone,
         vars, workerVars, Unstopped, Inv, Types
<1>2. CASE Boot(t) \/ Defer(t) \/ Finish(t)
  BY <1>1, <1>2, ClaimsStay DEF Boot, Defer, Finish, Kept, Inv, Types
<1>3. CASE Get(t)
  <2>1. PICK j \in queue : queue' = queue \ {j} /\ job' = [job EXCEPT ![t] = j]
    BY <1>3 DEF Get
  <2>2. /\ stage[t] = "getting" /\ stage' = [stage EXCEPT ![t] = "got"]
        /\ UNCHANGED <<unqueued, settled, wid, claims>>
    BY <1>3 DEF Get
  <2>3. job[t] = NoJob
    BY <2>2 DEF JobInv, JobTypes, Handed, Holding
  <2>4. Kept'
    BY <2>1, <2>2, <2>3, NoJobAssumption DEF Kept, Inv, Types
  <2>5. NoClaimLeftBehind'
    BY <2>1, <2>2, ClaimsStay DEF Inv, Types
  <2> QED
    BY <1>1, <2>4, <2>5
<1>4. CASE GetEmpty(t)
  BY <1>1, <1>4 DEF GetEmpty, vars, workerVars, Kept, NoClaimLeftBehind, Checking
<1>5. CASE Claim(t)
  <2>1. /\ stage[t] = "got" /\ stage' = [stage EXCEPT ![t] = "checking"]
        /\ claims' = [claims EXCEPT ![WatchOf[job[t]]] = wid[t]]
        /\ UNCHANGED <<unqueued, queue, settled, job, wid>>
    BY <1>5 DEF Claim, claim_uuid
  <2>2. Kept'
    BY <2>1 DEF Kept
  <2>3. ASSUME NEW u \in Watches, claims'[u] # NoWorker
        PROVE  \E r \in Checking(u)' : wid'[r] = claims'[u]
    <3>1. CASE u = WatchOf[job[t]]
      BY <2>1, <3>1 DEF Checking, Inv, Types
    <3>2. CASE u # WatchOf[job[t]]
      <4>1. claims[u] # NoWorker /\ claims'[u] = claims[u]
        BY <2>1, <2>3, <3>2 DEF Inv, Types
      <4> QED
        BY <2>1, <4>1 DEF NoClaimLeftBehind, Checking, Inv, Types
    <3> QED
      BY <3>1, <3>2
  <2> QED
    BY <1>1, <2>2, <2>3 DEF NoClaimLeftBehind
<1>6. CASE Requeue(t)
  <2>1. /\ stage[t] = "deferring" /\ stage' = [stage EXCEPT ![t] = "getting"]
        /\ queue' = queue \cup {job[t]} /\ job' = [job EXCEPT ![t] = NoJob]
        /\ UNCHANGED <<unqueued, settled, wid, claims>>
    BY <1>6 DEF Requeue
  <2>2. Kept'
    BY <2>1 DEF Kept, Inv, Types
  <2>3. NoClaimLeftBehind'
    BY <2>1, ClaimsStay DEF Inv, Types
  <2> QED
    BY <1>1, <2>2, <2>3
<1>7. CASE Release(t) \/ Cancelled(t)
  <2>1. /\ stage[t] \in {"checking", "finishing"}
        /\ release_uuid(WatchOf[job[t]], wid[t]) /\ wid' = wid
        /\ settled' = settled \cup {job[t]} /\ job' = [job EXCEPT ![t] = NoJob]
        /\ UNCHANGED <<unqueued, queue>>
        /\ \A r \in Threads \ {t} : stage'[r] = stage[r]
    BY <1>7, GoneStage DEF Release, Cancelled, Inv, Types
  <2>2. Kept'
    BY <2>1 DEF Kept, Inv, Types
  <2>3. NoClaimLeftBehind'
    BY <2>1, ClaimsReleased DEF Inv, Types
  <2> QED
    BY <1>1, <2>2, <2>3
<1> QED
  BY <1>2, <1>3, <1>4, <1>5, <1>6, <1>7 DEF Work

LEMMA HealthControl ==
  ASSUME HealthInv, NobodyStops, NEW c \in Controllers, Control(c)
  PROVE  Unstopped' /\ Kept' /\ NoClaimLeftBehind'
<1> USE DEF HealthInv
<1>1. HealthCount(c) \/ HealthScan(c) \/ HealthReap(c) \/ AddId(c) \/ AddStart(c)
  <2>1. ~Adjust(c) /\ ~RemoveWorker(c) /\ ~CancelStop(c)
    BY DEF Adjust, RemoveWorker, CancelStop, Unstopped
  <2>2. \A n \in Sizes : ~SaveSettings(c, n)
    BY DEF SaveSettings, NobodyStops
  <2>3. \A u \in Watches : ~CancelDrop(c, u)
    BY DEF CancelDrop, NobodyStops
  <2> QED
    BY <2>1, <2>2, <2>3 DEF Control, Continue
<1>2. /\ UNCHANGED <<unqueued, queue, settled, job, halting, claims>>
      /\ \A t \in Threads : /\ stage[t] # "none" => wid'[t] = wid[t]
                            /\ stage[t] \notin {"none", "dead"} => stage'[t] = stage[t]
                            /\ stage'[t] \notin {"ghost", "zombie"}
  <2>1. CASE AddStart(c)
    BY <2>1 DEF AddStart, Fresh, Unstopped, Inv, Types
  <2>2. CASE HealthReap(c)
    BY <2>2 DEF HealthReap, Forget, Unstopped, Inv, Types
  <2>3. CASE HealthCount(c) \/ HealthScan(c) \/ AddId(c)
    BY <2>3 DEF HealthCount, HealthScan, AddId, workerVars, Unstopped
  <2> QED
    BY <1>1, <2>1, <2>2, <2>3
<1>3. Unstopped'
  <2>1. \E r : SetCtl(c, r) /\ r.pc \in {"idle", "scan", "reap", "add", "start"}
    <3>1. CASE HealthCount(c) \/ HealthScan(c)
      BY <3>1 DEF HealthCount, HealthScan
    <3>2. CASE HealthReap(c)
      BY <3>2 DEF HealthReap, AddNext, Idle
    <3>3. CASE AddId(c)
      BY <3>3 DEF AddId
    <3>4. CASE AddStart(c)
      BY <3>4 DEF AddStart, AddNext, Idle
    <3> QED
      BY <1>1, <3>1, <3>2, <3>3, <3>4
  <2> QED
    BY <1>2, <2>1 DEF SetCtl, Unstopped, Inv, Types, CtlOK
<1>4. Kept'
  BY <1>2 DEF Kept
<1>5. NoClaimLeftBehind'
  BY <1>2, ClaimsStay
<1> QED
  BY <1>3, <1>4, <1>5

LEMMA HealthStep ==
  ASSUME NobodyStops
  PROVE  HealthInv /\ [Next]_vars => HealthInv'
<1> SUFFICES ASSUME HealthInv, [Next]_vars PROVE HealthInv'
  OBVIOUS
<1>1. Inv' /\ JobInv'
  BY InvStep, JobStep DEF HealthInv, NobodyStops, NoCancel
<1>2. Unstopped' /\ Kept' /\ NoClaimLeftBehind'
  <2>1. ASSUME NEW j \in Jobs, Put(j) PROVE Unstopped' /\ Kept' /\ NoClaimLeftBehind'
    <3>1. NoClaimLeftBehind'
      BY <2>1, ClaimsStay DEF Put, HealthInv
    <3> QED
      BY <2>1, <3>1 DEF Put, HealthInv, Unstopped, Kept
  <2>2. ASSUME NEW t \in Threads PROVE ~Stopped(t)
    BY DEF HealthInv, Unstopped, Stopped, HaltGetting, HaltHolding, HaltChecking, GhostGet,
           GhostEmpty, Finalize, Leak
  <2>3. CASE UNCHANGED vars
    BY <2>3 DEF vars, workerVars, HealthInv, Unstopped, Kept, NoClaimLeftBehind, Checking
  <2> QED
    BY <2>1, <2>2, <2>3, HealthWork, HealthControl DEF Next
<1> QED
  BY <1>1, <1>2 DEF HealthInv

\* While only the ticker changes the pool, a claim is always that of a check under way:
\* a worker that dies in its check takes no claim with it.
THEOREM ClaimsAreHeld ==
  ASSUME NobodyStops
  PROVE  Spec => []NoClaimLeftBehind
<1>1. HealthInv => NoClaimLeftBehind
  BY DEF HealthInv
<1> QED
  BY <1>1, HealthInit, HealthStep, PTL DEF Spec

\* Nor is a job dropped or duplicated, deferred ones and those of dead workers included.
THEOREM JobsAreKept ==
  ASSUME NobodyStops
  PROVE  Spec => []JobsKept
<1>1. HealthInv => JobsKept
  BY PlacesOf DEF HealthInv, Kept, JobsKept
<1> QED
  BY <1>1, HealthInit, HealthStep, PTL DEF Spec

-----------------------------------------------------------------------------
\* wait_for_all_checks().  What it may still miss: jobs it should wait for that are neither
\* settled nor were seen deferred.
Loose == owed \ (settled \cup asleep)

\* The loop is past a sample of the queue since it last saw work.
Sampled == waiter = "running" \/ (waiter = "size" /\ quiet)

\* Past the first quiet sample of the queue no such job is queued; past the first quiet
\* verdict those in hand are of the handovers noted then; past the second sample they are
\* claimed; and then there are none.
Narrowing ==
  /\ Sampled => \A t \in sleepers : job[t] \in asleep
  /\ waiter \in {"size", "running"} /\ (quiet \/ (waiter = "running" /\ empty)) =>
       Loose \cap queue = {}
  /\ waiter = "size" /\ quiet =>
       \A t \in Threads : job[t] \in Loose /\ stage[t] = "got" => t \in handing
  /\ waiter = "running" /\ quiet =>
       \A t \in Threads : job[t] \in Loose => stage[t] \in {"checking", "finishing"}
  /\ waiter = "true" => Loose = {}

WaitTypes == /\ waiter \in {"idle", "size", "running", "true", "false"}
             /\ empty \in BOOLEAN /\ quiet \in BOOLEAN
             /\ owed \subseteq Jobs \ unqueued
             /\ sleepers \subseteq Deferring

WaitInv == HealthInv /\ WaitTypes /\ Narrowing

LEMMA WaitInvInit == WaitInit => WaitInv
BY HealthInit DEF WaitInit, WaitInv, WaitTypes, Narrowing, Sampled

\* What a step of the pool does to jobs: it settles and hands over, and queues what was
\* never queued or deferred.
PoolEffect ==
  /\ settled \subseteq settled' /\ unqueued' \subseteq unqueued
  /\ \A j \in queue' \ queue :
       j \in unqueued \/ \E t \in Deferring : job[t] = j /\ stage'[t] # "deferring"
  /\ \A t \in Threads :
       /\ stage'[t] = "got" => (stage[t] = "got" /\ job'[t] = job[t]) \/ job'[t] \in queue
       /\ stage'[t] = "deferring" => job'[t] = job[t]
       /\ job'[t] = NoJob \/ job'[t] = job[t] \/ job'[t] \in queue
       /\ stage[t] \in {"checking", "finishing"} =>
            stage'[t] \in {"checking", "finishing"} \/ job'[t] = NoJob

LEMMA WorkEffect ==
  ASSUME HealthInv, NEW t \in Threads, Work(t) \/ Cancelled(t)
  PROVE  PoolEffect
<1> USE DEF HealthInv, JobInv, JobTypes, Move, PoolEffect, Deferring
<1>1. CASE Boot(t) \/ Claim(t) \/ Defer(t) \/ Finish(t)
  BY <1>1 DEF Boot, Claim, Defer, Finish
<1>2. CASE Get(t)
  BY <1>2 DEF Get
<1>3. CASE GetEmpty(t)
  BY <1>3 DEF GetEmpty, vars, workerVars
<1>4. CASE Requeue(t)
  BY <1>4 DEF Requeue
<1>5. CASE Release(t) \/ Cancelled(t)
  <2>1. /\ stage[t] \in {"checking", "finishing"}
        /\ settled' = settled \cup {job[t]} /\ job' = [job EXCEPT ![t] = NoJob]
        /\ UNCHANGED <<unqueued, queue>>
        /\ stage'[t] \notin {"got", "deferring"}
        /\ \A r \in Threads \ {t} : stage'[r] = stage[r]
    BY <1>5, GoneStage DEF Release, Cancelled, Handed, Holding
  <2> QED
    BY <2>1
<1> QED
  BY <1>1, <1>2, <1>3, <1>4, <1>5 DEF Work

LEMMA NextEffect ==
  ASSUME NobodyStops, HealthInv, Next
  PROVE  PoolEffect
<1>1. ASSUME NEW j \in Jobs, Put(j) PROVE PoolEffect
  BY <1>1 DEF Put, PoolEffect
<1>2. ASSUME NEW t \in Threads PROVE ~Stopped(t)
  BY DEF HealthInv, Unstopped, Stopped, HaltGetting, HaltHolding, HaltChecking, GhostGet,
         GhostEmpty, Finalize, Leak
<1>3. ASSUME NEW c \in Controllers, Control(c) PROVE PoolEffect
  <2>1. UNCHANGED <<unqueued, queue, settled, job>>
    BY <1>3 DEF Control, Continue, AddId, AddStart, Adjust, RemoveWorker, CancelStop,
                HealthReap, HealthCount, HealthScan, SaveSettings, CancelDrop, workerVars
  <2>2. \A t \in Threads : stage'[t] = stage[t] \/ stage'[t] \in {"none", "starting"}
    <3>1. CASE AddStart(c)
      BY <3>1 DEF AddStart, HealthInv, JobInv, JobTypes
    <3>2. CASE RemoveWorker(c) \/ CancelStop(c) \/ HealthReap(c)
      BY <3>2 DEF RemoveWorker, CancelStop, HealthReap, Forget, HealthInv, JobInv, JobTypes
    <3>3. CASE UNCHANGED stage
      BY <3>3
    <3> QED
      BY <1>3, <3>1, <3>2, <3>3 DEF Control, Continue, AddId, Adjust, HealthCount, HealthScan,
                                    SaveSettings, CancelDrop, workerVars
  <2>3. \A t \in Threads : stage[t] \in {"checking", "finishing"} => stage'[t] = stage[t]
    <3>1. CASE AddStart(c)
      BY <3>1 DEF AddStart, Fresh, HealthInv, JobInv, JobTypes
    <3>2. CASE RemoveWorker(c) \/ CancelStop(c) \/ HealthReap(c)
      BY <3>2 DEF RemoveWorker, CancelStop, HealthReap, Forget, HealthInv, JobInv, JobTypes
    <3>3. CASE UNCHANGED stage
      BY <3>3
    <3> QED
      BY <1>3, <3>1, <3>2, <3>3 DEF Control, Continue, AddId, Adjust, HealthCount, HealthScan,
                                    SaveSettings, CancelDrop, workerVars
  <2> QED
    BY <2>1, <2>2, <2>3 DEF PoolEffect
<1> QED
  BY <1>1, <1>2, <1>3, WorkEffect DEF Next

\* A step of the pool neither queues a loose job again nor hands one over unnoted.
LEMMA PoolNarrows ==
  ASSUME NobodyStops, WaitInv, Pool
  PROVE  WaitTypes' /\ Narrowing'
<1> USE DEF WaitInv
<1>1. /\ UNCHANGED <<waiter, empty, quiet, owed, asleep>>
      /\ handing' = {t \in handing : stage'[t] = "got"}
      /\ sleepers' = {t \in sleepers : stage'[t] = "deferring"}
      /\ waiter \in {"size", "running"} =>
           \A t \in Deferring \ sleepers : stage'[t] = "deferring"
  BY DEF Pool, InTime
<1>2. PoolEffect
  BY NextEffect DEF Pool
<1>3. sleepers \subseteq Threads
  BY DEF WaitTypes, Deferring
<1>4. WaitTypes'
  BY <1>1, <1>2, <1>3 DEF WaitTypes, PoolEffect, Deferring
<1>5. Loose' \subseteq Loose /\ (Sampled' => Sampled) /\ NoJob \notin Loose
      /\ Loose \cap unqueued = {}
  BY <1>1, <1>2, NoJobAssumption DEF Loose, Sampled, PoolEffect, WaitTypes
<1>6. Sampled' => \A t \in sleepers' : job'[t] \in asleep'
  BY <1>1, <1>2, <1>3, <1>5 DEF Narrowing, PoolEffect
<1>7. ASSUME waiter \in {"size", "running"}, quiet \/ (waiter = "running" /\ empty)
      PROVE  Loose \cap queue = {} /\ Loose' \cap queue' = {}
  <2>1. Sampled /\ Loose \cap queue = {}
    BY <1>7 DEF Sampled, Narrowing
  <2>2. ASSUME NEW j \in Loose', j \in queue' PROVE FALSE
    <3>1. j \in Loose /\ j \notin queue /\ j \notin unqueued
      BY <1>5, <2>1, <2>2
    <3>2. PICK t \in Deferring : job[t] = j /\ stage'[t] # "deferring"
      BY <1>2, <2>2, <3>1 DEF PoolEffect
    <3>3. t \in sleepers
      BY <1>1, <1>7, <3>2
    <3>4. j \in asleep
      BY <2>1, <3>2, <3>3 DEF Narrowing
    <3> QED
      BY <3>1, <3>4 DEF Loose
  <2> QED
    BY <2>1, <2>2
<1>8. ASSUME waiter = "size", quiet, NEW t \in Threads, job'[t] \in Loose', stage'[t] = "got"
      PROVE  t \in handing'
  <2>1. job'[t] \in Loose /\ job'[t] \notin queue
    BY <1>5, <1>7, <1>8
  <2>2. stage[t] = "got" /\ job'[t] = job[t]
    BY <1>2, <1>8, <2>1 DEF PoolEffect
  <2> QED
    BY <1>1, <1>8, <2>1, <2>2 DEF Narrowing
<1>9. ASSUME waiter = "running", quiet, NEW t \in Threads, job'[t] \in Loose'
      PROVE  stage'[t] \in {"checking", "finishing"}
  <2>1. job'[t] \in Loose /\ job'[t] \notin queue /\ job'[t] # NoJob
    BY <1>5, <1>7, <1>9
  <2>2. job'[t] = job[t]
    BY <1>2, <2>1 DEF PoolEffect
  <2> QED
    BY <1>2, <1>9, <2>1, <2>2 DEF PoolEffect, Narrowing
<1>10. Narrowing'
  BY <1>1, <1>5, <1>6, <1>7, <1>8, <1>9 DEF Narrowing
<1> QED
  BY <1>4, <1>10

\* Where a loose job is: nothing is lost, so it is queued or in hand.
LEMMA LooseIsSomewhere ==
  ASSUME WaitInv, NEW j \in Loose
  PROVE  \/ j \in queue
         \/ \E t \in Threads : /\ job[t] = j
                               /\ stage[t] \in {"got", "deferring", "checking", "finishing"}
<1>1. j \in Jobs /\ j \notin unqueued /\ j \notin settled /\ j # NoJob
  BY NoJobAssumption DEF WaitInv, WaitTypes, Loose
<1>2. CASE j \notin queue
  <2>1. PICK t \in Threads : job[t] = j
    BY <1>1, <1>2 DEF WaitInv, HealthInv, Kept
  <2>2. stage[t] \in Handed /\ stage[t] # "zombie"
    BY <1>1, <2>1 DEF WaitInv, HealthInv, JobInv, JobTypes, Unstopped
  <2> QED
    BY <2>1, <2>2 DEF Handed, Holding
<1> QED
  BY <1>2

\* The loop's own steps.
LEMMA LoopNarrows ==
  ASSUME WaitInv, Call \/ SampleSize \/ SampleRunning \/ GiveUp \/ Again
  PROVE  WaitTypes' /\ Narrowing'
<1> USE DEF WaitInv
<1>0. UNCHANGED <<unqueued, queue, settled, stage, job, claims, wid>>
  BY DEF Call, SampleSize, SampleRunning, GiveUp, Again, vars, workerVars
<1>1. CASE Call
  <2>1. /\ waiter' = "size" /\ quiet' = FALSE /\ sleepers' = Deferring
        /\ owed' = Jobs \ unqueued /\ UNCHANGED <<empty, asleep>>
    BY <1>1 DEF Call
  <2> QED
    BY <1>0, <2>1 DEF WaitTypes, Narrowing, Sampled, Deferring
<1>2. CASE SampleSize
  <2>1. /\ waiter = "size" /\ waiter' = "running" /\ handing = {}
        /\ empty' = (queue = {}) /\ sleepers' = Deferring /\ UNCHANGED <<quiet, owed, handing>>
        /\ asleep' = (IF quiet THEN asleep ELSE {}) \cup {job[t] : t \in Deferring}
    BY <1>2 DEF SampleSize
  <2>2. WaitTypes'
    BY <1>0, <2>1 DEF WaitTypes, Deferring
  <2>3. \A t \in sleepers' : job'[t] \in asleep'
    BY <1>0, <2>1
  <2>4. quiet => Loose' \subseteq Loose
    BY <1>0, <2>1 DEF Loose
  <2>5. quiet' \/ empty' => Loose' \cap queue' = {}
    BY <1>0, <2>1, <2>4 DEF Narrowing
  <2>6. ASSUME quiet', NEW t \in Threads, job'[t] \in Loose'
        PROVE  stage'[t] \in {"checking", "finishing"}
    <3>1. job[t] \in Loose /\ job[t] # NoJob
      BY <1>0, <2>1, <2>4, <2>6, NoJobAssumption DEF Loose, WaitTypes
    <3>2. stage[t] \in Handed /\ stage[t] # "zombie"
      BY <3>1 DEF HealthInv, JobInv, JobTypes, Unstopped
    <3>3. stage[t] # "got"
      BY <2>1, <2>6, <3>1 DEF Narrowing
    <3>4. stage[t] # "deferring"
      BY <1>0, <2>1, <2>6 DEF Loose, Deferring
    <3> QED
      BY <1>0, <3>2, <3>3, <3>4 DEF Handed, Holding
  <2> QED
    BY <2>1, <2>2, <2>3, <2>5, <2>6 DEF Narrowing
<1>3. CASE SampleRunning
  <2> DEFINE calm == empty /\ \A u \in Watches : claims[u] = NoWorker
  <2>1. /\ waiter = "running" /\ waiter' = (IF calm /\ quiet THEN "true" ELSE "size")
        /\ quiet' = calm /\ handing' = HandingOver
        /\ UNCHANGED <<empty, owed, asleep, sleepers>>
    BY <1>3 DEF SampleRunning
  <2>2. WaitTypes' /\ Loose' = Loose
    BY <1>0, <2>1 DEF WaitTypes, Deferring, Loose
  <2>3. calm => \A t \in Threads : stage[t] \notin {"checking", "finishing"}
    BY WatchOfAssumption, NoWorkerAssumption
    DEF HealthInv, Inv, Types, Exclusive, Holding
  <2>4. calm => Loose \cap queue = {}
    BY <2>1 DEF Narrowing
  <2>5. calm /\ quiet => Loose = {}
    <3>1. ASSUME calm, quiet, NEW j \in Loose PROVE FALSE
      <4>1. PICK t \in Threads : job[t] = j
        BY <2>4, <3>1, LooseIsSomewhere
      <4> QED
        BY <2>1, <2>3, <3>1, <4>1 DEF Narrowing
    <3> QED
      BY <3>1
  <2>6. \A t \in Threads : stage'[t] = "got" => t \in handing'
    BY <1>0, <2>1 DEF HandingOver
  <2>7. Sampled' => \A t \in sleepers' : job'[t] \in asleep'
    BY <1>0, <2>1 DEF Narrowing, Sampled
  <2> HIDE DEF calm
  <2> QED
    BY <1>0, <2>1, <2>2, <2>4, <2>5, <2>6, <2>7 DEF Narrowing
<1>4. CASE GiveUp \/ Again
  <2>1. /\ waiter' \in {"false", "idle"}
        /\ UNCHANGED <<empty, quiet, owed, asleep, handing, sleepers>>
    BY <1>4 DEF GiveUp, Again
  <2> QED
    BY <1>0, <2>1 DEF WaitTypes, Narrowing, Sampled, Deferring
<1> QED
  BY <1>1, <1>2, <1>3, <1>4

\* While only the ticker changes the pool, the answer True misses no check that runs and no
\* job that is being handed over, only jobs seen deferred at a sample.
THEOREM TrueIsTrue ==
  ASSUME NobodyStops
  PROVE  WaitSpec => []TrueMissesOnlyDeferred
<1>1. WaitInv /\ [WaitNext]_waitVars => WaitInv'
  <2> SUFFICES ASSUME WaitInv, [WaitNext]_waitVars PROVE WaitInv'
    OBVIOUS
  <2>1. [Next]_vars
    BY DEF WaitNext, Pool, Call, SampleSize, SampleRunning, GiveUp, Again, waitVars
  <2>2. HealthInv'
    BY <2>1, HealthStep DEF WaitInv
  <2>3. CASE UNCHANGED waitVars
    BY <2>2, <2>3
    DEF WaitInv, WaitTypes, Narrowing, Sampled, Loose, Deferring, waitVars, vars, workerVars
  <2> QED
    BY <2>2, <2>3, PoolNarrows, LoopNarrows DEF WaitInv, WaitNext
<1>2. WaitInv => TrueMissesOnlyDeferred
  BY DEF WaitInv, Narrowing, TrueMissesOnlyDeferred, Loose
<1> QED
  BY <1>1, <1>2, WaitInvInit, PTL DEF WaitSpec

-----------------------------------------------------------------------------
\* The number of workers while one controller cancels checks and replaces dead workers: each
\* removal is made up for, and nothing more, because a listed worker's ID is below the number.
OneReplaces == /\ \A c, d \in Controllers : c = d
               /\ \A c \in Controllers : Ops[c] \subseteq {"cancel", "health"}

Numbers == 0..(StartCount - 1)

IdsOf(T) == {wid[t] : t \in T}

\* The IDs below the number that no thread of T has.
Missing(T) == Numbers \ IdsOf(T)

LevelTypes == /\ stage \in [Threads -> Stages] /\ wid \in [Threads -> Nat]
              /\ pool \in Seq(Threads)
              /\ claims \in [Watches -> Numbers \cup {NoWorker}]
              /\ target = StartCount
              /\ DOMAIN ctl = Controllers /\ ctl = [c \in Controllers |-> ctl[c]]

Numbered == /\ \A t \in Threads : stage[t] # "none" => wid[t] \in Numbers
            /\ \A t \in Listed : stage[t] # "none"
            /\ \A t, r \in Listed : wid[t] = wid[r] => t = r
            /\ Once(pool)

Surviving == {t \in Listed : IsAlive(t)}

Unscanned(dead) == {pool[i] : i \in DOMAIN pool \ dead}

\* How many workers a controller that has begun will add: no more than are missing, or will
\* be when it has taken the dead ones off the list.
Replaces(r) ==
  /\ r.pc \in {"idle", "stop", "scan", "reap", "add", "start"}
  /\ r.pc \in {"scan", "reap", "add", "start"} => r.left \in Int
  /\ r.pc = "stop" => r.id \in Numbers
  /\ r.pc = "scan" => r.left <= Cardinality(Missing(Surviving))
  /\ r.pc = "reap" => r.left <= Cardinality(Missing(Unscanned(r.dead)))
  /\ r.pc \in {"add", "start"} => r.left > 0 /\ r.left <= Cardinality(Missing(Listed))
  /\ r.pc = "start" => r.id \in Missing(Listed)

LevelInv == LevelTypes /\ Numbered /\ \A c \in Controllers : Replaces(ctl[c])

LEMMA NumbersFinite ==
  /\ StartCount \in Nat /\ Numbers \subseteq Nat
  /\ IsFiniteSet(Numbers) /\ Cardinality(Numbers) = StartCount
<1>1. StartCount \in Nat
  BY StartCountAssumption, MaxThreadsAssumption
<1> QED
  BY <1>1, FS_Interval DEF Numbers

LEMMA UpTo ==
  ASSUME NEW n \in Nat
  PROVE  IsFiniteSet(1..n) /\ Cardinality(1..n) = n
<1>1. 1 \in Int /\ n \in Int
  OBVIOUS
<1>2. IsFiniteSet(1..n) /\ Cardinality(1..n) = IF 1 > n THEN 0 ELSE n - 1 + 1
  BY <1>1, FS_Interval
<1> QED
  BY <1>2

\* Fewer threads leave more IDs.
LEMMA FewerMiss ==
  ASSUME NEW T, NEW U, U \subseteq T
  PROVE  /\ Missing(T) \subseteq Missing(U)
         /\ IsFiniteSet(Missing(T)) /\ Cardinality(Missing(T)) \in Nat
         /\ Cardinality(Missing(T)) <= Cardinality(Missing(U))
         /\ Cardinality(Missing(U)) \in Nat
<1>1. Missing(T) \subseteq Missing(U) /\ Missing(U) \subseteq Numbers
  BY DEF Missing, IdsOf
<1>2. IsFiniteSet(Missing(U))
  BY <1>1, NumbersFinite, FS_Subset
<1> QED
  BY <1>1, <1>2, FS_Subset, FS_CardinalityType

LEMMA LevelInit == Init => LevelInv
<1> SUFFICES ASSUME Init PROVE LevelInv
  OBVIOUS
<1>1. \A t \in Threads : t \in Nat /\ t - 1 \in Nat
  BY MaxThreadsAssumption DEF Threads
<1>2. /\ StartCount \in Nat /\ 1..StartCount \subseteq Threads
  BY NumbersFinite, StartCountAssumption, MaxThreadsAssumption DEF Threads
<1>3. pool = [i \in 1..StartCount |-> i] /\ pool \in Seq(Threads) /\ Len(pool) = StartCount
      /\ Listed = 1..StartCount
  BY <1>2 DEF Init, Listed
<1>4. LevelTypes
  BY <1>1, <1>3 DEF Init, LevelTypes, Stages
<1>5. Numbered
  BY <1>1, <1>2, <1>3 DEF Init, Numbered, Numbers, Once
<1>6. \A c \in Controllers : Replaces(ctl[c])
  BY DEF Init, Idle, Replaces
<1> QED
  BY <1>4, <1>5, <1>6 DEF LevelInv

\* Steps of workers: they leave the list as it is, claim under a number, and nobody rises
\* from the dead.
LEMMA WorkersKeepLevel ==
  ASSUME LevelInv, UNCHANGED <<wid, pool, target, ctl>>,
         stage' \in [Threads -> Stages], claims' \in [Watches -> Numbers \cup {NoWorker}],
         \A t \in Threads : /\ stage[t] = "none" => stage'[t] = "none"
                            /\ stage'[t] = "none" => stage[t] = "none" \/ t \notin Listed
                            /\ IsAlive(t)' => IsAlive(t)
  PROVE  LevelInv'
<1> USE DEF LevelInv
<1>1. Listed' = Listed /\ Listed \subseteq Threads
  BY DEF Listed, LevelTypes
<1>2. LevelTypes'
  BY DEF LevelTypes
<1>3. Numbered'
  BY <1>1 DEF Numbered
<1>4. Surviving' \subseteq Surviving
  BY <1>1 DEF Surviving
<1>5. Missing(Listed)' = Missing(Listed)
  BY <1>1 DEF Missing, IdsOf
<1>6. /\ Cardinality(Missing(Surviving)) <= Cardinality(Missing(Surviving)')
      /\ Cardinality(Missing(Surviving)) \in Nat /\ Cardinality(Missing(Surviving)') \in Nat
  <2>1. Missing(Surviving)' = Missing(Surviving')
    BY DEF Missing, IdsOf
  <2> QED
    BY <1>4, <2>1, FewerMiss
<1>7. ASSUME NEW c \in Controllers PROVE Replaces(ctl[c])'
  <2>1. ctl'[c] = ctl[c] /\ Replaces(ctl[c])
    OBVIOUS
  <2>2. Missing(Unscanned(ctl[c].dead))' = Missing(Unscanned(ctl[c].dead))
    BY <2>1 DEF Missing, IdsOf, Unscanned
  <2> DEFINE few == Cardinality(Missing(Surviving))
             many == Cardinality(Missing(Surviving)')
  <2>3. few \in Nat /\ many \in Nat /\ few <= many
    BY <1>6
  <2>4. /\ ctl[c].pc \in {"idle", "stop", "scan", "reap", "add", "start"}
        /\ ctl[c].pc \in {"scan", "reap", "add", "start"} => ctl[c].left \in Int
        /\ ctl[c].pc = "stop" => ctl[c].id \in Numbers
        /\ ctl[c].pc = "scan" => ctl[c].left <= few
    BY <2>1 DEF Replaces
  <2>5. ctl'[c].pc = "scan" => ctl'[c].left <= many
    <3> HIDE DEF few, many
    <3> QED
      BY <2>1, <2>3, <2>4
  <2> QED
    BY <1>5, <2>1, <2>2, <2>4, <2>5 DEF Replaces
<1> QED
  BY <1>2, <1>3, <1>7
LEMMA LevelWork ==
  ASSUME LevelInv, NEW t \in Threads, Work(t) \/ Cancelled(t) \/ Stopped(t)
  PROVE  LevelInv'
<1> USE DEF LevelInv, LevelTypes
<1>1. \A r \in Threads : r \in Listed => stage[r] # "none"
  BY DEF Numbered
<1>2. UNCHANGED <<wid, pool, target, ctl>>
  BY DEF Work, Boot, Get, GetEmpty, Claim, Defer, Requeue, Finish, Release, Cancelled, Stopped,
         HaltGetting, HaltHolding, HaltChecking, GhostGet, GhostEmpty, Finalize, Leak, vars,
         workerVars
<1>3. claims' \in [Watches -> Numbers \cup {NoWorker}]
  <2>1. CASE Claim(t)
    <3>1. wid[t] \in Numbers
      BY <2>1 DEF Claim, Move, Numbered
    <3> QED
      BY <2>1, <3>1 DEF Claim, claim_uuid
  <2>2. CASE Release(t) \/ Cancelled(t) \/ Finalize(t)
    BY <2>2 DEF Release, Cancelled, Finalize, release_uuid
  <2>3. CASE UNCHANGED claims
    BY <2>3
  <2> QED
    BY <2>1, <2>2, <2>3 DEF Work, Boot, Get, GetEmpty, Defer, Requeue, Finish, Stopped, HaltGetting,
         HaltHolding, HaltChecking, GhostGet, GhostEmpty, Leak, vars, workerVars
<1>4. \/ /\ stage[t] \notin {"none", "dead", "zombie", "ghost"}
         /\ \E to \in Stages \ {"none"} : stage' = [stage EXCEPT ![t] = to]
      \/ stage[t] # "none" /\ Gone(t)
      \/ UNCHANGED stage
  <2> USE DEF Stages
  <2>1. CASE Work(t)
    BY <2>1 DEF Work, Boot, Get, GetEmpty, Claim, Defer, Requeue, Finish, Release, Move, vars,
                workerVars
  <2>2. CASE Cancelled(t)
    BY <2>2 DEF Cancelled
  <2>3. CASE Stopped(t)
    BY <2>3 DEF Stopped, HaltGetting, HaltHolding, HaltChecking, GhostGet, GhostEmpty, Finalize,
                Leak, Move
  <2> QED
    BY <2>1, <2>2, <2>3
<1>5. /\ stage' \in [Threads -> Stages]
      /\ \A r \in Threads : /\ stage[r] = "none" => stage'[r] = "none"
                            /\ stage'[r] = "none" => stage[r] = "none" \/ r \notin Listed
                            /\ IsAlive(r)' => IsAlive(r)
  <2>1. CASE stage[t] # "none" /\ Gone(t)
    BY <2>1 DEF Gone, Stages, IsAlive
  <2>2. CASE /\ stage[t] \notin {"none", "dead", "zombie", "ghost"}
             /\ \E to \in Stages \ {"none"} : stage' = [stage EXCEPT ![t] = to]
    BY <2>2 DEF IsAlive
  <2>3. CASE UNCHANGED stage
    BY <2>3 DEF IsAlive
  <2> QED
    BY <1>4, <2>1, <2>2, <2>3
<1> QED
  BY <1>2, <1>3, <1>5, WorkersKeepLevel

-----------------------------------------------------------------------------
\* Taking threads off the list, with what is left of those that ended.
LEMMA TakenOff ==
  ASSUME LevelInv, NEW T, T \subseteq Listed, pool' = AllBut(pool, T), Forget(T),
         UNCHANGED <<wid, claims, target>>, DOMAIN ctl' = Controllers,
         ctl' = [c \in Controllers |-> ctl'[c]]
  PROVE  /\ LevelTypes' /\ Numbered' /\ Listed' = Listed \ T
<1> USE DEF LevelInv, LevelTypes
<1>1. pool' \in Seq(Threads) /\ Range(pool') = Range(pool) \ T /\ (Once(pool) => Once(pool'))
  BY AllButIs
<1>2. Listed' = Listed \ T
  BY <1>1 DEF Listed, Range
<1>3. stage' \in [Threads -> Stages]
  BY DEF Forget, Stages
<1>4. Listed \subseteq Threads
  BY DEF Listed
<1>5. Numbered'
  <2>1. \A t \in Threads : stage'[t] # "none" => wid'[t] \in Numbers
    BY DEF Forget, Numbered
  <2>2. \A t \in Listed' : stage'[t] # "none"
    BY <1>2, <1>4 DEF Forget, Numbered
  <2>3. \A t, r \in Listed' : wid'[t] = wid'[r] => t = r
    BY <1>2 DEF Numbered
  <2>4. Once(pool)'
    BY <1>1 DEF Numbered, Once
  <2> QED
    BY <2>1, <2>2, <2>3, <2>4 DEF Numbered
<1> QED
  BY <1>1, <1>2, <1>3, <1>5

\* The controller's own steps: it adds, cancels, and replaces the dead.
LEMMA LevelAdd ==
  ASSUME LevelInv, OneReplaces, NEW c \in Controllers, AddId(c) \/ AddStart(c)
  PROVE  LevelInv'
<1> USE DEF LevelInv, LevelTypes
<1>0. \A d \in Controllers : d = c
  BY DEF OneReplaces
<1>1. ctl[c].left \in Int /\ ctl[c].left > 0 /\ ctl[c].left <= Cardinality(Missing(Listed))
  BY DEF AddId, AddStart, Replaces
<1>2. IsFiniteSet(Missing(Listed)) /\ Cardinality(Missing(Listed)) \in Nat
  BY FewerMiss
<1>3. UsedIds = IdsOf(Listed)
  BY DEF UsedIds, IdsOf
<1>4. CASE AddId(c)
  <2>1. PICK n \in 0..Len(pool) :
          LowestFree(n) /\ ctl' = [ctl EXCEPT ![c] = [pc |-> "start", left |-> ctl[c].left, id |-> n]]
    BY <1>4 DEF AddId, SetCtl
  <2>2. UNCHANGED <<stage, wid, pool, claims, target>>
    BY <1>4 DEF AddId, workerVars
  <2>3. Missing(Listed) # {}
    BY <1>1, <1>2, FS_EmptySet
  <2>4. PICK x \in Numbers : x \notin IdsOf(Listed)
    BY <2>3 DEF Missing
  <2>5. n \in Missing(Listed)
    <3>1. n \notin IdsOf(Listed) /\ 0..(n - 1) \subseteq IdsOf(Listed) /\ n \in Nat
      BY <1>3, <2>1 DEF LowestFree
    <3>2. x \in Nat /\ x <= StartCount - 1 /\ StartCount \in Nat
      BY NumbersFinite DEF Numbers
    <3>3. n <= x
      BY <2>4, <3>1, <3>2
    <3> QED
      BY <3>1, <3>2, <3>3 DEF Missing, Numbers
  <2>6. LevelTypes' /\ Numbered' /\ Missing(Listed)' = Missing(Listed)
    BY <2>1, <2>2 DEF Numbered, Listed, Missing, IdsOf
  <2>7. ctl'[c] = [pc |-> "start", left |-> ctl[c].left, id |-> n]
    BY <2>1
  <2>8. Replaces(ctl[c])'
    BY <1>1, <2>5, <2>6, <2>7 DEF Replaces
  <2> QED
    BY <1>0, <2>6, <2>8
<1>5. CASE AddStart(c)
  <2> DEFINE n == ctl[c].id
             k == ctl[c].left - 1
  <2>1. PICK t \in Fresh : /\ stage' = [stage EXCEPT ![t] = "starting"]
                           /\ wid' = [wid EXCEPT ![t] = n]
                           /\ pool' = Append(pool, t)
    BY <1>5 DEF AddStart
  <2>2. UNCHANGED <<claims, target>> /\ ctl' = [ctl EXCEPT ![c] = AddNext(k)]
    BY <1>5 DEF AddStart, SetCtl
  <2>3. t \in Threads /\ t \notin Listed /\ n \in Missing(Listed)
    BY <1>5, <2>1 DEF AddStart, Fresh, Replaces
  <2>4. n \in Numbers /\ n \in Nat /\ n \notin IdsOf(Listed)
    BY <2>3, NumbersFinite DEF Missing
  <2>5. Listed' = Listed \cup {t} /\ Listed \subseteq Threads
    <3>1. Range(Append(pool, t)) = Range(pool) \cup {t}
      BY <2>3, RangeAppend
    <3>2. Listed = Range(pool) /\ Listed' = Range(pool')
      BY DEF Listed, Range
    <3>3. Listed \subseteq Threads
      BY DEF Listed
    <3> QED
      BY <2>1, <3>1, <3>2, <3>3
  <2>6. LevelTypes'
    <3>1. stage' \in [Threads -> Stages] /\ wid' \in [Threads -> Nat]
      BY <2>1, <2>3, <2>4 DEF Stages
    <3>2. pool' \in Seq(Threads)
      BY <2>1, <2>3
    <3>3. DOMAIN ctl' = Controllers /\ ctl' = [d \in Controllers |-> ctl'[d]]
      BY <2>2
    <3> QED
      BY <2>2, <3>1, <3>2, <3>3
  <2>7. Numbered'
    <3>1. \A r \in Threads : stage'[r] # "none" => wid'[r] \in Numbers
      BY <2>1, <2>3, <2>4 DEF Numbered
    <3>2. \A r \in Listed' : stage'[r] # "none"
      BY <2>1, <2>3, <2>5 DEF Numbered
    <3>3. ASSUME NEW q \in Listed', NEW r \in Listed', wid'[q] = wid'[r] PROVE q = r
      BY <2>1, <2>3, <2>4, <2>5, <3>3 DEF Numbered, IdsOf
    <3>4. Once(pool)'
      <4>1. t \notin Range(pool)
        BY <2>3 DEF Listed, Range
      <4>2. Once(Append(pool, t))
        BY <2>3, <4>1, AppendOnce DEF Numbered
      <4> QED
        BY <2>1, <4>2 DEF Once
    <3> QED
      BY <3>1, <3>2, <3>3, <3>4 DEF Numbered
  <2>8. Missing(Listed)' = Missing(Listed) \ {n}
    <3>1. {wid'[r] : r \in Listed'} = {wid[r] : r \in Listed} \cup {n}
      BY <2>1, <2>3, <2>5
    <3> QED
      BY <3>1 DEF Missing, IdsOf
  <2>9. Cardinality(Missing(Listed)') = Cardinality(Missing(Listed)) - 1
    <3>1. Cardinality(Missing(Listed) \ {n}) = Cardinality(Missing(Listed)) - 1
      <4> HIDE DEF n
      <4> QED
        BY <1>2, <2>3, FS_RemoveElement
    <3> QED
      BY <2>8, <3>1
  <2>10. k \in Int /\ k <= Cardinality(Missing(Listed))'
    BY <1>1, <1>2, <2>9
  <2>11. ctl'[c] = AddNext(k)
    BY <2>2
  <2>12. Replaces(ctl[c])'
    BY <1>1, <2>10, <2>11 DEF AddNext, Idle, Replaces
  <2> QED
    BY <1>0, <2>6, <2>7, <2>12
<1> QED
  BY <1>4, <1>5

LEMMA LevelCancel ==
  ASSUME LevelInv, OneReplaces, NEW c \in Controllers,
         CancelStop(c) \/ \E u \in Watches : CancelDrop(c, u)
  PROVE  LevelInv'
<1> USE DEF LevelInv, LevelTypes
<1>0. \A d \in Controllers : d = c
  BY DEF OneReplaces
<1>1. ASSUME NEW u \in Watches, CancelDrop(c, u) PROVE LevelInv'
  <2>1. /\ claims[u] \in Numbers /\ claims' = [claims EXCEPT ![u] = NoWorker]
        /\ ctl' = [ctl EXCEPT ![c] = [pc |-> "stop", id |-> claims[u], uuid |-> u]]
        /\ UNCHANGED <<stage, wid, pool, target>>
    BY <1>1 DEF CancelDrop, SetCtl
  <2>2. LevelTypes' /\ Numbered'
    BY <2>1 DEF Numbered, Listed
  <2>3. Replaces(ctl[c])'
    BY <2>1 DEF Replaces
  <2> QED
    BY <1>0, <2>2, <2>3
<1>2. CASE CancelStop(c)
  <2> DEFINE n == ctl[c].id
             found == WithId(n)
  <2>1. /\ pool' = AllBut(pool, found) /\ Forget(found)
        /\ ctl' = [ctl EXCEPT ![c] = AddNext(1)]
        /\ UNCHANGED <<wid, claims, target>>
    BY <1>2 DEF CancelStop, SetCtl
  <2>2. found \subseteq Listed /\ n \in Numbers
    BY <1>2 DEF WithId, CancelStop, Replaces
  <2>3. LevelTypes' /\ Numbered' /\ Listed' = Listed \ found
    BY <2>1, <2>2, TakenOff
  <2>4. ASSUME NEW t \in Listed, wid[t] = n PROVE t \in found
    <3>1. PICK i \in DOMAIN pool : pool[i] = t
      BY DEF Listed
    <3>2. ASSUME NEW k \in 1..(i - 1), wid[pool[k]] = n PROVE FALSE
      <4>1. k \in DOMAIN pool /\ i \in 1..Len(pool) /\ k \in 1..Len(pool) /\ k # i
        BY <3>1
      <4>2. pool[k] = pool[i]
        BY <2>4, <3>1, <3>2, <4>1 DEF Numbered, Listed
      <4> QED
        BY <4>1, <4>2 DEF Numbered, Once
    <3> QED
      BY <2>4, <3>1, <3>2 DEF WithId
  <2>5. n \in Missing(Listed)'
    BY <2>1, <2>2, <2>3, <2>4 DEF Missing, IdsOf
  <2>6. Cardinality(Missing(Listed)') \in Nat /\ Cardinality(Missing(Listed)') # 0
    <3>1. IsFiniteSet(Missing(Listed)')
      <4>1. Missing(Listed)' \subseteq Numbers
        BY DEF Missing
      <4> QED
        BY <4>1, NumbersFinite, FS_Subset
    <3> QED
      BY <2>5, <3>1, FS_EmptySet, FS_CardinalityType
  <2>7. Replaces(ctl[c])'
    BY <2>1, <2>6 DEF AddNext, Idle, Replaces
  <2> QED
    BY <1>0, <2>3, <2>7
<1> QED
  BY <1>1, <1>2

\* As many IDs are missing as positions are without a living worker, or more.
LEMMA AliveBound ==
  ASSUME LevelInv
  PROVE  /\ AliveCount \in Nat
         /\ StartCount - AliveCount <= Cardinality(Missing(Surviving))
<1> USE DEF LevelInv, LevelTypes
<1> DEFINE places == {i \in DOMAIN pool : IsAlive(pool[i])}
           ids == IdsOf(Surviving)
           f == [i \in places |-> wid[pool[i]]]
<1>1. IsFiniteSet(places) /\ Cardinality(places) \in Nat
  <2>0. Len(pool) \in Nat /\ DOMAIN pool = 1..Len(pool)
    OBVIOUS
  <2>1. IsFiniteSet(1..Len(pool)) /\ places \subseteq 1..Len(pool)
    BY <2>0, UpTo
  <2> QED
    BY <2>1, FS_Subset, FS_CardinalityType
<1>2. f \in Surjection(places, ids)
  BY DEF Surjection, IdsOf, Surviving, Listed
<1>3. IsFiniteSet(ids) /\ Cardinality(ids) <= Cardinality(places) /\ Cardinality(ids) \in Nat
  BY <1>1, <1>2, FS_Surjection, FS_CardinalityType
<1>4. /\ Cardinality(Missing(Surviving)) = Cardinality(Numbers) - Cardinality(Numbers \cap ids)
      /\ Cardinality(Numbers \cap ids) <= Cardinality(ids)
      /\ Cardinality(Numbers \cap ids) \in Nat
  <2>1. IsFiniteSet(Numbers \cap ids) /\ Cardinality(Numbers \cap ids) <= Cardinality(ids)
    BY <1>3, FS_Intersection
  <2> QED
    BY <2>1, NumbersFinite, FS_Difference, FS_CardinalityType DEF Missing
<1> QED
  BY <1>1, <1>3, <1>4, NumbersFinite DEF AliveCount

LEMMA LevelHealth ==
  ASSUME LevelInv, OneReplaces, NEW c \in Controllers,
         HealthCount(c) \/ HealthScan(c) \/ HealthReap(c)
  PROVE  LevelInv'
<1> USE DEF LevelInv, LevelTypes
<1>0. \A d \in Controllers : d = c
  BY DEF OneReplaces
<1>1. CASE HealthCount(c) \/ HealthScan(c)
  <2>1. UNCHANGED <<stage, wid, pool, claims, target>>
    BY <1>1 DEF HealthCount, HealthScan, workerVars
  <2>2. LevelTypes' /\ Numbered'
    BY <1>1, <2>1 DEF HealthCount, HealthScan, SetCtl, Numbered, Listed
  <2>3. CASE HealthCount(c)
    <3>1. ctl'[c] = [pc |-> "scan", left |-> target - AliveCount]
      BY <2>3 DEF HealthCount, SetCtl
    <3>2. Missing(Surviving)' = Missing(Surviving)
      BY <2>1 DEF Missing, IdsOf, Surviving, Listed, IsAlive
    <3>3. Replaces(ctl[c])'
      BY <3>1, <3>2, AliveBound, NumbersFinite DEF Replaces
    <3> QED
      BY <1>0, <2>2, <3>3
  <2>4. CASE HealthScan(c)
    <3> DEFINE dead == {i \in DOMAIN pool : ~IsAlive(pool[i])}
    <3>1. ctl'[c] = [pc |-> "reap", left |-> ctl[c].left, dead |-> dead]
      BY <2>4 DEF HealthScan, SetCtl
    <3>2. ctl[c].left \in Int /\ ctl[c].left <= Cardinality(Missing(Surviving))
      BY <2>4 DEF HealthScan, Replaces
    <3>3. Unscanned(dead) = Surviving
      BY DEF Unscanned, Surviving, Listed
    <3>4. Missing(Unscanned(ctl[c].dead))' = Missing(Surviving)
      <4>1. ctl'[c].dead = dead
        BY <3>1
      <4>2. Unscanned(ctl[c].dead)' = Unscanned(dead)
        BY <2>1, <4>1 DEF Unscanned
      <4> QED
        BY <2>1, <3>3, <4>2 DEF Missing, IdsOf
    <3>5. Replaces(ctl[c])'
      BY <3>1, <3>2, <3>4 DEF Replaces
    <3> QED
      BY <1>0, <2>2, <3>5
  <2> QED
    BY <1>1, <2>3, <2>4
<1>2. CASE HealthReap(c)
  <2> DEFINE dead == ctl[c].dead
             popped == {pool[i] : i \in dead \cap DOMAIN pool}
             k == ctl[c].left
  <2>1. /\ pool' = AllBut(pool, popped) /\ Forget(popped)
        /\ ctl' = [ctl EXCEPT ![c] = AddNext(k)]
        /\ UNCHANGED <<wid, claims, target>>
    BY <1>2 DEF HealthReap, SetCtl
  <2>2. popped \subseteq Listed
    BY DEF Listed
  <2>3. LevelTypes' /\ Numbered' /\ Listed' = Listed \ popped
    <3> HIDE DEF popped
    <3> QED
      BY <2>1, <2>2, TakenOff
  <2>4. k \in Int /\ k <= Cardinality(Missing(Unscanned(dead)))
    BY <1>2 DEF HealthReap, Replaces
  <2>5. Listed \ popped \subseteq Unscanned(dead)
    BY DEF Listed, Unscanned
  <2>6. Missing(Listed)' = Missing(Listed \ popped)
    BY <2>1, <2>3 DEF Missing, IdsOf
  <2>7. k <= Cardinality(Missing(Listed)')
    <3>1. /\ Cardinality(Missing(Unscanned(dead))) \in Nat
          /\ Cardinality(Missing(Listed \ popped)) \in Nat
          /\ Cardinality(Missing(Unscanned(dead))) <= Cardinality(Missing(Listed \ popped))
      BY <2>5, FewerMiss
    <3> QED
      BY <2>4, <2>6, <3>1
  <2>8. Replaces(ctl[c])'
    BY <2>1, <2>4, <2>7 DEF AddNext, Idle, Replaces
  <2> QED
    BY <1>0, <2>3, <2>8
<1> QED
  BY <1>1, <1>2

LEMMA LevelControl ==
  ASSUME LevelInv, OneReplaces, NEW c \in Controllers, Control(c)
  PROVE  LevelInv'
<1>1. ~Adjust(c) /\ ~RemoveWorker(c)
  BY DEF Adjust, RemoveWorker, LevelInv, Replaces
<1>2. \A n \in Sizes : ~SaveSettings(c, n)
  BY DEF SaveSettings, OneReplaces
<1> QED
  BY <1>1, <1>2, LevelAdd, LevelCancel, LevelHealth DEF Control, Continue

\* While one controller at a time cancels checks and replaces workers, the list never has more
\* workers than configured, whatever claims a worker left behind and however workers end.
THEOREM LevelIsKept ==
  ASSUME OneReplaces
  PROVE  Spec => []ConfiguredLevel
<1>1. LevelInv => ConfiguredLevel
  <2> SUFFICES ASSUME LevelInv PROVE Len(pool) <= target
    BY DEF ConfiguredLevel
  <2> USE DEF LevelInv, LevelTypes
  <2> DEFINE f == [i \in 1..Len(pool) |-> wid[pool[i]]]
  <2>1. f \in [1..Len(pool) -> Numbers]
    BY DEF Numbered, Listed
  <2>2. \A i, k \in 1..Len(pool) : f[i] = f[k] => i = k
    BY SMTT(30) DEF Numbered, Listed, Once
  <2>3. f \in Injection(1..Len(pool), Numbers)
    BY <2>1, <2>2 DEF Injection, IsInjective
  <2>4. Cardinality(1..Len(pool)) <= Cardinality(Numbers)
    BY <2>3, NumbersFinite, FS_Injection
  <2>5. Cardinality(1..Len(pool)) = Len(pool)
    <3>1. Len(pool) \in Nat
      OBVIOUS
    <3> QED
      BY <3>1, UpTo
  <2> QED
    BY <2>4, <2>5, NumbersFinite
<1>2. LevelInv /\ [Next]_vars => LevelInv'
  <2> SUFFICES ASSUME LevelInv, [Next]_vars PROVE LevelInv'
    OBVIOUS
  <2>1. ASSUME NEW j \in Jobs, Put(j) PROVE LevelInv'
    BY <2>1, WorkersKeepLevel DEF Put, LevelInv, LevelTypes, Numbered, IsAlive
  <2>2. CASE UNCHANGED vars
    BY <2>2, WorkersKeepLevel DEF vars, workerVars, LevelInv, LevelTypes, Numbered, IsAlive
  <2> QED
    BY <2>1, <2>2, LevelWork, LevelControl DEF Next
<1> QED
  BY <1>1, <1>2, LevelInit, PTL DEF Spec
=============================================================================
