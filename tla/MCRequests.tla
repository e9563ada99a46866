------------------------------ MODULE MCRequests ------------------------------
(***************************************************************************)
(* Requests of users and assistants and what becomes of them, side by side:  *)
(* checks cancelled, workers added and removed meanwhile, groups, the sign-  *)
(* in of assistants and what they call, and the ticker. They share no state, *)
(* so a behaviour runs one of them.                                          *)
(***************************************************************************)
EXTENDS Groups, Scheduler, SignIn, Assistants, TLC

CONSTANTS w1, w2, j1, j2, j3, NoJob, NoWorker, web, bot, proxy, g1, g2, g3, news, tools, Untitled,
          a1, t1, u1, site, dcr, url

VARIABLES
  service,   \* the one that runs in this behaviour
  unqueued, jobs, settled, stage, wid, job, halting, pool, claims, target, ctl

MCJobs == {j1, j2, j3}
MCWatchOf == (j1 :> w1) @@ (j2 :> w1) @@ (j3 :> w2)
MCLists == {<< >>, <<news>>, <<tools, Untitled>>}
OnlyCancel == web :> {"cancel"}
MCWatchOf2 == (j1 :> w1) @@ (j2 :> w1)
CancelAndAdjust == web :> {"cancel", "adjust"}

\* One watch has an interval of its own and a proxy that rests between uses, the other neither.
MCOwn == (w1 :> 1) @@ (w2 :> 0)
MCOverride == (w1 :> 0) @@ (w2 :> 0)
MCProxyOf == (w1 :> proxy) @@ (w2 :> NoProxy)
MCReuse == proxy :> 1

MCMembers == (w1 :> {g1}) @@ (w2 :> {g2})
MCGrids == {<< >>, [monitors |-> "read", notifications |-> "write"]}
MCPlugins == <<[name |-> "get_watch", kind |-> "write", complete |-> TRUE],
               [name |-> "restock_set_rules", kind |-> "write", complete |-> TRUE]>>

Cancelling == INSTANCE WorkerPool WITH Jobs <- MCJobs, WatchOf <- MCWatchOf, Watches <- {w1, w2},
                                       queue <- jobs, MaxThreads <- 4, StartCount <- 2,
                                       Sizes <- {2}, Controllers <- {web}, Ops <- OnlyCancel,
                                       Faults <- FALSE
Changing == INSTANCE WorkerPool WITH Jobs <- {j1, j2}, WatchOf <- MCWatchOf2, Watches <- {w1, w2},
                                     queue <- jobs, MaxThreads <- 3, StartCount <- 2,
                                     Sizes <- {1, 2}, Controllers <- {web},
                                     Ops <- CancelAndAdjust, Faults <- TRUE

\* The service that runs is chosen once; the variables of the others stay at rest.
GroupsVars == <<title, list, spare, req, requests, excused, calm>>
Sign_inVars == <<enabled, clients, codes, grants, disk, held, ask, owner, issued, calls, version,
                 newest, upset>>
AssistantsVars == <<token, stored, mcpEnabled, tags, groups, pausedOf, pausedAll, urls, call,
                    edits, messages, levels, had, reach, did, told>>
TickerVars == <<there, paused, zone, allPaused, jitter, age, order, queue, running, tick, recheck,
                exit, changes, since>>
PoolVars == <<unqueued, jobs, settled, stage, wid, job, halting, pool, claims, target, ctl>>
GroupsAtRest == Init /\ title = (g1 :> news) @@ (g2 :> None) @@ (g3 :> None) /\ list = [w \in Watches |-> << >>]
Sign_inAtRest == SignInInit
AssistantsAtRest == AssistInit
TickerAtRest == TickerInit /\ order = <<w1, w2>>
PoolAtRest == /\ unqueued = 0 /\ jobs = 0 /\ settled = 0 /\ stage = 0 /\ wid = 0 /\ job = 0
              /\ halting = 0 /\ pool = 0 /\ claims = 0 /\ target = 0 /\ ctl = 0

MCInit == \/ /\ service = "cancel" /\ Cancelling!Init
             /\ GroupsAtRest /\ Sign_inAtRest /\ AssistantsAtRest /\ TickerAtRest
          \/ /\ service = "change" /\ Changing!Init
             /\ GroupsAtRest /\ Sign_inAtRest /\ AssistantsAtRest /\ TickerAtRest
          \/ /\ service = "groups" /\ Init
             /\ Sign_inAtRest /\ AssistantsAtRest /\ TickerAtRest /\ PoolAtRest
          \/ /\ service = "sign_in" /\ SignInInit
             /\ GroupsAtRest /\ AssistantsAtRest /\ TickerAtRest /\ PoolAtRest
          \/ /\ service = "assistants" /\ AssistInit
             /\ GroupsAtRest /\ Sign_inAtRest /\ TickerAtRest /\ PoolAtRest
          \/ /\ service = "ticker" /\ TickerInit
             /\ GroupsAtRest /\ Sign_inAtRest /\ AssistantsAtRest /\ PoolAtRest

MCNext == \/ /\ service = "cancel" /\ Cancelling!Next
             /\ UNCHANGED <<service, GroupsVars, Sign_inVars, AssistantsVars, TickerVars>>
          \/ /\ service = "change" /\ Changing!Next
             /\ UNCHANGED <<service, GroupsVars, Sign_inVars, AssistantsVars, TickerVars>>
          \/ /\ service = "groups" /\ Next
             /\ UNCHANGED <<service, Sign_inVars, AssistantsVars, TickerVars, PoolVars>>
          \/ /\ service = "sign_in" /\ SignInNext
             /\ UNCHANGED <<service, GroupsVars, AssistantsVars, TickerVars, PoolVars>>
          \/ /\ service = "assistants" /\ AssistNext
             /\ UNCHANGED <<service, GroupsVars, Sign_inVars, TickerVars, PoolVars>>
          \/ /\ service = "ticker" /\ TickerNext
             /\ UNCHANGED <<service, GroupsVars, Sign_inVars, AssistantsVars, PoolVars>>

mcVars == <<service, GroupsVars, Sign_inVars, AssistantsVars, TickerVars, PoolVars>>

MCSpec == /\ MCInit /\ [][MCNext]_mcVars
          /\ service = "ticker" => Fairness

\* Cancelling a check and replacing its worker keeps the list of workers within the configured
\* number; and while an administrator changes that number, a user cancels checks and checks end
\* their worker, no job is given out twice.
PoolHolds ==
  /\ service = "cancel" => Cancelling!ConfiguredLevel
  /\ service = "change" => Changing!NoJobTwice

\* While a user cancels checks, or an administrator changes the number of workers as well and
\* checks end their worker, a job is lost only with a worker that was stopped before its check
\* began, and no other job with it.
JobsLostWithWorkersOnly ==
  [][/\ service = "cancel" => Cancelling!LossExplained
     /\ service = "change" => Changing!LossExplained]_mcVars

\* A watch that is due and not held back is checked in the end.
TickerStarvesNobody == service = "ticker" => NobodyStarves
==============================================================================
