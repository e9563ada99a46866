----------------------------- MODULE MCWorkerPool -----------------------------
(***************************************************************************)
(* The pool beside wait_for_all_checks(), on two watches, two jobs for the *)
(* first, so that a worker meets a claim, and one for the second, with     *)
(* nobody there but the ticker and its health check: no request stops a    *)
(* worker or saves the settings.                                           *)
(***************************************************************************)
EXTENDS WaitForChecks, TLC

CONSTANTS u, v, j1, j2, j3, ticker

MCJobs == {j1, j2, j3}
MCWatchOf == (j1 :> u) @@ (j2 :> u) @@ (j3 :> v)
OnlyHealth == [c \in Controllers |-> {"health"}]
=============================================================================
