------------------------------ MODULE MCWatching ------------------------------
(***************************************************************************)
(* Checks and what follows them, side by side: screenshot comparisons in     *)
(* child processes, alerts and the notification runner, the summaries of the *)
(* assistant for the interface, and the browsers people look through. They   *)
(* share no state, so a behaviour runs one of them.                          *)
(***************************************************************************)
EXTENDS Notifications, Summaries, Screenshots, LiveBrowsers, TLC

CONSTANTS u1, u2, r1, t1, t2, p1, p2, h1, w1

VARIABLES
  service   \* the one that runs in this behaviour

MCOwn == <<u2, u1>>
MCGroup == <<u2>>
MCSystem == <<u1>>

\* The service that runs is chosen once; the variables of the others stay at rest.
AlertsVars == <<there, given, muted, enabled, recovery, failures, alerted, notifyErr, health,
                queue, runner, told, changes>>
SummariesVars == <<prompt, txt, json, pending, errors, pool, thread, tab, check, owed, acts>>
ScreensVars == <<rule, seen, shots, comparing, calls, judgedBy, taken>>
BrowsersVars == <<unused, table, mapping, running, pages, aged, req, asked, lost, picture, parked,
                  promoted>>
AlertsAtRest == Init
SummariesAtRest == SummariesInit /\ prompt = p1
ScreensAtRest == ScreensInit /\ seen = NoPicture /\ rule = [min |-> 0, box |-> "whole"]
BrowsersAtRest == BrowsersInit

MCInit == \/ /\ service = "alerts" /\ Init
             /\ SummariesAtRest /\ ScreensAtRest /\ BrowsersAtRest
          \/ /\ service = "summaries" /\ SummariesInit
             /\ AlertsAtRest /\ ScreensAtRest /\ BrowsersAtRest
          \/ /\ service = "screens" /\ ScreensInit
             /\ AlertsAtRest /\ SummariesAtRest /\ BrowsersAtRest
          \/ /\ service = "browsers" /\ BrowsersInit
             /\ AlertsAtRest /\ SummariesAtRest /\ ScreensAtRest

MCNext == \/ /\ service = "alerts" /\ Next
             /\ UNCHANGED <<service, SummariesVars, ScreensVars, BrowsersVars>>
          \/ /\ service = "summaries" /\ SummariesNext
             /\ UNCHANGED <<service, AlertsVars, ScreensVars, BrowsersVars>>
          \/ /\ service = "screens" /\ ScreensNext
             /\ UNCHANGED <<service, AlertsVars, SummariesVars, BrowsersVars>>
          \/ /\ service = "browsers" /\ BrowsersNext
             /\ UNCHANGED <<service, AlertsVars, SummariesVars, ScreensVars>>

mcVars == <<service, AlertsVars, SummariesVars, ScreensVars, BrowsersVars>>

\* At rest nothing a service is fair about is enabled, so the fairness of each can be
\* assumed whichever runs.
MCSpec == /\ MCInit /\ [][MCNext]_mcVars
          /\ Fairness
          /\ SummariesFairness
          /\ ScreensFairness
==============================================================================
