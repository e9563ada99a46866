------------------------------- MODULE Browsing -------------------------------
(***************************************************************************)
(* One check's fetch: call_browser() with the fetchers that plugins offer  *)
(* after a failure, and inside each of them the steps of the browser       *)
(* fetchers (Puppeteer, Playwright) beside a site that goes on navigating  *)
(* while it is waited for, judged and extracted.                           *)
(*                                                                         *)
(* The tab shows a document; a navigation starts, its answer arrives with  *)
(* a status, it commits, and then it loads.  The fetcher keeps the latest  *)
(* answer for the main frame (the 'response' listener).  Documents are     *)
(* numbered in the order in which their navigations start.                 *)
(*                                                                         *)
(* A timeout is a step that is there whenever the code waits under one.    *)
(***************************************************************************)
EXTENDS Integers, Sequences, Functions

CONSTANTS
  Backends,        \* the installed fetchers
  KindOf,          \* [Backends -> {"puppeteer", "playwright", "selenium", "requests", "scrapling_http", "scrapling_stealth"}]
  Offers,          \* those that the installed plugins offer
  Statuses,        \* of answers, Good among them
  Good,            \* 200
  MaxResets,       \* BROWSER_CONTENT_READY_MAX_RESETS
  MaxAttempts,     \* FETCH_FALLBACK_MAX_ATTEMPTS
  GotoTries,       \* goto() is tried so often when it answers nothing
  MaxNavigations   \* bound on the documents of a tab

ASSUME OffersAssumption == Offers \subseteq Backends
ASSUME MaxResetsAssumption == MaxResets \in Nat
ASSUME MaxAttemptsAssumption == MaxAttempts \in Nat

VARIABLES
  tab,      \* what the site does in the tab of the fetcher at work
  fetch,    \* the fetcher at work
  tried,    \* the fetchers used by this check, in order
  open,     \* the fetchers with a connection to a browser that nobody tried to close
  waits,    \* waits of extra_wait seconds by the fetcher at work
  stirred,  \* a ghost: the site moved after the fetch was judged ("loading": only while Playwright
            \* waited for the load state, "later": after that), or what answered last was cut off
  steps     \* does the watch have browser steps

fetchingVars == <<tab, fetch, tried, open, waits, stirred, steps>>

Blank == [doc |-> 0, next |-> 0, answer |-> 0, loaded |-> FALSE, last |-> 0, status |-> << >>]
NewFetch(b) == [backend |-> b, pc |-> "start", goto |-> 0, tries |-> 0, response |-> 0,
                again |-> FALSE, resets |-> 0, content |-> 0]

Kind == KindOf[fetch.backend]
FetchAt(pc) == fetch.pc = pc
Goes(pc) == fetch' = [fetch EXCEPT !.pc = pc]

FetchingInit == /\ tab = Blank
                /\ \E b \in Backends : fetch = NewFetch(b) /\ tried = <<b>>
                /\ open = {}
                /\ waits = 0
                /\ stirred = "no"
                /\ steps \in BOOLEAN

-----------------------------------------------------------------------------
\* The site.

Alive == fetch.backend \in open /\ tab.last > 0
FetchJudged == fetch.pc \in {"status", "steps", "extract", "shoot"} \/ (FetchAt("script") /\ Kind = "puppeteer")
Stirs == stirred' = CASE FetchJudged -> "later"
                      [] FetchAt("loading") /\ stirred = "no" -> "loading"
                      [] OTHER -> stirred

\* Page.frameStartedLoading of the main frame; the wait for quiet hears of it.
Renavigates == /\ Alive /\ tab.doc > 0 /\ tab.last < MaxNavigations
               /\ tab' = [tab EXCEPT !.next = tab.last + 1, !.last = tab.last + 1, !.status = Append(@, Good)]
               /\ fetch' = [fetch EXCEPT !.again = TRUE]
               /\ Stirs
               /\ UNCHANGED <<tried, open, waits, steps>>

Answers == /\ Alive /\ tab.next > tab.answer
           /\ \E s \in Statuses : tab' = [tab EXCEPT !.answer = tab.next, !.status[tab.next] = s]
           /\ Stirs
           /\ UNCHANGED <<fetch, tried, open, waits, steps>>

Commits == /\ Alive /\ tab.next # 0 /\ tab.answer = tab.next
           /\ tab' = [tab EXCEPT !.doc = tab.next, !.next = 0, !.loaded = FALSE]
           /\ Stirs
           /\ UNCHANGED <<fetch, tried, open, waits, steps>>

Loads == /\ Alive /\ tab.doc # 0 /\ ~tab.loaded
         /\ tab' = [tab EXCEPT !.loaded = TRUE]
         /\ UNCHANGED <<fetch, tried, open, waits, stirred, steps>>

Site == Renavigates \/ Answers \/ Commits \/ Loads

-----------------------------------------------------------------------------
\* Closing.

\* quit(): page and browser are closed under timeouts; a failure is only logged, and the
\* connection is given up whatever the browser makes of it.
Closing(b) == open' = open \ {b}

Raise == /\ Goes("failed")
         /\ Closing(fetch.backend)
         /\ UNCHANGED <<tab, tried, waits, stirred, steps>>

\* The worst that a step under wait_for(main(), max_time) can meet; Playwright's own calls raise too.
Gone == /\ fetch.pc \in {"page", "goto", "race", "quiet", "script", "settle", "loading", "status", "steps", "extract", "shoot"}
        /\ Raise

-----------------------------------------------------------------------------
\* The fetchers that use a browser.

Connects(kind) == /\ FetchAt("start") /\ Kind = kind
                  /\ \/ Goes("page") /\ open' = open \cup {fetch.backend}
                     \/ Goes("failed") /\ UNCHANGED open
                  /\ UNCHANGED <<tab, tried, waits, stirred, steps>>

Connect == Connects("puppeteer")
ConnectAsync == Connects("playwright")

\* newPage() fails: the browser is closed on the spot, and the name dropped.
PageFails == FetchAt("page") /\ Raise

\* The page or context is set up: viewport, user agent, headers, proxy, policies, time limits.
SetUp(kind) == /\ FetchAt("page") /\ Kind = kind /\ Goes("goto")
               /\ UNCHANGED <<tab, tried, open, waits, stirred, steps>>

NewPage == SetUp("puppeteer")
NewContext == SetUp("playwright")

Goto == /\ FetchAt("goto") /\ tab.last < MaxNavigations
        /\ tab' = [tab EXCEPT !.next = tab.last + 1, !.last = tab.last + 1, !.status = Append(@, Good)]
        /\ fetch' = [fetch EXCEPT !.pc = "race", !.goto = tab.last + 1]
        /\ UNCHANGED <<tried, open, waits, stirred, steps>>

Responded(n) == fetch' = [fetch EXCEPT !.pc = IF Kind = "puppeteer" THEN "quiet" ELSE "script", !.response = n, !.again = FALSE]

\* goto() returns when the document it started has loaded.
GotoReturns == /\ FetchAt("race") /\ tab.doc = fetch.goto /\ tab.loaded
               /\ Responded(fetch.goto)
               /\ UNCHANGED <<tab, tried, open, waits, stirred, steps>>

\* An error with an empty body is not committed: the answer is taken from the listener.
GotoAborted == /\ FetchAt("race") /\ tab.next = fetch.goto /\ tab.answer = fetch.goto /\ tab.status[fetch.goto] # Good
               /\ Responded(tab.answer)
               /\ tab' = [tab EXCEPT !.next = 0]
               /\ UNCHANGED <<tried, open, waits, stirred, steps>>

\* The document was replaced, or the navigation never ends: whatever answered last is taken.
GotoOvertaken == /\ FetchAt("race") /\ Kind = "puppeteer"
                 /\ tab.loaded \/ tab.doc # fetch.goto
                 /\ tab.answer # 0
                 /\ Responded(tab.answer)
                 /\ UNCHANGED <<tab, tried, open, waits, stirred, steps>>

\* goto() answers nothing: tried again, and EmptyReply in the end.
GotoEmpty == /\ FetchAt("race")
             /\ IF Kind = "puppeteer" /\ fetch.tries + 1 < GotoTries
                THEN /\ fetch' = [fetch EXCEPT !.pc = "goto", !.tries = @ + 1]
                     /\ UNCHANGED <<tab, tried, open, waits, stirred, steps>>
                ELSE Raise

CountsReset(n) == n + 1

\* wait_for_content_ready_then_stop_loading(): the delay starts again with a new document,
\* MaxResets times; the next one gets the delay once more and no restart.
WaitAgain == /\ FetchAt("quiet") /\ fetch.again
             /\ waits' = waits + 1
             /\ fetch' = [fetch EXCEPT !.again = FALSE, !.resets = CountsReset(@),
                                       !.pc = IF CountsReset(fetch.resets) > MaxResets THEN "last" ELSE "quiet"]
             /\ UNCHANGED <<tab, tried, open, stirred, steps>>

\* Mutant: what goto() answered is judged.
Latest_Goto == fetch.goto

Latest == tab.answer

\* Quiet, or out of patience: Page.stopLoading ends what is under way, then the answer is judged.
StopAndJudge == /\ \/ FetchAt("quiet") /\ ~fetch.again
                   \/ FetchAt("last")
                /\ waits' = waits + 1
                /\ tab' = [tab EXCEPT !.next = 0]
                /\ fetch' = [fetch EXCEPT !.pc = "script", !.response = Latest]
                /\ stirred' = IF tab.answer = tab.doc THEN "no" ELSE "later"
                /\ UNCHANGED <<tried, open, steps>>

\* The watch's own script; Playwright's waits after it and judges then.
RunScript == /\ FetchAt("script")
             /\ Goes(IF Kind = "puppeteer" THEN "status" ELSE "settle")
             /\ UNCHANGED <<tab, tried, open, waits, stirred, steps>>

Settle == /\ FetchAt("settle")
          /\ waits' = waits + 1
          /\ fetch' = [fetch EXCEPT !.pc = "loading", !.response = Latest]
          /\ stirred' = IF tab.answer = tab.doc THEN "no" ELSE "loading"
          /\ UNCHANGED <<tab, tried, open, steps>>

\* wait_for_load_state() of whatever is in the tab by now; a timeout is only logged.
LoadState == /\ FetchAt("loading")
             /\ Goes("status")
             /\ stirred' = IF tab.loaded /\ tab.next = 0 /\ tab.answer = tab.doc THEN stirred ELSE "later"
             /\ UNCHANGED <<tab, tried, open, waits, steps>>

\* Status and emptiness; the screenshot of an error page is best effort.
JudgeStatus == /\ FetchAt("status")
               /\ \/ /\ tab.status[fetch.response] = Good
                     /\ Goes(IF Kind = "playwright" /\ steps THEN "steps" ELSE "extract")
                     /\ UNCHANGED <<tab, tried, open, waits, stirred, steps>>
                  \/ tab.status[fetch.response] # Good /\ Raise

\* Browser steps click and go elsewhere; nothing is judged after them.
BrowserSteps == /\ FetchAt("steps")
                /\ \/ /\ Goes("extract") /\ stirred' = "later"
                      /\ UNCHANGED <<tab, tried, open, waits, steps>>
                   \/ Raise

Takes(kind) == /\ FetchAt("extract") /\ Kind = kind
               /\ fetch' = [fetch EXCEPT !.pc = "shoot", !.content = tab.doc]
               /\ UNCHANGED <<tab, tried, open, waits, stirred, steps>>

ExtractContent == Takes("puppeteer")
ExtractContentAsync == Takes("playwright")

\* The screenshot, in chunks that a process of its own puts together when the page is long.
Shoots(kind) == /\ FetchAt("shoot") /\ Kind = kind /\ Goes("quit")
                /\ UNCHANGED <<tab, tried, open, waits, stirred, steps>>

CaptureFullPage == Shoots("puppeteer")
CaptureFullPageAsync == Shoots("playwright")

Leaves(kind) == /\ FetchAt("quit") /\ Kind = kind /\ Goes("done")
                /\ Closing(fetch.backend)
                /\ UNCHANGED <<tab, tried, waits, stirred, steps>>

Leave == Leaves("puppeteer")
LeaveAsync == Leaves("playwright")

\* The fetchers that are one call for this model: it answers or it raises, with nothing left open,
\* and a watch with browser steps is refused.
OneCall(kind) == /\ FetchAt("start") /\ Kind = kind
                 /\ Goes("failed") \/ (~steps /\ Goes("done"))
                 /\ UNCHANGED <<tab, tried, open, waits, stirred, steps>>

\* The plain client: redirects one by one, encoding, status, emptiness.
RunSync == OneCall("requests")

\* The same with Scrapling's HTTP client, and with its browser, which the library opens and closes.
RunScrapling == OneCall("scrapling_http")
RunStealth == OneCall("scrapling_stealth")

\* Selenium: a driver that cannot be set up, or fails later, is quit before the error goes on.
\* Nothing is judged, every page counts as a 200, and browser steps are left out without a word.
SeleniumConnect == /\ FetchAt("start") /\ Kind = "selenium"
                   /\ \/ Goes("driver") /\ open' = open \cup {fetch.backend}
                      \/ Goes("failed") /\ UNCHANGED open
                   /\ UNCHANGED <<tab, tried, waits, stirred, steps>>

SeleniumRun == /\ FetchAt("driver")
               /\ Goes("done") \/ Goes("failed")
               /\ Closing(fetch.backend)
               /\ UNCHANGED <<tab, tried, waits, stirred, steps>>

Browser == \/ Connect \/ ConnectAsync \/ PageFails \/ NewPage \/ NewContext
           \/ Goto \/ GotoReturns \/ GotoAborted \/ GotoOvertaken \/ GotoEmpty
           \/ WaitAgain \/ StopAndJudge \/ RunScript \/ Settle \/ LoadState \/ JudgeStatus \/ BrowserSteps
           \/ ExtractContent \/ ExtractContentAsync \/ CaptureFullPage \/ CaptureFullPageAsync \/ Leave \/ LeaveAsync
OneCalls == RunSync \/ RunScrapling \/ RunStealth \/ SeleniumConnect \/ SeleniumRun

-----------------------------------------------------------------------------
\* The fetchers that plugins offer.

\* select_fetch_backends(): neither the one that failed nor one tried before.
Offered == Offers \ Range(tried)

Use(b) == /\ fetch' = NewFetch(b)
          /\ tab' = Blank
          /\ waits' = 0
          /\ stirred' = "no"
          /\ Closing(fetch.backend)
          /\ UNCHANGED steps

\* A plugin chooses another one before anything is fetched.
ChooseFirst == /\ FetchAt("start") /\ Len(tried) = 1 /\ fetch.backend = tried[1]
               /\ \E b \in Offers \ {fetch.backend} : Use(b) /\ tried' = <<b>>

Fallback == /\ FetchAt("failed") /\ Len(tried) =< MaxAttempts
            /\ \E b \in Offered : Use(b) /\ tried' = Append(tried, b)

\* No plugin offers another one, or they were too many.
GiveUp == FetchAt("failed") /\ Goes("raised") /\ UNCHANGED <<tab, tried, open, waits, stirred, steps>>

FetchingNext == Site \/ Gone \/ Browser \/ OneCalls \/ ChooseFirst \/ Fallback \/ GiveUp

FetchingSpec == FetchingInit /\ [][FetchingNext]_fetchingVars

-----------------------------------------------------------------------------
\* Properties.

\* "judge the fetch on the document we are actually about to extract": the status that let the
\* fetch through is the one of the document whose content is stored, unless the site moved
\* between the two, or the last document to answer was stopped before it was shown.
JudgedIsExtracted == (fetch.content # 0 /\ stirred = "no") => fetch.response = fetch.content

\* "Total stays bounded at (max_resets + 2) * extra_wait", however often the site navigates.
WaitBounded == waits =< MaxResets + 2

\* No browser stays connected after its fetch, whether it ended well, failed or was cancelled,
\* and the next fetcher starts after the last one is closed.
ClosedAfterwards == /\ fetch.pc \in {"failed", "done", "raised"} => open = {}
                    /\ open \subseteq {fetch.backend}

\* "each at most once, up to FETCH_FALLBACK_MAX_ATTEMPTS".
EachAtMostOnce == IsInjective(tried) /\ Len(tried) =< MaxAttempts + 1

\* A fetch that redirects, resets and fallbacks interrupt stores the document it judged, ends in
\* time, leaves no browser open and uses no fetcher twice.
FetchIsSound == /\ JudgedIsExtracted
                /\ WaitBounded
                /\ ClosedAfterwards
                /\ EachAtMostOnce

=============================================================================
