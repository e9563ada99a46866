----------------------------- MODULE LiveBrowsers -----------------------------
(***************************************************************************)
(* The browsers that people look through: the session in which the browser *)
(* steps of a watch are tried out, and the preview of a page that is about *)
(* to be watched.                                                          *)
(*                                                                         *)
(* Requests run in threads of their own.  What they do with a browser runs *)
(* on one event loop, and the others go on while it waits.  Two tables,    *)
(* without a lock, say which session is whose; a session is closed when    *)
(* another is started for its watch, when the watch is saved, and, if it   *)
(* is too old or its page is closed, on the way of such a request.  The    *)
(* remote browser may go away at any time.                                 *)
(***************************************************************************)
EXTENDS Integers, FiniteSets

CONSTANTS
  Requests, Watches,
  Sessions,   \* the browsers there may be, one for each session or preview
  Nobody,
  MaxRequests \* bound on the requests

ASSUME NobodyAssumption == Nobody \notin Sessions

VARIABLES
  unused,   \* sessions not begun
  table,    \* browsersteps_sessions
  mapping,  \* browsersteps_watch_to_session
  running,  \* browsers that run
  pages,    \* pages[s]: "none", "live", "closed" by itself, or "gone" with its session
  aged,     \* sessions past their age
  req,      \* what each request is at
  asked,    \* the requests made
  lost,     \* browsers nobody closes: a connection or a closing failed (a ghost)
  picture,  \* picture[w]: "none", "good", or "empty" of what was there
  parked,   \* parked[s]: what is on disk of a preview
  promoted  \* what became a watch: <<s, state, old>> (a ghost)

tables == <<table, mapping>>
browsers == <<unused, running, pages, aged, lost>>
onDisk == <<picture, parked, promoted>>
browsersVars == <<tables, browsers, onDisk, req, asked>>

NoRequest == [op |-> "none", pc |-> "idle", watch |-> Nobody, sid |-> Nobody, todo |-> {}, sweeping |-> FALSE]

Is(r, pc) == req[r].pc = pc
GoesOn(r, pc) == req' = [req EXCEPT ![r].pc = pc]
Ends(r) == req' = [req EXCEPT ![r] = NoRequest]

Asks(r, what) == /\ Is(r, "idle") /\ asked < MaxRequests
                 /\ asked' = asked + 1
                 /\ req' = [req EXCEPT ![r] = what]
                 /\ UNCHANGED <<tables, browsers, onDisk>>

-----------------------------------------------------------------------------
\* Closing a session: _close_session_resources(), page first, browser last.

\* cleanup() leaves a page alone that says that it is closed.
ClosePage(r) ==
  /\ Is(r, "page")
  /\ pages' = [pages EXCEPT ![req[r].sid] = IF @ = "closed" THEN @ ELSE "gone"]
  /\ GoesOn(r, "browser")
  /\ UNCHANGED <<tables, unused, running, aged, lost, onDisk, asked>>

\* Mutant: the page and its context are all that is closed.
CloseBrowser_Not(r) ==
  /\ Is(r, "browser")
  /\ GoesOn(r, "closed")
  /\ UNCHANGED <<tables, browsers, onDisk, asked>>

\* It is given five seconds.
CloseBrowser(r) ==
  /\ Is(r, "browser")
  /\ \/ running' = running \ {req[r].sid} /\ UNCHANGED lost
     \/ lost' = lost \cup {req[r].sid} /\ UNCHANGED running
  /\ GoesOn(r, "closed")
  /\ UNCHANGED <<tables, unused, pages, aged, onDisk, asked>>

\* Another request may have taken it from the table meanwhile: a KeyError, and this one ends.
Drop(r) ==
  /\ Is(r, "closed") /\ req[r].op # "preview"
  /\ table' = table \ {req[r].sid}
  /\ IF req[r].sid \in table THEN GoesOn(r, "unmap") ELSE Ends(r)
  /\ UNCHANGED <<mapping, browsers, onDisk, asked>>

\* The entry of the watch goes, whichever session it names by now.
Unmap(r) ==
  /\ Is(r, "unmap") /\ ~req[r].sweeping
  /\ mapping' = [mapping EXCEPT ![req[r].watch] = Nobody]
  /\ IF mapping[req[r].watch] = Nobody THEN Ends(r) ELSE GoesOn(r, "sweep")
  /\ UNCHANGED <<table, browsers, onDisk, asked>>

\* cleanup_expired_sessions(): those of the table that have expired at this moment, one after the other.
has_expired(s) == pages[s] # "live" \/ s \in aged

Sweep(r) ==
  /\ Is(r, "sweep")
  /\ req' = [req EXCEPT ![r].pc = "expired", ![r].sweeping = TRUE, ![r].todo = {s \in table : has_expired(s)}]
  /\ UNCHANGED <<tables, browsers, onDisk, asked>>

Expire(r) ==
  /\ Is(r, "expired")
  /\ \E s \in req[r].todo :
       IF s \in table
       THEN req' = [req EXCEPT ![r].pc = "page", ![r].sid = s, ![r].todo = @ \ {s}]
       ELSE Ends(r)
  /\ UNCHANGED <<tables, browsers, onDisk, asked>>

UnmapExpired(r) ==
  /\ Is(r, "unmap") /\ req[r].sweeping
  /\ \/ \E w \in Watches : mapping[w] = req[r].sid /\ mapping' = [mapping EXCEPT ![w] = Nobody]
     \/ (\A w \in Watches : mapping[w] # req[r].sid) /\ UNCHANGED mapping
  /\ GoesOn(r, "expired")
  /\ UNCHANGED <<table, browsers, onDisk, asked>>

Swept(r) ==
  /\ Is(r, "expired") /\ req[r].todo = {}
  /\ IF req[r].op = "start" THEN GoesOn(r, "acquire") ELSE Ends(r)
  /\ UNCHANGED <<tables, browsers, onDisk, asked>>

-----------------------------------------------------------------------------
\* cleanup_session_for_watch(), for a new session and after an edit was saved.

AskStart(r) == \E w \in Watches : Asks(r, [NoRequest EXCEPT !.op = "start", !.pc = "lookup", !.watch = w])
AskSave(r) == \E w \in Watches : Asks(r, [NoRequest EXCEPT !.op = "save", !.pc = "lookup", !.watch = w])

\* Without a session of its own, a request does not look for expired ones.
Lookup(r) ==
  /\ Is(r, "lookup")
  /\ LET s == mapping[req[r].watch]
     IN IF s = Nobody
        THEN IF req[r].op = "start" THEN GoesOn(r, "acquire") ELSE Ends(r)
        ELSE req' = [req EXCEPT ![r].sid = s, ![r].pc = IF s \in table THEN "page" ELSE "unmap"]
  /\ UNCHANGED <<tables, browsers, onDisk, asked>>

-----------------------------------------------------------------------------
\* A browser for a session or a preview.

\* Over the wire, the driver is started before the connection is tried.
acquire_browser_for_fetcher(r) ==
  /\ Is(r, "acquire")
  /\ \E s \in unused :
       /\ unused' = unused \ {s}
       /\ \/ running' = running \cup {s} /\ req' = [req EXCEPT ![r].pc = "connect", ![r].sid = s] /\ UNCHANGED lost
          \/ running' = running \cup {s} /\ lost' = lost \cup {s} /\ Ends(r)
          \/ Ends(r) /\ UNCHANGED <<running, lost>>
  /\ UNCHANGED <<tables, pages, aged, onDisk, asked>>

\* A preview is closed whatever happens, a session that cannot open its page is forgotten.
connect(r) ==
  /\ Is(r, "connect")
  /\ \/ /\ pages' = [pages EXCEPT ![req[r].sid] = "live"]
        /\ GoesOn(r, IF req[r].op = "start" THEN "keep" ELSE "look")
        /\ UNCHANGED lost
     \/ /\ req[r].op = "start"
        /\ lost' = lost \cup {req[r].sid} /\ Ends(r) /\ UNCHANGED pages
     \/ /\ req[r].op = "preview"
        /\ req' = [req EXCEPT ![r].pc = "page", ![r].watch = Nobody] /\ UNCHANGED <<pages, lost>>
  /\ UNCHANGED <<tables, unused, running, aged, onDisk, asked>>

Keep(r) ==
  /\ Is(r, "keep")
  /\ table' = table \cup {req[r].sid}
  /\ GoesOn(r, "map")
  /\ UNCHANGED <<mapping, browsers, onDisk, asked>>

Map(r) ==
  /\ Is(r, "map")
  /\ mapping' = [mapping EXCEPT ![req[r].watch] = req[r].sid]
  /\ Ends(r)
  /\ UNCHANGED <<table, browsers, onDisk, asked>>

-----------------------------------------------------------------------------
\* A step is tried out: call_action(), then get_current_state().

AskStep(r) == \E s \in table, w \in Watches : Asks(r, [NoRequest EXCEPT !.op = "step", !.pc = "act", !.sid = s, !.watch = w])

\* It does nothing, or fails, without its page; the session may have gone since.
call_action(r) ==
  /\ Is(r, "act")
  /\ \/ req[r].sid \in table /\ GoesOn(r, "state")
     \/ Ends(r)
  /\ UNCHANGED <<tables, browsers, onDisk, asked>>

\* A picture that could not be taken is no error and is written over the one there was, but where the
\* session was closed meanwhile.
get_current_state(r) ==
  /\ Is(r, "state")
  /\ \E last \in BOOLEAN, taken \in {t \in BOOLEAN : t => pages[req[r].sid] = "live"} :
       picture' = IF last /\ req[r].sid \in table /\ pages[req[r].sid] # "gone"
                  THEN [picture EXCEPT ![req[r].watch] = IF taken THEN "good" ELSE "empty"]
                  ELSE picture
  /\ Ends(r)
  /\ UNCHANGED <<tables, browsers, parked, promoted, asked>>

-----------------------------------------------------------------------------
\* The preview of a page, parked on disk until it is made a watch.

\* Those parked more than an hour ago go first.
Stale(s) == parked[s] = "rotting" \/ (parked[s] \in {"whole", "spoilt"} /\ s \in aged)

AskPreview(r) == Asks(r, [NoRequest EXCEPT !.op = "preview", !.pc = "tidy", !.todo = {s \in Sessions : Stale(s)}])

\* rmtree() takes the files one by one.
Tidy(r) ==
  /\ Is(r, "tidy")
  /\ \/ \E s \in req[r].todo :
          /\ parked' = [parked EXCEPT ![s] = IF @ = "whole" THEN "rotting" ELSE IF @ = "moved" THEN @ ELSE "gone"]
          /\ req' = IF parked[s] = "whole" THEN req ELSE [req EXCEPT ![r].todo = @ \ {s}]
     \/ req[r].todo = {} /\ GoesOn(r, "acquire") /\ UNCHANGED parked
  /\ UNCHANGED <<tables, browsers, picture, promoted, asked>>

\* The watch field tells whether there is a picture to be parked.
Look(r) ==
  /\ Is(r, "look")
  /\ \E w \in {Nobody} \cup (IF pages[req[r].sid] = "live" THEN Watches ELSE {}) :
       req' = [req EXCEPT ![r].pc = "page", ![r].watch = w]
  /\ UNCHANGED <<tables, browsers, onDisk, asked>>

\* A directory that could not be written in full is not told of.
Park(r) ==
  /\ Is(r, "closed") /\ req[r].op = "preview"
  /\ IF req[r].watch = Nobody THEN UNCHANGED parked
     ELSE \E written \in {"spoilt", "whole"} : parked' = [parked EXCEPT ![req[r].sid] = written]
  /\ Ends(r)
  /\ UNCHANGED <<tables, browsers, picture, promoted, asked>>

\* The form is sent with the preview's ID; an expired one is an ordinary new watch.
AskPromote(r) == \E s \in Sessions : /\ parked[s] \in {"whole", "rotting", "gone"}
                                     /\ Asks(r, [NoRequest EXCEPT !.op = "promote", !.pc = "move", !.sid = s])

Promote(r) ==
  /\ Is(r, "move")
  /\ LET s == req[r].sid
     IN IF parked[s] \in {"gone", "moved"} THEN UNCHANGED <<parked, promoted>>
        ELSE /\ parked' = [parked EXCEPT ![s] = "moved"]
             /\ promoted' = promoted \cup {<<s, IF parked[s] = "whole" THEN "whole" ELSE "part", s \in aged>>}
  /\ Ends(r)
  /\ UNCHANGED <<tables, browsers, picture, asked>>

-----------------------------------------------------------------------------
\* The remote browser, and time.

PageCloses == /\ \E s \in running : pages[s] = "live" /\ pages' = [pages EXCEPT ![s] = "closed"]
              /\ UNCHANGED <<tables, unused, running, aged, lost, onDisk, req, asked>>

BrowserGoes == /\ \E s \in running : running' = running \ {s} /\ pages' = [pages EXCEPT ![s] = "closed"]
               /\ UNCHANGED <<tables, unused, aged, lost, onDisk, req, asked>>

\* The age of a session, and the hour of a parked preview.
Age == /\ \E s \in Sessions \ (unused \cup aged) :
            aged' = aged \cup {s}
       /\ UNCHANGED <<tables, unused, running, pages, lost, onDisk, req, asked>>

BrowsersInit == /\ unused = Sessions
        /\ table = {} /\ mapping = [w \in Watches |-> Nobody]
        /\ running = {} /\ pages = [s \in Sessions |-> "none"] /\ aged = {} /\ lost = {}
        /\ req = [r \in Requests |-> NoRequest] /\ asked = 0
        /\ picture = [w \in Watches |-> "none"]
        /\ parked = [s \in Sessions |-> "none"]
        /\ promoted = {}

Request(r) ==
  \/ AskStart(r) \/ AskSave(r) \/ AskStep(r) \/ AskPreview(r) \/ AskPromote(r)
  \/ Lookup(r) \/ ClosePage(r) \/ CloseBrowser(r) \/ Drop(r) \/ Unmap(r)
  \/ Sweep(r) \/ Expire(r) \/ UnmapExpired(r) \/ Swept(r)
  \/ acquire_browser_for_fetcher(r) \/ connect(r) \/ Keep(r) \/ Map(r)
  \/ call_action(r) \/ get_current_state(r)
  \/ Tidy(r) \/ Look(r) \/ Park(r) \/ Promote(r)

BrowsersNext == (\E r \in Requests : Request(r)) \/ PageCloses \/ BrowserGoes \/ Age

BrowsersSpec == BrowsersInit /\ [][BrowsersNext]_browsersVars

-----------------------------------------------------------------------------
\* A browser that runs is in the table, or in the hands of a request that will put it there or close it: however
\* starts, saves and sweeps of one watch come between each other, and but for a connection or a closing that failed.
NoneForgotten ==
  running \subseteq table \cup lost \cup {req[r].sid : r \in {x \in Requests : req[x].pc \notin {"idle", "unmap", "expired", "sweep"}}}

\* A watch made from a preview has all of it, but where the preview had been there for an hour.
PreviewsWhole == \A p \in promoted : p[2] = "whole" \/ p[3]

\* Both of these, as the run checks them.
BrowsersClosed == NoneForgotten /\ PreviewsWhole

=============================================================================
