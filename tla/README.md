# A formal model of changedetection.io

changedetection.io watches web pages. A scheduler puts overdue watches on a priority queue; a
pool of worker threads takes them off, fetches each page, decides whether its text has changed,
keeps a snapshot of it and queues a notification; everything a watch knows is kept in memory
and in one `watch.json` per watch. Users change watches, settings and the pool itself while all
of that runs, and the process may be killed at any moment.

This directory holds TLA+ modules of the parts where those things meet, the TLC
configurations that check them, and proofs that TLAPS checks. Paths below are relative to
`src/changedetectionio/` unless they begin with `src/`; `PROJECT.json` has the lines of source
every definition stands for.

    tlc -workers 2 -config MCCheck.cfg MCCheckPipeline.tla     # one model-checking run
    tlapm WorkerPoolProofs.tla                                 # one module of proofs

Contents: [1 the system](#1-the-system) · [2 the modules](#2-the-modules) ·
[3 the runs](#3-the-runs) · [4 bounds](#4-bounds-and-why-they-are-enough) ·
[5 fairness](#5-fairness) · [6 proofs](#6-what-is-proved) ·
[7 what the checks found](#7-where-the-code-does-not-do-what-it-says) ·
[8 limits](#8-what-is-not-modelled) · [9 plan](#9-plan)

## 1 The system

### Components with the state, and the trouble, of their own

**Recheck queue** (`queue_handlers.py`). *State:* a heap of `PrioritizedItem`s guarded by
`_lock`, and a `queue.Queue` with one token per item. *Operations:* `put`, `get`, `clear`,
`get_uuid_position`, counts. *Used by:* the ticker, web routes, API and MCP tools (put), every
worker (get, in an executor thread), the "clear queue" button. *Hard:* `get()` takes its token
without the lock and pops the heap with it, so anything may happen between. *Correct when:* no
item is left without a wakeup, no wakeup without an item, an item is handed out once, and the
most urgent first.

**Worker pool** (`worker_pool.py`, the loop of `worker.py`). *State:* the list of worker
threads, which has no lock; the claims `currently_processing_uuids`, watch → worker ID; per
worker an event loop, a coroutine and the job in its hand. *Operations:* start, change the
count, add and remove a worker, cancel a running check, the health check, claim and release,
deferral of a job whose watch is being checked. *Hard:* checks run in several threads; a worker
is stopped by stopping its event loop, so its coroutine is suspended for ever and runs its
`finally` only when it is garbage-collected, if it ever is; worker IDs are reused; the list is
read, awaited on and changed. *Correct when:* no watch is checked twice at once, no claim or
job is left behind, and the configured number of workers is there.

**wait_for_all_checks** (`worker_pool.py:514`). Batch mode and the tests ask it whether all
queued checks are over; it samples the queue and the claims, twice. *Hard:* the two samples
are not taken together. *Correct when:* an answer of True misses no check.

**Watch store** (`store/`, `model/__init__.py`, `model/persistence.py`). *State:* the watches
in memory, a file for each, a lock. *Operations:* add, update, edit-and-commit, delete, load at
start. *Hard:* a commit copies under no lock and writes a temporary file that it renames, so
two commits of a watch may land in either order, a deletion may run beside them, and a save
may fail; the process may be killed anywhere. *Correct when:* what is in memory is on disk
whenever nobody is in the middle of something; a saved file is readable at every instant;
deleted watches stay deleted; the limit on watches holds.

**Check pipeline** (`worker.py`, `processors/base.py`, `processors/text_json_diff/`). *State:*
per watch `was_edited`, `previous_md5`, `last_filter_config_hash`, `last-checksum.txt`,
`consecutive_filter_failures`. *Operations:* one check, from the fetch to the notification, and
editing, clearing, cancelling, restarting in between. *Hard:* each of the five is written at
another point of the check and of the user's request, in memory or on disk, and what is written
early is believed by the next check although this one may have failed. *Correct when:* a skip is
justified, an alert shows a real change, the snapshot kept is the text compared with, and the
filter alert fires when the filter has been missing often enough.

**Watch history** (`model/Watch.py`). *State:* `history.txt`, the snapshot files, a counter.
*Operations:* save, trim, clear, read. *Hard:* a snapshot's file is named by its text's MD5, so
a text that returns shares its file with an older line. *Correct when:* the newest snapshot can
be read.

**Ticker** (`flask_app.py:1752`). *State:* when each proxy was last used; it samples claims and
queue once per pass. *Operations:* every second, put overdue watches on the queue unless paused,
outside their schedule, running or queued; every 60 seconds the pool's health check. *Hard:* the
samples are stale by the time a watch is queued. *Correct when:* an overdue watch is queued in
the end, and a stale sample does no harm (the claim and the deferral see to that).

**Thread supervisor** (`thread_supervisor.py`). Restarts the ticker with a doubling backoff,
never during shutdown.

**Check health alerts** (`watch_health.py`). Counts failures in a row, sends one failure notice
per outage and one recovery notice. *Hard:* the threshold and both switches may be edited between
the failures, and the program may stop before the flag that says "told" is saved.

**Notification runner** (`flask_app.py:1677`) with `notification_service.py` and
`notification/`. Takes a notification off its queue, renders it and sends it: at most once.
*Hard:* a notice has several URLs, each may fail, and nothing is put back.

**AI summary jobs** (`llm/summary_jobs.py`, `blueprint/ui/diff.py`). *State:* pending keys,
failed attempts, a pool of two threads, two files per summary. *Hard:* tabs that poll, checks
that write the same summary and users who edit the prompt or clear the cache race. *Correct
when:* one generation per summary, and no poll that sees neither a job nor a result.

**AI evaluation and budgets** (`llm/evaluator.py`, `llm/client.py`). May hold a change back, and
counts tokens against budgets that are compared before a call and charged after it. *Hard:*
retries, replies cut off, cached verdicts, an intent edited while the model is asked.

**Screenshot processor** (`processors/image_ssim_diff/`). Compares pictures in a child process
that a thread starts under a timeout and its caller waits for under another. *Correct when:* a
hash lets a picture pass only if the picture is like the one last kept, and children end.

**Restock processor** (`processors/restock_diff/`). A chain of extractors, plugins and the model
for price and stock; its settings are in the watch, in a file of its own and in a group. *Hard:*
they are edited in the middle of a check whose page counts as checked from its first step.

**Content fetchers** (`content_fetchers/`, `processors/base.py`). A site goes on navigating while
its status is judged and its document read; after a failure other fetchers are tried.

**Text extraction** (`html_tools.py`, `processors/text_json_diff/`). Selectors and libxml2, whose
parsers share state between threads, so one lock keeps its uses apart. **Text rules**
(the same processor, from the text on). Lines are ignored, kept, extracted, sorted, and compared;
triggers and conditions hold back; previews run a copy of that code.

**Schema updates** (`store/updates.py`). 33 migrations in order, over an old format of one file
and a new one of many. *Correct when:* killed and begun again they end as if they had not been.

**History readers** (`changes_report.py`, `blueprint/mcp/tools.py`, `api/Watch.py`,
`blueprint/ui/diff.py`). Read the index several times while checks save, trim and clear; each
read sets the cached newest key.

**Groups** (`model/Tags.py`, `blueprint/tags/`, `api/Tags.py`). A watch lists the groups it is in;
deleting a group is a walk over all watches beside requests that write those lists.

**MCP server and its sign-in** (`blueprint/mcp/`). *State:* tokens with levels and a list of
groups; OAuth clients, codes and grants, saved with the settings. *Hard:* levels, groups and
monitors are looked at one after the other while the user edits all three; a refresh replaces a
pair of tokens that may be lost on its way.

**Live browsers** (`blueprint/browser_steps/`, `blueprint/add_watch_ui/`). Sessions in two tables
without a lock. **Backups and restore** (`blueprint/backups/`): files copied and replaced under a
running datastore. **Imports** (`blueprint/imports/`, `api/Import.py`): lists worked off line by
line against a limit.

### The rest

Processor registry, plugin manager, models, forms and validation, realtime events, RSS, proxy
checker, price follower, startup and shutdown, garbage collection: each is listed in
`PROJECT.json` with the reason it has no module. They are front ends of the parts above, pure
functions on single values, or I/O. The web interface, REST API and settings pages have no module
of their own either: what their requests do is an action of the module whose state they change.

### How they interact

    requests, API, MCP ──put──┐                        ┌── edit, clear, delete ──┐
                              v                        v                         v
    ticker ──put──> recheck queue ──get──> worker ──> check pipeline ──> watch history
       │                                   │ claim       │ update_watch          │
       └── health check ──> worker pool <──┘             v                       v
                              ^                      watch store ────────> files on disk
    settings, cancel ─────────┘                          │
                                        notification queue ──> runner

## 2 The modules

| module | models | extends |
|---|---|---|
| `PriorityQueue` | what the queue promises: an item is queued, then owned by one taker | |
| `RecheckQueue` | `RecheckPriorityQueue`, heap and tokens | |
| `RecheckQueueProofs` | its theorems | `RecheckQueue`, `TLAPS` |
| `WorkerPool` | pool, claims, the job loop | `Filtering` |
| `WaitForChecks` | `wait_for_all_checks()` beside the running pool | `WorkerPool` |
| `WorkerPoolProofs` | the theorems of both | `WaitForChecks`, `FilteringProofs` |
| `WatchStore` | add, update, commit, delete, restart | |
| `WatchStoreProofs` | its theorems, and those of `Backups` and `Imports` | `WatchStore`, `HandedIn`, `TLAPS` |
| `Filtering` | `[x for x in s if x not in S]` | |
| `FilteringProofs` | what it returns | `Filtering`, `TLAPS` |
| `WatchHistory` | snapshot files and their index | `Filtering` |
| `CheckPipeline` | checks of one watch, with its history | `WatchHistory` |
| `CheckPipelineProofs` | its theorems, and those of `Browsing` and `Upgrade` | `CheckPipeline`, `Browsing`, `Upgrade`, `FilteringProofs` |
| `Scheduler` | ticker, its supervisor, requests for rechecks | `Filtering` |
| `Notifications` | health alerts, notices, their queue, the runners | |
| `Summaries` | summary jobs, routes, tabs, files | |
| `LlmCalls` | admission, the client's retries, charges, verdicts | |
| `Screenshots` | checks of pictures, child processes | |
| `Restock` | checks of price and stock, its three sources of settings | |
| `LiveBrowsers` | browser-step sessions, previews of new pages | |
| `BackgroundJobsProofs` | the theorems of these six | `Notifications`, `Summaries`, `LlmCalls`, `Screenshots`, `Restock`, `LiveBrowsers`, `TLAPS` |
| `Browsing` | one fetch: fallbacks, navigations, waits | |
| `Extraction` | document to text in many threads, the lock on libxml2 | |
| `TextRules` | text to verdict; previews | |
| `Upgrade`, `OldDatastore` | loading, the 33 updates; an old datastore to run them on | |
| `Reading` | a history and its readers | |
| `Groups` | watches and groups under concurrent requests | `Filtering` |
| `RequestsProofs` | the theorems of `Groups` and `Scheduler` | `Groups`, `Scheduler`, `FilteringProofs` |
| `Assistants` | MCP requests, tokens, tools | |
| `SignIn` | OAuth: clients, codes, pairs, grants | |
| `SignInProofs` | the theorems of both | `SignIn`, `Assistants`, `TLAPS` |
| `Backups`, `Imports` | backups and restores; lists that become watches | |
| `HandedIn` | what both promise | `Backups`, `Imports` |
| `MCRequests`, `MCWatching`, `MCServices`, `MCWatchStore` | several of these side by side | most of them, `INSTANCE` of the rest |
| other `MC...` | values of the constants for TLC | the module checked |

A definition whose name has a suffix (`GetPop_Peek`) is a mutant: the definition above or below
it with a plausible mistake. It is used by no specification; it shows that a property notices
the mistake.

### RecheckQueue and PriorityQueue

`heap` is `_priority_items`, `notifications` the number of tokens in `_notification_queue`,
`lock` says which multi-step operation holds `_lock`. `put()` is `PutPush` then `PutNotify`, or
`PutFails` when the token does not fit in time; its `list.remove(item)` compares priorities only,
so `PutFails` may remove another item of the same priority. `get()` is `GetBegin`, `GetToken` or
`GetEmpty`, and `GetPop` or `GetInconsistent`: the step between token and pop is where the model
lets everything else run. `clear()` empties the heap (`ClearItems`) and drains the tokens one
by one (`ClearDrain`, `ClearDone`). The heap is a set with an order: `Foremost` is what
`heappop` may return, items of equal priority in any order.

`PriorityQueue` knows `queued` and `owner` only. `Refines` maps an item to queued once its
`put()` has released the lock.

### WorkerPool

A thread's `stage` is the await at which its coroutine is suspended: `getting` → `got` →
`checking` → `finishing` → `getting`, or `got` → `deferring` → back on the queue. `wid` is the ID
it was given, `pool` the list, `claims` the dictionary, `halting` the loops told to stop.

Stopping a loop does not end a coroutine. A thread stopped at an await becomes a `zombie` until
it is collected (`Finalize`, its `finally` then runs without its awaits) or never is (`Leak`);
a `get()` that was running in an executor may still take an item off the queue (`GhostGet`).

Requests and the ticker are `Controllers`; `ctl[c]` is what a request is in the middle of, since the
list may change between any two of its steps: `SaveSettings` → `Adjust` → `AddId`/`AddStart` or
`RemoveWorker`; `CancelDrop` → `CancelStop` → `AddId`…; `HealthCount` → `HealthScan` → `HealthReap`
→ `AddId`…. The health check counts the live workers and looks for the dead ones in two passes over
the list, and one that dies between them is found by the second only. `CancelStop` looks its worker
up by the ID the claim recorded, as the code does, whatever that worker is doing by then.
`Cancelled` is a `CancelledError` inside a check, which ends the worker. `LowestFree` is
`_next_worker_id()`.

The queue is a set here and `get()` takes any of its items; `RecheckQueue` has the order.

### WaitForChecks

Adds the caller to `WorkerPool`: `Call`, `SampleSize`, `SampleRunning`, `GiveUp`. Ghost
variables remember what was owed at the call and which jobs slept deferred at a sample. The loop
sleeps between its samples; the two places where that matters are in the guards and are
assumptions about time: handing a job from the queue to its claim takes less than one of the
loop's sleeps (`handing`), and the 10 seconds of a deferral are longer than one round
(`sleepers`).

### WatchStore

A watch is one version number, raised by every change: `version[u]` in memory, `disk[u]` in
`watch.json`. `update_watch()` is `UpdateBegin` → `UpdateMerge` (under the lock; `UpdateGone` when
the watch is deleted first) → commit, a request's edit is `Edit` → commit. A commit is `CommitCopy`
→ `SaveTemp` → `SaveReplace`, with no lock: `Watch.commit()` would take `_datastore.lock`, but
`_datastore` is the settings dictionary, which has no such attribute. `SaveFails` logs and forgets,
as `commit()` does. `delete()` is `DeleteFiles` → `DeleteForget` under the lock; files that stay
behind are loaded again by `Restart`. Temporary files a kill leaves are nobody's, and loading
ignores them.

`contended` marks a watch whose last commit overlapped another commit or a deletion; the next
commit that runs alone takes the mark away, because it writes everything.

### WatchHistory and CheckPipeline

A page stands for its raw checksum, a text for its MD5. `files[n]` is the snapshot named `n`,
`index` the lines of `history.txt`, `historyN` the counter that `history` sets as a side effect of
being read. Saving is `WriteSnapshot` → `AppendIndex` → (`TrimUnlink` → `TrimRewrite`) → `Saved`.
A snapshot saved while a rule held the change back has the name `'none'` when there is no
previous checksum yet.

`CheckPipeline` runs one check after another of one watch. `check` holds the locals of the
running one, `pc` its place:

    idle ─CheckStart→ fetch ─FetchPage→ process ─SkipSame→ skipped ─SkipDone→ idle
                                           └─Record→ extract ─FindText→ found ─Evaluate→ judged
                        ─StoreResult→ stored ─SaveSnapshot→ saving … ─Notify | FinishQuietly→ idle

with `FetchFails`, `StepFails`, `ProcessFails`, `FindNothing` → `FilterMissing`, `NothingToSave`,
`SaveFails` as the ways out, and `FindNoDifference` in the place of `FindText` when a watch looks at
differences and there are none. Between any two steps a user may edit the watch (`Edit` sets
`was_edited`), its tag (`EditTag` does not, but every setting a tag overrides is in the hash), or
the global settings (`EditSettings` removes `last-checksum.txt`); clear the history, in two steps
(`ClearFiles`, `ClearFields`); cancel the check (`Cancel`: the executor thread of the processor
runs on and may still record the page); and the process may be killed (`Restart`).

A setting is `HashOf[c]`, what `get_filter_config_hash()` sees, and `OwnOf[c]`, what it leaves out.
`Extract[c][p]` is the text or `Missing`; `Blocks[c]` the texts that trigger rules and conditions
hold back. All are constants, so the theory of filters is left out and what checks do with any
filter is in. Two settings compare with more than the last checksum, and what comes of that is a
choice (`TextRules` says which): with `check_unique_lines` (`Unique`) a change may turn out to
*repeat* lines of the history, and is none although its MD5 is kept (`processor.py:811`); a watch
that looks at added, removed or replaced lines only (`Diffing`) judges the differences instead of
the text once it has a history (`Gives`), or is *undiffered* and keeps the MD5 of the whole text and
the hash of the settings of before (`processor.py:701`). Both are settings of the watch itself
(`KindsAssumption`).

The ghosts name the causes that make an outcome excusable, so that each property says: right, unless
one of *these* happened. `behind`: the recorded page or settings are not those of the last stored
check, because that check failed or was cut short after recording, an edit's `was_edited` was reset
by a check that had started before it or forgotten by a restart, the settings changed between
hashing and extracting, or an undiffered check left the hash of other settings. `apart`:
`previous_md5` and the newest snapshot were parted by a check cut short or a save that failed after
the result was stored, a change dropped for a spent budget or because it repeats lines, an
undiffered page whose MD5 is not the one that was kept, clearing beside a check, trimming that
unlinks a file it keeps, or a first snapshot under the name `'none'`. A finished save resets it when
it leaves them `Together`: the newest line is of the text compared with, and its file is there. That
the newest snapshot *read* is that text would not do: behind it there may be lines without a file,
which come back when their text is saved again.

### Scheduler

A pass of the ticker is `SampleRunning`, `SampleQueued`, `ListWatches` and then, watch by watch,
`Judge` and `QueueWatch`, while workers take and finish and requests queue (which sample in the
other order). `LeavesLoop`, `Falls` and `StartAgain` are its ways out and the supervisor's way back.
`age` is the time since `last_checked`, capped beyond every threshold; `zone` says whether a watch's
schedule is open, closed or raises; `tick.backoff` is the supervisor's delay. The queue is a count
per watch: order and tokens are `RecheckQueue`'s, claims and deferrals `WorkerPool`'s. The ghost
`since` notes what happened after the samples were taken.

### Notifications

Three parts with one queue between them: the end of a check (`record_check_outcome()`, from the
counters over the saved failures to the flag that the alert was queued), the users who mute, edit
and restart, and the runners with their loop over a notice's URLs. A notice is its kind and its
URLs. `told` is the ghost "this outage was told".

### Summaries

A key is a prompt. A route reads the files, the registry and the files again (`Route`), a job is
`queued`, `running`, writes text and metadata one after the other and announces; a check writes the
same files; the user edits, clears, restarts. `owed` holds the keys whose outcome nobody was told.

### LlmCalls

`call[c]` is one caller's request with the client's loop: admission by what was charged so far,
dispatches, failures that are retried, replies that are empty, cut off or complete, the charge, the
verdict and its cache. The settings page reads the counters and writes them back (`saving`).

### Screenshots

Pictures are numbers, their distance the share of pixels that differ. A comparison is a thread, a
child and a caller, each with a timeout of its own; `calls` keeps them in the order of their start,
those that were given up included. `judgedBy` is the configuration of the last verdict.

### Restock

One check as the chain `Skip` or `Begin` → `ReadSettings` → `Parse` → `ChildEnds` → `Extruct` →
`Plugins` → `Fail` or `Store`, with the page, the watch, its processor's file, an overriding group
and the clearing of checksums that follows a group's edit changing between the steps. A page is
what each reader would find on it, so that the precedence of the readers is in and the parsing is
out.

### Browsing and Extraction

`Browsing` is `call_browser()` with the fallbacks plugins offer; `tab` is what the site does (a
navigation starts, answers with a status, commits, loads), `fetch` where the fetcher is. `stirred`
notes that the site moved after the judgement.

`Extraction` starts where a document is at hand, fetched or saved. A thread's `todo` is the
sequence of calls its filters need; a call that uses libxml2 is entered and left in two steps
(`Enter`, `Leave`), with the lock or without (`Guarded`). Two uses by different parsers at a time
may mix: what such a call returns may hold an element of the other's page (`Results`), which is
what the comment above `_LXML_LOCK` reports. The tasks of a preview share a fetcher (`jobOf`), whose
content the reader mode for feeds overwrites (`Preprocess`).

### TextRules

A text is a sequence of lines; a pattern is the set of lines it matches. `Judged` is the chain of
`run_changedetection()` from the text to the checksum, `CheckText` what is stored of it, `Preview`
and `WouldAlert` the copies the preview has of it. `Diff` is the order-aware difference of
`diff/__init__.py`. The ghosts `judged`, `seen` and `ran` are the checks the properties compare.

### Upgrade

Every update is an operator on the fields it touches (`Update(n, d)`); `Load`, `Apply`, the saves
of watches, groups and settings, kills and failing saves are the steps. `OldDatastore` has a text
watch, a restock watch and a group that have the old fields in turn.

### Reading

`Read` is the property `history`: the index into a dictionary, so an entry whose file is gone is
passed over and an equal key takes the older one's place; it sets the cached newest key and count as
a side effect. A check takes its key when it begins and saves when it ends. Readers are the diff
page, the single watch and its diff through the API, `get_history`, `find_change`, `line_timeline`
and `group_changes`, each with as many looks at the index as the code takes.

### Groups, Assistants, SignIn

In `Groups` a request is looked at between any two of its lookups: titles are turned into groups,
missing ones made, lists written; a deletion removes the group, samples the watches and walks.
`calm` are the clients nobody has come between, `excused` the reasons for which a watch may go on
listing a deleted group. `Assistants` has the way of an MCP message: token found, levels looked at,
groups looked at, rows changed one by one. Three ghosts collect what the token covered since the
request came in: `levels` the areas it could write to, `had` the limits it had, `reach` what lay
within one of these limits at one moment or another. `SignIn` has registration, consent, codes,
exchange and refresh, each with a commit of the settings that copies and writes in two steps.

### LiveBrowsers, Backups, Imports

`LiveBrowsers`: the two tables, requests that start, step, stop and sweep; connections that fail and
browsers that go away. `Backups`: a backup goes through a list of watches and copies file by file; a
restore removes, copies, replaces in memory and saves; checks, edits, deletions, imports and a
restart come between. A check may trim the history, by `history_trim` (unlinks) and `RewriteIndex`;
clearing one is `ClearFiles`, which takes `watch.json` too, and `ClearSaves`. What a backup owes is
kept in `due`, which a trim lessens. `Imports`: a list line by line, the limit looked at before each
line and again in `add_watch()`, which is two steps, the looks and `InsertWatch`; what becomes of an
unreadable row depends on the kind of list (`UnreadableRow`, `UnreadableSheet`, `UnreadableFile`);
the API validates all lines first. `HandedIn` joins what the two promise of what users hand in and
what they have.

### Side by side

Parts that share no state need no runs of their own. A variable `service`, chosen by `Init`, says
which part a behaviour runs; the variables of the others stay at rest.

| module | extends | instantiates |
|---|---|---|
| `MCRequests` | `Groups`, `Scheduler`, `SignIn`, `Assistants` | `WorkerPool`, twice |
| `MCWatching` | `Notifications`, `Summaries`, `Screenshots`, `LiveBrowsers` | |
| `MCServices` | `LlmCalls`, `OldDatastore`, `Restock`, `Browsing`, `Upgrade` | `Extraction`, `TextRules` |
| `MCWatchStore` | `WatchStore`, `HandedIn` | `Reading` |

A property of a part that is extended is checked as that part states it: at rest its variables are
in an initial state, where it holds. Those of the instances and `TickerStarvesNobody` say `service =
"part" => ...` (`PoolHolds`, `AnswersAreTrue`, `TextsAreRight`). The fairness in `MCWatching` is
stated without that guard: the other parts rest in a state in which nothing they are fair about is
enabled, so their fairness asks nothing and their "always again" holds of the resting state. In
`MCRequests` the ticker's fairness is guarded by `service`.

## 3 The runs

| run | configuration | distinct states | shows |
|---|---|---:|---|
| `queue` | `MCRecheckQueue` | 792 | heap and tokens, refinement, urgency, with `clear()` and a queue that may be full |
| `pool_health` | `MCPoolHealth` | 327 030 | dying workers, the ticker's health check, a waiting caller; liveness |
| `requests` | `MCRequests` | 1 039 302 | cancelling, changing the pool, groups, sign-in, assistants, the ticker |
| `watching` | `MCWatching` | 622 176 | alerts and runners, summaries, screenshots, live browsers; liveness |
| `services` | `MCServices` | 1 938 781 | model, restock, fetching, extraction, updates, rules |
| `store` | `MCWatchStore` | 6 052 987 | adds, edits, updates, deletions, failures, restarts; backups, imports, readers |
| `check` | `MCCheck` | 10 510 648 | checks, three events of any kind between their steps |
| `store_stale` | `MCWatchStoreStale` | *violation* | two commits land in the wrong order |
| `check_masked` | `MCCheckMasked` | *violation* | a missing filter that stops being counted |
| `history_trim` | `MCHistoryTrim` | *violation* | trimming unlinks the newest snapshot |
| `upgrade_retry` | `MCRetry` | *violation* | a first start that fails loses the watches for the next |
| `trigger_regex` | `MCTrigger` | *violation* | a trigger that is a regular expression alone never matches |

**queue**: `NoStrandedItem`, items never outnumber the wakeups; `OneOwner`; `Refines`, the
locked, token-driven queue implements the abstract one, liveness included.

**pool_health**, where nobody stops a worker: `NoClaimLeftBehind` and `JobsKept` for deferrals and
for workers that die in a check;
`OneCheckPerWatch`; `EventuallySettled`, every queued job is carried out, deferred ones included;
`WorkersReplaced`; `TrueMissesOnlyDeferred`, an answer True of `wait_for_all_checks()` misses no
running check and no job on its way from the queue to its claim; it may miss one that slept deferred
at a sample.

**requests**: `PoolHolds`: cancelling a check and replacing its worker keeps the list within the
configured number (`ConfiguredLevel`); while the count changes, checks are cancelled and workers
die, no job is given out twice (`NoJobTwice`). `JobsLostWithWorkersOnly`: in both, a job is lost
only at the end of a worker that was told to stop before the job's check began, and no other job
with it. `RemovedUnlessExcused`, a deleted group is listed by no watch but one that listed it twice,
one that a request wrote afterwards, and all when the walk was cut short. `StaysInScope`, what a
limited assistant creates or changes stays where it sees it. `TokensHold`, the pair of the last
answer works, in memory and after a restart, and a revoked grant does not come back.
`WithinItsToken`, what a request changes and tells of was covered by its token, under a limit that
the token had since the request came in. `QueuesWithinReason`, a recheck of a queued or running
watch is one the samples could not show, and the size limit is passed by less than a stride and what
others put. `TickerStarvesNobody`, an overdue watch gets its turn whatever another one's schedule,
deletion or fall does.

**watching**: `AlertsOnceUnmuted`, `EveryUrlTried`, `QueueMoves`, a notice does not stay queued
however the last one ended; `JobsLeaveResults`, one job per key and never neither job nor result;
`TabsAnswered`, every tab is shown a summary or an error; `QuietIsAlike`, between checks the picture
a hash lets pass is like the one last kept, and a hash has a baseline; `ChildrenEnd`;
`BrowsersClosed`, a browser that runs is in the table or in the hands of a request that will put it
there or close it, and a preview becomes a watch as a whole.

**services**: `VerdictsWithinBudget`, only a complete reply about this change under its intent
suppresses an alert, calls are sent a bounded number of times, budgets are passed by no more than
the calls under way. `SettingsApplied`, a page the next check would skip was judged by the settings
in force, and a product the page calls sold out is not stored as in stock on the word of metadata or
model. `FetchIsSound`: status and document are of one navigation (`JudgedIsExtracted`), waits are
bounded (`WaitBounded`), browsers closed (`ClosedAfterwards`), fallbacks used once each
(`EachAtMostOnce`). `TextsAreRight`: the text of a page is what its filters keep of it, without
anything of another page, but where the assistant parsed beside it; a change is told if and only if
the rules leave it visible, differences if not just told, and previews agree with checks where they
can. `AsIfUninterrupted`, updates cut short and begun again end as in one go (`EndsAlike`), lose no
watch and no group (`NothingLost`), keep the settings of restock watches (`ConfigKept`), never leave
the version ahead of the files (`VersionNotAhead`) and change nothing when repeated
(`UpdatesRepeat`); the price that `Unpriced` excuses is in section 7.

**store**: `PersistedUnlessContended`, `SavedStaysReadable`, `GoneStaysGone`, `WithinLimit` (one
thread adding; two may pass the limit together, as check and insertion share no lock).
`NothingForgotten`: a finished backup has, of every watch that was not deleted, put back or cleared
meanwhile, the settings there were when it began and the entries that no trim took; a watch that was
saved is lost by a failed or cut off restore, or a cut off clearing, of its own only; every line of
an import is a watch, handed back or told of, but for the rows section 7 names; a refused request
created nothing, and a crowd of importers passes the limit by less than their number.
`AnswersAreTrue`, diffs are of adjacent versions, searches and timelines are right, samples keep
both ends, a watch passed over has not changed, what nobody was shown is unread.

**check**: `StoredIsSaved`, between checks the newest snapshot is the text that `previous_md5`
stands for, unless `apart`; `SkipIsSound`, a check is skipped only when it would extract what the
check last stored had extracted, unless `behind` or the next check runs anyhow; `NoFalseAlert`, the
two newest snapshots of an alert differ, unless `apart`; `AlertsAreConsecutive`, the filter was
missing in the last `Threshold` checks that looked for it.

Several of these properties join the related properties of one or two modules; each conjunct is
named, with its comment, in the module. `CHECK_DEADLOCK FALSE` stands where a part comes to rest
when its bounded requests are used up (`MCRequests`, `MCWatching`, `MCServices`, `MCWatchStore`,
`MCWatchStoreStale`, `MCRetry`, `MCTrigger`).

Every property of a passing run has a mutant in `PROJECT.json`, a mistake in one definition under
which TLC finds that property violated with the same configuration.

## 4 Bounds, and why they are enough

* **Queue**: 3 items with 2 priorities, 2 getters, capacity 2, so `put()` fails as well. Two getters
  can stand between token and pop at once while the third item is pushed; no property counts
  further. The theorems of section 6 hold for any number.
* **Pool**: 3 jobs of 2 watches, two of them of one watch, so that a job is deferred; 3 threads, 4
  where checks are cancelled (`MaxThreads` bounds the threads that exist at once, ended ones are
  reused, so any number may come and go); 2 workers at the start. Waiting and cancelling run over
  the same jobs; where the count changes (1 or 2 workers) beside cancellations and dying workers
  there are 2 jobs of one watch. Controllers are one at a time: two at once can hand out one ID
  twice or overshoot the count (see 7); `MutualExclusion` is proved for any number of them.
* **Ticker**: 2 watches, one with an interval and a proxy of its own, size limit 1, stride 1 (the
  theorems are for any), one change of settings: one watch to be wronged by another is what every
  property is about.
* **Groups**: 2 watches, 3 groups, 2 titles, 3 requests of a web client and an assistant: a
  deletion, a write between, and a third that shows the outcome is not repaired. **Sign-in**: one
  registered and one URL client, a cap of 1, 4 pairs: a refresh, a revocation and a restart.
  **Assistants**: one request at a time of 2 messages beside one edit; concurrency is with the user,
  since requests only meet in the rows.
* **Alerts**: own, group and system URLs that overlap, threshold 2, 2 changes. **Summaries**: 2
  tabs, 2 prompts, a thread, 3 changes. **Screenshots**: 3 pictures, so that two small changes make
  a large one, 2 children.
* **Model**: a worker and another caller, limits of one reply each, 2 retries. **Restock**: 5 pages
  that tell the readers apart, prices in small steps, 3 settings, 2 checks, 1 edit. **Fetching**:
  six kinds of fetcher, 2 fallbacks, 3 navigations, 1 reset. **Extraction**: 2 tasks, of two
  documents or one, beside a thread that validates or outlines; three elements, removal by CSS and
  XPath, include filters of both kinds. **Updates**: all of 1 to 33 on two watches and a group, from
  5 versions, two kills and a failing save; price histories with a gap before the newest and
  without. **Reading**: a clock of 4 moments, which makes three versions, one reader (its looks
  interleave with saves, trims and clearings). **Browsers**: 2 requests at a time of 3, two
  sessions. **Backups**: 2 watches, 2 entries, one backup, and three events among checks, edits,
  restores, clearings and kills: a restore, a check and a kill, or a check that trims beside a
  backup and a clearing. **Imports**: 2 lists of 2 lines for a limit of 2. **Rules**: up to two
  settings that are not the usual ones on 7 pages, 3 checks, one edit: a rule is wrong with another,
  seldom with two more.
* **Store**: 2 UUIDs, 3 actors of which one adds, `MaxVersion` 2 (an added watch is changed once, so
  a copy may be stale), limit 1, failures and restarts at any point. Two actors are what an overlap
  takes, the third comes between; safety except `WithinLimit` is proved for any number. UUIDs are
  declared symmetric, which is sound as no liveness is checked there.
* **Check**: 2 pages, 2 texts, 3 configurations. The pages give equal texts under one configuration
  and different ones under another, under the third one of them lacks the filter, and one
  configuration blocks a text. Two of them have equal hashes and different own settings, two have
  the same own settings, which look at differences, and different hashes; the other has
  `check_unique_lines`. `MaxLen` 2, so a third snapshot trims; `Threshold` 2. `MaxEvents` 3 bounds
  the edits, clearings, cancellations, restarts, failures and budget skips of a whole behaviour:
  every excuse in the properties needs at most two of them, the third shows they do not add up to a
  new one. Without `Is("repeated")` or the undiffered page among the causes of `apart`,
  `StoredIsSaved` is violated at once; without its cause among those of `behind`, `SkipIsSound`.
  Checks themselves are unbounded. `check_masked` needs neither kind of setting.
* **History** (`history_trim`): 2 texts, `MaxLen` 2.

## 5 Fairness

Liveness is checked in `queue` (`Refines` includes that some taker takes an item while there is
one), `pool_health`, `requests` and `watching`.

* **Queue**: a thread inside `put()` or `clear()` runs on, and every worker calls `get()` in a loop,
  whose timeout brings it round. `SF(GetPop)`: a getter that has its token waits for `_lock`, which
  others may take and leave again and again; a lock does not pass the same thread over for ever.
* **Pool**: `WF(Work(t))`: a thread whose loop can go on does; `get()` has a timeout of one second,
  a deferral sleeps 10 seconds. The caller who waits may give up and is obliged to nothing more than
  to take his samples. `WF(Stopped(t))`: a stopped loop returns, and its coroutine is collected *or*
  leaked; which of them is left open. `WF(Continue(c))`: a request that has begun runs on.
  `WF(HealthCount(c))`: the ticker comes round every 60 seconds. Nobody is obliged to queue a job,
  to save settings, to cancel, or to die; `Cancelled` cannot happen for ever, because a check that
  ended so has used up its job.
* **Ticker**: `WF(Ticker)`: the supervisor starts it again after any end but the exit; `WF(Take)`
  and `WF` of each watch's end of its check: workers work; `WF(Tick)`: time passes; a request that
  has begun runs on. Pauses, edits, deletions, the exit and crashes are obliged to nothing.
* **Runners**: a runner thread loops for ever, whatever its last notice did (`flask_app.py:1677`);
  each URL is tried or raises.
* **Summaries**: a route that has begun answers, a browser polls again while it is told to, a job in
  the pool runs.
* **Screenshots**: the operating system runs a child until it has read its arguments, and a thread
  through its timeouts. A child's comparison has no fairness: it may hang.

`EventuallySettled` needs no strong fairness: a deferred job is put back and taken again, and
whoever holds the claim releases it, since the number of jobs is finite. In the running system a
watch that is queued faster than it is checked can be deferred again and again.

## 6 What is proved

TLAPS checks 17 797 obligations, with no assumption but the named `ASSUME`s on the constants and the
hypotheses a theorem states. "For any" below means for every value of the constants that these
allow; the runs of section 3 check the same properties on the small values of section 4.

| module | theorem | proves |
|---|---|---|
| `RecheckQueueProofs` | `ItemsHaveWakeups` | `NoStrandedItem`, for any capacity, with `clear()` and a `put()` that fails |
| | `ItemsHaveOneOwner` | `OneOwner` |
| | `ImplementsPriorityQueue` | every step is one of `PriorityQueue` or changes nothing there, for any capacity |
| | `HeapAndTokensInStep`, `GetNeverInconsistent` | under `~Clears`: as many tokens as items; a token always finds one |
| `WorkerPoolProofs` | `MutualExclusion` | `OneCheckPerWatch`, while nobody cancels |
| | `JobsAreNotDoubled` | `NoJobTwice`, a part of `PoolHolds`, whatever controllers do |
| | `JobsAreLostWithWorkersOnly` | `LostWithWorkersOnly`, which the run states as `JobsLostWithWorkersOnly` |
| | `ClaimsAreHeld`, `JobsAreKept` | `NoClaimLeftBehind`, `JobsKept`, while only the ticker changes the pool |
| | `TrueIsTrue` | `TrueMissesOnlyDeferred`, likewise |
| | `LevelIsKept` | `ConfiguredLevel`, the other part, while one controller cancels and replaces |
| `WatchStoreProofs` | `AloneIsPersisted`, `GoneForGood`, `SavedIsReadable`, `LimitIsKept` | the four properties of `WatchStore` |
| | `BackupsAreWhole`, `LinesAreAccounted` | what `Backups` and `Imports` promise |
| | `NothingIsForgotten` | `NothingForgotten`, which is both |
| `FilteringProofs` | lemmas | what `AllBut()` returns, for sequences of any length |
| `CheckPipelineProofs` | `SkipsAreSound`, `AlertsMeanStreaks` | `SkipIsSound`, `AlertsAreConsecutive` |
| | `NewestIsCompared`, `AlertsShowChanges` | `StoredIsSaved`, `NoFalseAlert` |
| | `FetchesAreSound` | `FetchIsSound`, for any site, fetchers and bounds |
| | `UpdatesAreSafeToRetry` | `AsIfUninterrupted`, for any datastore and any number of kills and failures |
| `BackgroundJobsProofs` | `ResultsAreLeft` | `JobsLeaveResults`, from its parts `KeysHaveOneJob`, `OutcomesAreKept` |
| | `AlertsAreOnceAndUnmuted` | `AlertsOnceUnmuted`, from its parts `OutagesAreToldOnce`, `MutesAreKept` |
| | `UrlsAreTried` | `EveryUrlTried` |
| | `VerdictsAreWithinBudget` | `VerdictsWithinBudget`, with both budgets set |
| | `PassedPicturesAreAlike` | `QuietIsAlike` |
| | `SettingsAreApplied` | `SettingsApplied` |
| | `BrowsersAreClosed` | `BrowsersClosed` |
| `RequestsProofs` | `QueueIsKeptWithinReason` | `QueuesWithinReason`, from its parts `DoublesAreUnseen`, `PassesStopWhenFull` |
| | `DeletedAreRemoved`, `ScopeIsKept` | `RemovedUnlessExcused`, `StaysInScope` |
| `SignInProofs` | `TokensAreHeld` | `TokensHold`, from its parts `HeldPairsWork`, `RevokedStaysOver` |
| | `RequestsStayWithinTokens` | `WithinItsToken`, for any tokens, users and batches |

Each of these modules but `FilteringProofs` also proves the types (`TypeCorrect`, `TypesAreKept`, or
as the first part of its invariant).

**RecheckQueue.** The count of tokens, getters and items is inductive as it stands once the types
are known: each action moves one of the three terms, and the lemmas say what adding and removing
one member does to a cardinality. `NoStrandedItem` needs two more facts: during `clear()` the heap
is empty, or draining a token would break it; and the item whose `put()` holds the lock is in the
heap, or undoing the push might remove none. The refinement needs `OneOwner` and that a getter
inside `get()` holds nothing. It is safety only: the abstract queue's fairness, that somebody takes
an item while there is one, is checked by the run.

**WorkerPool.** `OneCheckPerWatch` is not inductive: that a claim exists says nothing of *which*
thread it protects. `Exclusive` says that the watch of every thread between claim and release,
suspended ones included, is claimed under that thread's ID, and that no two such threads are on one
watch. A thread that claims found no claim, so nobody else was checking; a thread that releases is
the only one on its watch, so releasing by ID removes no other's claim, even when two workers bear
one ID. That breaks exactly where a cancellation drops a claim of a check that runs on: `NoCancel`.

`JobsAreNotDoubled` (`JobInv`) has no such hypothesis. Threads that were told to stop, zombies and
the `get()`s that outlive their coroutine keep what they hold, and whoever holds a job took it from
the one place it was in. That none is *dropped* holds only while nobody stops a worker
(`NobodyStops`: of the controllers only the ticker's health check runs; checks may end their
workers, as `Cancelled` does). Then nothing is ever halting or a zombie (`Unstopped`), every claim
is that of a check under way and every job is somewhere (`HealthInv`). `JobsAreLostWithWorkersOnly`
needs no hypothesis again: it goes through the steps and finds two that leave a job in no place.

`TrueIsTrue` is proved over the same invariant. While the caller looks twice at the queue and twice
at the claims, workers move jobs from the one to the other, so no sample alone says anything.
`Narrowing` follows the jobs owed at the call from one sample to the next: past the first quiet
sample of the queue none is queued; past the first quiet verdict those in hand are of the
handovers noted then; past the second sample they are claimed; past the second verdict there are
none. The two facts about time that it uses are the guards of `WaitForChecks` (section 2).

`LevelIsKept` (`LevelInv`) is for one controller that cancels and replaces (`OneReplaces`), since
two at once overshoot in the code as well. The IDs on the list are distinct and none is beyond the
configured number (`Numbered`), so what must not happen is that more workers are added than IDs are
missing. `Replaces` says so of every place between the count and the last addition: after the count
no more are owed than the workers that survive it leave room for, after the scan than the list will
lack once the dead are popped. The attempt showed that the model took count and scan of the health
check for one step; the code looks at each worker twice, so they are two steps now.

**WatchStore.** The inductive invariant adds to the types: `Locked`, who deletes holds the lock;
`Fresh`, an unused UUID has no file and nobody at work on it, and neither has one being added but
its adder; `Whole`, what a commit saves is a watch; `AloneIsClean`, for a watch that is not
contended one commit at most is saving, of a watch that is there and not being deleted, and it saves
what is in memory or another commit is still to come. `PersistedUnlessContended` speaks only of a
watch nobody works on; the rest says why the step that leaves it alone has saved the last change.
`LimitIsKept` is for finitely many UUIDs and one thread that adds: `Room` says that between its
check and its insertion fewer than `Limit` watches are there. A restart, which may bring back
watches whose files could not be deleted, forgets the thread.

**Filtering.** The provers cannot use an induction rule, which takes a predicate. They can use that
every nonempty set of naturals has a least member, and from that `Induct`: a set of naturals that
holds 0 and with every member the next is all of them. So what a comprehension
`[x for x in s if x not in S]` returns is proved for lists of any length: its members, that it
repeats nothing `s` does not, and what becomes of the last two.

**CheckPipeline.** A skip looks at three things written at three times, so the invariant of
`SkipsAreSound` follows each: `Running`, the recorded page is the one the running check read or has
just recorded, or it is removed; `Recorded`, when no check is in the middle, some settings with the
stored hash, and the watch's own settings of now, give the judged text for the recorded page, unless
the next check runs anyhow (`Runs`); `AboutToStore`, the same of a check that has its result and has
not stored it. Equal hashes and own settings mean equal texts (`SettingsAssumption`), which closes
the argument; a check that found no difference stores no hash, so `AboutToStore` says of it that the
stored one is its own, which is what `behind` excuses otherwise. The filter alert needs `Counted`:
the streak never exceeds the failures since the last alert or success.

`NewestIsCompared` follows the text from the judgement to the last line of `history.txt` (`Kept`).
Between checks (`Sync`): no checksum and no lines, or the last line is named by the checksum and its
file is there. A check that has found a text that differs knows that the last line's differs, and
one that found no difference says nothing else (`Found`, `Stored`); while it saves, the name it
writes is that of the text just stored, its file is there, and the last line but one can be read and
differs or none can (`Saving`, with `Newest` and `Fresh`); and the counter the code reads to tell
the first snapshot from a change is 0 only when nothing can be read (`Numbered`). Both
`StoredIsSaved` and `NoFalseAlert` are then a matter of the moment a save ends. The attempt showed
that the ghost `apart` had been reset too early: a save was taken to put text and checksum together
again when the newest snapshot that could be *read* was of that text, while behind it there might be
lines whose file is gone and comes back. The model was changed (`Together`), and what it excuses is
listed in section 7.

**Scheduler.** Both parts of `QueuesWithinReason` are about samples that are out of date when they
are used, so the invariant says what is still true of them. `Seen`: once the ticker has both
samples, a watch that is queued or running is in one of them, was queued by somebody since, was
taken between the two, *or its turn is over*; the last is why the list must not name a watch twice
(`Distinct`), which comes from `order` and from `AllBut()`. `Asked` is the same for the requests,
which sample in the other order and so miss nothing in between. `Bounded` counts the turns since the
queue's size was last looked at: `index % Stride` of them and the puts of others are all that can
have been added to a queue that was shorter than `MaxQueue`; the arithmetic is in `NextRemainder`.
An assumption that `MAX_QUEUE_SIZE` is positive is needed: a pass over a queue of size 0 would never
begin. The run has a stride of 1 and two watches; in the code it is 100.

**Summaries.** `OneJob`: a key in the pool or in a thread's hand is pending, and no key is in two
such places. Submission looks at `pending` and adds to it under the registry's lock, so that is
inductive. `Outcome`: a job that is about to leave the registry has left its text, its answer or its
error, unless that was told or cleared meanwhile; hence `NothingLost`.

**Notifications.** `OutagesAreToldOnce` needs `Noted`: when somebody was told, the flag the next
check will read says so, wherever the current check is between reading and saving it, unless the
watch was deleted or the program stopped before the save. `MutesAreKept` is a step's own property
(`Silent`): the guard and the list of URLs are read in the same step as the queue grows.
`UrlsAreTried` follows the loop over a notice's URLs.

**Groups.** The requests walk lists that others write, so `DeletedAreRemoved` is over the entries of
dead groups: each has its excuse (`Excused`: it was listed twice, a request wrote it later, or its
walk was cut short) or is still ahead of a walk, and `StillExcused` says what every step must keep
of that. `ScopeIsKept` needs `Sight`: a limited request that nobody has come between (`calm`) still
sees what it saw when it was let in.

**SignIn.** The settings are copied and written without a lock, so a claim about the file alone is
no invariant: a copy made earlier may be written later. `Inv` is about every copy there is
(`Copies`). One that lacks what an answer promised, or still has what was revoked, was made before
one that was written (`InForce`, `Revoked`), and writing it after that one is what `Torn` notes. A
refresh takes the number of its new pair and of its grant from counters that only grow, so those of
different assistants are apart (`Apart`). `NilAssumption`, that "no pair" is not a number, holds of
`None` in Python. TLC has checked the whole invariant on a small instance.

**Assistants.** A request looks its token up once and acts later, while the user edits token,
watches and groups, so `AssistInv` is about what it may *still* do: the area of its tool is one it
could write to, the limit it goes by one the token had, the rows it is about to change and the list
it is about to write within reach (`Entitled`); the ghosts keep up with the token (`Followed`); and
what is done and told is covered (`Covered`, the property). The attempt showed that the property was
false as it stood. It asked that a row be covered by one and the same token at one moment, and two
edits between the looks of a request (the token's limit, then a watch's groups) break that in the
code as well; the small instance had allowed one edit. It now speaks of the limits the token has had
since the request came in, which is what the code promises.

**LlmCalls.** `Sent` bounds a call: an attempt is a dispatch, and the two repairs, more room and a
parameter dropped, are one more each. Of the budgets, `Roomy` counts what is not yet charged: a
counter of this month leaves room for two replies of each call under way, because a call is admitted
below the limit and every other caller has at most one. A settings page may put back the counters it
has read; they are no more than those stored (`Older`), of the same month or an earlier one, so the
bound survives it, though what was charged in between is lost. `Believed` follows a verdict from the
reply through the cache to the alert. The hypothesis `SomeBudgets` has both limits set, since 0
turns one off.

**Screenshots.** `ScreenInv` follows the check: while it waits, the call it waits for compares its
picture with the last one kept, if that is still there (`Asking`); one that saw no change has seen
a picture alike (`Seeing`); what it is about to save goes with the hash, or both were cleared
(`Saving`); and when it is not about to save, `Quiet` is the property itself. Calls that were given
up answer later, or never, into places nobody reads.

**Restock.** Three sources of settings are read at one moment and judged by at later ones. `Judging`
says that a check under way goes by the settings in force, or the next one runs anyhow: its checksum
is being cleared, is gone, or an edit left no mark, which the ghost notes (`Runs`). `Standing` says
the same of the last verdict between checks.

**LiveBrowsers.** The table is written without a lock, so who answers for a browser moves about:
`Held`, one that runs is in the table, is lost (its connection or closing failed), or in the hands
of a request at a moment from which it goes on to put it there or close it. For that, what is in
hand was begun (`Begun`), what was closed does not run any more (`Over`), and the session of a
preview is nobody else's (`Private`), nor is it parked before it is through (`Parked`).

**Backups and imports.** A backup copies file by file what others change, so `BackupInv` says of
every watch that stayed: what is owed of it is there (`Staying`) and is in the copy or among the
files of that watch still to be copied (`Copied`); a trim takes from the directory and from what is
owed alike (`LeftWithOwesLess`). That needs that memory is never behind the disk but for the watch a
restore has just copied (`NotBehind`), so that no later save takes something back; that a UUID not
used yet is nowhere, in no copy either (`Untouched`); and that a restore is of watches its backup
has (`UnderWay`). `Lasting` is `NothingLost`, of memory as well, since a save writes what memory
has. `ImportInv` is per request: of the lines it has passed each is accounted for (`Listing`), of a
list that is through all (`Accounted`), and what has not begun or was refused has made nothing
(`NothingYet`). Between its looks and its insertion a request counts for one watch that is to come
(`Crowd`), which bounds how far they pass the limit together. `NothingIsForgotten` joins the two;
the specifications have no variable in common.

**Browsing.** `FetchInv` is by the place of the fetch: how often it can have waited there
(`Waited`); that nothing is stored before it is judged, and that while the site has not moved since,
what was judged is what is shown (`Shown`); and that no tab is open before the start or after the
end (`Closed`).

**Upgrade.** The updates are 33 fixed functions, but the datastore they run on, its size, the kills
and the failing saves are anybody's. The heart of `UpgradeInv` is `Alike`: what a watch's file still
has to go through, `Left(Version, ...)`, gives what one uninterrupted update would have given; of
the watch in memory `Level` says how far this start has brought it. That is inductive because every
update keeps the set of watches and groups, and those after 26 undo nothing they did before; each
has a lemma to that effect (`Keeps...`), with idempotence for the two that take one watch after the
other. Around it stand the types (`UpgradeTypes`), how far the version is behind (`Progress`), what
a datastore of a version has behind it (`Base`), an old datastore whose watches have no files yet
(`Old`, `Unmoved`), that no watch (`Whole`) and no group (`Grouped`) is missing, and that settings
of restock watches that have no file yet are still where they came from (`Moved`). `Through`, the
updates in a row, is a recursive function, and what such a function is takes an induction: that one
obeying its equation exists is proved by `Induct` (see Filtering) over the number of updates
(`ChainExists`), so that it may be unfolded. TLC had checked the invariant before. The attempt found
the price that update 33 loses when it is repeated (section 7); the property excuses it by name
(`Unpriced`).

**Not proved, and why.** *Liveness* (`Refines` as to fairness, `EventuallySettled`,
`WorkersReplaced`, `TickerStarvesNobody`, `QueueMoves`, `TabsAnswered`, `ChildrenEnd`): it needs
`ENABLED`, which TLAPS 1.4.5 has no rules for. *Safety that stays with TLC*: `TextsAreRight`, since
`TextRules` computes with recursive operators and `Extraction` with operators of the community
modules that are recursive; `AnswersAreTrue`, whose readers go through the history by folds, so that
each of its parts needs an induction over a sequence. Every other safety property of a run is a
theorem, by itself or, for `PoolHolds`, by its two parts.

## 7 Where the code does not do what it says

Five runs end in a counterexample; `PROJECT.json` quotes the lines.

* **`store_stale`**. "All data already persisted (immediate commits enabled)", the shutdown handler
  logs. Two commits of one watch copy and rename without a lock, so the older copy may be renamed
  last and stay on disk until the watch is next saved.
* **`check_masked`**. The raw checksum is recorded before the filters run. A page that lacks the
  filter is counted once; while it stays the same every later check is skipped as unchanged and
  clears the error, so the filter alert never comes.
* **`history_trim`**. Snapshot files are named by the MD5 of their text. A page that alternates
  between texts has the same name twice in its history; trimming the older line unlinks the file of
  the newer, and the newest snapshot cannot be read.
* **`upgrade_retry`**. When the updates of an old `url-watches.json` fail, the start ends with an
  error, but `changedetection.json` is written by then (`store/__init__.py:224`), so the next start
  does not look at the old file and comes up without a watch. `store/updates.py:619` says
  "url-watches.json remains intact, safe to retry."
* **`trigger_regex`**. `strip_ignore_text()` (`html_tools.py:804`) tries its regular expressions
  inside the loop over the plain words. A list of regular expressions alone matches nothing: such a
  trigger holds its watch back for ever.

What the models show besides, with no run of its own. The properties excuse each of these by a ghost
or a guard that names it, so that they say what holds otherwise.

*Queue and workers.*

* With `clear()` (`queue_handlers.py:256`) a getter that has its token finds an empty heap; it
  reports "Priority queue inconsistency" and carries on.
* A `put()` that times out (`queue_handlers.py:93`) removes the first item of equal priority, which
  may be another one. No queue of the application is bounded, so this is not reached.
* `cancel_running_uuid()` (`worker_pool.py:255`) drops the claim before the worker has stopped: the
  watch may be checked by a second worker while the first one's executor thread is still at it. It
  may also stop another check, when the worker it looked up has moved on (`worker_pool.py:262`).
* `release_uuid_from_processing()` says it removes a claim "only if this worker owns it", and
  compares worker IDs. A cancelled worker's replacement gets the lowest free ID, which is the
  cancelled one's; when the old coroutine is finalised, it releases the claim of the new worker.
* A job that a stopped worker held is not put back on the queue (`worker_pool.py:105`).
* `wait_for_all_checks()` (`worker_pool.py:528`) answers True while a job sleeps deferred: it is
  neither queued nor claimed for 10 seconds.
* Two controllers at once may give one ID to two workers, leave a surplus worker, or pop a live one
  by its position (`worker_pool.py:197`, `:273`, `:604`): the list has no lock.

*Store, updates, backups, imports.*

* Two requests at once may add one watch more than `PAGE_WATCH_LIMIT` (`store/__init__.py:805`,
  `:894`): the look and the insertion are two steps without a lock.
* The settings file is copied and written without a lock as well (`store/__init__.py:391`): of two
  commits the older copy may stay, and an edit under way may be saved in part.
* Killed between updates 26 and 29, an old datastore loses its groups; `update_18` cannot be
  repeated; `update_25` looks in another directory than the one in use. `update_33`
  (`store/updates.py:828`), "Idempotent." by its docstring (`:838`), takes the original price for
  the last one when the last but one snapshot has none, and drops it; killed between the watch's
  commit and the new version, the next start finds no original price any more and the old price is
  lost.
* Imported watches are saved at their first check or edit, while `blueprint/backups/__init__.py`
  says "With immediate persistence, all data is already saved". A backup ends with an error when
  watches come or go or a listed file vanishes, and leaves its temporary file; the limit's `>`
  allows one backup more; a snapshot written after the listing and indexed before the index is
  copied is listed without its file. A restore removes the directory before it copies. A history
  that is cleared loses `watch.json` until the commit after it (`model/Watch.py:504`,
  `store/__init__.py:698`): a kill between them loses the watch, and a backup made then has it
  without its settings. A trim that began before its watch was put back writes the old index over
  the one that was restored.
* Lines an import refuses, or has no room for, are handed back without their groups, although "the
  rest can be imported again"; rows of a Distill file past 5000 are dropped without a word, and one
  that cannot be read fails them all; of a sheet with a row that cannot be read the message says
  "row was skipped" while all rows behind it are dropped too (`importer.py:323`). The API takes
  duplicates out before anything is added, and the number it answers for a background import may
  exceed what is created.

*Checks and their history.*

* Lines of `history.txt` whose file is gone come back when their text is saved again, so the two
  newest snapshots of an alert may be alike.
* A text without unique lines is not saved and its checksum is (`processor.py:802`, `:819`): when
  the option is switched off and the text of before returns, it is announced as a change from
  itself. The same comes of a change over the token budget. A page without differences leaves
  another checksum than the one of its snapshot, of the text without its white space
  (`processor.py:705`), and leaves `last_filter_config_hash` of the settings of before.
* An edit that `was_edited` does not see, or that comes in the middle of a check, is judged by the
  old settings until the page changes.
* In difference mode a line added twice in a row, or a difference equal to the former whole page, is
  not told. The text for differences is saved before the check is judged. A first check that is held
  back is saved, and the same page, let through later, alerts with two equal snapshots.
* Previews ignore lines after extraction and try triggers on the text before; their line numbers
  leave out the rules of groups and are wrong with several extraction patterns, deduplication or
  sorting. `would_alert` counts changes in ignored lines.
* A price may creep away from the original one by steps below the threshold.
* With playwright the document may be of another navigation than the status it was judged by.
* An extraction in a child process that hangs keeps its caller (`recv()` without a timeout).
* A snapshot that a check saves while its history is viewed is never unread (`model/Watch.py:361`).
  A reader that still has the old index sets the cached newest key back, so that `group_changes`
  passes the watch over (`changes_report.py:158`) and a key may be used twice (`model/Watch.py:716`,
  `worker.py:598`). The report of a regular expression has one file name for all requests.
* `llm/assist.py:151` parses without the lock of which `html_tools.py` says that "EVERY lxml entry
  point in this process must go through here". In the reader mode for feeds the fetched content is
  overwritten by what was made of it, so previews of a saved feed make nothing of it. The assistant
  takes a selector with "(" for XPath, although it says "Uses the same engines as the processor",
  and a selector that begins with a single "/" is removed as CSS.

*Users, alerts and assistants.*

* An outage that was told has no recovery notice when alerts were switched off for one check in
  between: that check forgets that it was told (`watch_health.py`). A summary cache that was cleared
  is written again by a job that was under way. A call with its retries may last longer than
  `max_call_duration`.
* An assistant's levels and groups are read at different moments of a request. `remove_notification`
  by position removes another URL when the list changed; what `add_notification` reports as "Added"
  is lost when the list was replaced meanwhile. A batch goes on after its token is revoked.
  `recheck_watches` with `wait` may say "not queued" or "checked" too early.
* For a blank title `add_tag()` answers False, and the edit page puts that into the watch's list
  (`blueprint/ui/edit.py:286`), although `store/__init__.py:836` says "never let that into the
  list".
* A live browser whose connection fails at the start is leaked; one that fails in the last step
  writes nothing over `last-screenshot.png`; two sweeps at once raise `KeyError`, and a sweep may
  delete the mapping of a newer session. Expired sessions are swept only by a request that finds
  one.

## 8 What is not modelled

* **Time.** Timeouts are choices. Only `WaitForChecks` depends on durations, and names them.
  `history.txt` is ordered by position; clocks that go backwards reorder the real one when it is
  trimmed.
* **Power loss.** A kill loses memory and nothing that was written; `rename` is atomic. What an
  unsynced disk loses is left out.
* **Worker pool**: `shutdown_workers()`; the check itself, one step here, is `CheckPipeline`.
* **Check pipeline**: the rules between text and verdict, which are `TextRules`, and the health
  alerts after a check, which are `Notifications`; `ignore_text`, which lets one MD5 stand for
  several texts, is in the former only. PDF and screenshots of a check; deletion of the watch while
  it is checked (that is `WatchStore`'s `UpdateBegin`, `UpdateMerge` and `UpdateGone`). A filter
  threshold of 0 is excluded by `ThresholdAssumption`.
* **Store**: settings and groups, which are saved the same way; `clear_watch()`, which unlinks
  `watch.json` with the snapshots (`model/Watch.py:504`) until the commit after it and is in
  `Backups`.
* **History readers**: a clearing in the midst of a save; entries that share a file, which
  `history_trim` is about.
* **Assistants**: two messages at once; what an answer is used for after it was given.
* **Backups**: two in one instant, which share a temporary file; two clearings at a time; a snapshot
  that cannot be unlinked by a trim.
* The components of section 1 under "The rest".

## 9 Plan

Every module of the plan is written. What is left, in this order:

1. Theorems. `AnswersAreTrue` of `Reading`, from lemmas about the folds of its readers like those
   of `FilteringProofs` about `AllBut()`.
2. `WatchStore` with `clear_watch()` and with the settings file, which is committed without a lock
   too; `CheckPipeline` over `WatchStore`'s restart, so that fields and files are lost separately.
3. Liveness of `CheckPipeline`: a page that stays is judged in the end. `check_masked` shows where
   the excuse is needed.
4. An abstract specification of the summaries, "one generation per key at a time, its result or
   error seen by the next poll", with `Summaries` as its refinement; the two theorems about it are
   most of that already.
