-------------------------------- MODULE Reading --------------------------------
(***************************************************************************)
(* The history of one watch and those who read it: the diff page, the API  *)
(* and the tools of assistants (MCP), beside a check that saves, a trim    *)
(* and a clearing.                                                         *)
(*                                                                         *)
(* Every use of the property `history` reads the index from disk, and then *)
(* sets the cached newest key and count by what it read; a reader uses it  *)
(* several times.  A snapshot is keyed by the time its check began, rounded *)
(* to a second, and saved when the check ends; what is unread is decided   *)
(* by comparing keys with the time of the last look, rounded down.         *)
(***************************************************************************)
EXTENDS Integers, Sequences, FiniteSets, SequencesExt

CONSTANTS
  Readers,
  Lines,    \* the lines a page may have
  Needle,   \* the line that is looked for
  Dull,     \* the pages whose change an AI filter suppresses
  MaxLen,   \* history_snapshot_max_length
  Wanted,   \* 'sample' of get_history
  MaxNow    \* bound on the clock

VARIABLES
  now,      \* the clock, in half seconds
  index,    \* history.txt: the key of every snapshot, and its page
  disk,     \* the entries of it whose file is there
  first,    \* history_initial_version, 0 if there is none
  quiet,    \* the keys with a marker 'suppressed_by_ai'
  newest,   \* __newest_history_key, 0 for None
  counted,  \* __history_n
  viewed,   \* last_viewed
  saver,    \* the check of the watch
  rd,       \* rd[r]: the request a reader has under way, or its answer
  past      \* the keys somebody was shown, or of checks under way at a look (a ghost)

files == <<index, disk, first, quiet>>
cache == <<newest, counted>>
vars == <<now, files, cache, viewed, saver, rd, past>>

Resting == [pc |-> "idle", key |-> 0, page |-> {}, hush |-> FALSE, keep |-> << >>,
            looked |-> FALSE]
Idle == [op |-> "none", pc |-> "idle", at |-> "none", to |-> 0, from |-> 0,
         since |-> 0, todo |-> << >>, read |-> << >>, stale |-> FALSE]

Init == /\ now = 2
        /\ index = << >> /\ disk = {} /\ first = 0 /\ quiet = {}
        /\ newest = 0 /\ counted = 0
        /\ viewed = 0
        /\ saver = Resting
        /\ rd = [r \in Readers |-> Idle]
        /\ past = {}

\* An index as it is read, into a dict: an entry whose file is gone is passed over, and one
\* whose key is there takes the place of the earlier.
Put(d, e) == IF \E i \in DOMAIN d : d[i][1] = e[1]
             THEN [i \in DOMAIN d |-> IF d[i][1] = e[1] THEN e ELSE d[i]]
             ELSE Append(d, e)
Read(ix) == LET d[i \in 0..Len(ix)] == IF i = 0 THEN << >>
                                       ELSE IF ix[i] \in disk THEN Put(d[i - 1], ix[i]) ELSE d[i - 1]
            IN  d[Len(ix)]
history == Read(index)

Keys(h) == {e[1] : e \in ToSet(h)}
There == Keys(history)

\* What reading an index of h leaves in the cache.
Cached(h) == /\ newest' = IF h = << >> THEN 0 ELSE Last(h)[1]
             /\ counted' = Len(h)

lastChanged == IF counted <= 1 THEN 0 ELSE newest

\* The newest version that should be unread, 0 if there is none.
LatestAlert == LET alerts == There \ (quiet \cup {first})
               IN  IF alerts = {} THEN 0 ELSE CHOOSE k \in alerts : \A j \in alerts : j <= k

hasUnviewed == LatestAlert > viewed

Second == now \div 2         \* int(time.time())
Rounded == (now + 1) \div 2  \* round(time.time())

Tick == /\ now < MaxNow
        /\ now' = now + 1
        /\ UNCHANGED <<files, cache, viewed, saver, rd, past>>

-----------------------------------------------------------------------------
\* The check: its key is the time it began, rounded to a second.

CheckBegins == /\ saver.pc = "idle"
               /\ saver' = [Resting EXCEPT !.pc = "checking", !.key = Rounded]
               /\ UNCHANGED <<now, files, cache, viewed, rd, past>>

\* newest_history_key, which calls a single version none if the cache knows of none.
newestKey == IF newest # 0 \/ Len(history) <= 1 THEN newest ELSE Last(history)[1]

\* It finds a page that changed.  If the key is taken it waits for the next second.
Changed(page) ==
  /\ saver.pc = "checking"
  /\ history # << >> => Last(history)[2] # page
  /\ LET k == IF newestKey = saver.key THEN saver.key + 1 ELSE saver.key
     IN  /\ k <= Rounded
         /\ saver' = [saver EXCEPT !.pc = "index", !.key = k, !.page = page,
                                   !.hush = history # << >> /\ page \in Dull]
         /\ disk' = disk \cup {<<k, page>>}
         /\ first' = IF history = << >> THEN k ELSE first
         /\ past' = IF saver.looked \/ k = viewed THEN past \cup {k} ELSE past
  /\ Cached(history)
  /\ UNCHANGED <<now, index, quiet, viewed, rd>>

Unchanged == /\ saver.pc = "checking"
             /\ saver' = Resting
             /\ UNCHANGED <<now, files, cache, viewed, rd, past>>

Appends == /\ saver.pc = "index"
           /\ index' = Append(index, <<saver.key, saver.page>>)
           /\ saver' = [saver EXCEPT !.pc = "count"]
           /\ UNCHANGED <<now, disk, first, quiet, cache, viewed, rd, past>>

Counts == /\ saver.pc = "count"
          /\ newest' = saver.key
          /\ counted' = counted + 1
          /\ saver' = [saver EXCEPT !.pc = IF counted + 1 > MaxLen THEN "trim" ELSE "marker"]
          /\ UNCHANGED <<now, files, viewed, rd, past>>

\* history_trim() unlinks the oldest ...
Trims == /\ saver.pc = "trim"
         /\ LET drop == Len(history) - MaxLen
                keep == IF drop > 0 THEN SubSeq(history, drop + 1, Len(history)) ELSE history
            IN  /\ saver' = [saver EXCEPT !.pc = "rewrite", !.keep = keep]
                /\ disk' = disk \ (ToSet(history) \ ToSet(keep))
         /\ Cached(history)
         /\ UNCHANGED <<now, index, first, quiet, viewed, rd, past>>

\* ... rewrites the index and prunes the markers by what it kept.
Rewrites == /\ saver.pc = "rewrite"
            /\ index' = saver.keep
            /\ quiet' = quiet \cap Keys(saver.keep)
            /\ Cached(Read(saver.keep))
            /\ saver' = [saver EXCEPT !.pc = "marker"]
            /\ UNCHANGED <<now, disk, first, viewed, rd, past>>

\* save_ai_decision() for the last key of the history as it is then.
Marks == /\ saver.pc = "marker"
         /\ quiet' = IF saver.hush /\ history # << >> THEN quiet \cup {Last(history)[1]} ELSE quiet
         /\ Cached(history)
         /\ saver' = Resting
         /\ UNCHANGED <<now, index, disk, first, viewed, rd, past>>

Saving == \/ CheckBegins \/ Unchanged \/ Appends \/ Counts \/ Trims \/ Rewrites \/ Marks
          \/ \E page \in SUBSET Lines : Changed(page)

-----------------------------------------------------------------------------
\* What all readers do.

Free(r) == rd[r].pc = "idle"
Begins(r, op, at) == /\ Free(r)
                     /\ rd' = [rd EXCEPT ![r] = [Idle EXCEPT !.op = op, !.at = at, !.pc = "busy"]]
\* Refused with a message, ended by an exception, or done with nothing told.
Ends(r) == rd' = [rd EXCEPT ![r] = Idle]
\* The answer is the reader's own from then on.
Told(r) == /\ rd[r].pc = "done"
           /\ Ends(r)
           /\ UNCHANGED <<now, files, cache, viewed, saver, past>>

\* A use of `history`, at one point of a request.
Has(r, at) == /\ rd[r].pc = "busy" /\ rd[r].at = at
              /\ Cached(history)
              /\ UNCHANGED <<now, files, saver>>

\* The use of another request, the list of watches for one: the index is read, and then
\* the cache set by it, which takes back what a save has set meanwhile.
Reads(r) == /\ Free(r)
            /\ rd' = [rd EXCEPT ![r] = [Idle EXCEPT !.op = "list", !.pc = "busy", !.at = "cache",
                          !.to = IF history = << >> THEN 0 ELSE Last(history)[1], !.since = Len(history)]]
            /\ UNCHANGED <<now, files, cache, viewed, saver, past>>
Tells(r) == /\ rd[r].pc = "busy" /\ rd[r].at = "cache"
            /\ newest' = rd[r].to /\ counted' = rd[r].since
            /\ Ends(r)
            /\ UNCHANGED <<now, files, viewed, saver, past>>

GoesOn(r, at) == [rd[r] EXCEPT !.at = at]
Texts(r, from, to, ks) == [GoesOn(r, "texts") EXCEPT !.from = from, !.to = to, !.todo = ks]

-----------------------------------------------------------------------------
\* Two versions and their texts: get_diff, get_watch, get_snapshot and the API.

LatestKey(r) ==
  /\ Has(r, "latest")
  /\ IF history = << >> THEN Ends(r)
     ELSE LET to == Last(history)[1]
          IN  rd' = [rd EXCEPT ![r] = IF rd[r].op = "diff" THEN [GoesOn(r, "previous") EXCEPT !.to = to]
                                      ELSE Texts(r, 0, to, IF rd[r].op = "single" THEN <<to, to>> ELSE <<to>>)]
  /\ UNCHANGED <<viewed, past>>

PreviousKey(r) ==
  /\ Has(r, "previous")
  /\ LET n == Len(history)
         from == history[n - 1][1]
     IN  IF n < 2 \/ from >= rd[r].to THEN Ends(r)
         ELSE rd' = [rd EXCEPT ![r] = Texts(r, from, rd[r].to, <<from, rd[r].to>>)]
  /\ UNCHANGED <<viewed, past>>

\* Both from one look; the API looks again for each whether it is still there.
BothKeys(r) ==
  /\ Has(r, "both")
  /\ LET n == Len(history)
         from == history[n - 1][1]
         to == history[n][1]
     IN  IF n < 2 THEN Ends(r)
         ELSE rd' = [rd EXCEPT ![r] = Texts(r, from, to, IF rd[r].op = "api" THEN <<from, to, from, to>>
                                                         ELSE <<from, to>>)]
  /\ UNCHANGED <<viewed, past>>

\* get_history_snapshot(timestamp): the index again, then the file.
TextAt(r) ==
  /\ Has(r, "texts")
  /\ LET k == Head(rd[r].todo)
         left == Tail(rd[r].todo)
     IN  IF k \notin There THEN Ends(r)
         ELSE rd' = [rd EXCEPT ![r] = [GoesOn(r, "texts") EXCEPT !.todo = left,
                                         !.pc = IF left = << >> THEN "done" ELSE "busy"]]
  /\ UNCHANGED <<viewed, past>>

\* The requests: get_diff, get_snapshot, get_watch and, of the API, the difference of the
\* last two and the latest snapshot.
Asks(r, op, at) == Begins(r, op, at) /\ UNCHANGED <<now, files, cache, viewed, saver, past>>
get_diff(r) == Asks(r, "diff", "latest")
get_snapshot(r) == Asks(r, "snapshot", "latest")
get_watch(r) == Asks(r, "watch", "both")
WatchHistoryDiff(r) == Asks(r, "api", "both")
WatchSingleHistory(r) == Asks(r, "single", "any")

\* The API looks whether there is a history before it takes the last of it, and whether
\* that is still there before it reads it.
AnyVersion(r) ==
  /\ Has(r, "any")
  /\ IF history = << >> THEN Ends(r) ELSE rd' = [rd EXCEPT ![r] = GoesOn(r, "latest")]
  /\ UNCHANGED <<viewed, past>>

Versions(r) == \/ get_diff(r) \/ get_snapshot(r) \/ get_watch(r) \/ WatchHistoryDiff(r)
               \/ WatchSingleHistory(r) \/ AnyVersion(r) \/ LatestKey(r) \/ PreviousKey(r)
               \/ BothKeys(r) \/ TextAt(r)

-----------------------------------------------------------------------------
\* What changed since a date: get_changes.

\* A watch whose cached newest key is not after the date is not read at all.
AskChanges(r, since) ==
  /\ Free(r)
  /\ rd' = [rd EXCEPT ![r] = [Idle EXCEPT !.op = "changes", !.since = since, !.at = "changes",
                                !.stale = history # << >> /\ newest # Last(history)[1],
                                !.pc = IF lastChanged # 0 /\ lastChanged <= since THEN "done" ELSE "busy",
                                !.read = IF lastChanged # 0 /\ lastChanged <= since THEN history ELSE << >>]]
  /\ UNCHANGED <<now, files, cache, viewed, saver, past>>

\* watch_changes(): the versions after the date against the last one before it.
Changes(r) ==
  /\ Has(r, "changes")
  /\ LET h == history
         before == SelectSeq(h, LAMBDA e : e[1] <= rd[r].since)
         after == SelectSeq(h, LAMBDA e : e[1] > rd[r].since)
         shown == IF before = << >> /\ after # << >> THEN Tail(after) ELSE after
         baseline == IF before = << >> THEN Head(after) ELSE Last(before)
     IN  IF shown = << >> THEN Ends(r)
         ELSE rd' = [rd EXCEPT ![r] = Texts(r, baseline[1], Last(shown)[1], <<baseline[1], Last(shown)[1]>>)]
  /\ UNCHANGED <<viewed, past>>

-----------------------------------------------------------------------------
\* Many versions, the index read once and the files by their path: find_change,
\* line_timeline and get_history.

\* n evenly spaced ones of s, rounded half up.
Sample(s, n) ==
  IF n >= Len(s) THEN s
  ELSE [i \in 1..n |-> s[1 + (2 * (i - 1) * (Len(s) - 1) + (n - 1)) \div (2 * (n - 1))]]

find_change(r) == Asks(r, "find", "search")
line_timeline(r) == Asks(r, "timeline", "search")
get_history(r) == Asks(r, "history", "search")

Search(r) ==
  /\ Has(r, "search")
  /\ LET h == history
     IN  rd' = [rd EXCEPT ![r] =
                  [rd[r] EXCEPT !.todo = IF rd[r].op = "history" THEN Sample(h, Wanted) ELSE h,
                                !.at = "files", !.since = Len(h), !.from = Head(Append(h, <<0, {}>>))[1],
                                !.to = IF h = << >> THEN 0 ELSE Last(h)[1],
                                !.pc = IF h # << >> THEN "busy" ELSE "done"]]
  /\ UNCHANGED <<viewed, past>>

File(r) ==
  /\ rd[r].pc = "busy" /\ rd[r].at = "files"
  /\ LET e == Head(rd[r].todo)
         left == Tail(rd[r].todo)
     IN  IF e \notin disk THEN Ends(r)
         ELSE rd' = [rd EXCEPT ![r].read = Append(@, e), ![r].todo = left,
                               ![r].pc = IF left = << >> THEN "done" ELSE "busy"]
  /\ UNCHANGED <<now, files, cache, viewed, saver, past>>

\* The time is up: what was found so far is the answer.
Deadline(r) == /\ rd[r].pc = "busy" /\ rd[r].at = "files" /\ rd[r].op # "history"
               /\ rd' = [rd EXCEPT ![r].pc = "done", ![r].todo = << >>]
               /\ UNCHANGED <<now, files, cache, viewed, saver, past>>

\* Watch.find_change(): the periods with a match, and the one that is open.
Period(ts) == [seen |-> ts, last |-> ts, gone |-> 0, n |-> 1]

\* Mutant: the open period is not closed when the text goes away.
Step_Open(acc, s) ==
  IF Needle \notin s[2] THEN acc
  ELSE IF acc.open THEN [acc EXCEPT !.periods[Len(acc.periods)].last = s[1],
                                    !.periods[Len(acc.periods)].n = @ + 1]
       ELSE [open |-> TRUE, periods |-> Append(acc.periods, Period(s[1]))]

Step(acc, s) ==
  LET n == Len(acc.periods)
  IN  IF Needle \notin s[2]
      THEN IF acc.open THEN [acc EXCEPT !.open = FALSE, !.periods[n].gone = s[1]] ELSE acc
      ELSE IF acc.open THEN [acc EXCEPT !.periods[n].last = s[1], !.periods[n].n = @ + 1]
           ELSE [open |-> TRUE, periods |-> Append(acc.periods, Period(s[1]))]

Periods(read) == FoldLeft(Step, [open |-> FALSE, periods |-> << >>], read).periods

\* Watch.line_timeline(): when each line was first and last there.
Entered(acc, s) ==
  [l \in Lines |-> IF l \notin s[2] THEN acc[l]
                   ELSE IF acc[l].seen = 0 THEN [seen |-> s[1], last |-> s[1], n |-> 1]
                        ELSE [acc[l] EXCEPT !.last = s[1], !.n = @ + 1]]
Timeline(read) == FoldLeft(Entered, [l \in Lines |-> [seen |-> 0, last |-> 0, n |-> 0]], read)

\* snapshots_as_patches(): the first in full, each of the others against one before.
snapshots_as_patches(read) ==
  [i \in 1..(Len(read) - 1) |-> [ts |-> read[i + 1][1], against |-> read[i][1],
                                 unchanged |-> read[i + 1][2] = read[i][2]]]

\* extract_regex_from_all_history(): the index, and for every entry of it whose file is
\* there the index again.
extract(r) == Asks(r, "extract", "extract")
Extracts(r) == /\ Has(r, "extract")
               /\ IF history = << >> THEN Ends(r)
                  ELSE rd' = [rd EXCEPT ![r] = Texts(r, 0, 0, [i \in DOMAIN history |-> history[i][1]])]
               /\ UNCHANGED <<viewed, past>>

Searching(r) == \/ extract(r) \/ Extracts(r) \/ find_change(r) \/ line_timeline(r)
                \/ get_history(r) \/ Search(r) \/ File(r) \/ Deadline(r)

-----------------------------------------------------------------------------
\* The pages of the interface.

\* get_from_version_based_on_last_viewed
FromVersion(h, last) ==
  IF last >= Last(h)[1] THEN h[Len(h) - 1][1]
  ELSE IF last < h[1][1] THEN h[1][1]
       ELSE Last(SelectSeq(h, LAMBDA e : e[1] <= last))[1]

OpenPage(r) == Asks(r, "page", "page")

Enough(r) == /\ Has(r, "page")
             /\ IF Len(history) < 2 THEN Ends(r)
                ELSE rd' = [rd EXCEPT ![r] = GoesOn(r, "dates")]
             /\ UNCHANGED <<viewed, past>>

Dates(r) == /\ Has(r, "dates")
            /\ IF Len(history) < 2 THEN Ends(r)
               ELSE rd' = [rd EXCEPT ![r] = [GoesOn(r, "version") EXCEPT !.read = history,
                                                                         !.to = Last(history)[1]]]
            /\ UNCHANGED <<viewed, past>>

Version(r) ==
  /\ Has(r, "version")
  /\ LET h == history
         from == IF h = << >> THEN rd[r].read[Len(rd[r].read) - 1][1]
                 ELSE IF Len(h) = 1 THEN h[1][1] ELSE FromVersion(h, viewed)
     IN  rd' = [rd EXCEPT ![r].from = from, ![r].at = "show"]
  /\ UNCHANGED <<viewed, past>>

\* A look, dated now, at the versions ks, which leaves those before it to the past.
Looked(ks, behind) == /\ viewed' = Second
                      /\ past' = past \cup ks \cup (({saver.key} \cup Keys(index)) \ (behind \cup {0}))
                      /\ saver' = [saver EXCEPT !.looked = saver.pc = "checking"]

\* The texts are read, or replaced by a message, and only then the look is dated.
Show(r) == /\ rd[r].pc = "busy" /\ rd[r].at = "show"
           /\ Looked({k \in 1..Rounded : rd[r].from <= k /\ k <= rd[r].to}, {k \in There : k < rd[r].from})
           /\ Ends(r)
           /\ UNCHANGED <<now, files, cache>>

\* 'mark-viewed', and mark_all_viewed() for all watches listed.
MarkViewed == /\ Looked(There, {})
              /\ UNCHANGED <<now, files, cache, rd>>

AskUnview(r) == /\ counted >= 2
                /\ Asks(r, "unview", "unview")

\* 'mark-unviewed' winds the look back to the version before the newest.
Unview(r) == /\ Has(r, "unview")
             /\ IF Len(history) < 2 THEN Ends(r) /\ viewed' = viewed
                ELSE viewed' = history[Len(history) - 1][1] /\ Ends(r)
             /\ past' = past \cup Keys(SelectSeq(history, LAMBDA e : e[1] <= viewed'))

\* A clearing in the midst of a save is the case of WatchHistory.
AskClear(r) == /\ Free(r) /\ saver.pc \in {"idle", "checking"}
               /\ rd' = [rd EXCEPT ![r] = [Idle EXCEPT !.op = "clear", !.pc = "busy", !.at = "clear"]]
               /\ index' = << >> /\ disk' = {} /\ first' = 0 /\ quiet' = {}
               /\ UNCHANGED <<now, cache, viewed, saver, past>>

Cleared(r) == /\ Has(r, "clear")
              /\ viewed' = 0
              /\ Ends(r)
              /\ UNCHANGED past

Pages(r) == \/ OpenPage(r) \/ Enough(r) \/ Dates(r) \/ Version(r) \/ Show(r)
            \/ AskUnview(r) \/ Unview(r) \/ AskClear(r) \/ Cleared(r)

-----------------------------------------------------------------------------
Still == \A r \in Readers : rd[r].pc # "done"
\* An answer is given before anything else happens.
Next == \/ Still /\ (Tick \/ Saving \/ MarkViewed)
        \/ \E r \in Readers : \/ Told(r) \/ Reads(r) \/ Tells(r) \/ Versions(r) \/ Searching(r)
                              \/ Pages(r) \/ Changes(r)
                              \/ \E since \in 0..Second : AskChanges(r, since)

Spec == Init /\ [][Next]_vars
-----------------------------------------------------------------------------
Done(r, ops) == rd[r].pc = "done" /\ rd[r].op \in ops

\* Whatever is saved, trimmed or cleared between two looks at the index, a diff of the
\* latest change is of two versions with none between them.
AdjacentOrRefused ==
  \A r \in Readers : Done(r, {"diff", "watch", "api"}) =>
    /\ rd[r].from < rd[r].to
    /\ \A k \in There : ~(rd[r].from < k /\ k < rd[r].to)

\* The periods find_change() tells are the longest runs of versions with a match, and
\* line_timeline() tells of every line the first and the last version that had it.
FoundIsHistory ==
  \A r \in Readers : Done(r, {"find", "timeline"}) =>
    LET read == rd[r].read
        has(l, i) == l \in read[i][2]
        starts == {i \in DOMAIN read : has(Needle, i) /\ (i > 1 => ~has(Needle, i - 1))}
        ends == {i \in DOMAIN read : has(Needle, i) /\ (i < Len(read) => ~has(Needle, i + 1))}
        told == Periods(read)
        lines == Timeline(read)
    IN  /\ {p.seen : p \in ToSet(told)} = {read[i][1] : i \in starts}
        /\ {p.last : p \in ToSet(told)} = {read[i][1] : i \in ends}
        /\ {p.gone : p \in ToSet(told)} \ {0} = {read[i + 1][1] : i \in ends \ {Len(read)}}
        /\ \A i \in 1..(Len(told) - 1) : told[i].gone # 0 /\ told[i].gone < told[i + 1].seen
        /\ \A l \in Lines :
             LET on == {read[i][1] : i \in {j \in DOMAIN read : has(l, j)}}
             IN  /\ lines[l].n = Cardinality(on)
                 /\ on # {} => /\ {lines[l].seen, lines[l].last} \subseteq on
                               /\ \A t \in on : lines[l].seen <= t /\ t <= lines[l].last

\* get_history sampled: the first and the last version are among those told, no two of
\* them twice, and each patch is against the one before.
SampleKeepsEnds ==
  \A r \in Readers : Done(r, {"history"}) =>
    LET read == rd[r].read
        patches == snapshots_as_patches(read)
    IN  read # << >> =>
        /\ read[1][1] = rd[r].from /\ Last(read)[1] = rd[r].to
        /\ Len(read) = IF rd[r].since < Wanted THEN rd[r].since ELSE Wanted
        /\ \A i \in 1..(Len(read) - 1) : read[i][1] < read[i + 1][1]
        /\ \A i \in DOMAIN patches : patches[i].against < patches[i].ts

\* "this rules out watches that haven't changed since `from`": a watch that is passed
\* over has no version after the date, unless the cached key was set back by a reader.
NoneLeftOut ==
  \A r \in Readers : Done(r, {"changes"}) /\ rd[r].todo = << >> /\ rd[r].to = 0 =>
    rd[r].stale \/ \A k \in Keys(rd[r].read) : k <= rd[r].since

\* "an unmarked retained version must remain alert-worthy": one that nobody was shown is
\* unread, but for those of checks that were under way when somebody looked.
SeenOrUnread ==
  (\E k \in There \ (quiet \cup {first}) : k \notin past) => hasUnviewed
=============================================================================
