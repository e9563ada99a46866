------------------------------- MODULE Restock -------------------------------
(***************************************************************************)
(* A price and stock watch: a check of its page, from the skip of an       *)
(* unchanged document over the extractors (parsers of the program, a child *)
(* process with the slow ones, the plugins with a language model), the     *)
(* user's filters and phrases to what is stored and reported; and the      *)
(* places its settings are edited in meanwhile: the edit form, the         *)
(* processor's own file through the API, a group that overrides both.      *)
(*                                                                         *)
(* A page is what each reader finds on it: the prices of its metadata in   *)
(* order, its availability, the stock text that the browser's script saw,  *)
(* the user's phrases, and the amounts their filter selects.               *)
(***************************************************************************)
EXTENDS Integers, Sequences, FiniteSets, SequencesExt

CONSTANTS
  Pages,       \* [prices, avail, text, phrase, selected]
  Settings,    \* [mode, follow, percent, low, high, phrases]
  Unknown, Failed,
  MaxEdits,    \* bound on edits
  MaxChecks    \* bound on checks

\* A checksum that was removed is that of no page.
ASSUME UnknownAssumption == Unknown \notin Pages

VARIABLES
  page,      \* what the site shows
  marks,     \* the watch: [filter, edited]
  file,      \* restock_diff.json
  group,     \* the settings of a group of the watch's that overrides, or None
  clearing,  \* a group is stored, its watches' checksums are not cleared yet
  raw,       \* last-checksum.txt: the page it is of
  stored,    \* watch['restock']
  kept,      \* what the newest snapshot says, and so the last report
  run,       \* the check under way
  child,     \* the process that extracts
  cache,     \* the model's replies that are remembered: [page, found]
  asOf,      \* a ghost: the settings the page was last judged by
  unmarked,  \* a ghost: an edit or a restart left no mark since the page was last judged
  edits, checks

restockVars == <<page, marks, file, group, clearing, raw, stored, kept, run, child, cache, asOf,
                 unmarked, edits, checks>>
settings == <<marks, file, group, clearing>>
results == <<raw, stored, kept, cache, asOf, unmarked>>

Nothing == [stock |-> Unknown, price |-> Unknown, last |-> Unknown]
Found(price, avail) == [price |-> price, avail |-> avail]
NoCheck == [pc |-> "idle", page |-> Unknown, by |-> Unknown, found |-> Found(Unknown, Unknown),
            many |-> FALSE]

\* Python's truth of a price and of an availability.
Some(x) == x # Unknown /\ x # 0

RestockInit == /\ page \in Pages
               /\ marks = [filter |-> FALSE, edited |-> FALSE]
               /\ file \in Settings /\ group = Unknown /\ clearing = FALSE
               /\ raw = Unknown /\ stored = Nothing /\ kept = Unknown
               /\ run = NoCheck /\ child = "none" /\ cache = {}
               /\ asOf = Unknown /\ unmarked = FALSE
               /\ edits = 0 /\ checks = 0

-----------------------------------------------------------------------------
\* The readers of a page.

\* The program's own parsers take the first price they meet.
Metadata(p) == Found(IF p.prices = << >> THEN Unknown ELSE Head(p.prices), p.avail)
Deduplicated(p) == ToSet(p.prices)

\* The user's filter: None, a price, or a failure when there is none or more than one.
Selected(p) == IF Cardinality(p.selected) = 1 THEN CHOOSE a \in p.selected : TRUE ELSE Failed

\* The user's phrases, out-of-stock first.
CustomStock(p, by) == IF by.phrases THEN p.phrase ELSE Unknown

\* The first group that overrides wins over the processor's file.
Effective == IF group # Unknown THEN group ELSE file

-----------------------------------------------------------------------------
\* The check.

At(pc) == run.pc = pc
CanSkip == ~marks.edited /\ raw = page

\* An unchanged document of an unedited watch ends the check, and the last error.
Skip == /\ At("idle") /\ checks < MaxChecks
        /\ CanSkip
        /\ checks' = checks + 1
        /\ UNCHANGED <<page, settings, results, run, child, edits>>

\* Any other document's checksum is on disk before it is looked at.
BeginCheck == /\ At("idle") /\ checks < MaxChecks
              /\ ~CanSkip
              /\ checks' = checks + 1
              /\ raw' = page
              /\ run' = [NoCheck EXCEPT !.pc = "settings", !.page = page]
              /\ UNCHANGED <<page, settings, stored, kept, cache, asOf, unmarked, child, edits>>

ReadsSettings == /\ At("settings")
                 /\ run' = [run EXCEPT !.by = Effective, !.pc = "parse"]
                 /\ unmarked' = FALSE
                 /\ UNCHANGED <<page, settings, raw, stored, kept, cache, asOf, child, edits, checks>>

\* Price and availability both found: done.  Otherwise a child looks again.
Parse == /\ At("parse")
         /\ LET f == Metadata(run.page) IN
            IF Some(f.price) /\ f.avail # Unknown
            THEN /\ run' = [run EXCEPT !.found = f, !.pc = "filters"]
                 /\ UNCHANGED child
            ELSE /\ run' = [run EXCEPT !.pc = "child"]
                 /\ child' = "working"
         /\ UNCHANGED <<page, settings, results, edits, checks>>

\* The child answers or fails; it may also just end, killed for its memory say.
ChildEnds == /\ child = "working"
             /\ child' \in {"answered", "failed", "dead"}
             /\ UNCHANGED <<page, settings, results, run, edits, checks>>

\* Its failure, the one of several prices included, is met by extracting in the program itself.
Extruct == /\ At("child") /\ child \in {"answered", "failed"}
           /\ child' = "none"
           /\ run' = IF Cardinality(Deduplicated(run.page)) > 1
                       THEN [run EXCEPT !.many = TRUE, !.pc = "plugins"]
                       ELSE LET f == Metadata(run.page) IN
                            [run EXCEPT !.found = f,
                                          !.pc = IF f.price # Unknown /\ f.avail # Unknown THEN "filters" ELSE "plugins"]
           /\ UNCHANGED <<page, settings, results, edits, checks>>

\* The plugins' answer is taken if it knows either.  The model says any price of the page and any
\* availability, or nothing; what it once said of this content is not asked again.
Reply(p) == {Found(price, avail) : price \in Deduplicated(p) \cup {Unknown}, avail \in {Unknown, "in", "out"}}
                \ {Found(Unknown, Unknown)}
Remembered == {r \in cache : r.page = run.page}
Plugins == /\ At("plugins")
           /\ \/ /\ Remembered = {}
                 /\ run' = [run EXCEPT !.pc = "filters"]
                 /\ UNCHANGED cache
              \/ \E f \in IF Remembered = {} THEN Reply(run.page) ELSE {r.found : r \in Remembered} :
                    /\ run' = [run EXCEPT !.found = f, !.pc = "filters"]
                    /\ cache' = cache \cup {[page |-> run.page, found |-> f]}
           /\ UNCHANGED <<page, settings, raw, stored, kept, asOf, unmarked, child, edits, checks>>

\* The price of the user's filter wins over every guess.  A filter without one price fails the
\* check, as do several prices nobody settled and a page on which nothing was found.
Filtered == IF ~marks.filter THEN run.found.price ELSE Selected(run.page)
Fails == \/ Filtered = Failed
         \/ run.many /\ ~Some(Filtered)
         \/ /\ CustomStock(run.page, run.by) = Unknown
            /\ run.page.text = Unknown /\ run.found.avail = Unknown /\ ~Some(Filtered)

Judged == run.found.avail # Unknown \/ Some(Filtered)

\* In stock: the metadata's word; without any the script's; the script's "not in stock" in any
\* case; the user's phrases above all.
Scraped == IF run.found.avail = Unknown /\ run.page.text # Unknown THEN run.page.text = "in"
           ELSE IF run.found.avail # Unknown THEN run.found.avail = "in" ELSE Unknown
NotALie == IF run.page.text = "out" /\ Scraped = TRUE THEN FALSE ELSE Scraped
Stock == LET custom == CustomStock(run.page, run.by) IN
         IF custom # Unknown THEN custom = "in" ELSE NotALie

Price == IF Judged THEN Filtered ELSE Unknown
LastPrice == IF Price # Unknown /\ Price # stored.price THEN stored.price ELSE stored.last

\* What is reported: a stock change as the mode wants it, a price that is not the last one; limits
\* that the price lies between and a change within the percentage call it off.
StockWanted == /\ stored.stock # Stock
               /\ \/ run.by.mode = "in_stock_only" /\ Stock = TRUE
                  \/ run.by.mode = "all_changes"
Distance(a, b) == IF a > b THEN a - b ELSE b - a
Between == /\ Some(run.by.low) \/ Some(run.by.high)
           /\ Some(run.by.low) => run.by.low <= Price
           /\ Some(run.by.high) => Price <= run.by.high
WithinPercent(from) == /\ Some(from) /\ Some(run.by.percent)
                       /\ from # Price /\ Distance(Price, from) * 100 <= run.by.percent * from
Reported == IF ~(run.by.follow /\ Some(Price)) THEN StockWanted
            ELSE /\ StockWanted \/ (Some(stored.price) /\ stored.price # Price)
                 /\ ~Between
                 /\ ~WithinPercent(stored.price)

Fail == /\ At("filters") /\ Fails
        /\ run' = NoCheck
        /\ asOf' = [by |-> run.by, filter |-> marks.filter]
        /\ UNCHANGED <<page, settings, raw, stored, kept, cache, unmarked, child, edits, checks>>

\* The same with the checksum saved once all has gone well.
Store_Checksum == /\ At("filters") /\ ~Fails
                  /\ marks' = [marks EXCEPT !.edited = FALSE]
                  /\ stored' = [stock |-> Stock, price |-> Price, last |-> LastPrice]
                  /\ kept' = IF Reported \/ kept = Unknown THEN [stock |-> Stock, price |-> Price] ELSE kept
                  /\ asOf' = [by |-> run.by, filter |-> marks.filter]
                  /\ run' = NoCheck
                  /\ raw' = run.page
                  /\ UNCHANGED <<page, file, group, clearing, cache, unmarked, child, edits, checks>>

\* The worker forgets that the watch was edited, stores, and keeps a snapshot of what is reported
\* and of the first result.
Store == /\ At("filters") /\ ~Fails
         /\ marks' = [marks EXCEPT !.edited = FALSE]
         /\ stored' = [stock |-> Stock, price |-> Price, last |-> LastPrice]
         /\ kept' = IF Reported \/ kept = Unknown THEN [stock |-> Stock, price |-> Price] ELSE kept
         /\ asOf' = [by |-> run.by, filter |-> marks.filter]
         /\ run' = NoCheck
         /\ UNCHANGED <<page, file, group, clearing, raw, cache, unmarked, child, edits, checks>>

-----------------------------------------------------------------------------
\* The site and the user.

PageChanges == /\ page' \in Pages
               /\ page' # page
               /\ UNCHANGED <<settings, results, run, child, edits, checks>>

Edits == edits < MaxEdits /\ edits' = edits + 1

\* The edit form: the watch's own filter, which marks the watch as edited.
EditWatch == /\ Edits
             /\ marks' = [filter |-> ~marks.filter, edited |-> TRUE]
             /\ unmarked' = (unmarked \/ ~At("idle"))
             /\ UNCHANGED <<page, file, group, clearing, raw, stored, kept, cache, asOf, run, child, checks>>

\* The API with nothing but the processor's settings: the file only.
PutProcessorConfig == /\ Edits
                      /\ file' \in Settings /\ file' # file
                      /\ unmarked' = TRUE
                      /\ UNCHANGED <<page, marks, group, clearing, raw, stored, kept, cache, asOf, run, child, checks>>

\* A group's settings, stored first and the checksums of its watches removed next.
EditGroup == /\ Edits /\ ~clearing
             /\ group' \in Settings \cup {Unknown} /\ group' # group
             /\ clearing' = TRUE
             /\ UNCHANGED <<page, marks, file, results, run, child, checks>>
ClearChecksums == /\ clearing
                  /\ clearing' = FALSE
                  /\ raw' = Unknown
                  /\ UNCHANGED <<page, marks, file, group, stored, kept, cache, asOf, unmarked, run, child, edits, checks>>

\* Of a check nothing is left but its checksum, and of an edit no mark.
RestockRestart == /\ Edits
                  /\ run' = NoCheck
                  /\ child' = "none"
                  /\ cache' = {}
                  /\ unmarked' = (unmarked \/ marks.edited \/ ~At("idle"))
                  /\ marks' = [marks EXCEPT !.edited = FALSE]
                  /\ UNCHANGED <<page, file, group, clearing, raw, stored, kept, asOf, checks>>

-----------------------------------------------------------------------------
Step == ReadsSettings \/ Parse \/ Extruct \/ Plugins \/ Fail \/ Store

RestockNext == \/ Skip \/ BeginCheck \/ ReadsSettings \/ Parse \/ ChildEnds \/ Extruct \/ Plugins \/ Fail \/ Store
               \/ PageChanges \/ EditWatch \/ PutProcessorConfig \/ EditGroup \/ ClearChecksums \/ RestockRestart

\* A check once begun is run to its end, and a child ends one way or another.
RestockFairness == WF_restockVars(Step) /\ WF_restockVars(ChildEnds)
RestockSpec == RestockInit /\ [][RestockNext]_restockVars /\ RestockFairness

-----------------------------------------------------------------------------
BetweenChecks == At("idle") /\ ~clearing /\ raw = page /\ ~marks.edited

\* When the next check would skip the page as unchanged, it was judged by the settings in force:
\* a group edited in the middle of a check never leaves the watch with the result of the old ones
\* (aside from edits that leave no mark that was_edited could show).
InForce == BetweenChecks /\ ~unmarked => asOf = [by |-> Effective, filter |-> marks.filter]

\* A product the visitor's page calls sold out is never stored as in stock on the word of the
\* metadata, a plugin or the model: only the user's own phrases may say so.
NeverSoldOut == At("filters") /\ ~Fails /\ Stock = TRUE =>
    run.page.text # "out" \/ CustomStock(run.page, run.by) = "in"

\* Both of these, as the run checks them.
SettingsApplied == InForce /\ NeverSoldOut

=============================================================================
