------------------------------- MODULE TextRules -------------------------------
(***************************************************************************)
(* The rules of a watch on the text of its page: the stages of             *)
(* run_changedetection() of processors/text_json_diff/processor.py and of  *)
(* its copy for previews, render_filter_preview_snapshot(); the matching   *)
(* of rules in html_tools.py, the differences of diff/__init__.py and the  *)
(* conditions of conditions/__init__.py.                                   *)
(*                                                                         *)
(* A text is a sequence of lines, and a page the text its selectors leave. *)
(* A pattern matches within a line and is told by the lines it matches; a  *)
(* text stands for its MD5.  How a check and the fields it stores are      *)
(* interrupted is CheckPipeline's; here each check ends before the next.   *)
(***************************************************************************)
EXTENDS Integers, Sequences, SequencesExt, FiniteSets

CONSTANTS
  Pages,      \* what the site may answer with
  Configs,    \* the settings a watch may have at first
  Later,      \* those it may be edited to
  Rank,       \* the order of the lines in the alphabet
  Flattened,  \* begins a text whose whitespace is taken out
  NoText, NoCheck,
  MaxChecks, MaxChanges

VARIABLES
  config,    \* the settings now
  edition,   \* how often they were edited
  previous,  \* previous_md5
  fetched,   \* last-fetched.br: the text before the rules, kept for differences
  entries,   \* the history: text, page, and the check that saved it
  judged,    \* ghost: the last check that stored a checksum
  seen,      \* ghost: the last check that came to its rules
  ran,       \* ghost: the last check, and the two before it meant above
  checks     \* how many there were

vars == <<config, edition, previous, fetched, entries, judged, seen, ran, checks>>

----------------------------------------------------------------------------
(***************************************************************************)
(* Rules.  Each is of the watch, of a group of it, or of the whole site.   *)
(***************************************************************************)
OfKind(rules, kind) == {r \in rules : r.kind = kind}

Hits(rules, line) == \E r \in rules : line \in r.lines

\* The loop over the words holds the one over the regular expressions of a line.
Matches(rules, line) ==
  \/ Hits(OfKind(rules, "multiline"), line)
  \/ /\ OfKind(rules, "word") # {}
     /\ Hits(OfKind(rules, "word") \cup OfKind(rules, "regex"), line)

\* strip_ignore_text(), the text or the numbers of its lines.
Without(text, rules) == SelectSeq(text, LAMBDA l : ~Matches(rules, l))
LineNumbers(text, rules) == {i \in DOMAIN text : Matches(rules, text[i])}

----------------------------------------------------------------------------
(***************************************************************************)
(* ContentTransformer.                                                     *)
(***************************************************************************)
Containing(text, needles) ==
  IF needles = {} THEN text ELSE SelectSeq(text, LAMBDA l : l \in needles)

\* One pattern after the other goes through the whole text.
ByRegex(text, patterns) ==
  FlattenSeq([p \in DOMAIN patterns |-> FlattenSeq([i \in DOMAIN text |-> patterns[p][text[i]]])])

Extracted(c, text) == IF c.extract = << >> THEN text ELSE ByRegex(text, c.extract)

WithoutDuplicates(text) ==
  FoldLeft(LAMBDA kept, l : IF Contains(kept, l) THEN kept ELSE Append(kept, l), << >>, text)

Sorted(text) ==
  LET before(i, j) == \/ Rank[text[i]] < Rank[text[j]]
                      \/ Rank[text[i]] = Rank[text[j]] /\ i < j
      order == SetToSortSeq(DOMAIN text, before)
  IN [i \in DOMAIN text |-> text[order[i]]]

Tidied(c, text) ==
  LET once == IF c.unrepeated THEN WithoutDuplicates(text) ELSE text
  IN IF c.sorted THEN Sorted(once) ELSE once

Transformed(c, text) == Tidied(c, Extracted(c, Containing(text, c.keep)))

\* Mutant: lines are ignored in what was made of them.
Judged_Late(c, text) ==
  LET all == Transformed(c, text) kept == Without(all, c.ignore)
  IN [shown |-> IF c.ignore # {} /\ c.strip THEN kept ELSE all, sum |-> kept]

\* shown: the text that is stored; sum: the text that is compared.
Judged(c, text) ==
  LET all == Transformed(c, text) kept == Transformed(c, Without(text, c.ignore))
  IN IF c.ignore = {} THEN [shown |-> all, sum |-> all]
     ELSE [shown |-> IF c.strip THEN kept ELSE all, sum |-> kept]

\* ChecksumCalculator with the whitespace, line ends among it, taken out.
Flat(text) == IF Len(text) = 1 THEN text ELSE <<Flattened>> \o text

----------------------------------------------------------------------------
(***************************************************************************)
(* Differences.  The matching blocks of difflib: the longest first, then   *)
(* what is left and right of it.                                           *)
(***************************************************************************)
SameBlocks(a, b) ==
  {m \in (1..Len(a)) \X (1..Len(b)) \X (1..Len(a)) :
     /\ m[1] + m[3] - 1 <= Len(a) /\ m[2] + m[3] - 1 <= Len(b)
     /\ SubSeq(a, m[1], m[1] + m[3] - 1) = SubSeq(b, m[2], m[2] + m[3] - 1)}

Foremost(m, n) == \/ m[3] > n[3]
                  \/ m[3] = n[3] /\ m[1] < n[1]
                  \/ m[3] = n[3] /\ m[1] = n[1] /\ m[2] <= n[2]

Gap(a, b, types) ==
  IF a = << >> THEN IF "added" \in types THEN b ELSE << >>
  ELSE IF b = << >> THEN IF "removed" \in types THEN a ELSE << >>
  ELSE IF "replaced" \in types THEN a \o b ELSE << >>

RECURSIVE Diff(_, _, _)
Diff(a, b, types) ==
  LET same == SameBlocks(a, b)
  IN IF same = {} THEN Gap(a, b, types)
     ELSE LET m == CHOOSE m \in same : \A n \in same : Foremost(m, n)
          IN    Diff(SubSeq(a, 1, m[1] - 1), SubSeq(b, 1, m[2] - 1), types)
             \o Diff(SubSeq(a, m[1] + m[3], Len(a)), SubSeq(b, m[2] + m[3], Len(b)), types)

Types == {"added", "removed", "replaced"}
ByDifference(c) == c.types # {} /\ c.types # Types

----------------------------------------------------------------------------
(***************************************************************************)
(* What holds a change back.                                               *)
(***************************************************************************)
\* Rules that are not filled in are left out; facts come from plugins that may be too slow.
ConditionsMet(c, text, facts) ==
  LET rules == {r \in c.conditions : r.complete}
      holds(r) == facts /\ Contains(text, r.line)
  IN \/ rules = {}
     \/ c.match = "ALL" /\ \A r \in rules : holds(r)
     \/ c.match # "ALL" /\ \E r \in rules : holds(r)

HeldBack(c, sum, shown) == \/ c.trigger # {} /\ LineNumbers(sum, c.trigger) = {}
                           \/ LineNumbers(shown, c.forbid) # {}

Unique(text) == ~(ToSet(text) \subseteq UNION {ToSet(entries[i].text) : i \in DOMAIN entries})

----------------------------------------------------------------------------
(***************************************************************************)
(* A check: a page is judged, and a snapshot saved if it changed or is the *)
(* first one.                                                              *)
(***************************************************************************)
Init == /\ config \in Configs /\ edition = 0
        /\ previous = NoText /\ fetched = NoText /\ entries = << >>
        /\ judged = NoCheck /\ seen = NoCheck /\ ran = NoCheck
        /\ checks = 0

\* get_last_fetched_text_before_filters()
LastFetched == IF fetched = NoText THEN Last(entries).text ELSE fetched

Differs == ByDifference(config) /\ entries # << >>

Difference(page) == Diff(LastFetched, page, config.types)

\* What is said of a check, and what came before it.
Check(page, diff, facts, ending, change) ==
  [page |-> page, edition |-> edition, whole |-> ~Differs, diff |-> diff,
   facts |-> facts, ending |-> ending, changed |-> change]

Ended(check, stores) ==
  /\ ran' = [now |-> check, judged |-> judged, seen |-> seen]
  /\ seen' = check
  /\ judged' = IF stores THEN check ELSE judged
  /\ checks' = checks + 1
  /\ fetched' = IF Differs THEN check.page ELSE fetched
  /\ UNCHANGED <<config, edition>>

\* No difference of the kinds wanted.
CheckEqual(page) ==
  /\ checks < MaxChecks
  /\ Differs
  /\ Difference(page) = << >> /\ page # << >>
  /\ previous' = Flat(page)
  /\ Ended(Check(page, << >>, TRUE, "equal", FALSE), TRUE)
  /\ UNCHANGED entries

Material(page) == IF Differs THEN Difference(page) ELSE page

\* ReplyWithContentButNoText
CheckEmpty(page) ==
  /\ checks < MaxChecks
  /\ Material(page) = << >>
  /\ Differs => page = << >>
  /\ Ended(Check(page, << >>, TRUE, "empty", FALSE), FALSE)
  /\ UNCHANGED <<previous, entries>>

Saved(check, text) ==
  Append(entries, [text |-> text, page |-> check.page, by |-> check])

CheckText(page, facts) ==
  LET found == Judged(config, Material(page))
      held == \/ HeldBack(config, found.sum, found.shown)
              \/ ~ConditionsMet(config, found.shown, facts)
      differs == previous # found.sum
      change == ~held /\ differs /\ (config.unique => Unique(found.shown))
      check == Check(page, IF Differs THEN Material(page) ELSE << >>, facts,
                     IF held THEN "held" ELSE "judged", change)
  IN /\ checks < MaxChecks
     /\ Material(page) # << >>
     /\ config.conditions = {} => facts
     /\ previous' = IF held THEN previous ELSE found.sum
     /\ entries' = IF change \/ entries = << >> THEN Saved(check, found.shown) ELSE entries
     /\ Ended(check, ~held)

Edit == /\ edition < MaxChanges
        /\ edition' = edition + 1
        /\ config' \in Later \ {config}
        /\ UNCHANGED <<previous, fetched, entries, judged, seen, ran, checks>>

Next == \/ \E page \in Pages : \/ CheckEqual(page)
                               \/ CheckEmpty(page)
                               \/ \E facts \in BOOLEAN : CheckText(page, facts)
        \/ Edit

Spec == Init /\ [][Next]_vars

----------------------------------------------------------------------------
(***************************************************************************)
(* Previews.                                                               *)
(***************************************************************************)
\* render_filter_preview_snapshot() ignores lines in what was made of them.
Preview(c, page) ==
  LET all == Transformed(c, page)
      after == IF c.ignore # {} /\ c.strip THEN Without(all, c.ignore) ELSE all
  IN [after |-> after, blocked |-> HeldBack(c, after, after)]

\* build_combined_filter_preview() says of two versions whether the second would alert.
WouldAlert(c, from, to) ==
  Preview(c, to).after # Preview(c, from).after /\ ~Preview(c, to).blocked

\* _compute_ignore_line_numbers_for_preview(): a check without the extraction, whose lines
\* are extracted one by one.  It is not told of the rules of groups.
IgnoredNumbers(c, page) ==
  LET rules == {r \in c.ignore : r.of # "group"}
      plain == Judged([c EXCEPT !.extract = << >>], page).shown
      parts(i) == IF c.extract = << >> THEN <<plain[i]>> ELSE ByRegex(<<plain[i]>>, c.extract)
      flags == FlattenSeq([i \in DOMAIN plain |->
                             [j \in DOMAIN parts(i) |-> Matches(rules, plain[i])]])
  IN {n \in DOMAIN flags : flags[n]}

----------------------------------------------------------------------------
(***************************************************************************)
(* Properties.                                                             *)
(***************************************************************************)
\* What a user sees of a text: the fragments of the lines that are wanted and not ignored.
Visible(c, text) ==
  Extracted(c, SelectSeq(text, LAMBDA l : ~Matches(c.ignore, l) /\ (c.keep = {} \/ l \in c.keep)))

Count(text, l) == Cardinality({i \in DOMAIN text : text[i] = l})

Alike(c, s, t) ==
  LET m == Visible(c, s) n == Visible(c, t) lines == ToSet(m) \cup ToSet(n)
  IN CASE c.sorted /\ c.unrepeated -> ToSet(m) = ToSet(n)
       [] c.sorted /\ ~c.unrepeated -> \A l \in lines : Count(m, l) = Count(n, l)
       [] ~c.sorted /\ c.unrepeated -> WithoutDuplicates(m) = WithoutDuplicates(n)
       [] OTHER -> m = n

\* With the same rules as the last check that was not held back, a change is seen if and
\* only if something of the page the rules leave visible differs from that check's page,
\* whatever was held back in between (run_changedetection()).
TellsVisibleChanges ==
  LET now == ran.now base == ran.judged
  IN (/\ ran # NoCheck /\ base # NoCheck
      /\ now.edition = base.edition /\ now.edition = edition
      /\ now.whole /\ base.whole /\ now.ending = "judged" /\ ~config.unique)
     => (now.changed <=> ~Alike(config, base.page, now.page))

\* A watch that asks for some kinds of differences is told of every one the page shows
\* against the page of the check before, unless it was just told the same.
TellsDifferences ==
  LET now == ran.now before == ran.seen base == ran.judged
      diff == Diff(before.page, now.page, config.types)
      repeated == \/ Alike(config, diff, base.diff)
                  \/ (base.whole \/ base.ending = "equal") /\ Alike(config, diff, base.page)
  IN (/\ ran # NoCheck /\ before # NoCheck /\ base # NoCheck
      /\ now.edition = edition /\ before.edition = edition /\ base.edition = edition
      /\ ~now.whole /\ ~before.whole /\ ~config.unique)
     => /\ now.changed => diff # << >>
        /\ now.ending = "judged" /\ diff # << >> => now.changed \/ repeated

\* The preview shows what a check stores and holds back what a check holds back, but
\* where lines are ignored and extraction or a trigger follows.
PreviewAgrees ==
  LET page == ran.now.page found == Judged(config, page)
  IN (/\ ran # NoCheck
      /\ config.ignore = {} \/ (config.extract = << >> /\ config.trigger = {}))
     => /\ Preview(config, page).after = found.shown
        /\ Preview(config, page).blocked = HeldBack(config, found.sum, found.shown)

\* An alert a watch was given under its present rules is one the preview foretells.
PreviewForetells ==
  \A n \in DOMAIN entries \ {1} :
    LET by == entries[n].by
    IN (/\ config.ignore = {} /\ ~ByDifference(config)
        /\ by.edition = edition /\ entries[n - 1].by.edition = edition
        /\ entries[n - 1].by.ending = "judged")
       => WouldAlert(config, entries[n - 1].page, entries[n].page)

\* The lines the preview marks as ignored are the ones that came of ignored lines.
NumbersRight ==
  LET page == ran.now.page
      lines == Containing(page, config.keep)
      parts(i) == Extracted(config, <<lines[i]>>)
      origin == FlattenSeq([i \in DOMAIN lines |->
                              [j \in DOMAIN parts(i) |-> Matches(config.ignore, lines[i])]])
  IN (/\ ran # NoCheck /\ Len(config.extract) <= 1 /\ ~config.unrepeated /\ ~config.sorted
      /\ \A r \in config.ignore : r.of # "group")
     => IgnoredNumbers(config, page) = IF config.strip /\ config.ignore # {} THEN {}
                                       ELSE {n \in DOMAIN origin : origin[n]}

\* A page with a line the trigger asks for is not held back for want of it.
TriggerFound ==
  (ran # NoCheck /\ ran.now.ending = "held" /\ ran.now.edition = edition /\ ran.now.whole
     /\ config.forbid = {} /\ config.conditions = {} /\ config.ignore = {}
     /\ config.keep = {} /\ config.extract = << >>)
  => \A i \in DOMAIN ran.now.page : ~Hits(config.trigger, ran.now.page[i])
==============================================================================
