------------------------------ MODULE Extraction ------------------------------
(***************************************************************************)
(* From a fetched document to its text, in many threads: checks, the tasks *)
(* of a preview, the validation of a form and the assistant's look at a    *)
(* saved page.                                                             *)
(*                                                                         *)
(* libxml2 shares state between parsers, so two uses of it by different    *)
(* parsers at a time may mix their documents; uses of lxml's global parser *)
(* wait for each other.  html_tools.py keeps its uses apart by a lock, the *)
(* assistant's do without.  The tasks of a preview share the fetcher whose *)
(* content the reader mode for feeds overwrites.                           *)
(***************************************************************************)
EXTENDS Naturals, Sequences, SequencesExt

CONSTANTS
  Tasks,       \* threads that extract a text
  Others,      \* threads that validate a form or outline a page
  Works,       \* what threads may work on: functions from threads to pages
  Parts,       \* the elements of a page, in order
  Subtracts,   \* sets of selectors to remove
  Includes     \* sequences of selectors to keep

VARIABLES
  jobOf,       \* jobOf[t]: the page a thread works on; the tasks of a preview share one
  reader,      \* rss_reader_mode
  doc,         \* doc[j]: fetcher.content
  rules,       \* rules[j]: the filters of the watch
  lock,        \* who holds _LXML_LOCK
  inside,      \* the uses of libxml2 under way: a thread and its parser
  th           \* th[t]: where a thread is

vars == <<jobOf, reader, doc, rules, lock, inside, th>>

Jobs == {jobOf[t] : t \in Tasks}

\* A selector names an element, and perhaps the one it has to be within.
Hit(selector, piece) == /\ selector.part = piece.part
                        /\ selector.within => piece.within
Kept(pieces, selectors) ==
  SelectSeq(pieces, LAMBDA p : \A s \in selectors : ~Hit(s, p))
Page(j) == [i \in DOMAIN Parts |-> [of |-> j, part |-> Parts[i], within |-> TRUE]]

Start == [pc |-> "type", feed |-> FALSE, pieces |-> << >>, found |-> << >>,
          todo |-> << >>, met |-> {}, beside |-> FALSE, spoiled |-> FALSE]

\* The form of a document and what its header says of it.  A saved feed may be one the
\* reader mode has formatted.  A run starts with all documents of one form and with the
\* same filters for all.
Forms == {[form |-> f, header |-> h] : f \in {"feed", "articles"}, h \in {"rss", "xml"}}
         \cup {[form |-> "page", header |-> "html"]}

Init == /\ jobOf \in Works
        /\ reader \in BOOLEAN
        /\ \E d \in Forms : (d.form = "articles" => reader) /\ doc = [j \in Jobs |-> d]
        /\ \E r \in [remove : Subtracts, keep : Includes] : rules = [j \in Jobs |-> r]
        /\ lock = "free" /\ inside = {}
        /\ th = [t \in Tasks \cup Others |-> Start]

-----------------------------------------------------------------------------
\* The calls a text takes.

Call(does, with, which) == [does |-> does, with |-> with, which |-> which]

\* The parser a call uses, "none" if libxml2 has no part in it.
Parser(call) == CASE call.does = "text" -> "global"
                  [] call.does = "outline" -> "global"
                  [] call.with \in {"xpath", "xpath1"} -> "own"
                  [] OTHER -> "none"

\* lxml_guarded; the assistant parses for itself.
Guarded(call) == call.does # "outline"

ByXpath(s) == s.with # "css"

\* Removal by XPath and then by CSS, each in one go, the filters one by one, and the text.
Calls(r, text) ==
     (IF \E s \in r.remove : ByXpath(s) THEN <<Call("remove", "xpath", 0)>> ELSE << >>)
  \o (IF \E s \in r.remove : ~ByXpath(s) THEN <<Call("remove", "css", 0)>> ELSE << >>)
  \o [i \in DOMAIN r.keep |-> Call("keep", r.keep[i].with, i)]
  \o (IF text THEN <<Call("text", "none", 0)>> ELSE << >>)

-----------------------------------------------------------------------------
At(t, pc) == th[t].pc = pc
Job(t) == jobOf[t]

\* guess_stream_type(): a header that says feed is trusted, another is not.
GuessType(t) ==
  /\ t \in Tasks /\ At(t, "type")
  /\ LET d == doc[Job(t)]
     IN  th' = [th EXCEPT ![t].pc = "prepare", ![t].feed = d.header = "rss" \/ d.form = "feed"]
  /\ UNCHANGED <<jobOf, reader, doc, rules, lock, inside>>

\* format_rss_items(): what is no feed has no entries.
Formatted(form) == IF form = "feed" THEN "articles" ELSE "nothing"

\* preprocess(): the reader mode overwrites the fetcher's content.
Preprocess(t) ==
  /\ At(t, "prepare")
  /\ LET d == doc[Job(t)]
         formats == th[t].feed /\ reader
         form == IF formats THEN Formatted(d.form) ELSE d.form
         empty == form = "nothing"
         unmark == IF th[t].feed /\ ~reader THEN <<Call("text", "none", 1)>> ELSE << >>
     IN  /\ doc' = [doc EXCEPT ![Job(t)].form = form]
         /\ th' = [th EXCEPT ![t].pc = "calls", ![t].spoiled = empty,
                             ![t].pieces = IF empty THEN << >> ELSE Page(Job(t)),
                             ![t].todo = unmark \o Calls(rules[Job(t)], TRUE)]
  /\ UNCHANGED <<jobOf, reader, rules, lock, inside>>

\* A form is validated, or the assistant outlines a page and tries its selectors on it.
Asks(t, call) ==
  /\ t \in Others /\ At(t, "type")
  /\ th' = [th EXCEPT ![t].pc = "calls", ![t].pieces = << >>, ![t].todo = <<call>>]
  /\ UNCHANGED <<jobOf, reader, doc, rules, lock, inside>>
ValidateXPath(t) == \E with \in {"xpath", "xpath1"} : Asks(t, Call("validate", with, 0))
html_outline(t) == Asks(t, Call("outline", "none", 0))

Now(t) == Head(th[t].todo)

\* The use of libxml2 begins.
Enter(t) ==
  /\ At(t, "calls") /\ th[t].todo # << >> /\ Parser(Now(t)) # "none"
  /\ Guarded(Now(t)) => lock = "free"
  /\ LET p == Parser(Now(t))
         mixes == {u \in inside : u.parser # p \/ p = "own"}
     IN  /\ p = "global" => \A u \in inside : u.parser # "global"
         /\ inside' = inside \cup {[by |-> t, parser |-> p]}
         /\ lock' = IF Guarded(Now(t)) THEN "held" ELSE lock
         /\ th' = [u \in DOMAIN th |->
                     IF u = t
                     THEN [th[t] EXCEPT !.pc = "inside", !.met = {jobOf[v.by] : v \in mixes},
                             !.beside = @ \/ \E v \in mixes : ~Guarded(Now(v.by))]
                     ELSE IF \E v \in mixes : v.by = u
                     THEN [th[u] EXCEPT !.met = @ \cup {Job(t)}, !.beside = @ \/ ~Guarded(Now(t))]
                     ELSE th[u]]
  /\ UNCHANGED <<jobOf, reader, doc, rules>>

\* What a call makes of the pieces, with something of a page it met or without.
Results(t, pieces) ==
  {pieces} \cup {Append(pieces, [of |-> j, part |-> Head(Parts), within |-> FALSE]) :
                 j \in th[t].met \ {Job(t)}}

\* An include filter gives the elements alone, whatever they were within.
Found(r, i, pieces) ==
  LET hits == SelectSeq(pieces, LAMBDA p : Hit(r.keep[i], p))
  IN  [n \in DOMAIN hits |-> [hits[n] EXCEPT !.within = FALSE]]

\* The call is done: the filters' findings are put together, and after the last of them
\* nothing found is an error.
Done(t, pieces, call) ==
  LET r == rules[Job(t)]
      last == call.does = "keep" /\ call.which = Len(r.keep)
      found == th[t].found \o pieces
      fails == last /\ found = << >>
      rest == [th[t] EXCEPT !.pc = IF fails THEN "error" ELSE "calls", !.todo = Tail(@), !.met = {}]
  IN  th' = [th EXCEPT ![t] =
               IF call.does # "keep" THEN [rest EXCEPT !.pieces = pieces]
               ELSE IF last THEN [rest EXCEPT !.pieces = found, !.found = << >>]
               ELSE [rest EXCEPT !.found = found]]

Outcome(t, call) ==
  LET r == rules[Job(t)]
  IN  CASE call.does = "keep" -> Found(r, call.which, th[t].pieces)
        [] call.does = "remove" -> Kept(th[t].pieces, {s \in r.remove : ByXpath(s) <=> call.with # "css"})
        [] OTHER -> th[t].pieces

\* The use of libxml2 ends, or fails; either way the lock is given back.
Leave(t) ==
  /\ At(t, "inside")
  /\ inside' = {u \in inside : u.by # t}
  /\ lock' = IF Guarded(Now(t)) THEN "free" ELSE lock
  /\ IF t \in Others THEN th' = [th EXCEPT ![t] = Start]
     ELSE \E pieces \in Results(t, Outcome(t, Now(t))) : Done(t, pieces, Now(t))
  /\ UNCHANGED <<jobOf, reader, doc, rules>>

\* CSS selectors are BeautifulSoup's.
ByCss(t) ==
  /\ At(t, "calls") /\ th[t].todo # << >> /\ Parser(Now(t)) = "none"
  /\ Done(t, Outcome(t, Now(t)), Now(t))
  /\ UNCHANGED <<jobOf, reader, doc, rules, lock, inside>>

Next == \E t \in Tasks \cup Others :
          \/ GuessType(t) \/ Preprocess(t) \/ ValidateXPath(t) \/ html_outline(t)
          \/ Enter(t) \/ Leave(t) \/ ByCss(t)

Spec == Init /\ [][Next]_vars
-----------------------------------------------------------------------------
Texts == {t \in Tasks : th[t].pc = "calls" /\ th[t].todo = << >>}
Own(t) == SelectSeq(th[t].pieces, LAMBDA p : p.of = Job(t))

\* "EVERY lxml entry point in this process must go through here": the text of one page is
\* found in that of another only if the assistant, which does not, parsed beside it.
PagesKeptApart ==
  \A t \in Texts : th[t].beside \/ Own(t) = th[t].pieces

\* The text is, filter by filter, what each matches of the page, without anything a
\* selector to remove matches where it stands in the page; but a feed that was formatted
\* before this task came to it is empty.
RightText ==
  \A t \in Texts : ~th[t].spoiled =>
    LET r == rules[Job(t)]
        left == SelectSeq(Parts, LAMBDA p : \A s \in r.remove : s.part # p)
        wanted == IF r.keep = << >> THEN left
                  ELSE FlattenSeq([i \in DOMAIN r.keep |-> SelectSeq(left, LAMBDA p : p = r.keep[i].part)])
    IN  [i \in DOMAIN Own(t) |-> Own(t)[i].part] = wanted

\* Only the reader mode loses the text of a feed, and only where the content was
\* formatted before: for a preview, never for a document as it was fetched.
OnlyFormattedTwice ==
  \A t \in Tasks : th[t].spoiled => reader /\ doc[Job(t)].form = "nothing"
=============================================================================
