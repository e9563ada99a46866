------------------------------- MODULE Imports -------------------------------
(***************************************************************************)
(* Lists of URLs become watches: pasted lists, files of other services,    *)
(* spreadsheets, and the import of the API.                                *)
(*                                                                         *)
(* A list is worked off line by line, several at a time in the threads of  *)
(* their requests, and whether there is room for another watch is looked   *)
(* at before each line and once more when the watch is added, which is     *)
(* some time before it is in the dictionary: nothing locks the two.  What  *)
(* became no watch is handed back, told of in a message, or answered.      *)
(*                                                                         *)
(* A line is a record: whether it has a URL, whether a watch may have that *)
(* URL, and, of a file, whether the row can be read.                       *)
(***************************************************************************)
EXTENDS Integers, Sequences, FiniteSets

CONSTANTS
  Importers,  \* requests
  Kinds,      \* among "list", "distill", "wachete", "custom" and "api"
  Lists,      \* what may be imported: sequences of [url, valid, readable]
  ImportLimit, \* PAGE_WATCH_LIMIT
  Batch       \* 5000 of one list or file

ASSUME ImportersAssumption == IsFiniteSet(Importers)
ASSUME ImportLimitAssumption == ImportLimit \in Nat
ASSUME BatchAssumption == Batch \in Nat
ASSUME ListsAssumption == Lists \subseteq Seq([url : BOOLEAN, valid : BOOLEAN, readable : BOOLEAN])

VARIABLES
  imp,      \* what each request is at
  created   \* the watches: the request, the line and whether it was saved

importsVars == <<imp, created>>

Idle == [pc |-> "idle", kind |-> "none", lines |-> << >>, at |-> 1, good |-> 0,
         handed |-> {}, told |-> {}, answer |-> "none"]

Line(i) == imp[i].lines[imp[i].at]
More(i) == imp[i].at <= Len(imp[i].lines)
watch_limit_reached == Cardinality(created) >= ImportLimit

Goes(i, pc) == imp' = [imp EXCEPT ![i].pc = pc]
Advance(i) == imp' = [imp EXCEPT ![i].at = @ + 1, ![i].pc = "line"]

\* A pasted list hands back its lines, without groups but for those not reached; a file has a message.
HandedBack(i, how) == imp' = [imp EXCEPT ![i].at = @ + 1, ![i].pc = "line", ![i].handed = @ \cup {<<imp[i].at, how>>}]
Told(i) == imp' = [imp EXCEPT ![i].at = @ + 1, ![i].pc = "line", ![i].told = @ \cup {imp[i].at}]

Ask(i) ==
  /\ imp[i].pc = "idle"
  /\ \E k \in Kinds, ls \in Lists :
       imp' = [imp EXCEPT ![i] = [Idle EXCEPT !.pc = IF k = "api" THEN "validate" ELSE "line", !.kind = k, !.lines = ls]]
  /\ UNCHANGED created

\* The limit is told of once, and the rest of a file is left alone.
watch_limit_hit(i) ==
  /\ imp[i].pc = "line" /\ More(i) /\ imp[i].kind # "api"
  /\ Line(i).url /\ (imp[i].kind = "list" \/ Line(i).readable)
  /\ imp[i].good < Batch \/ imp[i].kind \in {"wachete", "custom"}
  /\ imp[i].kind \in {"wachete", "custom"} => Line(i).valid
  /\ IF ~watch_limit_reached THEN Goes(i, "add")
     ELSE LET rest == imp[i].at..Len(imp[i].lines)
          IN imp' = [imp EXCEPT ![i].pc = "done",
                                ![i].handed = IF imp[i].kind = "list" THEN @ \cup {<<n, "whole">> : n \in rest} ELSE @,
                                ![i].told = @ \cup rest]
  /\ UNCHANGED created

\* add_watch() looks at the URL and at the limit itself, and says so to a request ...
add_watch(i) ==
  /\ imp[i].pc = "add"
  /\ IF Line(i).valid /\ ~watch_limit_reached THEN Goes(i, "insert")
     ELSE IF imp[i].kind = "list" THEN HandedBack(i, "url")
     ELSE Told(i)
  /\ UNCHANGED created

\* ... and, when groups, processor and directory are seen to, adds the watch; only the API saves it.
InsertWatch(i) ==
  /\ imp[i].pc = "insert"
  /\ created' = created \cup {[by |-> i, at |-> imp[i].at, saved |-> imp[i].kind = "api"]}
  /\ imp' = [imp EXCEPT ![i].at = @ + 1, ![i].pc = "line", ![i].good = @ + 1]

\* A list: what is no URL, or comes after the first 5000, is handed back too.
SkipLine(i) ==
  /\ imp[i].pc = "line" /\ More(i) /\ imp[i].kind = "list"
  /\ ~Line(i).url \/ imp[i].good >= Batch
  /\ HandedBack(i, "url")
  /\ UNCHANGED created

\* A file: a row without a URL, or past the 5000, is left out without a word.
SkipRow(i) ==
  /\ imp[i].pc = "line" /\ More(i) /\ imp[i].kind \in {"distill", "wachete", "custom"}
  /\ Line(i).readable
  /\ ~Line(i).url \/ (imp[i].kind = "distill" /\ imp[i].good >= Batch)
  /\ Advance(i)
  /\ UNCHANGED created

\* A spreadsheet: the row is left at a URL that no watch may have.  In a sheet whose columns the user
\* has named, the cells before it have been read and those after it have not.
BadUrl(i) ==
  /\ imp[i].pc = "line" /\ More(i) /\ imp[i].kind \in {"wachete", "custom"}
  /\ Line(i).readable \/ imp[i].kind = "custom"
  /\ Line(i).url /\ ~Line(i).valid
  /\ Told(i)
  /\ UNCHANGED created

Unreadable(i) ==
  /\ imp[i].pc = "line" /\ More(i) /\ imp[i].kind \in {"distill", "wachete", "custom"}
  /\ ~Line(i).readable
  /\ UNCHANGED created

\* Cells of the wrong type: of a Wachete export the row is told of and left out ...
UnreadableRow(i) == Unreadable(i) /\ imp[i].kind = "wachete" /\ Told(i)

\* ... a sheet of the user's is given up at the row, which alone is told of (and as "skipped") ...
UnreadableSheet(i) ==
  /\ Unreadable(i) /\ imp[i].kind = "custom"
  /\ imp' = [imp EXCEPT ![i].pc = "done", ![i].told = @ \cup {imp[i].at}]

\* ... and for a file of JSON the whole request fails.
UnreadableFile(i) ==
  /\ Unreadable(i) /\ imp[i].kind = "distill"
  /\ imp' = [imp EXCEPT ![i].pc = "done", ![i].told = @ \cup (imp[i].at..Len(imp[i].lines))]

Finish(i) ==
  /\ imp[i].pc = "line" /\ ~More(i)
  /\ imp' = [imp EXCEPT ![i].pc = "done", ![i].answer = IF imp[i].kind = "api" THEN "added" ELSE @]
  /\ UNCHANGED created

-----------------------------------------------------------------------------
\* The API: all of the list or nothing, at the time it is looked at.

WithUrl(lines) == SelectSeq(lines, LAMBDA l : l.url)

Validate(i) ==
  /\ imp[i].pc = "validate"
  /\ LET lines == WithUrl(imp[i].lines)
         refusal == IF \E n \in DOMAIN lines : ~lines[n].valid THEN "invalid"
                    ELSE IF Cardinality(created) + Len(lines) > ImportLimit THEN "limit"
                    ELSE "none"
     IN imp' = [imp EXCEPT ![i].lines = lines, ![i].answer = refusal,
                           ![i].pc = IF refusal = "none" THEN "line" ELSE "done"]
  /\ UNCHANGED created

ApiLine(i) ==
  /\ imp[i].pc = "line" /\ More(i) /\ imp[i].kind = "api"
  /\ Goes(i, "add")
  /\ UNCHANGED created

ImportsInit == imp = [i \in Importers |-> Idle] /\ created = {}

ImportsNext == \E i \in Importers :
                 \/ Ask(i) \/ watch_limit_hit(i) \/ add_watch(i) \/ InsertWatch(i) \/ SkipLine(i) \/ SkipRow(i)
                 \/ BadUrl(i) \/ UnreadableRow(i) \/ UnreadableSheet(i) \/ UnreadableFile(i) \/ Finish(i) \/ Validate(i) \/ ApiLine(i)

ImportsSpec == ImportsInit /\ [][ImportsNext]_importsVars

-----------------------------------------------------------------------------
Became(i) == {w.at : w \in {x \in created : x.by = i}}
HandedOf(i) == {h[1] : h \in imp[i].handed}

\* Nobody is told of a row past the first 5000 of a Distill file, nor of one behind the row at
\* which a sheet of the user's was given up.
LeftOut(i, n) == \/ imp[i].kind = "distill" /\ imp[i].good >= Batch
                 \/ imp[i].kind = "custom" /\ n > imp[i].at /\ ~Line(i).readable

\* No line is lost but those: when a list is through, each of its lines with a URL is a watch, or is handed back or
\* told of; those of a pasted list are all handed back that are no watch.
EveryLineAccounted ==
  \A i \in Importers : imp[i].pc = "done" /\ imp[i].kind # "api" =>
    /\ \A n \in DOMAIN imp[i].lines :
         imp[i].lines[n].url => n \in Became(i) \cup HandedOf(i) \cup imp[i].told \/ LeftOut(i, n)
    /\ imp[i].kind = "list" => (DOMAIN imp[i].lines) \ Became(i) = HandedOf(i)

\* A refusal of the API means that nothing was created; and a crowd of importers passes the limit by
\* less than their number, since each looks at it once more before every watch it adds.
RefusedIsNothing ==
  /\ \A i \in Importers : imp[i].answer \in {"invalid", "limit"} => Became(i) = {}
  /\ created # {} => Cardinality(created) < ImportLimit + Cardinality(Importers)

=============================================================================
