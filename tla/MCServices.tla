------------------------------ MODULE MCServices ------------------------------
(***************************************************************************)
(* Services that keep no state in common, side by side, so that a behaviour  *)
(* runs one of them: calls of the model and their budgets, restock checks,   *)
(* fetching with fallbacks and the extraction of texts, the updates of an    *)
(* old datastore, and the rules on the text of a page.                       *)
(***************************************************************************)
EXTENDS LlmCalls, Sequences, TLC, OldDatastore, Restock, Browsing, Upgrade

CONSTANTS site, worker, other, i1, i2, None, old, shop, news, Untitled, headline, article, advert

VARIABLES
  service,   \* the one that runs in this behaviour
  jobOf, readerMode, documents, filters, lxmlLock, inLibxml, extractions, ruleSet, ruleEdition,
  lastSum, lastFetched, savedTexts, lastJudged, lastSeen, lastRun, ruleChecks

\* A client whose time is not looked at.
NoBackoff == <<0, 0, 0>>

\* Pages that tell the readers apart, and prices that climb in small steps.
Page(prices, avail, text, phrase, selected) ==
    [prices |-> prices, avail |-> avail, text |-> text, phrase |-> phrase, selected |-> selected]
MCPages == { Page(<<100>>, "in", Unknown, Unknown, {100}),
             Page(<<104>>, "in", "out", "in", {104}),
             Page(<<108>>, Unknown, "in", "out", {108}),
             Page(<<104, 108>>, Unknown, "out", Unknown, {}),
             Page(<< >>, "in", "out", Unknown, {100, 108}) }

Set(mode, follow, percent, low, high, phrases) ==
    [mode |-> mode, follow |-> follow, percent |-> percent, low |-> low, high |-> high, phrases |-> phrases]
MCSettings == { Set("in_stock_only", TRUE, 5, Unknown, Unknown, FALSE),
                Set("all_changes", FALSE, Unknown, Unknown, Unknown, TRUE),
                Set("off", TRUE, Unknown, 101, Unknown, FALSE) }

\* Two checks, or two tasks of one preview, beside the assistant or a form.
MCWorks == {(i1 :> old) @@ (i2 :> j) @@ (other :> site) : j \in {old, shop}}
Selector(with, part, within) == [with |-> with, part |-> part, within |-> within]
MCSubtracts == {{}, {Selector("css", advert, TRUE), Selector("xpath", headline, FALSE)}}
MCIncludes == {<< >>, <<Selector("xpath", advert, FALSE), Selector("xpath1", article, FALSE)>>,
               <<Selector("css", advert, FALSE)>>}

Fetchers == {"puppeteer", "playwright", "selenium", "requests", "scrapling_http", "scrapling_stealth"}
MCKindOf == [b \in Fetchers |-> b]
MCOffers == {"puppeteer", "requests", "scrapling_http"}

MCOriginals == OldOriginals(old, shop, Tags)
NoWatches == [watch |-> << >>, app |-> OldApp, tag |-> << >>]
MCPosition == [w \in {old, shop} |-> IF w = old THEN 0 ELSE 1]

\* Pages and rules: a watch with up to two settings that are not the usual ones.
Word(line) == [of |-> "watch", kind |-> "word", lines |-> {line}]
RegEx(line) == [of |-> "watch", kind |-> "regex", lines |-> {line}]

MCRank == (site :> 1) @@ (old :> 2) @@ (shop :> 3)
RulePages == {<< >>, <<old>>, <<shop>>, <<old, old>>, <<old, shop>>, <<shop, old>>, <<site, shop>>}

NoRules == [ignore |-> {}, keep |-> {}, extract |-> << >>, unrepeated |-> FALSE,
            sorted |-> FALSE, strip |-> FALSE, trigger |-> {}, forbid |-> {},
            conditions |-> {}, match |-> "ALL", unique |-> FALSE,
            types |-> {"added", "removed", "replaced"}]

Fields == [
  ignore |-> {{Word(old)}, {RegEx(old)}, {Word(old), RegEx(shop)}, {[Word(shop) EXCEPT !.of = "group"]}},
  keep |-> {{old, shop}},
  extract |-> {<<(old :> <<site>>) @@ (shop :> << >>) @@ (site :> <<site>>)>>},
  unrepeated |-> {TRUE}, sorted |-> {TRUE}, strip |-> {TRUE},
  trigger |-> {{Word(shop)}, {RegEx(shop)}}, forbid |-> {{Word(old)}},
  conditions |-> {{[complete |-> TRUE, line |-> old], [complete |-> FALSE, line |-> shop]}},
  match |-> {"ANY"}, unique |-> {TRUE}, types |-> {{"added"}, {"removed"}, {"added", "replaced"}}]

Having(c, f) == {[c EXCEPT ![f] = v] : v \in Fields[f]}
OneMore(cs) ==
  cs \cup UNION {UNION {Having(c, f) : f \in {g \in DOMAIN Fields : c[g] = NoRules[g]}} : c \in cs}

MCConfigs == OneMore(OneMore({NoRules}))
MCLater == {NoRules} \cup Having(NoRules, "types") \cup Having(NoRules, "ignore")

Extracting == INSTANCE Extraction WITH reader <- readerMode, doc <- documents, rules <- filters,
                                       lock <- lxmlLock, inside <- inLibxml, th <- extractions,
                                       Tasks <- {i1, i2}, Others <- {other}, Works <- MCWorks,
                                       Parts <- <<headline, article, advert>>,
                                       Subtracts <- MCSubtracts, Includes <- MCIncludes
Ruling == INSTANCE TextRules WITH config <- ruleSet, edition <- ruleEdition, previous <- lastSum,
                                  fetched <- lastFetched, entries <- savedTexts,
                                  judged <- lastJudged, seen <- lastSeen, ran <- lastRun,
                                  checks <- ruleChecks, Pages <- RulePages, Configs <- MCConfigs,
                                  Later <- MCLater, Rank <- MCRank, Flattened <- Untitled,
                                  NoText <- None, NoCheck <- Failed, MaxChecks <- 3,
                                  MaxChanges <- 1

\* The service that runs is chosen once; the variables of the others stay at rest.
ModelVars == <<month, used, watchUsed, intent, verdicts, call, saving, said, events>>
RestockVars == <<page, marks, file, group, clearing, raw, stored, kept, run, child, cache, asOf,
                 unmarked, edits, checks>>
FetchingVars == <<tab, fetch, tried, open, waits, stirred, steps>>
UpdatesVars == <<original, disk, mem, boot, crashes, failures, missed>>
ExtractionVars == <<jobOf, readerMode, documents, filters, lxmlLock, inLibxml, extractions>>
RulesVars == <<ruleSet, ruleEdition, lastSum, lastFetched, savedTexts, lastJudged, lastSeen,
               lastRun, ruleChecks>>
ModelAtRest == ModelInit /\ intent = i1
RestockAtRest == run = NoCheck /\ raw = Unknown /\ clearing = FALSE /\ page = 0 /\ marks = 0
                 /\ file = 0 /\ group = 0 /\ stored = 0 /\ kept = 0 /\ child = 0 /\ cache = 0 /\ asOf = 0
                 /\ unmarked = 0 /\ edits = 0 /\ checks = 0
FetchingAtRest == FetchingInit /\ fetch = NewFetch("requests") /\ ~steps
UpdatesAtRest == /\ original = [d |-> NoWatches, kind |-> "legacy", schema |-> 0]
                 /\ disk = Files(NoWatches, "legacy", 0) /\ mem = NoWatches /\ boot = Off
                 /\ crashes = 0 /\ failures = 0 /\ missed = {}
ExtractionAtRest == /\ jobOf = 0 /\ readerMode = 0 /\ documents = 0 /\ filters = 0 /\ lxmlLock = 0
                    /\ inLibxml = 0 /\ extractions = 0
RulesAtRest == /\ ruleSet = 0 /\ ruleEdition = 0 /\ lastSum = 0 /\ lastFetched = 0
               /\ savedTexts = 0 /\ lastJudged = 0 /\ lastSeen = 0 /\ lastRun = 0
               /\ ruleChecks = 0

Init == \/ /\ service = "model" /\ ModelInit
           /\ RestockAtRest /\ FetchingAtRest /\ UpdatesAtRest /\ ExtractionAtRest /\ RulesAtRest
        \/ /\ service = "restock" /\ RestockInit
           /\ ModelAtRest /\ FetchingAtRest /\ UpdatesAtRest /\ ExtractionAtRest /\ RulesAtRest
        \/ /\ service = "fetching" /\ FetchingInit
           /\ ModelAtRest /\ RestockAtRest /\ UpdatesAtRest /\ ExtractionAtRest /\ RulesAtRest
        \/ /\ service = "updates" /\ UpdatesInit
           /\ ModelAtRest /\ RestockAtRest /\ FetchingAtRest /\ ExtractionAtRest /\ RulesAtRest
        \/ /\ service = "extraction" /\ Extracting!Init
           /\ ModelAtRest /\ RestockAtRest /\ FetchingAtRest /\ UpdatesAtRest /\ RulesAtRest
        \/ /\ service = "rules" /\ Ruling!Init
           /\ ModelAtRest /\ RestockAtRest /\ FetchingAtRest /\ UpdatesAtRest /\ ExtractionAtRest

Next == \/ /\ service = "model" /\ ModelNext
           /\ UNCHANGED <<service, RestockVars, FetchingVars, UpdatesVars, ExtractionVars,
                          RulesVars>>
        \/ /\ service = "restock" /\ RestockNext
           /\ UNCHANGED <<service, ModelVars, FetchingVars, UpdatesVars, ExtractionVars,
                          RulesVars>>
        \/ /\ service = "fetching" /\ FetchingNext
           /\ UNCHANGED <<service, ModelVars, RestockVars, UpdatesVars, ExtractionVars,
                          RulesVars>>
        \/ /\ service = "updates" /\ UpdatesNext
           /\ UNCHANGED <<service, ModelVars, RestockVars, FetchingVars, ExtractionVars,
                          RulesVars>>
        \/ /\ service = "extraction" /\ Extracting!Next
           /\ UNCHANGED <<service, ModelVars, RestockVars, FetchingVars, UpdatesVars, RulesVars>>
        \/ /\ service = "rules" /\ Ruling!Next
           /\ UNCHANGED <<service, ModelVars, RestockVars, FetchingVars, UpdatesVars,
                          ExtractionVars>>

vars == <<service, ModelVars, RestockVars, FetchingVars, UpdatesVars, ExtractionVars, RulesVars>>

Spec == /\ Init /\ [][Next]_vars

\* The text of a page is what its filters keep of it and nothing of another page, but where the
\* assistant parses without the lock or the reader mode has formatted a feed before.  A watch is
\* told of a change if and only if its rules leave it visible, a watch for some kinds of
\* differences of each it was not just told of, and previews agree with checks.
TextsAreRight ==
  /\ service = "extraction" => /\ Extracting!PagesKeptApart /\ Extracting!RightText
                               /\ Extracting!OnlyFormattedTwice
  /\ service = "rules" => /\ Ruling!TellsVisibleChanges /\ Ruling!TellsDifferences
                          /\ Ruling!PreviewAgrees /\ Ruling!PreviewForetells /\ Ruling!NumbersRight
==============================================================================
