-------------------------------- MODULE Upgrade --------------------------------
(***************************************************************************)
(* Loading the datastore at the start of the program, and the schema       *)
(* updates of store/updates.py, while the process may be killed between    *)
(* any two writes and started again.                                       *)
(*                                                                         *)
(* The old format is one file, url-watches.json, which nothing ever        *)
(* changes; the new one is changedetection.json with a watch.json and a    *)
(* tag.json each in directories of their own.  Updates 1 to 25 change the  *)
(* objects in memory, update 26 writes the watches to their files, 29 the  *)
(* tags, and 30 and 33 write what they change, object by object.  After    *)
(* every update the settings are saved with the new schema version.        *)
(*                                                                         *)
(* Of a watch the fields that an update reads or writes are kept, each     *)
(* with the few values that the updates tell apart.  "none" is a missing   *)
(* or empty value.  A history is the sequence of its snapshots' prices, 0  *)
(* where a snapshot has none.                                              *)
(***************************************************************************)
EXTENDS Integers, Sequences, FiniteSets, Functions

CONSTANTS
  Watches,      \* uuids of watches
  Position,     \* [Watches -> Nat]: their order in the datastore
  Tags,         \* titles of groups that watches' old tag texts name
  Originals,    \* a set of [watch, app, tag]: what a datastore may hold at version 0
  Starts,       \* what it may start from: <<"legacy" or "split", schema version>>
  MaxCrashes,   \* bound on kills
  MaxFailures,  \* bound on saves that fail
  MayTear       \* TRUE: a kill can leave a file written in place cut off

IsRecord(r, fields) == r = [f \in fields |-> r[f]]

WatchFields == {"minutes", "interval", "inline", "index", "dir", "last_changed", "body", "title", "css_filter",
                "include_filters", "fetch_backend", "tag", "tags", "created", "use_default", "in_stock", "restock",
                "in_stock_only", "restock_settings", "elements", "extract_title", "use_page_title", "format",
                "processor", "history"}
RestockFields == {"in_stock", "price", "last_price", "original_price"}
AppFields == {"minutes", "interval", "body", "title", "headers", "extract_title", "use_page_title", "timezone",
              "scheduler_timezone", "format", "rss_format", "llm_flat", "llm", "per_check", "cumulative", "per_period"}
TagFields == {"restock_settings", "config", "format"}

IsWatch(w) == /\ IsRecord(w, WatchFields)
              /\ IsRecord(w.restock, RestockFields)
              /\ IsRecord(w.include_filters, DOMAIN w.include_filters)
              /\ w.history \in Seq(Nat)
IsApp(a) == IsRecord(a, AppFields) /\ a.extract_title \in BOOLEAN /\ a.use_page_title \in BOOLEAN
IsTag(t) == IsRecord(t, TagFields)

\* One function for the watches, one for the groups.
IsWatchMap(f) == DOMAIN f \subseteq Watches /\ IsRecord(f, DOMAIN f) /\ \A w \in DOMAIN f : IsWatch(f[w])
IsTagMap(f) == IsRecord(f, DOMAIN f) /\ \A t \in DOMAIN f : IsTag(f[t])

IsDatastore(d) == /\ IsRecord(d, {"watch", "app", "tag"})
                  /\ IsWatchMap(d.watch) /\ IsApp(d.app) /\ IsTagMap(d.tag)

ASSUME PositionAssumption == Position \in [Watches -> Nat]
ASSUME OriginalsAssumption == \A d \in Originals : IsDatastore(d) /\ DOMAIN d.watch = Watches
\* Update 26 made the new format.
ASSUME StartsAssumption == Starts \subseteq ({"legacy"} \X (0 .. 25)) \cup ({"split"} \X (26 .. 33))

VARIABLES
  original,  \* the datastore before the first start, and what it started from
  disk,      \* the files
  mem,       \* the datastore in memory
  boot,      \* progress of this start
  crashes, failures,
  missed     \* watches whose save in an update failed, or whose file was cut off (a ghost)

updatesVars == <<original, disk, mem, boot, crashes, failures, missed>>

Off == [pc |-> "off", n |-> 0, todo |-> {}, legacy |-> FALSE]

-----------------------------------------------------------------------------
\* The updates, as functions of the datastore d = [watch, app, tag].

EachWatch(d, F(_)) == [d EXCEPT !.watch = [w \in DOMAIN @ |-> F(@[w])]]

\* An interval in minutes, where one was set.
Update1(d) ==
  LET W(w) == IF w.minutes # "none" THEN [w EXCEPT !.interval = w.minutes] ELSE w
  IN  [EachWatch(d, W) EXCEPT !.app.interval = IF d.app.minutes # "none" THEN d.app.minutes ELSE @]

\* The list of snapshots becomes a file, where the watch has a directory; the list goes either way.
Update2(d) ==
  LET W(w) == IF w.inline THEN [w EXCEPT !.inline = FALSE, !.index = w.dir \/ @] ELSE w
  IN  EachWatch(d, W)

Update4(d) == LET W(w) == [w EXCEPT !.last_changed = FALSE] IN EachWatch(d, W)

\* Texts that are those of the system are unset; the title is compared with the system's body too.
Update5(d) ==
  LET Unset(text) == IF text = d.app.body THEN "none" ELSE text
      W(w) == [w EXCEPT !.body = Unset(@), !.title = Unset(@)]
  IN  EachWatch(d, W)

Update7(d) == [d EXCEPT !.app.headers = @ \ {"User-Agent", "Accept", "Accept-Encoding", "Accept-Language"}]

Update8(d) ==
  LET W(w) == IF w.css_filter # "none" THEN [w EXCEPT !.include_filters = <<w.css_filter>>] ELSE w
  IN  EachWatch(d, W)

\* {token} becomes {{token}} in texts, with a lookaround that leaves {{token}} alone.
Update9(d) ==
  LET Tokens(text) == IF text = "{}" THEN "{{}}" ELSE text
      W(w) == [w EXCEPT !.body = Tokens(@), !.title = Tokens(@)]
      S == [d.app EXCEPT !.body = Tokens(@), !.title = IF d.app.body # "none" THEN Tokens(@) ELSE @]
  IN  [EachWatch(d, W) EXCEPT !.app = S]

Update10(d) == LET W(w) == IF w.fetch_backend = "none" THEN [w EXCEPT !.fetch_backend = "system"] ELSE w
               IN  EachWatch(d, W)

NewTag == [restock_settings |-> "none", config |-> "none", format |-> "system"]

\* Groups are made of the titles in a watch's old tag text; add_tag() finds one that is there.
Update12(d) ==
  LET W(w) == IF w.tag # {} THEN [w EXCEPT !.tags = w.tag] ELSE w
      Titles == UNION {d.watch[w].tag : w \in DOMAIN d.watch}
      Old == DOMAIN d.tag
  IN  [EachWatch(d, W) EXCEPT !.tag = [t \in Old \cup Titles |-> IF t \in Old THEN d.tag[t] ELSE NewTag]]

Update13(d) ==
  LET Created(w) == [d.watch[w] EXCEPT !.created = IF @ = 0 THEN Position[w] ELSE @]
  IN  [d EXCEPT !.watch = [w \in DOMAIN @ |-> Created(w)]]

Update14(d) ==
  LET Xpath1(s) == CASE s = "/" -> "xpath1:/" [] s = "xpath:" -> "xpath1:" [] OTHER -> s
      W(w) == [w EXCEPT !.include_filters = [i \in DOMAIN @ |-> Xpath1(@[i])]]
  IN  EachWatch(d, W)

Update15(d) == LET W(w) == [w EXCEPT !.use_default = w.interval \in {d.app.interval, "none"}] IN EachWatch(d, W)

\* A list of tags that is still a text.
Update16(d) == LET W(w) == IF "as text" \in w.tags THEN [w EXCEPT !.tags = {}] ELSE w IN EachWatch(d, W)

Update17(d) ==
  LET W(w) == IF w.in_stock = "none" THEN w
              ELSE [w EXCEPT !.restock = [in_stock |-> w.in_stock, price |-> 0, last_price |-> 0, original_price |-> 0],
                             !.in_stock = "none"]
  IN  EachWatch(d, W)

\* Not to be repeated: in_stock_only is gone the second time, and "all_changes" is what remains.
Update18(d) == LET W(w) == [w EXCEPT !.restock_settings = IF w.in_stock_only THEN "in_stock_only" ELSE "all_changes",
                                     !.in_stock_only = FALSE]
               IN  EachWatch(d, W)

Update19(d) == LET W(w) == IF w.elements = "json" THEN [w EXCEPT !.elements = "deflate"] ELSE w IN EachWatch(d, W)

Update20(d) ==
  LET W(w) == IF w.extract_title THEN [w EXCEPT !.use_page_title = TRUE, !.extract_title = FALSE] ELSE w
  IN  [EachWatch(d, W) EXCEPT !.app.use_page_title = @ \/ d.app.extract_title]

Update21(d) == IF d.app.timezone = "none" THEN d
               ELSE [d EXCEPT !.app.scheduler_timezone = d.app.timezone, !.app.timezone = "none"]

\* Names of notification formats become their keys, "Text" and "Markdown" among them.
Update23(d) ==
  LET Key(format) == CASE format = "Plain text" -> "text" [] format = "Text" -> "text" [] OTHER -> format
      W(w) == [w EXCEPT !.format = Key(@)]
      T(t) == [t EXCEPT !.format = Key(@)]
  IN  [EachWatch(d, W) EXCEPT !.app.format = Key(@), !.tag = [t \in DOMAIN @ |-> T(@[t])]]

Update24(d) == [d EXCEPT !.app.rss_format = IF @ \in {"html", "htmlcolor"} THEN "htmlcolor" ELSE "text"]

\* Looks for history.txt beside the watches' directories, where there is none: nothing is renamed.
Update25(d) == d

\* What the watch's processor finds of its settings: the file, once there is one.
MovesSettings(w) == w.processor = "restock_diff" /\ w.restock_settings # "none"

\* The watch's part of update 30, once its restock_diff.json is written.
Dropped(w) == IF MovesSettings(w) THEN [w EXCEPT !.restock_settings = "none"] ELSE w

Update30Tag(t) == IF t.restock_settings = "none" \/ t.config # "none" THEN t
                  ELSE [t EXCEPT !.config = t.restock_settings, !.restock_settings = "none"]

\* Flat llm_ keys move below llm, and win over what is there.
Update31(d) == IF d.app.llm_flat = "none" THEN d
               ELSE [d EXCEPT !.app.llm = d.app.llm_flat, !.app.llm_flat = "none"]

Update32(d) == [d EXCEPT !.app.per_check = "none",
                         !.app.per_period = IF @ = "none" THEN d.app.cumulative ELSE @,
                         !.app.cumulative = "none"]

\* Mutant: the old field counts, history or not.
Priced_Original(w) ==
  IF w.processor # "restock_diff" THEN w
  ELSE [w EXCEPT !.restock = [@ EXCEPT !.last_price = w.restock.original_price, !.original_price = 0]]

\* The price, where it is missing, and the price before it are read from the last two snapshots.
Priced(w) ==
  LET n == Len(w.history)
      price == IF n >= 1 /\ w.restock.price = 0 THEN w.history[n] ELSE w.restock.price
      before == IF n >= 2 THEN w.history[n - 1] ELSE w.restock.last_price
      last == IF before = 0 THEN w.restock.original_price ELSE before
  IN  IF w.processor # "restock_diff" THEN w
      ELSE [w EXCEPT !.restock = [@ EXCEPT !.price = price, !.last_price = last, !.original_price = 0]]

Update30(d) == LET W(w) == Dropped(w)
               IN  [EachWatch(d, W) EXCEPT !.tag = [t \in DOMAIN @ |-> Update30Tag(@[t])]]
Update33(d) == LET W(w) == Priced(w) IN EachWatch(d, W)

\* get_updates_available().
Available == (1 .. 33) \ {6, 11, 22, 27, 28}

Update(n, d) == CASE n = 1 -> Update1(d) [] n = 2 -> Update2(d) [] n = 4 -> Update4(d) [] n = 5 -> Update5(d)
                  [] n = 7 -> Update7(d) [] n = 8 -> Update8(d) [] n = 9 -> Update9(d) [] n = 10 -> Update10(d)
                  [] n = 12 -> Update12(d) [] n = 13 -> Update13(d) [] n = 14 -> Update14(d) [] n = 15 -> Update15(d) [] n = 16 -> Update16(d)
                  [] n = 17 -> Update17(d) [] n = 18 -> Update18(d) [] n = 19 -> Update19(d) [] n = 20 -> Update20(d)
                  [] n = 21 -> Update21(d) [] n = 23 -> Update23(d) [] n = 24 -> Update24(d) [] n = 25 -> Update25(d)
                  [] n = 30 -> Update30(d) [] n = 31 -> Update31(d) [] n = 32 -> Update32(d) [] n = 33 -> Update33(d)
                  [] OTHER -> d

\* The datastore after the updates above version a, up to version b, one after another.
Through(a, b, d) == LET After[k \in a .. b] == IF k = a THEN d ELSE Update(k, After[k - 1]) IN After[b]

-----------------------------------------------------------------------------
\* The files, and what is read from them.

Files(d, kind, schema) ==
  [legacy |-> IF kind = "legacy" THEN [d |-> d, schema |-> schema] ELSE [d |-> d, schema |-> -1],
   settings |-> IF kind = "legacy" THEN [schema |-> -1, app |-> d.app, tag |-> << >>]
                ELSE [schema |-> schema, app |-> d.app, tag |-> IF schema < 29 THEN d.tag ELSE << >>],
   watch |-> IF kind = "legacy" THEN << >> ELSE d.watch,
   tag |-> IF kind = "legacy" \/ schema < 29 THEN << >> ELSE d.tag,
   config |-> [w \in Watches |-> IF schema >= 30 /\ d.watch[w].processor = "restock_diff" THEN "moved" ELSE "none"]]

HasSettings == disk.settings.schema # -1

\* What one map says, and where it says nothing the other.
Over(f, g) == [x \in DOMAIN f \cup DOMAIN g |-> IF x \in DOMAIN f THEN f[x] ELSE g[x]]
Put(f, x, v) == Over([y \in {x} |-> v], f)

Empty(d) == [d EXCEPT !.watch = << >>, !.tag = << >>]

\* _load_state() of changedetection.json: settings, then the files over what the settings hold.
LoadSplit == [watch |-> disk.watch, app |-> disk.settings.app, tag |-> Over(disk.tag, disk.settings.tag)]

LoadLegacy == [watch |-> Over(disk.watch, disk.legacy.d.watch), app |-> disk.legacy.d.app,
               tag |-> Over(disk.tag, disk.legacy.d.tag)]

-----------------------------------------------------------------------------
\* A start.

UpdatesInit == /\ \E d \in Originals, s \in Starts : original = [d |-> Through(0, s[2], d), kind |-> s[1], schema |-> s[2]]
        /\ disk = Files(original.d, original.kind, original.schema)
        /\ mem = Empty(original.d)
        /\ boot = Off
        /\ crashes = 0 /\ failures = 0
        /\ missed = {}

\* The next update's number, 34 when there is none.
NextUpdate(n) == CHOOSE k \in (n + 1) .. 34 : (k = 34 \/ k \in Available) /\ (n + 1) .. (k - 1) \cap Available = {}

\* reload_state(): the new format is taken as soon as changedetection.json is there.
Load == /\ boot.pc = "off"
        /\ mem' = IF HasSettings THEN LoadSplit ELSE LoadLegacy
        /\ LET n == IF HasSettings THEN disk.settings.schema ELSE disk.legacy.schema
           IN  boot' = [pc |-> "next", n |-> n, todo |-> {}, legacy |-> ~HasSettings]
        /\ UNCHANGED <<original, disk, crashes, failures, missed>>

\* run_updates(): the one that is due, in memory; those that write go on object by object.
Apply == /\ boot.pc = "next" /\ NextUpdate(boot.n) < 34
         /\ LET n == NextUpdate(boot.n)
                saves == CASE n \in {26, 30, 33} -> DOMAIN mem.watch [] n = 29 -> DOMAIN mem.tag [] OTHER -> {}
            IN  /\ mem' = IF n \in {26, 29, 30, 33} THEN mem ELSE Update(n, mem)
                /\ boot' = [boot EXCEPT !.pc = "saving", !.n = n, !.todo = saves]
         /\ UNCHANGED <<original, disk, crashes, failures, missed>>

\* commit() of one watch, which logs a failure and goes on.
CommitsWatch(w, value) ==
  \/ /\ disk' = [disk EXCEPT !.watch = Put(@, w, value)]
     /\ UNCHANGED <<failures, missed>>
  \/ /\ failures < MaxFailures /\ failures' = failures + 1
     /\ missed' = IF boot.n = 26 THEN missed ELSE missed \cup {w}
     /\ UNCHANGED disk

Done(x) == boot' = [boot EXCEPT !.todo = @ \ {x}]

SaveWatch == /\ boot.pc = "saving" /\ boot.n = 26
             /\ \E w \in boot.todo : CommitsWatch(w, mem.watch[w]) /\ Done(w)
             /\ UNCHANGED <<original, mem, crashes>>

\* Phases 2 to 4: a watch without a file ends the program, "safe to retry".
MissingFiles == /\ boot.pc = "saving" /\ boot.n = 26 /\ boot.todo = {}
                /\ ~(DOMAIN mem.watch \subseteq DOMAIN disk.watch)
                /\ boot' = Off /\ mem' = Empty(original.d)
                /\ UNCHANGED <<original, disk, crashes, failures, missed>>

\* Update 29 writes the groups that have no file.
SaveTag == /\ boot.pc = "saving" /\ boot.n = 29
           /\ \E t \in boot.todo :
                /\ Done(t)
                /\ \/ /\ disk' = [disk EXCEPT !.tag = IF t \in DOMAIN @ THEN @ ELSE Put(@, t, mem.tag[t])]
                      /\ UNCHANGED <<failures, missed>>
                   \/ /\ t \notin DOMAIN disk.tag
                      /\ failures < MaxFailures /\ failures' = failures + 1
                      /\ missed' = missed \cup {t}
                      /\ UNCHANGED disk
           /\ UNCHANGED <<original, mem, crashes>>

WritesConfig(w) == MovesSettings(mem.watch[w]) /\ disk.config[w] = "none"

\* The watch is done with once its restock_diff.json is there, whatever is in it.
MayDrop(w) == ~WritesConfig(w)

WriteConfig == /\ boot.pc = "saving" /\ boot.n = 30
               /\ \E w \in boot.todo :
                    /\ WritesConfig(w)
                    /\ disk' = [disk EXCEPT !.config[w] = mem.watch[w].restock_settings]
               /\ UNCHANGED <<original, mem, boot, crashes, failures, missed>>

DropSettings == /\ boot.pc = "saving" /\ boot.n = 30
                /\ \E w \in boot.todo :
                     /\ MayDrop(w)
                     /\ mem' = [mem EXCEPT !.watch[w] = Dropped(@)]
                     /\ Done(w)
                     /\ IF MovesSettings(mem.watch[w]) THEN CommitsWatch(w, Dropped(mem.watch[w])) ELSE UNCHANGED <<disk, failures, missed>>
                /\ UNCHANGED <<original, crashes>>

\* Update 30 ends with the groups.
ConfigTags == /\ boot.pc = "saving" /\ boot.n = 30 /\ boot.todo = {}
              /\ \E t \in DOMAIN mem.tag :
                   /\ Update30Tag(mem.tag[t]) # mem.tag[t]
                   /\ mem' = [mem EXCEPT !.tag[t] = Update30Tag(@)]
                   /\ disk' = [disk EXCEPT !.tag = Put(@, t, Update30Tag(mem.tag[t]))]
              /\ UNCHANGED <<original, boot, crashes, failures, missed>>

SavePrices == /\ boot.pc = "saving" /\ boot.n = 33
              /\ \E w \in boot.todo :
                   /\ mem' = [mem EXCEPT !.watch[w] = Priced(@)]
                   /\ Done(w)
                   /\ IF mem.watch[w].processor = "restock_diff" THEN CommitsWatch(w, Priced(mem.watch[w]))
                      ELSE UNCHANGED <<disk, failures, missed>>
              /\ UNCHANGED <<original, crashes>>

Finished == /\ boot.todo = {}
            /\ boot.n = 26 => DOMAIN mem.watch \subseteq DOMAIN disk.watch
            /\ boot.n = 30 => \A t \in DOMAIN mem.tag : Update30Tag(mem.tag[t]) = mem.tag[t]

\* The version is bumped and the settings are saved, without any groups.
Bump == /\ boot.pc = "saving" /\ Finished
        /\ \/ /\ disk' = [disk EXCEPT !.settings = [schema |-> boot.n, app |-> mem.app, tag |-> << >>]]
              /\ UNCHANGED failures
           \/ /\ boot.n # 26 /\ failures < MaxFailures /\ failures' = failures + 1
              /\ UNCHANGED disk
        /\ boot' = [boot EXCEPT !.pc = "next"]
        /\ UNCHANGED <<original, mem, crashes, missed>>

\* Nothing is due: what was loaded from the old format is read once more, from the new files.
Run == /\ boot.pc = "next" /\ NextUpdate(boot.n) = 34
       /\ boot' = [boot EXCEPT !.pc = "running"]
       /\ mem' = IF boot.legacy THEN [LoadSplit EXCEPT !.watch = Over(@, mem.watch)] ELSE mem
       /\ UNCHANGED <<original, disk, crashes, failures, missed>>

Crash == /\ boot.pc # "off" /\ crashes < MaxCrashes
         /\ crashes' = crashes + 1
         /\ boot' = Off /\ mem' = Empty(original.d)
         /\ UNCHANGED <<original, disk, failures, missed>>

\* json.dump() to the file itself: a kill in the middle of it.
CutOff == /\ MayTear /\ boot.pc = "saving" /\ boot.n = 30 /\ crashes < MaxCrashes
          /\ \E w \in boot.todo : /\ WritesConfig(w)
                                 /\ disk' = [disk EXCEPT !.config[w] = "torn"]
                                 /\ missed' = missed \cup {w}
          /\ crashes' = crashes + 1
          /\ boot' = Off /\ mem' = Empty(original.d)
          /\ UNCHANGED <<original, failures>>

UpdatesNext == \/ Load \/ Apply \/ SaveWatch \/ MissingFiles \/ SaveTag \/ WriteConfig \/ DropSettings \/ ConfigTags
        \/ SavePrices \/ Bump \/ Run \/ Crash \/ CutOff

UpdatesSpec == UpdatesInit /\ [][UpdatesNext]_updatesVars

-----------------------------------------------------------------------------
\* Properties.

Started == boot.pc = "running"
Interrupted == crashes + failures > 0

\* What an old datastore that starts below version 25 writes first is its settings, without any
\* watches, and what any old one writes before update 29 has no groups: a start that is cut short
\* then is taken for a new datastore by the next one.
WatchesRetried == original.kind = "split" \/ original.schema = 25 \/ ~Interrupted
TagsRetried == original.kind = "split" \/ ~Interrupted

\* No watch and no group is lost on the way to a running program, however often it was killed.
NothingLost ==
  Started => /\ WatchesRetried => DOMAIN mem.watch = DOMAIN original.d.watch
             /\ TagsRetried => DOMAIN original.d.tag \ missed \subseteq DOMAIN mem.tag

Final == Through(original.schema, 33, original.d)

\* Where the last snapshot but one has no price the original price stands in for it, and is dropped:
\* the price before the last is lost when update 33 is repeated.
Unpriced(w) == /\ w.processor = "restock_diff"
               /\ Len(w.history) >= 2 /\ w.history[Len(w.history) - 1] = 0

\* "safe to retry", "Safe to re-run", "Idempotent": a datastore whose updates were cut short and
\* begun again ends as one that was updated in one go, object by object; of watches whose save
\* failed only the memory of that start is right.
EndsAlike ==
  Started /\ WatchesRetried =>
    \A w \in DOMAIN mem.watch \ missed :
      \/ mem.watch[w] = Final.watch[w]
      \/ Interrupted /\ Unpriced(mem.watch[w])

\* Restock settings that leave a watch are in its restock_diff.json, whole.
ConfigKept ==
  \A w \in DOMAIN original.d.watch \ missed :
    Started /\ WatchesRetried /\ original.d.watch[w].processor = "restock_diff" => disk.config[w] # "none"

\* "very careful about checking if it needs to actually run": every update, repeated, changes
\* nothing more, but for the one that turns in_stock_only into a setting, and 33 of an unpriced watch.
UpdatesRepeat ==
  boot.pc # "off" =>
    \A n \in Available \ {18} :
      \/ LET d == Update(n, mem) IN Update(n, d) = d
      \/ n = 33 /\ \E w \in DOMAIN mem.watch : Unpriced(mem.watch[w])

\* The version on disk is never ahead of the objects' files.
VersionNotAhead ==
  LET v == disk.settings.schema
      Saved == {w \in DOMAIN disk.watch : w \notin missed}
  IN  WatchesRetried => /\ v >= 26 => DOMAIN original.d.watch \subseteq DOMAIN disk.watch
                        /\ v >= 30 => \A w \in Saved : ~MovesSettings(disk.watch[w])
                        /\ v >= 33 => \A w \in Saved : \/ disk.watch[w] = Priced(disk.watch[w])
                                                      \/ Unpriced(disk.watch[w])

\* An old datastore whose updates were cut short and begun again loses nothing and ends as one
\* that was updated in one go.
AsIfUninterrupted == /\ EndsAlike
                     /\ NothingLost
                     /\ ConfigKept
                     /\ VersionNotAhead
                     /\ UpdatesRepeat

\* "url-watches.json remains intact, safe to retry": the watches of an old datastore are there after
\* every start that comes to its end.
RetryFindsWatches == Started => DOMAIN mem.watch = DOMAIN original.d.watch
=============================================================================
