-------------------------------- MODULE Groups --------------------------------
(***************************************************************************)
(* The watches and the groups (tags) they are in, as the requests of the   *)
(* web interface, the API and the assistants' tools (MCP) change them      *)
(* beside each other.                                                      *)
(*                                                                         *)
(* A group is a uuid with a title, a file of its own, and no list of its   *)
(* members: each watch lists the uuids of its groups.  Requests name       *)
(* groups by title.  Deleting a group takes it from the dictionary at      *)
(* once and walks over the watches afterwards, in a thread of its own or   *)
(* in the request; the walk raises when a watch is added or deleted        *)
(* meanwhile.  An assistant's token may be limited to some groups.         *)
(*                                                                         *)
(* The files of watches and groups are left to WatchStore.                 *)
(***************************************************************************)
EXTENDS Integers, Sequences, FiniteSets, SequencesExt, Filtering

CONSTANTS
  Web,        \* clients of the interface and of the API
  Restricted, \* clients whose token is limited to Scope
  Scope,      \* Context.tags
  Watches, Groups,
  Titles,
  Space,      \* a title of spaces only
  None,       \* no list, no title
  False,      \* what add_tag() answers for a blank title
  Lists,      \* the lists of titles that requests carry
  Limit,      \* PAGE_WATCH_LIMIT
  MaxRequests \* bound on the requests

ASSUME ClientsAssumption == Web \cap Restricted = {}
ASSUME ScopeAssumption == Scope \subseteq Groups
ASSUME TitlesAssumption == /\ None \notin Titles \cup {Space} /\ Space \notin Titles
                           /\ Lists \subseteq Seq(Titles \cup {Space})

VARIABLES
  title,    \* title[g] of a group that there is, or None
  list,     \* list[w]: the tags of a watch that there is, or None
  spare,    \* uuids not given yet
  req,      \* req[c]: the request a client has under way
  requests,
  excused,  \* <<w, g>>: a reason why w may list a deleted g (a ghost)
  calm      \* the clients whose request nobody has come between (a ghost)

store == <<title, list, spare>>
vars == <<store, req, requests, excused, calm>>

Clients == Web \cup Restricted
Idle == [op |-> "none", pc |-> "idle", titles |-> << >>, got |-> << >>, todo |-> {},
         group |-> None, size |-> 0, again |-> << >>]

Live == {g \in Groups : title[g] # None}
OneEachTitle == \A g, h \in Live : title[g] = title[h] => g = h
There == {w \in Watches : list[w] # None}

Init == /\ title \in {f \in [Groups -> Titles \cup {None}] :
                        \A g, h \in Groups : /\ f[g] = f[h] /\ f[g] # None => g = h
                                             /\ g \in Scope => f[g] # None}
        /\ list \in {f \in [Watches -> {None, << >>} \cup {<<g>> : g \in Scope}] : \E w \in Watches : f[w] # None}
        /\ spare = {w \in Watches : list[w] = None} \cup (Groups \ Live)
        /\ req = [c \in Clients |-> Idle]
        /\ requests = 0
        /\ excused = {}
        /\ calm = {}

Asks(c, r) == /\ req[c].pc = "idle" /\ requests < MaxRequests
              /\ requests' = requests + 1
              /\ req' = [req EXCEPT ![c] = r]

Goes(c, pc) == req' = [req EXCEPT ![c].pc = pc]
Ends(c) == req' = [req EXCEPT ![c] = Idle]

\* A dead group that is written into a list is nobody's to remove any more.
Excusing(w, gs) == excused' = excused \cup {<<w, g>> : g \in gs \ Live}

Keep(w, tags) == list' = [list EXCEPT ![w] = tags]

InScope(w) == list[w] # None /\ Range(list[w]) \cap Scope # {}

-----------------------------------------------------------------------------
\* Titles become groups: add_watch(), the edit page, assign-tag and add_tags.

\* _tags_for_new_monitor(): a limited token has to say which of its groups, unless it is one.
ScopedTitles(names) ==
  LET own == {title[g] : g \in Scope \cap Live}
  IN IF names = << >> THEN {<<n>> : n \in {n \in own : own = {n}}}
     ELSE IF Range(names) \subseteq own THEN {names} ELSE {}

\* Mutant: a limited token's titles are taken as they come.
AllowedTitles_All(c, names) == {names}

AllowedTitles(c, names) == IF c \in Restricted THEN ScopedTitles(names) ELSE {names}

Full == Cardinality(There) >= Limit

Adding(got, names) == [Idle EXCEPT !.op = "add", !.pc = "titles", !.got = got,
                                   !.titles = AllBut(names, {Space})]

\* The add form looks at no limit, the others answer that the list is full.
QuickAdd(c) == c \in Web /\ \E names \in Lists : Asks(c, Adding(<< >>, names))

\* create_watch() of the API takes titles and, unchecked, uuids.
ApiCreate(c) == /\ c \in Web /\ ~Full
                /\ \E names \in Lists, got \in {<< >>} \cup {<<g>> : g \in Groups \ spare} : Asks(c, Adding(got, names))

\* An import of two URLs is refused as a whole when there is no room for both.
ApiImport(c) == /\ c \in Web /\ Cardinality(There) + 2 =< Limit
                /\ \E names \in Lists : Asks(c, [Adding(<< >>, names) EXCEPT !.again = names])

\* The clone's list is the one of the watch.
Clone(c) == c \in Web /\ \E w \in There : Asks(c, Adding(list[w], << >>))

\* An assistant's create_watch and import_watches.
NewMonitor(c) == /\ c \in Restricted /\ ~Full
                 /\ \E names \in Lists : \E allowed \in AllowedTitles(c, names) : Asks(c, Adding(<< >>, allowed))

AskAdd(c) == /\ \/ QuickAdd(c) \/ ApiCreate(c) \/ ApiImport(c) \/ Clone(c) \/ NewMonitor(c)
             /\ UNCHANGED <<store, excused>>

\* The edit page was rendered some time ago; its titles are what the user left in the field.
AskEdit(c) == /\ c \in Web
              /\ \E w \in There, names \in Lists :
                   Asks(c, [Idle EXCEPT !.op = "edit", !.pc = "titles", !.titles = names, !.todo = {w}])
              /\ UNCHANGED <<store, excused>>

\* assign-tag of the bulk operations takes one title; add_tags several, of watches in scope.
AskTag(c) == /\ \E ws \in (SUBSET {w \in There : c \in Restricted => InScope(w)}) \ {{}}, names \in Lists \ {<< >>} :
                  /\ c \in Web => Len(names) = 1
                  /\ \E allowed \in AllowedTitles(c, names) :
                       Asks(c, [Idle EXCEPT !.op = "tag", !.pc = "titles", !.titles = allowed, !.todo = ws])
             /\ UNCHANGED <<store, excused>>

Named(n) == {g \in Live : title[g] = n}

\* tag_uuid_for_title(); add_tag() answers False for a blank title.
FindGroup(c) == /\ req[c].pc = "titles" /\ req[c].titles # << >>
                /\ LET n == Head(req[c].titles)
                       Got(x) == req' = [req EXCEPT ![c].titles = Tail(@), ![c].got = Append(@, x)]
                   IN \/ n = Space /\ Got(False)
                      \/ n # Space /\ Named(n) = {} /\ Goes(c, "insert")
                      \/ \E g \in Named(n) : Got(g)
                /\ UNCHANGED <<store, requests, excused>>

\* No group had the title when it was looked for: one is added and its file written.
InsertGroup(c) == /\ req[c].pc = "insert"
                  /\ \E g \in spare \cap Groups :
                       /\ title' = [title EXCEPT ![g] = Head(req[c].titles)]
                       /\ spare' = spare \ {g}
                       /\ req' = [req EXCEPT ![c].pc = "titles", ![c].titles = Tail(@), ![c].got = Append(@, g)]
                  /\ UNCHANGED <<list, requests, excused>>

Named_(c) == req[c].pc = "titles" /\ req[c].titles = << >>

\* The rest of add_watch(): no group is listed twice.
StoreNew(c) == /\ Named_(c) /\ req[c].op = "add"
               /\ IF Full THEN UNCHANGED <<store, excused>>
                  ELSE \E w \in spare \cap Watches, tags \in SetToSeqs(Range(req[c].got)) :
                         /\ Keep(w, tags)
                         /\ spare' = spare \ {w}
                         /\ Excusing(w, Range(tags))
                         /\ UNCHANGED title
               /\ req' = [req EXCEPT ![c] = IF req[c].again = << >> THEN Idle ELSE Adding(<< >>, req[c].again)]
               /\ UNCHANGED requests

\* The edit page stores what it got.
StoreEdit(c) == /\ Named_(c) /\ req[c].op = "edit"
                /\ \A w \in req[c].todo :
                     IF w \in There THEN Keep(w, req[c].got) /\ Excusing(w, Range(req[c].got) \ {False})
                     ELSE UNCHANGED <<list, excused>>
                /\ Ends(c)
                /\ UNCHANGED <<title, spare, requests>>

\* assign-tag appends, add_tags appends what is not listed yet; watch by watch.
StoreTag(c) ==
  /\ Named_(c) /\ req[c].op = "tag"
  /\ \E w \in req[c].todo :
       /\ LET got == AllBut(req[c].got, {False})
              more == IF c \in Web THEN got ELSE AllBut(got, Range(list[w]))
          IN IF w \in There THEN Keep(w, list[w] \o more) /\ Excusing(w, Range(more))
             ELSE UNCHANGED <<list, excused>>
       /\ IF req[c].todo = {w} THEN Ends(c) ELSE req' = [req EXCEPT ![c].todo = @ \ {w}]
  /\ UNCHANGED <<title, spare, requests>>

-----------------------------------------------------------------------------
\* Groups leave: delete, delete all, unlink, and remove_tags of an assistant.

Without(gs) == title' = [g \in Groups |-> IF g \in gs THEN None ELSE title[g]]

Walk(op, g) == [Idle EXCEPT !.op = op, !.pc = "walk", !.todo = There, !.group = g, !.size = Cardinality(There)]

AskDelete(c) == /\ c \in Web
                /\ \E g \in Live : /\ Without({g})
                                   /\ Asks(c, Walk("delete", g))
                /\ UNCHANGED <<list, spare, excused>>

AskUnlink(c) == /\ c \in Web
                /\ \E g \in Live : Asks(c, Walk("delete", g))
                /\ UNCHANGED <<store, excused>>

AskDeleteAll(c) == /\ c \in Web
                   /\ Without(Live)
                   /\ Asks(c, Walk("clear", None))
                   /\ UNCHANGED <<list, spare, excused>>

\* Mutant: the walk passes over a watch that lists another group first.
LessOne_First(tags, g) == IF tags # << >> /\ Head(tags) = g THEN Tail(tags) ELSE tags

\* list.remove() takes the first one only.
LessOne(tags, g) == LET i == CHOOSE i \in 1..Len(tags) : tags[i] = g /\ \A j \in 1..(i - 1) : tags[j] # g
                    IN IF g \in Range(tags) THEN RemoveAt(tags, i) ELSE tags

Twice(tags, g) == Cardinality({i \in DOMAIN tags : tags[i] = g}) > 1

Interrupted(c) == Cardinality(There) # req[c].size

\* The next watch of the walk; a dictionary of another size raises, and that ends it.
WalkOn(c) ==
  /\ req[c].pc = "walk" /\ ~Interrupted(c)
  /\ IF req[c].todo = {} THEN Ends(c) /\ UNCHANGED <<list, excused>>
     ELSE \E w \in req[c].todo :
            /\ LET left == IF req[c].op = "clear" THEN << >> ELSE LessOne(list[w], req[c].group)
               IN IF w \in There
                  THEN Keep(w, left) /\ Excusing(w, {g \in {req[c].group} : Twice(list[w], g)})
                  ELSE UNCHANGED <<list, excused>>
            /\ req' = [req EXCEPT ![c].todo = @ \ {w}]
  /\ UNCHANGED <<title, spare, requests>>

WalkRaises(c) == /\ req[c].pc = "walk" /\ Interrupted(c)
                 /\ excused' = excused \cup (There \X (Groups \ Live))
                 /\ Ends(c)
                 /\ UNCHANGED <<store, requests>>

\* Taking a watch from the token's last group would make it lose sight of it.
Orphans(ws, gs) == {w \in ws : Range(list[w]) \cap Scope \subseteq gs}

AskRemove(c) == /\ c \in Restricted
                /\ \E ws \in (SUBSET {w \in There : InScope(w)}) \ {{}}, g \in Scope \cap Live :
                     /\ Orphans(ws, {g}) = {}
                     /\ Asks(c, [Idle EXCEPT !.op = "remove", !.pc = "remove", !.todo = ws, !.group = g])
                /\ UNCHANGED <<store, excused>>

RemoveOn(c) ==
  /\ req[c].pc = "remove"
  /\ \E w \in req[c].todo :
       /\ IF w \in There THEN Keep(w, AllBut(list[w], {req[c].group})) ELSE UNCHANGED list
       /\ IF req[c].todo = {w} THEN Ends(c) ELSE req' = [req EXCEPT ![c].todo = @ \ {w}]
  /\ UNCHANGED <<title, spare, requests, excused>>

-----------------------------------------------------------------------------
\* The API's PUT, changes of a group, deleted watches and restarts.

\* PUT takes uuids, whether or not there is such a group; assistants have no such field.
PutTags(c) == /\ c \in Web
              /\ \E w \in There, tags \in {<< >>} \cup {<<g>> : g \in Groups \ spare} :
                   /\ Asks(c, Idle)
                   /\ Keep(w, tags)
                   /\ Excusing(w, Range(tags))
              /\ UNCHANGED <<title, spare>>

\* The group's edit page and the API look a group up and change it, which nobody
\* sees if it was deleted meanwhile; a title may be taken twice.
AskRetitle(c) == /\ c \in Web
                 /\ \E g \in Live, n \in Titles :
                      Asks(c, [Idle EXCEPT !.op = "retitle", !.pc = "retitle", !.group = g, !.titles = <<n>>])
                 /\ UNCHANGED <<store, excused>>

Retitle(c) == /\ req[c].pc = "retitle"
              /\ LET g == req[c].group
                 IN title' = IF g \in Live THEN [title EXCEPT ![g] = Head(req[c].titles)] ELSE title
              /\ Ends(c)
              /\ UNCHANGED <<list, spare, requests, excused>>

DeleteWatch(c) == /\ \E w \in {w \in There : c \in Restricted => InScope(w)} :
                       /\ Asks(c, Idle)
                       /\ Keep(w, None)
                  /\ UNCHANGED <<title, spare, excused>>

Request(c) == \/ AskAdd(c) \/ AskEdit(c) \/ AskTag(c) \/ AskDelete(c) \/ AskUnlink(c) \/ AskDeleteAll(c)
              \/ AskRemove(c) \/ PutTags(c) \/ AskRetitle(c) \/ DeleteWatch(c)

Serve(c) == \/ FindGroup(c) \/ InsertGroup(c) \/ StoreNew(c) \/ StoreEdit(c) \/ StoreTag(c)
            \/ WalkOn(c) \/ WalkRaises(c) \/ RemoveOn(c) \/ Retitle(c)

Next == \E c \in Clients : /\ Request(c) \/ Serve(c)
                           /\ calm' = IF req[c].pc = "idle" THEN {c} ELSE calm \cap {c}

Spec == Init /\ [][Next]_vars

-----------------------------------------------------------------------------
\* Properties.

Walked(w, g) == \E c \in Clients : /\ req[c].pc = "walk" /\ w \in req[c].todo
                                   /\ req[c].op = "clear" \/ req[c].group = g

\* Once a group is deleted and the walk is over no watch lists it, except one that listed it
\* twice, one that a request wrote afterwards, and all when the walk was cut short.
RemovedUnlessExcused ==
  \A w \in There : \A g \in Range(list[w]) \ (Live \cup {False}) : <<w, g>> \in excused \/ Walked(w, g)

\* A limited token's new monitor lands in one of its groups, where it can see it, unless the
\* groups changed under the request or two of them had one title; and remove_tags leaves a watch
\* in sight of the token, unless somebody else changed its list.
KeepsInSight ==
  \A c \in Restricted : \A w \in Watches :
    /\ (StoreNew(c) /\ c \in calm /\ OneEachTitle /\ list[w] = None /\ list'[w] # None)
         => Range(list'[w]) \cap Scope # {}
    /\ (RemoveOn(c) /\ c \in calm /\ w \in There /\ list'[w] # list[w])
         => Range(list'[w]) \cap Scope # {}
StaysInScope == [][KeepsInSight]_vars

=============================================================================
