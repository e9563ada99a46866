---------------------------- MODULE RequestsProofs ----------------------------
(***************************************************************************)
(* What the requests to the program ask of two of its parts, for any       *)
(* number of requests.                                                     *)
(*                                                                         *)
(* Groups and the watches in them, for any clients, watches, groups and    *)
(* titles: what is left of a deleted group has a reason, and what a        *)
(* limited assistant makes or changes stays where it can see it.  The      *)
(* lists are sequences that the requests walk and filter, so the first     *)
(* part is about sequences.                                                *)
(*                                                                         *)
(* The queue that ticker and requests fill, for any watches, proxies,      *)
(* settings and limits: what they queue twice they could not have seen,    *)
(* and a pass ends soon after the queue is full.                           *)
(***************************************************************************)
EXTENDS Groups, Scheduler, FilteringProofs, FiniteSetTheorems

\* list.remove() keeps the type, adds nothing and leaves the group only where it was listed twice.
LEMMA LessOneIs ==
  ASSUME NEW A, NEW s \in Seq(A), NEW g
  PROVE  /\ LessOne(s, g) \in Seq(A)
         /\ Range(LessOne(s, g)) \subseteq Range(s)
         /\ g \in Range(LessOne(s, g)) => Twice(s, g)
<1>1. CASE g \notin Range(s)
  BY <1>1 DEF LessOne
<1>2. CASE g \in Range(s)
  <2> DEFINE Places == {i \in 1..Len(s) : s[i] = g}
             First(i) == s[i] = g /\ \A j \in 1..(i - 1) : s[j] # g
             i == CHOOSE i \in 1..Len(s) : First(i)
             t == RemoveAt(s, i)
  <2>1. \E k \in 1..Len(s) : First(k)
    <3>1. Places # {} /\ Places \in SUBSET Nat
      BY <1>2 DEF Range
    <3>2. PICK k \in Places : \A j \in Places : k <= j
      BY <3>1, Least
    <3>3. ASSUME NEW j \in 1..(k - 1) PROVE s[j] # g
      BY <3>2
    <3> QED
      BY <3>2, <3>3
  <2>2. i \in 1..Len(s) /\ s[i] = g
    BY <2>1
  <2>3. LessOne(s, g) = t
    BY <1>2 DEF LessOne
  <2> HIDE DEF i
  <2>4. /\ t \in Seq(A) /\ Len(t) = Len(s) - 1
        /\ \A k \in 1..Len(t) : t[k] = IF k < i THEN s[k] ELSE s[k + 1]
    <3> DEFINE a == SubSeq(s, 1, i - 1)
               b == SubSeq(s, i + 1, Len(s))
    <3>1. /\ a \in Seq(A) /\ Len(a) = i - 1
          /\ \A k \in 1..(i - 1) : a[k] = s[k]
      BY <2>2
    <3>2. /\ b \in Seq(A) /\ Len(b) = Len(s) - i
          /\ \A k \in 1..(Len(s) - i) : b[k] = s[k + i]
      BY <2>2
    <3>3. t = a \o b
      BY DEF RemoveAt
    <3> HIDE DEF t, a, b
    <3>4. t \in Seq(A) /\ Len(t) = Len(s) - 1
      BY <2>2, <3>1, <3>2, <3>3
    <3>5. ASSUME NEW k \in 1..Len(t)
          PROVE  t[k] = IF k < i THEN s[k] ELSE s[k + 1]
      <4>1. CASE k < i
        BY <2>2, <3>1, <3>2, <3>3, <3>4, <4>1
      <4>2. CASE k >= i
        <5>1. t[k] = b[k - (i - 1)]
          BY <2>2, <3>1, <3>2, <3>3, <3>4, <4>2
        <5>2. k - (i - 1) \in 1..(Len(s) - i) /\ (k - (i - 1)) + i = k + 1
          BY <2>2, <3>4, <4>2
        <5> QED
          BY <2>2, <3>2, <4>2, <5>1, <5>2
      <4> QED
        BY <2>2, <4>1, <4>2
    <3> QED
      BY <3>4, <3>5
  <2> HIDE DEF t
  <2>5. Range(t) \subseteq Range(s)
    BY <2>2, <2>4 DEF Range
  <2>6. ASSUME g \in Range(t)
        PROVE  Twice(s, g)
    <3>1. PICK k \in 1..Len(t) : t[k] = g
      BY <2>4, <2>6 DEF Range
    <3>2. \E j \in 1..Len(s) : j # i /\ s[j] = g
      BY <2>2, <2>4, <3>1
    <3>3. PICK j \in 1..Len(s) : j # i /\ s[j] = g
      BY <3>2
    <3>4. IsFiniteSet(Places)
      <4>1. IsFiniteSet(1..Len(s)) /\ Places \in SUBSET (1..Len(s))
        BY FS_Interval
      <4> HIDE DEF Places
      <4> QED
        BY <4>1, FS_Subset
    <3> DEFINE one == {i}
    <3>5. one \cup {j} \in SUBSET Places
      BY <2>2, <3>3
    <3>6. Cardinality(one \cup {j}) = 2
      <4>1. IsFiniteSet(one) /\ Cardinality(one) = 1 /\ j \notin one
        BY <3>3, FS_Singleton
      <4> HIDE DEF one
      <4>2. Cardinality(one \cup {j}) = Cardinality(one) + 1
        BY <4>1, FS_AddElement
      <4> QED
        BY <4>1, <4>2
    <3>7. 2 <= Cardinality(Places) /\ Cardinality(Places) \in Nat
      <4> HIDE DEF Places, one
      <4> QED
        BY <3>4, <3>5, <3>6, FS_Subset, FS_CardinalityType
    <3>8. Places = {n \in DOMAIN s : s[n] = g}
      OBVIOUS
    <3> HIDE DEF Places
    <3>9. Cardinality({n \in DOMAIN s : s[n] = g}) > 1
      BY <3>7, <3>8
    <3> QED
      BY <3>9 DEF Twice
  <2> QED
    BY <2>3, <2>4, <2>5, <2>6
<1> QED
  BY <1>1, <1>2

\* Every group once: the members of the sequence, and no fewer.
LEMMA OnceEach ==
  ASSUME NEW A, NEW s \in Seq(A), NEW tags \in SetToSeqs(Range(s))
  PROVE  /\ tags \in Seq(A)
         /\ Range(tags) \subseteq Range(s)
         /\ s # << >> => Range(tags) # {}
<1>1. s \in Surjection(1..Len(s), Range(s))
  BY DEF Surjection, Range
<1>2. IsFiniteSet(1..Len(s))
  BY FS_Interval
<1>3. IsFiniteSet(Range(s))
  BY <1>1, <1>2, FS_Surjection
<1>4. Cardinality(Range(s)) \in Nat
  BY <1>3, FS_CardinalityType
<1>5. tags \in [1..Cardinality(Range(s)) -> Range(s)]
  BY DEF SetToSeqs
<1>6. Range(s) \subseteq A
  BY DEF Range
<1>7. tags \in Seq(Range(s)) /\ Len(tags) = Cardinality(Range(s))
  BY <1>4, <1>5
<1>8. ASSUME s # << >>
      PROVE  Range(tags) # {}
  <2>1. s[1] \in Range(s)
    BY <1>8 DEF Range
  <2>2. Cardinality(Range(s)) # 0
    BY <2>1, <1>3, FS_EmptySet
  <2>3. 1 \in DOMAIN tags
    BY <1>4, <1>5, <2>2
  <2>4. tags[1] \in Range(tags)
    BY <2>3 DEF Range
  <2> QED
    BY <2>4
<1>9. tags \in Seq(A)
  BY <1>6, <1>7
<1>10. Range(tags) \subseteq Range(s)
  <2> DEFINE R == Range(s)
  <2> HIDE DEF R
  <2>1. tags \in [1..Cardinality(R) -> R]
    BY <1>5 DEF R
  <2>2. Range(tags) \subseteq R
    BY <2>1 DEF Range
  <2> QED
    BY <2>2 DEF R
<1> QED
  BY <1>8, <1>9, <1>10

-----------------------------------------------------------------------------
Names == Titles \cup {Space}
Entries == Groups \cup {False}

RequestSet == [op : {"none", "add", "edit", "tag", "delete", "clear", "remove", "retitle"},
             pc : {"idle", "titles", "insert", "walk", "remove", "retitle"},
             titles : Seq(Names), got : Seq(Entries), todo : SUBSET Watches,
             group : Groups \cup {None}, again : Seq(Names),
             size : {0} \cup {Cardinality(ws) : ws \in SUBSET Watches}]

\* What a request waits for fits where it is.
Fits(r) == /\ r.op = "edit" => r.todo # {} /\ r.pc \in {"titles", "insert"}
           /\ r.pc = "insert" => r.titles # << >> /\ Head(r.titles) # Space
           /\ r.pc = "retitle" => r.titles # << >> /\ Head(r.titles) # Space

Waits == req \in [Clients -> RequestSet] /\ \A c \in Clients : Fits(req[c])

Types == /\ title \in [Groups -> Titles \cup {None}]
         /\ list \in [Watches -> Seq(Entries) \cup {None}]
         /\ Waits

\* Nobody has come between a limited client's request: its titles are those of its groups, and
\* a watch it has still to take from a group is in another one of them.
OwnTitles == {title[g] : g \in Scope \cap Live}
LandsInSight(c) == /\ req[c].pc = "titles"
                   /\ req[c].again = << >>
                   /\ Range(req[c].titles) \subseteq OwnTitles
                   /\ req[c].titles # << >> \/ req[c].got # << >>
                   /\ OneEachTitle => Range(req[c].got) \subseteq Scope
StaysInSight(c) == \A w \in req[c].todo \cap There :
                     ~(Range(list[w]) \cap Scope \subseteq {req[c].group})

Sight == \A c \in Restricted \cap calm : /\ req[c].op = "add" => LandsInSight(c)
                                         /\ req[c].pc = "remove" => StaysInSight(c)

LEMMA IdleFits == Idle \in RequestSet /\ Fits(Idle)
BY DEF Idle, RequestSet, Fits, Names, Entries

LEMMA FewEntries ==
  ASSUME NEW gs \in SUBSET Groups
  PROVE  {<< >>} \cup {<<g>> : g \in gs} \subseteq Seq(Entries)
<1>1. ASSUME NEW g \in gs PROVE <<g>> \in Seq(Entries)
  <2>1. g \in Entries
    BY DEF Entries
  <2> QED
    BY <2>1
<1>2. << >> \in Seq(Entries)
  OBVIOUS
<1> QED
  BY <1>1, <1>2

LEMMA InitTypes == Init => Types
<1> SUFFICES ASSUME Init PROVE Types
  OBVIOUS
<1>1. Waits
  BY IdleFits DEF Init, Waits
<1>2. list \in [Watches -> Seq(Entries) \cup {None}]
  <2>1. {None, << >>} \cup {<<g>> : g \in Scope} \subseteq Seq(Entries) \cup {None}
    BY ScopeAssumption, FewEntries
  <2> QED
    BY <2>1 DEF Init
<1> QED
  BY <1>1, <1>2 DEF Init, Types

LEMMA SetsWait ==
  ASSUME Waits, NEW c \in Clients, NEW r \in RequestSet, Fits(r), req' = [req EXCEPT ![c] = r]
  PROVE  Waits'
BY DEF Waits

LEMMA EndWaits ==
  ASSUME Waits, NEW c \in Clients, Ends(c)
  PROVE  Waits'
BY IdleFits, SetsWait DEF Ends

LEMMA AsksWaits ==
  ASSUME Waits, NEW c \in Clients, NEW r \in RequestSet, Fits(r), Asks(c, r)
  PROVE  Waits'
BY SetsWait DEF Asks

LEMMA AddingFits ==
  ASSUME NEW got \in Seq(Entries), NEW names \in Seq(Names)
  PROVE  Adding(got, names) \in RequestSet /\ Fits(Adding(got, names))
BY AllButIs, IdleFits DEF Adding, RequestSet, Fits, Idle

LEMMA AllowedAre ==
  ASSUME Types, NEW c, NEW names \in Lists, NEW allowed \in AllowedTitles(c, names)
  PROVE  allowed \in Seq(Names)
<1>1. names \in Seq(Names)
  BY TitlesAssumption DEF Names
<1>2. ASSUME NEW n \in OwnTitles PROVE <<n>> \in Seq(Names)
  <2>1. n \in Titles
    BY <1>2, ScopeAssumption DEF OwnTitles, Types, Live
  <2> QED
    BY <2>1 DEF Names
<1> QED
  BY <1>1, <1>2 DEF AllowedTitles, ScopedTitles, OwnTitles

LEMMA ThereAre ==
  ASSUME Types, NEW w \in There
  PROVE  w \in Watches /\ list[w] \in Seq(Entries)
BY DEF Types, There

LEMMA AskAddTypes ==
  ASSUME Types, NEW c \in Clients, AskAdd(c)
  PROVE  Types'
<1>1. Lists \subseteq Seq(Names)
  BY TitlesAssumption DEF Names
<1>2. << >> \in Seq(Entries) /\ << >> \in Seq(Names)
  OBVIOUS
<1>3. CASE QuickAdd(c)
  <2>1. PICK names \in Lists : Asks(c, Adding(<< >>, names))
    BY <1>3 DEF QuickAdd
  <2> QED
    BY <1>1, <1>2, <2>1, AddingFits, AsksWaits DEF AskAdd, Types, store
<1>4. CASE ApiCreate(c)
  <2>1. PICK names \in Lists, got \in {<< >>} \cup {<<g>> : g \in Groups \ spare} :
          Asks(c, Adding(got, names))
    BY <1>4 DEF ApiCreate
  <2>2. got \in Seq(Entries)
    BY <2>1, FewEntries
  <2> QED
    BY <1>1, <2>1, <2>2, AddingFits, AsksWaits DEF AskAdd, Types, store
<1>5. CASE ApiImport(c)
  <2>1. PICK names \in Lists : Asks(c, [Adding(<< >>, names) EXCEPT !.again = names])
    BY <1>5 DEF ApiImport
  <2> DEFINE r == [Adding(<< >>, names) EXCEPT !.again = names]
  <2>2. Adding(<< >>, names) \in RequestSet /\ Fits(Adding(<< >>, names))
    BY <1>1, <1>2, AddingFits
  <2>3. r \in RequestSet /\ Fits(r)
    BY <1>1, <2>2 DEF RequestSet, Fits
  <2> HIDE DEF r
  <2>4. Waits'
    BY <2>1, <2>3, AsksWaits DEF Types, r
  <2> QED
    BY <2>4 DEF AskAdd, Types, store
<1>6. CASE Clone(c)
  <2>1. PICK w \in There : Asks(c, Adding(list[w], << >>))
    BY <1>6 DEF Clone
  <2> QED
    BY <1>2, <2>1, ThereAre, AddingFits, AsksWaits DEF AskAdd, Types, store
<1>7. CASE NewMonitor(c)
  <2>1. PICK names \in Lists : \E allowed \in AllowedTitles(c, names) :
          Asks(c, Adding(<< >>, allowed))
    BY <1>7 DEF NewMonitor
  <2>2. PICK allowed \in AllowedTitles(c, names) : Asks(c, Adding(<< >>, allowed))
    BY <2>1
  <2> QED
    BY <1>2, <2>2, AllowedAre, AddingFits, AsksWaits DEF AskAdd, Types, store
<1> QED
  BY <1>3, <1>4, <1>5, <1>6, <1>7 DEF AskAdd

LEMMA AskEditTypes ==
  ASSUME Types, NEW c \in Clients, AskEdit(c)
  PROVE  Types'
<1>1. PICK w \in There, names \in Lists :
        Asks(c, [Idle EXCEPT !.op = "edit", !.pc = "titles", !.titles = names, !.todo = {w}])
  BY DEF AskEdit
<1> DEFINE r == [Idle EXCEPT !.op = "edit", !.pc = "titles", !.titles = names, !.todo = {w}]
<1>2. r \in RequestSet /\ Fits(r)
  BY TitlesAssumption, IdleFits, ThereAre DEF RequestSet, Fits, Names, Idle
<1> HIDE DEF r
<1> QED
  BY <1>1, <1>2, AsksWaits DEF AskEdit, Types, store, r

LEMMA AskTagTypes ==
  ASSUME Types, NEW c \in Clients, AskTag(c)
  PROVE  Types'
<1>1. PICK ws \in SUBSET There, names \in Lists : \E allowed \in AllowedTitles(c, names) :
        Asks(c, [Idle EXCEPT !.op = "tag", !.pc = "titles", !.titles = allowed, !.todo = ws])
  BY DEF AskTag
<1>0. PICK allowed \in AllowedTitles(c, names) :
        Asks(c, [Idle EXCEPT !.op = "tag", !.pc = "titles", !.titles = allowed, !.todo = ws])
  BY <1>1
<1> DEFINE r == [Idle EXCEPT !.op = "tag", !.pc = "titles", !.titles = allowed, !.todo = ws]
<1>2. ws \in SUBSET Watches /\ allowed \in Seq(Names)
  BY AllowedAre, ThereAre
<1>3. r \in RequestSet /\ Fits(r)
  BY <1>2, IdleFits DEF RequestSet, Fits, Idle
<1> HIDE DEF r
<1> QED
  BY <1>0, <1>3, AsksWaits DEF AskTag, Types, store, r

LEMMA WalkFits ==
  ASSUME NEW op \in {"delete", "clear"}, NEW g \in Groups \cup {None}
  PROVE  Walk(op, g) \in RequestSet /\ Fits(Walk(op, g))
<1>1. There \in SUBSET Watches
  BY DEF There
<1> DEFINE size == Cardinality(There)
<1>2. size \in {0} \cup {Cardinality(ws) : ws \in SUBSET Watches}
  BY <1>1
<1> HIDE DEF size
<1> QED
  BY <1>1, <1>2, IdleFits DEF Walk, RequestSet, Fits, Idle, size

LEMMA AskLeaveTypes ==
  ASSUME Types, NEW c \in Clients, AskDelete(c) \/ AskUnlink(c) \/ AskDeleteAll(c)
  PROVE  Types'
<1>0. ASSUME NEW gs, Without(gs) PROVE title' \in [Groups -> Titles \cup {None}]
  BY <1>0 DEF Without, Types
<1>1. CASE AskDelete(c)
  <2>1. PICK g \in Live : Without({g}) /\ Asks(c, Walk("delete", g))
    BY <1>1 DEF AskDelete
  <2>2. g \in Groups \cup {None}
    BY DEF Live
  <2>3. Waits'
    BY <2>1, <2>2, WalkFits, AsksWaits DEF Types
  <2> QED
    BY <1>0, <1>1, <2>1, <2>3 DEF AskDelete, Types
<1>2. CASE AskUnlink(c)
  <2>1. PICK g \in Live : Asks(c, Walk("delete", g))
    BY <1>2 DEF AskUnlink
  <2>2. g \in Groups \cup {None}
    BY DEF Live
  <2>3. Waits'
    BY <2>1, <2>2, WalkFits, AsksWaits DEF Types
  <2> QED
    BY <1>2, <2>3 DEF AskUnlink, Types, store
<1>3. CASE AskDeleteAll(c)
  <2>1. Waits'
    BY <1>3, WalkFits, AsksWaits DEF AskDeleteAll, Types
  <2> QED
    BY <1>0, <1>3, <2>1 DEF AskDeleteAll, Types
<1> QED
  BY <1>1, <1>2, <1>3

LEMMA AskRemoveTypes ==
  ASSUME Types, NEW c \in Clients, AskRemove(c)
  PROVE  Types'
<1>1. PICK ws \in SUBSET There, g \in Scope \cap Live :
        Asks(c, [Idle EXCEPT !.op = "remove", !.pc = "remove", !.todo = ws, !.group = g])
  BY DEF AskRemove
<1> DEFINE r == [Idle EXCEPT !.op = "remove", !.pc = "remove", !.todo = ws, !.group = g]
<1>2. ws \in SUBSET Watches /\ g \in Groups
  BY ThereAre DEF Live
<1>3. r \in RequestSet /\ Fits(r)
  BY <1>2, IdleFits DEF RequestSet, Fits, Idle
<1> HIDE DEF r
<1> QED
  BY <1>1, <1>3, AsksWaits DEF AskRemove, Types, store, r

LEMMA OtherRequestTypes ==
  ASSUME Types, NEW c \in Clients, PutTags(c) \/ AskRetitle(c) \/ DeleteWatch(c)
  PROVE  Types'
<1>1. CASE PutTags(c)
  <2>1. PICK w \in There, tags \in {<< >>} \cup {<<g>> : g \in Groups \ spare} :
          Asks(c, Idle) /\ Keep(w, tags)
    BY <1>1 DEF PutTags
  <2>2. tags \in Seq(Entries)
    BY <2>1, FewEntries
  <2>3. Waits'
    BY <2>1, IdleFits, AsksWaits DEF Types
  <2>4. list' \in [Watches -> Seq(Entries) \cup {None}]
    BY <2>1, <2>2 DEF Keep, Types
  <2> QED
    BY <1>1, <2>3, <2>4 DEF PutTags, Types
<1>2. CASE AskRetitle(c)
  <2>1. PICK g \in Live, n \in Titles :
          Asks(c, [Idle EXCEPT !.op = "retitle", !.pc = "retitle", !.group = g, !.titles = <<n>>])
    BY <1>2 DEF AskRetitle
  <2> DEFINE r == [Idle EXCEPT !.op = "retitle", !.pc = "retitle", !.group = g, !.titles = <<n>>]
  <2>2. g \in Groups /\ <<n>> \in Seq(Names) /\ <<n>> # << >> /\ Head(<<n>>) # Space
    BY TitlesAssumption DEF Live, Names
  <2>3. r \in RequestSet /\ Fits(r)
    BY <2>2, IdleFits DEF RequestSet, Fits, Idle
  <2> HIDE DEF r
  <2> QED
    BY <1>2, <2>1, <2>3, AsksWaits DEF AskRetitle, Types, store, r
<1>3. CASE DeleteWatch(c)
  <2>1. PICK w \in There : Asks(c, Idle) /\ Keep(w, None)
    BY <1>3 DEF DeleteWatch
  <2>2. Waits'
    BY <2>1, IdleFits, AsksWaits DEF Types
  <2>3. list' \in [Watches -> Seq(Entries) \cup {None}]
    BY <2>1 DEF Keep, Types
  <2> QED
    BY <1>3, <2>2, <2>3 DEF DeleteWatch, Types
<1> QED
  BY <1>1, <1>2, <1>3

LEMMA WaitsAt ==
  ASSUME Types, NEW c \in Clients
  PROVE  req[c] \in RequestSet /\ Fits(req[c])
BY DEF Types, Waits

\* The next title of a request is told: what was found is appended.
LEMMA GotWaits ==
  ASSUME Types, NEW c \in Clients, req[c].pc \in {"titles", "insert"}, req[c].titles # << >>,
         NEW g \in Entries,
         req' = [req EXCEPT ![c].pc = "titles", ![c].titles = Tail(@), ![c].got = Append(@, g)]
  PROVE  Waits'
<1> DEFINE q == req[c]
           r == [q EXCEPT !.pc = "titles", !.titles = Tail(@), !.got = Append(@, g)]
<1>1. q \in RequestSet /\ Fits(q)
  BY WaitsAt
<1>2. Tail(q.titles) \in Seq(Names) /\ Append(q.got, g) \in Seq(Entries)
  BY <1>1 DEF RequestSet
<1>3. req' = [req EXCEPT ![c] = r]
  OBVIOUS
<1> HIDE DEF q
<1>4. r \in RequestSet
  BY <1>1, <1>2 DEF RequestSet
<1>5. Fits(r)
  BY <1>1 DEF Fits, RequestSet
<1> HIDE DEF r
<1> QED
  BY <1>3, <1>4, <1>5, SetsWait DEF Types

LEMMA FindGroupTypes ==
  ASSUME Types, NEW c \in Clients, FindGroup(c)
  PROVE  Types'
<1> DEFINE n == Head(req[c].titles)
<1>1. ASSUME NEW g \in Entries, req' = [req EXCEPT ![c].titles = Tail(@), ![c].got = Append(@, g)]
      PROVE  Types'
  <2>1. req[c].pc = "titles" /\ req[c].titles # << >>
    BY DEF FindGroup
  <2>2. req' = [req EXCEPT ![c].pc = "titles", ![c].titles = Tail(@), ![c].got = Append(@, g)]
    BY <1>1, <2>1, WaitsAt, ZenonT(30) DEF Types, Waits, RequestSet
  <2>3. Waits'
    BY <2>1, <2>2, GotWaits
  <2> QED
    BY <2>3 DEF FindGroup, Types, store
<1>2. ASSUME Goes(c, "insert"), n # Space
      PROVE  Types'
  <2> DEFINE r == [req[c] EXCEPT !.pc = "insert"]
  <2>1. r \in RequestSet
    BY WaitsAt DEF RequestSet
  <2>2. Fits(r)
    BY <1>2, WaitsAt DEF Fits, RequestSet, FindGroup
  <2>3. req' = [req EXCEPT ![c] = r]
    BY <1>2 DEF Goes
  <2> HIDE DEF r
  <2>4. Waits'
    BY <2>1, <2>2, <2>3, SetsWait DEF Types
  <2> QED
    BY <2>4 DEF FindGroup, Types, store
<1>3. CASE n = Space /\ req' = [req EXCEPT ![c].titles = Tail(@), ![c].got = Append(@, False)]
  BY <1>1, <1>3 DEF Entries
<1>4. ASSUME NEW g \in Named(n), req' = [req EXCEPT ![c].titles = Tail(@), ![c].got = Append(@, g)]
      PROVE  Types'
  BY <1>1, <1>4 DEF Named, Live, Entries
<1> QED
  BY <1>2, <1>3, <1>4 DEF FindGroup

LEMMA InsertGroupTypes ==
  ASSUME Types, NEW c \in Clients, InsertGroup(c)
  PROVE  /\ Types'
         /\ \A g \in Groups : title[g] # None => title'[g] # None
<1>1. PICK g \in spare \cap Groups :
        /\ title' = [title EXCEPT ![g] = Head(req[c].titles)]
        /\ req' = [req EXCEPT ![c].pc = "titles", ![c].titles = Tail(@), ![c].got = Append(@, g)]
  BY DEF InsertGroup
<1>2. req[c].pc = "insert" /\ req[c].titles # << >> /\ Head(req[c].titles) # Space
  BY WaitsAt DEF InsertGroup, Fits
<1>3. Waits'
  BY <1>1, <1>2, GotWaits DEF Entries
<1>4. Head(req[c].titles) \in Titles
  BY <1>2, WaitsAt DEF RequestSet, Names
<1>5. title' \in [Groups -> Titles \cup {None}]
  BY <1>1, <1>4 DEF Types
<1>6. Head(req[c].titles) # None
  BY <1>4, TitlesAssumption
<1> QED
  BY <1>1, <1>3, <1>5, <1>6 DEF InsertGroup, Types

LEMMA StoreNewTypes ==
  ASSUME Types, NEW c \in Clients, StoreNew(c)
  PROVE  Types'
<1>1. req[c].got \in Seq(Entries) /\ req[c].again \in Seq(Names)
  BY WaitsAt DEF RequestSet
<1>2. Waits'
  <2> DEFINE r == IF req[c].again = << >> THEN Idle ELSE Adding(<< >>, req[c].again)
  <2>0. << >> \in Seq(Entries)
    OBVIOUS
  <2>1. r \in RequestSet /\ Fits(r)
    BY <1>1, <2>0, IdleFits, AddingFits
  <2>2. req' = [req EXCEPT ![c] = r]
    BY DEF StoreNew
  <2> HIDE DEF r
  <2> QED
    BY <2>1, <2>2, SetsWait DEF Types
<1>3. CASE UNCHANGED store
  BY <1>2, <1>3 DEF store, Types
<1>4. CASE ~ UNCHANGED store
  <2>1. PICK w \in spare \cap Watches, tags \in SetToSeqs(Range(req[c].got)) : Keep(w, tags)
    BY <1>4 DEF StoreNew
  <2>2. tags \in Seq(Entries)
    BY <1>1, OnceEach
  <2>3. list' \in [Watches -> Seq(Entries) \cup {None}]
    BY <2>1, <2>2 DEF Keep, Types
  <2>4. UNCHANGED title
    BY DEF StoreNew, store
  <2> QED
    BY <1>2, <2>3, <2>4 DEF Types
<1> QED
  BY <1>3, <1>4

LEMMA StoreEditTypes ==
  ASSUME Types, NEW c \in Clients, StoreEdit(c)
  PROVE  Types'
<1>1. Waits'
  BY EndWaits DEF StoreEdit, Types
<1>2. PICK w \in req[c].todo : TRUE
  BY WaitsAt DEF StoreEdit, Fits
<1>3. req[c].got \in Seq(Entries)
  BY WaitsAt DEF RequestSet
<1>4. list' \in [Watches -> Seq(Entries) \cup {None}]
  BY <1>2, <1>3 DEF StoreEdit, Keep, Types
<1> QED
  BY <1>1, <1>4 DEF StoreEdit, Types

\* A watch less to do.
LEMMA LessToDo ==
  ASSUME Types, NEW c \in Clients, NEW w,
         Ends(c) \/ req' = [req EXCEPT ![c].todo = @ \ {w}],
         req[c].op # "edit"
  PROVE  Waits'
<1>1. CASE Ends(c)
  BY <1>1, EndWaits DEF Types
<1>2. CASE req' = [req EXCEPT ![c].todo = @ \ {w}]
  <2> DEFINE r == [req[c] EXCEPT !.todo = @ \ {w}]
  <2>1. r \in RequestSet
    BY WaitsAt, ZenonT(30) DEF RequestSet
  <2>2. Fits(r)
    BY WaitsAt DEF RequestSet, Fits
  <2>3. req' = [req EXCEPT ![c] = r]
    BY <1>2
  <2> HIDE DEF r
  <2> QED
    BY <2>1, <2>2, <2>3, SetsWait DEF Types
<1> QED
  BY <1>1, <1>2

LEMMA StoreTagTypes ==
  ASSUME Types, NEW c \in Clients, StoreTag(c)
  PROVE  Types'
<1>1. req[c].got \in Seq(Entries)
  BY WaitsAt DEF RequestSet
<1>2. Waits'
  BY LessToDo DEF StoreTag
<1> DEFINE got == AllBut(req[c].got, {False})
           More(w) == IF c \in Web THEN got ELSE AllBut(got, Range(list[w]))
<1>3. PICK w \in req[c].todo : (w \in There /\ Keep(w, list[w] \o More(w))) \/ UNCHANGED list
  BY DEF StoreTag
<1>4. got \in Seq(Entries)
  BY <1>1, AllButIs
<1> HIDE DEF got
<1>5. More(w) \in Seq(Entries)
  BY <1>4, AllButIs
<1> HIDE DEF More
<1>6. list' \in [Watches -> Seq(Entries) \cup {None}]
  <2>1. CASE w \in There /\ Keep(w, list[w] \o More(w))
    <3>1. list[w] \o More(w) \in Seq(Entries)
      BY <1>5, <2>1, ThereAre
    <3> QED
      BY <2>1, <3>1 DEF Keep, Types
  <2> QED
    BY <1>3, <2>1 DEF Types
<1> QED
  BY <1>2, <1>6 DEF StoreTag, Types

LEMMA WalkOnTypes ==
  ASSUME Types, NEW c \in Clients, WalkOn(c), req[c].op # "edit"
  PROVE  Types'
<1>1. CASE req[c].todo = {}
  <2>1. Waits'
    BY <1>1, EndWaits DEF WalkOn, Types
  <2> QED
    BY <1>1, <2>1 DEF WalkOn, Types
<1>2. CASE req[c].todo # {}
  <2> DEFINE Left(w) == IF req[c].op = "clear" THEN << >> ELSE LessOne(list[w], req[c].group)
  <2>1. PICK w \in req[c].todo : /\ (w \in There /\ Keep(w, Left(w))) \/ UNCHANGED list
                                 /\ req' = [req EXCEPT ![c].todo = @ \ {w}]
    BY <1>2 DEF WalkOn
  <2>2. w \in There => Left(w) \in Seq(Entries)
    BY ThereAre, LessOneIs
  <2> HIDE DEF Left
  <2>3. list' \in [Watches -> Seq(Entries) \cup {None}]
    BY <2>1, <2>2 DEF Keep, Types
  <2>4. Waits'
    BY <2>1, LessToDo
  <2> QED
    BY <2>3, <2>4 DEF WalkOn, Types
<1> QED
  BY <1>1, <1>2

LEMMA RemoveOnTypes ==
  ASSUME Types, NEW c \in Clients, RemoveOn(c), req[c].op # "edit"
  PROVE  Types'
<1>1. PICK w \in req[c].todo :
        /\ (w \in There /\ Keep(w, AllBut(list[w], {req[c].group}))) \/ UNCHANGED list
        /\ Ends(c) \/ req' = [req EXCEPT ![c].todo = @ \ {w}]
  BY DEF RemoveOn
<1>2. w \in There => AllBut(list[w], {req[c].group}) \in Seq(Entries)
  BY ThereAre, AllButIs
<1>3. list' \in [Watches -> Seq(Entries) \cup {None}]
  BY <1>1, <1>2 DEF Keep, Types
<1>4. Waits'
  BY <1>1, LessToDo
<1> QED
  BY <1>3, <1>4 DEF RemoveOn, Types

LEMMA RetitleTypes ==
  ASSUME Types, NEW c \in Clients, Retitle(c)
  PROVE  /\ Types'
         /\ \A g \in Groups : title[g] # None => title'[g] # None
<1>1. Head(req[c].titles) \in Titles
  BY WaitsAt DEF Retitle, RequestSet, Fits, Names
<1>2. Head(req[c].titles) # None
  BY <1>1, TitlesAssumption
<1>3. Waits'
  BY EndWaits DEF Retitle, Types
<1>4. title' \in [Groups -> Titles \cup {None}]
  BY <1>1 DEF Retitle, Types
<1>5. \A g \in Groups : title[g] # None => title'[g] # None
  BY <1>2 DEF Retitle, Types
<1> QED
  BY <1>3, <1>4, <1>5 DEF Retitle, Types

LEMMA RequestTypes ==
  ASSUME Types, NEW c \in Clients, Request(c)
  PROVE  Types'
BY AskAddTypes, AskEditTypes, AskTagTypes, AskLeaveTypes, AskRemoveTypes, OtherRequestTypes
   DEF Request

LEMMA ServeTypes ==
  ASSUME Types, NEW c \in Clients, Serve(c)
  PROVE  Types'
<1>1. req[c].pc \notin {"titles", "insert"} => req[c].op # "edit"
  BY WaitsAt DEF Fits
<1>2. CASE FindGroup(c) \/ InsertGroup(c) \/ StoreNew(c) \/ StoreEdit(c) \/ StoreTag(c)
  BY <1>2, FindGroupTypes, InsertGroupTypes, StoreNewTypes, StoreEditTypes, StoreTagTypes
<1>3. CASE WalkOn(c)
  BY <1>1, <1>3, WalkOnTypes DEF WalkOn
<1>4. CASE WalkRaises(c)
  BY <1>4, EndWaits DEF WalkRaises, Types, store
<1>5. CASE RemoveOn(c)
  BY <1>1, <1>5, RemoveOnTypes DEF RemoveOn
<1>6. CASE Retitle(c)
  BY <1>6, RetitleTypes
<1> QED
  BY <1>2, <1>3, <1>4, <1>5, <1>6 DEF Serve

\* RequestSet, titles and lists stay what the requests' steps take them for.
THEOREM TypesAreKept == Spec => []Types
<1>1. ASSUME Types, [Next]_vars PROVE Types'
  <2>1. CASE Next
    BY <1>1, <2>1, RequestTypes, ServeTypes DEF Next
  <2>2. CASE UNCHANGED vars
    BY <1>1, <2>2 DEF vars, store, Types, Waits
  <2> QED
    BY <1>1, <2>1, <2>2
<1> QED
  BY InitTypes, <1>1, PTL DEF Spec

-----------------------------------------------------------------------------
\* A deleted group is gone from the watches, or there is a reason why it is not.
Reaches(r, w, g) == r.pc = "walk" /\ w \in r.todo /\ (r.op = "clear" \/ r.group = g)
Excused(w, g) == <<w, g>> \in excused \/ Walked(w, g)

\* What a step has to show of the entries there are afterwards: each has its excuse, or was there
\* before, and a walk that would come to it still does, or a walk begins that will.
LEMMA StillExcused ==
  ASSUME Types, RemovedUnlessExcused, excused \subseteq excused',
         NEW c \in Clients, NEW r, req' = [req EXCEPT ![c] = r],
         \A w \in There' : \A g \in Range(list'[w]) \ (Live' \cup {False}) :
           \/ <<w, g>> \in excused'
           \/ Reaches(r, w, g)
           \/ /\ w \in There /\ g \in Range(list[w]) \ (Live \cup {False})
              /\ Reaches(req[c], w, g) => Reaches(r, w, g)
  PROVE  RemovedUnlessExcused'
<1> SUFFICES ASSUME NEW w \in There', NEW g \in Range(list'[w]) \ (Live' \cup {False})
             PROVE  Excused(w, g)'
  BY DEF RemovedUnlessExcused, Excused
<1>1. req'[c] = r /\ \A d \in Clients \ {c} : req'[d] = req[d]
  BY DEF Types, Waits
<1>2. CASE Reaches(r, w, g)
  BY <1>1, <1>2 DEF Excused, Walked, Reaches
<1>3. CASE /\ w \in There /\ g \in Range(list[w]) \ (Live \cup {False})
           /\ Reaches(req[c], w, g) => Reaches(r, w, g)
  <2>1. CASE Walked(w, g)
    <3>1. PICK d \in Clients : Reaches(req[d], w, g)
      BY <2>1 DEF Walked, Reaches
    <3> QED
      BY <1>1, <1>3, <3>1 DEF Excused, Walked, Reaches
  <2> QED
    BY <1>3, <2>1 DEF Excused, RemovedUnlessExcused
<1> QED
  BY <1>2, <1>3 DEF Excused

\* A step outside the walks that writes no list and deletes no group.
LEMMA NothingWritten ==
  ASSUME Types, RemovedUnlessExcused, UNCHANGED list, excused \subseteq excused',
         \A g \in Groups : title[g] # None => title'[g] # None,
         NEW c \in Clients, NEW r, req[c].pc # "walk", req' = [req EXCEPT ![c] = r]
  PROVE  RemovedUnlessExcused'
<1>1. ASSUME NEW w \in There', NEW g \in Range(list'[w]) \ (Live' \cup {False})
      PROVE  w \in There /\ g \in Range(list[w]) \ (Live \cup {False})
  BY DEF There, Live
<1> QED
  BY <1>1, StillExcused DEF Reaches

\* One that writes the list of one watch: what it adds is alive or excused.
LEMMA OneWritten ==
  ASSUME Types, RemovedUnlessExcused, UNCHANGED title, excused \subseteq excused',
         NEW c \in Clients, NEW r, req[c].pc # "walk", req' = [req EXCEPT ![c] = r],
         NEW w \in Watches, NEW tags, Keep(w, tags),
         tags # None => \A g \in Range(tags) : \/ g \in Live \cup {False}
                                               \/ <<w, g>> \in excused'
                                               \/ w \in There /\ g \in Range(list[w])
  PROVE  RemovedUnlessExcused'
<1>1. list'[w] = tags /\ \A v \in Watches \ {w} : list'[v] = list[v]
  BY DEF Keep, Types
<1>2. Live' = Live
  BY DEF Live
<1>3. ASSUME NEW v \in There', NEW g \in Range(list'[v]) \ (Live' \cup {False})
      PROVE  <<v, g>> \in excused' \/ (v \in There /\ g \in Range(list[v]) \ (Live \cup {False}))
  <2>1. CASE v = w
    BY <1>1, <1>2, <1>3, <2>1 DEF There
  <2>2. CASE v # w
    BY <1>1, <1>2, <1>3, <2>2 DEF There
  <2> QED
    BY <2>1, <2>2
<1> QED
  BY <1>3, StillExcused DEF Reaches

\* What Excusing() does.
LEMMA ExcusingDoes ==
  ASSUME NEW w, NEW gs, Excusing(w, gs)
  PROVE  excused \subseteq excused' /\ \A g \in gs : g \in Live \/ <<w, g>> \in excused'
BY DEF Excusing

LEMMA RequestRemoves ==
  ASSUME Types, RemovedUnlessExcused, NEW c \in Clients, Request(c)
  PROVE  RemovedUnlessExcused'
<1>1. ASSUME NEW r, Asks(c, r)
      PROVE  req[c].pc # "walk" /\ req' = [req EXCEPT ![c] = r]
  BY <1>1 DEF Asks
<1>2. ASSUME NEW r, Asks(c, r), UNCHANGED <<store, excused>>
      PROVE  RemovedUnlessExcused'
  BY <1>1, <1>2, NothingWritten DEF store
<1>3. CASE AskAdd(c)
  BY <1>2, <1>3 DEF AskAdd, QuickAdd, ApiCreate, ApiImport, Clone, NewMonitor
<1>4. CASE AskEdit(c) \/ AskTag(c)
  BY <1>2, <1>4 DEF AskEdit, AskTag
<1>5. CASE AskUnlink(c) \/ AskRemove(c) \/ AskRetitle(c)
  BY <1>2, <1>5 DEF AskUnlink, AskRemove, AskRetitle
<1>6. CASE AskDelete(c)
  <2>1. PICK h \in Live : Without({h}) /\ Asks(c, Walk("delete", h))
    BY <1>6 DEF AskDelete
  <2> DEFINE r == Walk("delete", h)
  <2>2. r.pc = "walk" /\ r.todo = There /\ r.group = h
    BY DEF Walk, Idle
  <2> HIDE DEF r
  <2>3. ASSUME NEW w \in There', NEW g \in Range(list'[w]) \ (Live' \cup {False})
        PROVE  /\ w \in There /\ g \in Range(list[w])
               /\ g \notin Live \cup {False} \/ g = h
    BY <1>6, <2>1 DEF AskDelete, Without, There, Live
  <2> QED
    BY <1>1, <1>6, <2>1, <2>2, <2>3, StillExcused DEF AskDelete, r, Reaches
<1>7. CASE AskDeleteAll(c)
  <2> DEFINE r == Walk("clear", None)
  <2>1. r.pc = "walk" /\ r.todo = There /\ r.op = "clear"
    BY DEF Walk, Idle
  <2>2. Asks(c, r)
    BY <1>7 DEF AskDeleteAll
  <2> HIDE DEF r
  <2>3. ASSUME NEW w \in There'
        PROVE  w \in There
    BY <1>7 DEF AskDeleteAll, There
  <2> QED
    BY <1>1, <1>7, <2>1, <2>2, <2>3, StillExcused DEF AskDeleteAll, Reaches
<1>8. CASE PutTags(c)
  <2>1. PICK w \in There, tags \in {<< >>} \cup {<<g>> : g \in Groups \ spare} :
          Asks(c, Idle) /\ Keep(w, tags) /\ Excusing(w, Range(tags))
    BY <1>8 DEF PutTags
  <2> QED
    BY <1>1, <1>8, <2>1, ThereAre, ExcusingDoes, OneWritten DEF PutTags
<1>9. CASE DeleteWatch(c)
  <2>1. PICK w \in There : Asks(c, Idle) /\ Keep(w, None)
    BY <1>9 DEF DeleteWatch
  <2> QED
    BY <1>1, <1>9, <2>1, ThereAre, OneWritten DEF DeleteWatch
<1> QED
  BY <1>3, <1>4, <1>5, <1>6, <1>7, <1>8, <1>9 DEF Request

LEMMA TitlesRemove ==
  ASSUME Types, RemovedUnlessExcused, NEW c \in Clients, FindGroup(c) \/ InsertGroup(c)
  PROVE  RemovedUnlessExcused'
<1>1. req[c].pc # "walk" /\ UNCHANGED <<list, excused>>
  BY DEF FindGroup, InsertGroup, store
<1>2. \A g \in Groups : title[g] # None => title'[g] # None
  BY InsertGroupTypes DEF FindGroup, store
<1>3. \E r : req' = [req EXCEPT ![c] = r]
  <2>1. CASE FindGroup(c)
    BY <2>1 DEF FindGroup, Goes
  <2>2. CASE InsertGroup(c)
    BY <2>2 DEF InsertGroup
  <2> QED
    BY <2>1, <2>2
<1> QED
  BY <1>1, <1>2, <1>3, NothingWritten

LEMMA StoreNewRemoves ==
  ASSUME Types, RemovedUnlessExcused, NEW c \in Clients, StoreNew(c)
  PROVE  RemovedUnlessExcused'
<1>1. PICK r : req[c].pc # "walk" /\ req' = [req EXCEPT ![c] = r]
  BY DEF StoreNew, Named_
<1>2. CASE UNCHANGED <<store, excused>>
  BY <1>1, <1>2, NothingWritten DEF store
<1>3. CASE ~ UNCHANGED <<store, excused>>
  <2>1. PICK w \in spare \cap Watches, tags \in SetToSeqs(Range(req[c].got)) :
          Keep(w, tags) /\ Excusing(w, Range(tags)) /\ UNCHANGED title
    BY <1>3 DEF StoreNew
  <2> QED
    BY <1>1, <2>1, ExcusingDoes, OneWritten
<1> QED
  BY <1>2, <1>3

LEMMA StoreEditRemoves ==
  ASSUME Types, RemovedUnlessExcused, NEW c \in Clients, StoreEdit(c)
  PROVE  RemovedUnlessExcused'
<1>1. req[c].pc # "walk" /\ req' = [req EXCEPT ![c] = Idle] /\ UNCHANGED title
  BY DEF StoreEdit, Named_, Ends
<1>2. PICK w \in req[c].todo : w \in Watches
  BY WaitsAt DEF StoreEdit, Fits, RequestSet
<1>3. CASE w \in There
  <2>1. Keep(w, req[c].got) /\ Excusing(w, Range(req[c].got) \ {False})
    BY <1>2, <1>3 DEF StoreEdit
  <2> QED
    BY <1>1, <1>2, <2>1, ExcusingDoes, OneWritten
<1>4. CASE w \notin There
  <2>1. UNCHANGED <<list, excused>>
    BY <1>2, <1>4 DEF StoreEdit
  <2> QED
    BY <1>1, <2>1, NothingWritten
<1> QED
  BY <1>3, <1>4

LEMMA RangeConcat ==
  ASSUME NEW A, NEW s \in Seq(A), NEW t \in Seq(A)
  PROVE  Range(s \o t) = Range(s) \cup Range(t)
<1> DEFINE u == s \o t
<1>1. u \in Seq(A) /\ Len(u) = Len(s) + Len(t)
  OBVIOUS
<1>2. \A i \in 1..Len(s) : u[i] = s[i]
  OBVIOUS
<1>3. \A i \in 1..Len(t) : u[i + Len(s)] = t[i]
  OBVIOUS
<1> HIDE DEF u
<1>4. ASSUME NEW x \in Range(u) PROVE x \in Range(s) \cup Range(t)
  <2>1. PICK i \in 1..Len(u) : u[i] = x
    BY <1>1 DEF Range
  <2>2. CASE i =< Len(s)
    BY <1>2, <2>1, <2>2 DEF Range
  <2>3. CASE i > Len(s)
    <3>1. i - Len(s) \in 1..Len(t) /\ (i - Len(s)) + Len(s) = i
      BY <1>1, <2>3
    <3>2. t[i - Len(s)] = x
      BY <1>3, <2>1, <3>1
    <3> QED
      BY <3>1, <3>2 DEF Range
  <2> QED
    BY <1>1, <2>2, <2>3
<1>5. ASSUME NEW x \in Range(s) PROVE x \in Range(u)
  <2>1. PICK i \in 1..Len(s) : s[i] = x
    BY DEF Range
  <2>2. i \in 1..Len(u) /\ u[i] = x
    BY <1>1, <1>2, <2>1
  <2> QED
    BY <1>1, <2>2 DEF Range
<1>6. ASSUME NEW x \in Range(t) PROVE x \in Range(u)
  <2>1. PICK i \in 1..Len(t) : t[i] = x
    BY DEF Range
  <2>2. i + Len(s) \in 1..Len(u) /\ u[i + Len(s)] = x
    BY <1>1, <1>3, <2>1
  <2> QED
    BY <1>1, <2>2 DEF Range
<1> QED
  BY <1>4, <1>5, <1>6 DEF u

LEMMA StoreTagRemoves ==
  ASSUME Types, RemovedUnlessExcused, NEW c \in Clients, StoreTag(c)
  PROVE  RemovedUnlessExcused'
<1>1. PICK r : req[c].pc # "walk" /\ req' = [req EXCEPT ![c] = r] /\ UNCHANGED title
  BY DEF StoreTag, Named_, Ends
<1> DEFINE got == AllBut(req[c].got, {False})
           More(w) == IF c \in Web THEN got ELSE AllBut(got, Range(list[w]))
<1>2. PICK w \in req[c].todo : \/ /\ w \in There
                                  /\ Keep(w, list[w] \o More(w)) /\ Excusing(w, Range(More(w)))
                               \/ UNCHANGED <<list, excused>>
  BY DEF StoreTag
<1>3. got \in Seq(Entries)
  BY WaitsAt, AllButIs DEF RequestSet
<1> HIDE DEF got
<1>4. More(w) \in Seq(Entries)
  BY <1>3, AllButIs
<1> HIDE DEF More
<1>5. CASE w \in There /\ Keep(w, list[w] \o More(w)) /\ Excusing(w, Range(More(w)))
  <2>1. Range(list[w] \o More(w)) = Range(list[w]) \cup Range(More(w))
    BY <1>4, <1>5, ThereAre, RangeConcat
  <2> QED
    BY <1>1, <1>5, <2>1, ThereAre, ExcusingDoes, OneWritten
<1> QED
  BY <1>1, <1>2, <1>5, NothingWritten

LEMMA WalkOnRemoves ==
  ASSUME Types, RemovedUnlessExcused, NEW c \in Clients, WalkOn(c)
  PROVE  RemovedUnlessExcused'
<1>0. req[c].pc = "walk" /\ Live' = Live
  BY DEF WalkOn, Live
<1>1. CASE req[c].todo = {}
  <2>1. req' = [req EXCEPT ![c] = Idle] /\ UNCHANGED <<list, excused>>
    BY <1>1 DEF WalkOn, Ends
  <2>2. There' = There
    BY <2>1 DEF There
  <2> QED
    BY <1>0, <1>1, <2>1, <2>2, StillExcused DEF Reaches
<1>2. CASE req[c].todo # {}
  <2> DEFINE h == req[c].group
             Left(w) == IF req[c].op = "clear" THEN << >> ELSE LessOne(list[w], h)
  <2>1. PICK v \in req[c].todo :
          /\ \/ v \in There /\ Keep(v, Left(v)) /\ Excusing(v, {g \in {h} : Twice(list[v], g)})
             \/ v \notin There /\ UNCHANGED <<list, excused>>
          /\ req' = [req EXCEPT ![c].todo = @ \ {v}]
    BY <1>2 DEF WalkOn
  <2> DEFINE q == [req[c] EXCEPT !.todo = @ \ {v}]
  <2>2. req' = [req EXCEPT ![c] = q]
    BY <2>1
  <2>3. q.pc = "walk" /\ q.op = req[c].op /\ q.group = h /\ q.todo = req[c].todo \ {v}
    BY <1>0, WaitsAt DEF RequestSet
  <2>4. excused \subseteq excused'
    BY <2>1 DEF Excusing
  <2> HIDE DEF q
  <2>5. ASSUME NEW w \in There', NEW g \in Range(list'[w]) \ (Live \cup {False}), w # v
        PROVE  w \in There /\ g \in Range(list[w])
    BY <2>1, <2>5 DEF There, Keep, Types
  <2>6. ASSUME v \in There', NEW g \in Range(list'[v]) \ (Live \cup {False})
        PROVE  \/ <<v, g>> \in excused'
               \/ g \in Range(list[v]) /\ v \in There /\ req[c].op # "clear" /\ g # h
    <3>1. v \in There
      BY <2>1, <2>6 DEF There
    <3>2. list[v] \in Seq(Entries) /\ v \in Watches
      BY <3>1, ThereAre
    <3>3. list'[v] = Left(v)
      BY <2>1, <3>1, <3>2 DEF Keep, Types
    <3>4. req[c].op # "clear"
      <4>1. Range(<< >>) = {}
        BY DEF Range
      <4> QED
        BY <2>6, <3>3, <4>1
    <3>5. g \in Range(LessOne(list[v], h))
      BY <2>6, <3>3, <3>4
    <3>6. g \in Range(list[v]) /\ (g = h => Twice(list[v], h))
      BY <3>2, <3>5, LessOneIs
    <3>7. g = h => <<v, g>> \in excused'
      BY <2>1, <2>6, <3>1, <3>6, ExcusingDoes
    <3> QED
      BY <3>1, <3>4, <3>6, <3>7
  <2>7. ASSUME NEW w \in There', NEW g \in Range(list'[w]) \ (Live' \cup {False})
        PROVE  \/ <<w, g>> \in excused'
               \/ /\ w \in There /\ g \in Range(list[w]) \ (Live \cup {False})
                  /\ Reaches(req[c], w, g) => Reaches(q, w, g)
    <3>1. g \notin Live \cup {False}
      BY <1>0
    <3>2. CASE w = v
      BY <2>6, <3>1, <3>2 DEF Reaches
    <3>3. CASE w # v
      BY <2>3, <2>5, <3>1, <3>3 DEF Reaches
    <3> QED
      BY <3>2, <3>3
  <2> QED
    BY <2>2, <2>4, <2>7, StillExcused
<1> QED
  BY <1>1, <1>2

LEMMA WalkRaisesRemoves ==
  ASSUME Types, RemovedUnlessExcused, NEW c \in Clients, WalkRaises(c)
  PROVE  RemovedUnlessExcused'
<1>1. /\ excused' = excused \cup (There \X (Groups \ Live)) /\ UNCHANGED <<title, list>>
      /\ req' = [req EXCEPT ![c] = Idle]
  BY DEF WalkRaises, Ends, store
<1>2. There' = There /\ Live' = Live
  BY <1>1 DEF There, Live
<1>3. ASSUME NEW w \in There, NEW g \in Range(list[w]) \ (Live \cup {False})
      PROVE  <<w, g>> \in excused'
  <2>1. list[w] \in Seq(Entries)
    BY ThereAre
  <2>2. g \in Groups \ Live
    BY <1>3, <2>1 DEF Range, Entries
  <2> QED
    BY <1>1, <2>2
<1> QED
  BY <1>1, <1>2, <1>3, StillExcused

LEMMA RemoveOnRemoves ==
  ASSUME Types, RemovedUnlessExcused, NEW c \in Clients, RemoveOn(c)
  PROVE  RemovedUnlessExcused'
<1>1. PICK r : req[c].pc # "walk" /\ req' = [req EXCEPT ![c] = r] /\ UNCHANGED <<title, excused>>
  BY DEF RemoveOn, Ends
<1>2. PICK w \in req[c].todo :
        (w \in There /\ Keep(w, AllBut(list[w], {req[c].group}))) \/ UNCHANGED list
  BY DEF RemoveOn
<1>3. CASE w \in There /\ Keep(w, AllBut(list[w], {req[c].group}))
  <2>1. Range(AllBut(list[w], {req[c].group})) \subseteq Range(list[w])
    BY <1>3, ThereAre, AllButIs
  <2> QED
    BY <1>1, <1>3, <2>1, ThereAre, OneWritten
<1> QED
  BY <1>1, <1>2, <1>3, NothingWritten

LEMMA ServeRemoves ==
  ASSUME Types, RemovedUnlessExcused, NEW c \in Clients, Serve(c)
  PROVE  RemovedUnlessExcused'
<1>1. CASE Retitle(c)
  <2>1. req[c].pc # "walk" /\ UNCHANGED <<list, excused>> /\ req' = [req EXCEPT ![c] = Idle]
    BY <1>1 DEF Retitle, Ends
  <2> QED
    BY <1>1, <2>1, RetitleTypes, NothingWritten
<1> QED
  BY <1>1, TitlesRemove, StoreNewRemoves, StoreEditRemoves, StoreTagRemoves, WalkOnRemoves,
     WalkRaisesRemoves, RemoveOnRemoves DEF Serve

LEMMA InitRemoved == Init => RemovedUnlessExcused
<1> SUFFICES ASSUME Init, NEW w \in There, NEW g \in Range(list[w]) PROVE g \in Live
  BY DEF RemovedUnlessExcused
<1>1. PICK f \in [Groups -> Titles \cup {None}] : f = title /\ \A h \in Scope : f[h] # None
  BY ScopeAssumption DEF Init
<1>2. Scope \subseteq Live
  BY <1>1, ScopeAssumption DEF Live
<1>3. list[w] \in {<< >>} \cup {<<h>> : h \in Scope}
  BY DEF Init, There
<1>4. Range(<< >>) = {} /\ \A h : Range(<<h>>) = {h}
  BY DEF Range
<1> QED
  BY <1>2, <1>3, <1>4

\* A group that is deleted, by whomever and beside whatever, is listed afterwards only by a watch
\* that listed it twice, that a request wrote later, or that a cut off walk left; no watch that
\* was there when the walk began is forgotten.
THEOREM DeletedAreRemoved == Spec => []RemovedUnlessExcused
<1>1. ASSUME Types, RemovedUnlessExcused, [Next]_vars PROVE RemovedUnlessExcused'
  <2>1. CASE Next
    BY <1>1, <2>1, RequestRemoves, ServeRemoves DEF Next
  <2>2. CASE UNCHANGED vars
    BY <1>1, <2>2, ZenonT(30) DEF vars, store, RemovedUnlessExcused, There, Live, Walked
  <2> QED
    BY <1>1, <2>1, <2>2
<1> QED
  BY InitRemoved, TypesAreKept, <1>1, PTL DEF Spec

-----------------------------------------------------------------------------
\* What a limited client makes or changes stays in its sight.
InSight(c) == /\ req[c].op = "add" => LandsInSight(c)
              /\ req[c].pc = "remove" => StaysInSight(c)

LEMMA OwnAreTitles ==
  ASSUME Types
  PROVE  OwnTitles \subseteq Titles
BY ScopeAssumption DEF OwnTitles, Types, Live

LEMMA NewMonitorLands ==
  ASSUME Types, NEW c \in Restricted, AskAdd(c)
  PROVE  InSight(c)'
<1>1. c \notin Web /\ c \in Clients /\ UNCHANGED <<title, list>>
  BY ClientsAssumption DEF Clients, AskAdd, store
<1>2. NewMonitor(c)
  BY <1>1 DEF AskAdd, QuickAdd, ApiCreate, ApiImport, Clone
<1>3. PICK names \in Lists : \E allowed \in AllowedTitles(c, names) :
          Asks(c, Adding(<< >>, allowed))
  BY <1>2 DEF NewMonitor
<1>4. PICK allowed \in AllowedTitles(c, names) : Asks(c, Adding(<< >>, allowed))
  BY <1>3
<1>5. allowed \in Seq(Names)
  BY AllowedAre
<1>6. Range(allowed) \subseteq OwnTitles /\ Range(allowed) # {}
  <2>1. allowed \in ScopedTitles(names)
    BY DEF AllowedTitles
  <2>2. CASE names = << >>
    <3>1. PICK n \in OwnTitles : allowed = <<n>>
      BY <2>1, <2>2 DEF ScopedTitles, OwnTitles
    <3> QED
      BY <3>1 DEF Range
  <2>3. CASE names # << >>
    <3>1. allowed = names /\ Range(names) \subseteq OwnTitles
      BY <2>1, <2>3 DEF ScopedTitles, OwnTitles
    <3>2. names[1] \in Range(names)
      BY <1>5, <2>3, <3>1 DEF Range
    <3> QED
      BY <3>1, <3>2
  <2> QED
    BY <2>2, <2>3
<1> DEFINE left == AllBut(allowed, {Space})
           r == Adding(<< >>, allowed)
<1>7. left \in Seq(Names) /\ Range(left) \subseteq OwnTitles /\ Range(left) # {}
  BY <1>5, <1>6, AllButIs, OwnAreTitles, TitlesAssumption
<1>8. left # << >>
  <2> HIDE DEF left
  <2>1. Range(<< >>) = {}
    BY DEF Range
  <2> QED
    BY <1>7, <2>1
<1>9. r.op = "add" /\ r.pc = "titles" /\ r.titles = left /\ r.got = << >> /\ r.again = << >>
  BY DEF Adding, Idle
<1> HIDE DEF left, r
<1>10. req'[c] = r
  BY <1>1, <1>4 DEF Asks, Types, Waits, r
<1>11. OwnTitles' = OwnTitles /\ Range(<< >>) = {}
  BY <1>1 DEF OwnTitles, Live, Range
<1> QED
  BY <1>7, <1>8, <1>9, <1>10, <1>11 DEF InSight, LandsInSight

LEMMA RequestSight ==
  ASSUME Types, NEW c \in Restricted, Request(c)
  PROVE  InSight(c)'
<1>1. c \notin Web /\ c \in Clients
  BY ClientsAssumption DEF Clients
<1>2. ASSUME NEW r, Asks(c, r)
      PROVE  req'[c] = r
  BY <1>1, <1>2 DEF Asks, Types, Waits
<1>3. CASE AskTag(c)
  <2>1. PICK ws \in SUBSET There, names \in Lists : \E allowed \in AllowedTitles(c, names) :
          Asks(c, [Idle EXCEPT !.op = "tag", !.pc = "titles", !.titles = allowed, !.todo = ws])
    BY <1>3 DEF AskTag
  <2>2. req'[c].op = "tag" /\ req'[c].pc = "titles"
    BY <1>2, <2>1 DEF Idle
  <2> QED
    BY <2>2 DEF InSight
<1>4. CASE AskRemove(c)
  <2>1. PICK ws \in SUBSET There, g \in Scope \cap Live :
          /\ Orphans(ws, {g}) = {}
          /\ Asks(c, [Idle EXCEPT !.op = "remove", !.pc = "remove", !.todo = ws, !.group = g])
    BY <1>4 DEF AskRemove
  <2>2. req'[c].op = "remove" /\ req'[c].pc = "remove" /\ req'[c].todo = ws /\ req'[c].group = g
    BY <1>2, <2>1 DEF Idle
  <2>3. UNCHANGED list
    BY <1>4 DEF AskRemove, store
  <2> QED
    BY <2>1, <2>2, <2>3 DEF InSight, StaysInSight, Orphans
<1>5. CASE DeleteWatch(c)
  <2>1. req'[c] = Idle
    BY <1>2, <1>5 DEF DeleteWatch
  <2> QED
    BY <2>1 DEF InSight, Idle
<1> QED
  BY <1>1, <1>3, <1>4, <1>5, NewMonitorLands
     DEF Request, AskEdit, AskDelete, AskUnlink, AskDeleteAll, PutTags, AskRetitle

LEMMA FindGroupSight ==
  ASSUME Types, NEW c \in Clients, InSight(c), FindGroup(c)
  PROVE  InSight(c)'
<1>1. UNCHANGED <<title, list>> /\ req[c].pc = "titles" /\ req[c].titles # << >>
  BY DEF FindGroup, store
<1>2. req'[c].op = req[c].op /\ req'[c].again = req[c].again /\ req'[c].pc \in {"titles", "insert"}
  BY <1>1 DEF FindGroup, Goes, Types, Waits, RequestSet
<1>3. CASE req[c].op = "add"
  <2> DEFINE n == Head(req[c].titles)
  <2>1. LandsInSight(c)
    BY <1>3 DEF InSight
  <2>2. req[c].titles \in Seq(Names) /\ req[c].got \in Seq(Entries)
    BY WaitsAt DEF RequestSet
  <2>3. n \in Range(req[c].titles) /\ Range(Tail(req[c].titles)) \subseteq Range(req[c].titles)
    BY <1>1, <2>2 DEF Range
  <2>4. n \in OwnTitles /\ n # Space
    BY <2>1, <2>3, OwnAreTitles, TitlesAssumption DEF LandsInSight
  <2>5. Named(n) # {}
    BY <2>4, ScopeAssumption DEF OwnTitles, Named
  <2>6. PICK g \in Named(n) : req' = [req EXCEPT ![c].titles = Tail(@), ![c].got = Append(@, g)]
    BY <2>4, <2>5 DEF FindGroup
  <2>7. /\ req'[c].pc = "titles" /\ req'[c].titles = Tail(req[c].titles)
        /\ req'[c].got = Append(req[c].got, g)
    BY <1>1, <2>6 DEF Types, Waits, RequestSet
  <2>8. g \in Entries
    BY DEF Named, Live, Entries
  <2>9. /\ Range(Append(req[c].got, g)) = Range(req[c].got) \cup {g}
        /\ Append(req[c].got, g) # << >>
    BY <2>2, <2>8, RangeAppend
  <2>10. OneEachTitle => g \in Scope
    BY <2>4 DEF OwnTitles, Named, OneEachTitle
  <2>11. OneEachTitle' = OneEachTitle /\ OwnTitles' = OwnTitles
    BY <1>1 DEF OneEachTitle, OwnTitles, Live
  <2> HIDE DEF n
  <2>12. LandsInSight(c)'
    BY <1>2, <2>1, <2>3, <2>7, <2>9, <2>10, <2>11 DEF LandsInSight
  <2> QED
    BY <2>7, <2>12 DEF InSight
<1>4. CASE req[c].op # "add"
  BY <1>2, <1>4 DEF InSight
<1> QED
  BY <1>3, <1>4

LEMMA RemoveOnSight ==
  ASSUME Types, NEW c \in Clients, InSight(c), RemoveOn(c)
  PROVE  InSight(c)'
<1>1. req[c].pc = "remove" /\ req[c].op # "add" /\ StaysInSight(c)
  BY DEF RemoveOn, InSight, LandsInSight
<1>2. PICK w \in req[c].todo :
        /\ (w \in There /\ Keep(w, AllBut(list[w], {req[c].group}))) \/ UNCHANGED list
        /\ Ends(c) \/ req' = [req EXCEPT ![c].todo = @ \ {w}]
  BY DEF RemoveOn
<1>3. CASE Ends(c)
  <2>1. req'[c] = Idle
    BY <1>3 DEF Ends, Types, Waits
  <2> QED
    BY <2>1 DEF InSight, Idle
<1>4. CASE req' = [req EXCEPT ![c].todo = @ \ {w}]
  <2>1. /\ req'[c].op = req[c].op /\ req'[c].group = req[c].group
        /\ req'[c].todo = req[c].todo \ {w}
    BY <1>4 DEF Types, Waits, RequestSet
  <2>2. ASSUME NEW v \in Watches \ {w}
        PROVE  list'[v] = list[v] /\ (v \in There' => v \in There)
    BY <1>2, <2>2 DEF Keep, Types, There
  <2>3. There' \subseteq Watches
    BY DEF There
  <2>4. StaysInSight(c)'
    BY <1>1, <2>1, <2>2, <2>3 DEF StaysInSight
  <2> QED
    BY <1>1, <2>1, <2>4 DEF InSight
<1> QED
  BY <1>2, <1>3, <1>4

LEMMA ServeSight ==
  ASSUME Types, NEW c \in Clients, InSight(c), Serve(c)
  PROVE  InSight(c)'
<1>1. ASSUME req'[c] = Idle PROVE InSight(c)'
  BY <1>1 DEF InSight, Idle
<1>2. ASSUME Ends(c) PROVE req'[c] = Idle
  BY <1>2 DEF Ends, Types, Waits
<1>3. ASSUME req[c].op # "add", req'[c].op = req[c].op, req'[c].pc # "remove"
      PROVE  InSight(c)'
  BY <1>3 DEF InSight
<1>4. CASE InsertGroup(c)
  <2>1. req[c].pc = "insert" /\ req[c].op # "add"
    BY <1>4 DEF InsertGroup, InSight, LandsInSight
  <2>2. req'[c].pc = "titles" /\ req'[c].op = req[c].op
    BY <1>4 DEF InsertGroup, Types, Waits, RequestSet
  <2> QED
    BY <1>3, <2>1, <2>2
<1>5. CASE StoreNew(c)
  <2>1. req[c].again = << >>
    BY <1>5 DEF StoreNew, InSight, LandsInSight
  <2>2. req'[c] = Idle
    BY <1>5, <2>1 DEF StoreNew, Types, Waits
  <2> QED
    BY <1>1, <2>2
<1>6. CASE StoreEdit(c) \/ WalkRaises(c) \/ Retitle(c)
  BY <1>1, <1>2, <1>6 DEF StoreEdit, WalkRaises, Retitle
<1>7. CASE StoreTag(c)
  <2>1. PICK w : Ends(c) \/ req' = [req EXCEPT ![c].todo = @ \ {w}]
    BY <1>7 DEF StoreTag
  <2>2. req' = [req EXCEPT ![c].todo = @ \ {w}] =>
          req'[c].op = req[c].op /\ req'[c].pc = req[c].pc
    BY DEF Types, Waits, RequestSet
  <2>3. req[c].op = "tag" /\ req[c].pc = "titles"
    BY <1>7 DEF StoreTag, Named_
  <2> QED
    BY <1>1, <1>2, <1>3, <2>1, <2>2, <2>3
<1>8. CASE WalkOn(c)
  <2>1. PICK w : Ends(c) \/ req' = [req EXCEPT ![c].todo = @ \ {w}]
    BY <1>8 DEF WalkOn
  <2>2. req' = [req EXCEPT ![c].todo = @ \ {w}] =>
          req'[c].op = req[c].op /\ req'[c].pc = req[c].pc
    BY DEF Types, Waits, RequestSet
  <2>3. req[c].pc = "walk" /\ req[c].op # "add"
    BY <1>8 DEF WalkOn, InSight, LandsInSight
  <2> QED
    BY <1>1, <1>2, <1>3, <2>1, <2>2, <2>3
<1> QED
  BY <1>4, <1>5, <1>6, <1>7, <1>8, FindGroupSight, RemoveOnSight DEF Serve

LEMMA SightStep ==
  ASSUME Types, Sight, [Next]_vars
  PROVE  Sight'
<1>1. CASE Next
  <2>1. PICK c \in Clients : /\ Request(c) \/ Serve(c)
                             /\ calm' = IF req[c].pc = "idle" THEN {c} ELSE calm \cap {c}
    BY <1>1 DEF Next
  <2> SUFFICES ASSUME c \in Restricted, c \in calm'
               PROVE  InSight(c)'
    BY <2>1 DEF Sight, InSight
  <2>2. CASE Request(c)
    BY <2>2, RequestSight
  <2>3. CASE Serve(c)
    <3>1. req[c].pc # "idle"
      BY <2>3 DEF Serve, FindGroup, InsertGroup, StoreNew, StoreEdit, StoreTag, Named_, WalkOn,
                  WalkRaises, RemoveOn, Retitle
    <3>2. InSight(c)
      BY <2>1, <3>1 DEF Sight, InSight
    <3> QED
      BY <2>3, <3>2, ServeSight
  <2> QED
    BY <2>1, <2>2, <2>3
<1>2. CASE UNCHANGED vars
  BY <1>2 DEF vars, store, Sight, LandsInSight, StaysInSight, OwnTitles, OneEachTitle, Live, There
<1> QED
  BY <1>1, <1>2

LEMMA SightKeeps ==
  ASSUME Types, Sight
  PROVE  KeepsInSight
<1> SUFFICES ASSUME NEW c \in Restricted, NEW w \in Watches, c \in calm
             PROVE  /\ (StoreNew(c) /\ OneEachTitle /\ list[w] = None /\ list'[w] # None)
                         => Range(list'[w]) \cap Scope # {}
                    /\ (RemoveOn(c) /\ w \in There /\ list'[w] # list[w])
                         => Range(list'[w]) \cap Scope # {}
  BY DEF KeepsInSight
<1>1. c \in Clients /\ InSight(c)
  BY DEF Clients, Sight, InSight
<1>2. ASSUME StoreNew(c), OneEachTitle, list[w] = None, list'[w] # None
      PROVE  Range(list'[w]) \cap Scope # {}
  <2>1. LandsInSight(c) /\ req[c].titles = << >>
    BY <1>1, <1>2 DEF StoreNew, Named_, InSight
  <2>2. req[c].got \in Seq(Entries) /\ req[c].got # << >> /\ Range(req[c].got) \subseteq Scope
    BY <1>1, <1>2, <2>1, WaitsAt DEF LandsInSight, RequestSet
  <2>3. PICK v \in spare \cap Watches, tags \in SetToSeqs(Range(req[c].got)) : Keep(v, tags)
    BY <1>2 DEF StoreNew, store
  <2>4. list'[w] = tags
    BY <1>2, <2>3 DEF Keep, Types
  <2>5. Range(tags) # {} /\ Range(tags) \subseteq Scope
    BY <2>2, OnceEach
  <2> QED
    BY <2>4, <2>5
<1>3. ASSUME RemoveOn(c), w \in There, list'[w] # list[w]
      PROVE  Range(list'[w]) \cap Scope # {}
  <2>1. StaysInSight(c)
    BY <1>1, <1>3 DEF RemoveOn, InSight
  <2>2. PICK v \in req[c].todo :
          (v \in There /\ Keep(v, AllBut(list[v], {req[c].group}))) \/ UNCHANGED list
    BY <1>3 DEF RemoveOn
  <2>3. v = w /\ w \in req[c].todo /\ list'[w] = AllBut(list[w], {req[c].group})
    BY <1>3, <2>2 DEF Keep, Types
  <2>4. Range(list'[w]) = Range(list[w]) \ {req[c].group}
    BY <1>3, <2>3, ThereAre, AllButIs
  <2> QED
    BY <1>3, <2>1, <2>3, <2>4 DEF StaysInSight
<1> QED
  BY <1>2, <1>3

\* A monitor that a limited assistant makes lands in its groups, and one that it takes from a
\* group stays in another of them, as long as nobody comes between the steps of its request.
THEOREM ScopeIsKept == Spec => StaysInScope
<1>1. Init => Sight
  BY DEF Init, Sight
<1>2. Types /\ Sight /\ [Next]_vars => [KeepsInSight]_vars
  BY SightKeeps
<1> QED
  BY <1>1, <1>2, SightStep, TypesAreKept, PTL DEF Spec, StaysInScope

-----------------------------------------------------------------------------
\* The ticker, the requests and the queue.

-----------------------------------------------------------------------------
\* Numbers.

LEMMA MinOf ==
  ASSUME NEW a \in Nat, NEW b \in Nat
  PROVE  Min({a, b}) \in Nat /\ Min({a, b}) <= b
<1>1. \E x \in {a, b} : \A y \in {a, b} : x <= y
  OBVIOUS
<1> QED
  BY <1>1 DEF Min

\* The next number has the next remainder, or none.
LEMMA Remainder ==
  ASSUME NEW i \in Nat, NEW n \in Nat \ {0}
  PROVE  i % n \in 0..(n - 1) /\ i = n * (i \div n) + (i % n) /\ i \div n \in Int
OBVIOUS

LEMMA NextRemainder ==
  ASSUME NEW i \in Nat, NEW n \in Nat \ {0}
  PROVE  (i + 1) % n = (i % n) + 1 \/ (i + 1) % n = 0
<1> DEFINE q == i \div n
           r == i % n
           p == (i + 1) \div n
           s == (i + 1) % n
           d == p - q
<1>1. i = n * q + r /\ q \in Int /\ r \in 0..(n - 1)
  BY Remainder
<1>2. i + 1 = n * p + s /\ p \in Int /\ s \in 0..(n - 1)
  BY Remainder
<1> HIDE DEF q, r, p, s
<1>3. d \in Int /\ n * d = (r + 1) - s
  <2>1. n * p - n * q = (r + 1) - s /\ n * p \in Int /\ n * q \in Int
    BY <1>1, <1>2
  <2>2. n * (p - q) = n * p - n * q
    BY <1>1, <1>2
  <2> QED
    BY <1>1, <1>2, <2>1, <2>2
<1> HIDE DEF d
<1>4. CASE d = 0
  <2>1. n * d = 0
    BY <1>4
  <2>2. s = r + 1
    BY <1>1, <1>2, <1>3, <2>1
  <2> QED
    BY <2>2 DEF r, s
<1>5. CASE d <= -1
  <2>1. n * d <= -n
    BY <1>3, <1>5
  <2> QED
    BY <1>1, <1>2, <1>3, <2>1
<1>6. CASE d >= 1
  <2>1. n * d >= n
    BY <1>3, <1>6
  <2>2. s = 0
    BY <1>1, <1>2, <1>3, <2>1
  <2> QED
    BY <2>2 DEF s
<1> QED
  BY <1>3, <1>4, <1>5, <1>6

-----------------------------------------------------------------------------
\* The size of the queue.

QueueType == queue \in [Uuids -> 0..MaxCount]

LEMMA SizeOf ==
  ASSUME NEW q \in [Uuids -> 0..MaxCount]
  PROVE  LET items == {item \in Uuids \X (1..MaxCount) : item[2] <= q[item[1]]}
         IN /\ IsFiniteSet(items) /\ Cardinality(items) \in Nat
            /\ Cardinality(items) <= MostItems
<1> DEFINE All == Uuids \X (1..MaxCount)
           items == {item \in All : item[2] <= q[item[1]]}
<1>1. IsFiniteSet(1..MaxCount) /\ Cardinality(1..MaxCount) = MaxCount
  BY FS_Interval, LimitsAssumption
<1>2. IsFiniteSet(All) /\ Cardinality(All) = Cardinality(Uuids) * MaxCount
  BY <1>1, FS_Product, UuidsAssumption
<1>3. items \in SUBSET All
  OBVIOUS
<1> HIDE DEF All, items
<1>4. IsFiniteSet(items) /\ Cardinality(items) <= Cardinality(All)
  BY <1>2, <1>3, FS_Subset
<1>5. Cardinality(items) \in Nat /\ Cardinality(Uuids) \in Nat
  BY <1>4, FS_CardinalityType, UuidsAssumption
<1>6. Cardinality(items) <= MostItems
  BY <1>2, <1>4, <1>5, LimitsAssumption DEF MostItems
<1> QED
  BY <1>4, <1>5, <1>6 DEF items, All

LEMMA SizeIs ==
  ASSUME QueueType
  PROVE  IsFiniteSet(Items) /\ QueueSize \in Nat
BY SizeOf DEF QueueType, QueueSize, Items

LEMMA NewSizeIs ==
  ASSUME QueueType'
  PROVE  QueueSize' \in Nat /\ QueueSize' <= MostItems
BY SizeOf DEF QueueType, QueueSize, Items

LEMMA MostIs == MostItems \in Nat
BY FS_CardinalityType, UuidsAssumption, LimitsAssumption DEF MostItems

\* Queueing a watch makes the queue longer by one.
LEMMA PutIs ==
  ASSUME QueueType, NEW u \in Uuids, Put(u)
  PROVE  QueueType' /\ QueueSize' = QueueSize + 1
<1> DEFINE n == queue[u] + 1
<1>1. n \in 1..MaxCount /\ queue' = [queue EXCEPT ![u] = n] /\ QueueType'
  BY LimitsAssumption DEF Put, QueueType
<1>2. Items' = Items \cup {<<u, n>>}
  <2>1. ASSUME NEW v \in Uuids, NEW i \in 1..MaxCount
        PROVE  i <= queue'[v] <=> i <= queue[v] \/ (v = u /\ i = n)
    BY <1>1 DEF QueueType
  <2> QED
    BY <1>1, <2>1 DEF Items
<1>3. <<u, n>> \notin Items
  BY DEF Items, QueueType
<1>4. Cardinality(Items \cup {<<u, n>>}) = Cardinality(Items) + 1
  BY <1>3, SizeIs, FS_AddElement
<1> QED
  BY <1>1, <1>2, <1>4 DEF QueueSize

\* Taking a watch from it makes it no longer.
LEMMA TakenIs ==
  ASSUME QueueType, NEW u \in Queued, queue' = [queue EXCEPT ![u] = @ - 1]
  PROVE  QueueType' /\ QueueSize' <= QueueSize /\ Queued' \subseteq Queued
<1>1. QueueType' /\ \A v \in Uuids : queue'[v] <= queue[v]
  BY LimitsAssumption DEF Queued, QueueType
<1>2. Items' \subseteq Items
  BY <1>1, LimitsAssumption DEF Items, QueueType
<1>3. Cardinality(Items') <= Cardinality(Items)
  BY <1>2, SizeIs, FS_Subset
<1>4. Queued' \subseteq Queued
  BY <1>1, LimitsAssumption DEF Queued, QueueType
<1> QED
  BY <1>1, <1>3, <1>4 DEF QueueSize

-----------------------------------------------------------------------------
\* QueueTypes.

TickTypes == tick \in [pc : {"pass", "sampled", "list", "loop", "due", "backoff", "over"},
                       busy : SUBSET Uuids, todo : Seq(Uuids), index : Nat, backoff : Nat,
                       used : [Proxies -> Nat]]

SinceTypes == since \in [ticker : SUBSET Uuids, taken : SUBSET Uuids, foreign : Nat,
                         request : SUBSET Uuids]

\* A watch that is due is the head of the list.
QueueTypes == TypeOK /\ (At("due") => tick.todo # << >>)

LEMMA FreshIs ==
  ASSUME NEW b \in Nat
  PROVE  Fresh(b) \in [pc : {"pass"}, busy : SUBSET Uuids, todo : Seq(Uuids), index : Nat,
                       backoff : Nat, used : [Proxies -> Nat]]
BY ProxiesAssumption DEF Fresh

\* The list that orders all watches has each of them once.
LEMMA OrderIs ==
  ASSUME order \in SetToSeqs(Uuids)
  PROVE  order \in Seq(Uuids) /\ Once(order)
<1> DEFINE n == Cardinality(Uuids)
<1>1. n \in Nat
  BY FS_CardinalityType, UuidsAssumption
<1>2. order \in [1..n -> Uuids] /\ \A i, j \in 1..n : i # j => order[i] # order[j]
  BY DEF SetToSeqs
<1> HIDE DEF n
<1>3. order \in Seq(Uuids) /\ Len(order) = n
  BY <1>1, <1>2
<1> QED
  BY <1>2, <1>3 DEF Once

LEMMA QueueTypesInit == TickerInit => QueueTypes
<1> SUFFICES ASSUME TickerInit PROVE QueueTypes
  OBVIOUS
<1>1. order \in Seq(Uuids)
  BY OrderIs DEF TickerInit
<1>2. TickTypes
  BY FreshIs DEF TickerInit, TickTypes
<1>3. recheck \in [pc : {"idle", "sampled", "putting"}, todo : SUBSET Uuids, busy : SUBSET Uuids]
  BY DEF TickerInit, NoRequest
<1>4. SinceTypes
  BY DEF TickerInit, Quiet, SinceTypes
<1>5. /\ jitter \in [Uuids -> Jitters \cup {0}] /\ age \in [Uuids -> Nat]
      /\ queue \in [Uuids -> 0..MaxCount] /\ zone \in [Uuids -> {"open", "closed", "bad"}]
  BY LimitsAssumption DEF TickerInit
<1>6. /\ there \subseteq Uuids /\ paused \subseteq Uuids /\ running \subseteq Uuids
      /\ allPaused \in BOOLEAN /\ exit \in BOOLEAN /\ changes \in Nat
  BY DEF TickerInit
<1> QED
  BY <1>1, <1>2, <1>3, <1>4, <1>5, <1>6 DEF QueueTypes, TypeOK, SinceTypes, TickTypes, TickerInit,
                                            Fresh, At

LEMMA NextWatchIs ==
  ASSUME TickTypes, tick.todo # << >>
  PROVE  NextWatch \in [pc : {"loop"}, busy : SUBSET Uuids, todo : Seq(Uuids), index : Nat,
                        backoff : Nat, used : [Proxies -> Nat]]
<1>1. Tail(tick.todo) \in Seq(Uuids) /\ tick.index + 1 \in Nat
  BY DEF TickTypes
<1> QED
  BY <1>1 DEF TickTypes, NextWatch

\* A step of the ticker that keeps the type of what it keeps for itself.
LEMMA TickStep ==
  ASSUME QueueTypes, TickTypes', SinceTypes', tick'.pc # "due" \/ tick'.todo # << >>,
         jitter' \in [Uuids -> Jitters \cup {0}], QueueType',
         UNCHANGED <<settings, age, order, running, recheck, exit, changes>>
  PROVE  QueueTypes'
BY DEF QueueTypes, TypeOK, TickTypes, SinceTypes, QueueType, settings, At

LEMMA TickerTypes == QueueTypes /\ Ticker => QueueTypes'
<1> SUFFICES ASSUME QueueTypes, Ticker PROVE QueueTypes'
  OBVIOUS
<1>0. TickTypes /\ SinceTypes /\ QueueType /\ jitter \in [Uuids -> Jitters \cup {0}]
  BY DEF QueueTypes, TypeOK, TickTypes, SinceTypes, QueueType
<1>1. CASE SampleRunning
  <2>1. TickTypes' /\ tick'.pc = "sampled"
    BY <1>0, <1>1 DEF SampleRunning, TickTypes, QueueTypes, TypeOK
  <2> QED
    BY <1>0, <1>1, <2>1, TickStep DEF SampleRunning, SinceTypes, QueueType
<1>2. CASE SampleQueued
  <2>1. TickTypes' /\ tick'.pc = "list"
    BY <1>0, <1>2 DEF SampleQueued, TickTypes, Queued
  <2> QED
    BY <1>0, <1>2, <2>1, TickStep DEF SampleQueued, SinceTypes, QueueType
<1>3. CASE ListWatches
  <2>1. Listing \in Seq(Uuids)
    BY AllButIs DEF Listing, QueueTypes, TypeOK
  <2>2. TickTypes' /\ tick'.pc = "loop"
    BY <1>0, <1>3, <2>1 DEF ListWatches, TickTypes
  <2> QED
    BY <1>0, <1>3, <2>2, TickStep DEF ListWatches, SinceTypes, QueueType
<1>4. CASE PassEnds
  <2>1. TickTypes' /\ tick'.pc = "pass"
    BY <1>0, <1>4, EmptySeq DEF PassEnds, TickTypes
  <2>2. SinceTypes'
    BY <1>0, <1>4 DEF PassEnds, SinceTypes, Quiet
  <2> QED
    BY <1>0, <1>4, <2>1, <2>2, TickStep DEF PassEnds, QueueType
<1>5. CASE Judge
  <2> DEFINE u == Head(tick.todo)
  <2>1. tick.todo # << >> /\ u \in Uuids
    BY <1>0, <1>5 DEF Judge, TickTypes
  <2>2. TickTypes' /\ (tick'.pc # "due" \/ tick'.todo # << >>)
    <3>1. tick' = NextWatch \/ tick' = [tick EXCEPT !.pc = "due"]
      BY <1>5 DEF Judge, AfterBadSchedule
    <3>2. CASE tick' = NextWatch
      BY <1>0, <2>1, <3>2, NextWatchIs DEF TickTypes
    <3>3. CASE tick' = [tick EXCEPT !.pc = "due"]
      BY <1>0, <2>1, <3>3 DEF TickTypes
    <3> QED
      BY <3>1, <3>2, <3>3
  <2>3. jitter' \in [Uuids -> Jitters \cup {0}]
    <3>1. jitter' = jitter \/ \E j \in Jitters \cup {0} : jitter' = [jitter EXCEPT ![u] = j]
      BY <1>0, <1>5, <2>1 DEF Judge
    <3> QED
      BY <1>0, <3>1
  <2>4. SinceTypes'
    BY <1>0, <1>5 DEF Judge, SinceTypes
  <2> QED
    BY <1>0, <1>5, <2>2, <2>3, <2>4, TickStep DEF Judge, QueueType
<1>6. CASE ProxyNotYet
  <2>1. tick.todo # << >> /\ tick' = NextWatch
    BY <1>6 DEF ProxyNotYet, QueueTypes
  <2>2. TickTypes' /\ tick'.pc = "loop"
    BY <1>0, <2>1, NextWatchIs DEF TickTypes
  <2> QED
    BY <1>0, <1>6, <2>2, TickStep DEF ProxyNotYet, SinceTypes, QueueType
<1>7. CASE QueueWatch
  <2> DEFINE u == Head(tick.todo)
  <2>1. tick.todo # << >> /\ u \in Uuids
    BY <1>0, <1>7 DEF QueueWatch, QueueTypes, TickTypes
  <2>2. TickTypes' /\ tick'.pc = "loop"
    <3>1. NextWatch \in [pc : {"loop"}, busy : SUBSET Uuids, todo : Seq(Uuids), index : Nat,
                         backoff : Nat, used : [Proxies -> Nat]]
      BY <1>0, <2>1, NextWatchIs
    <3>2. PICK f \in [Proxies -> Nat] : tick' = [NextWatch EXCEPT !.used = f]
      <4> DEFINE p == ProxyOf[u]
                 f == IF Timed(p) THEN [NextWatch.used EXCEPT ![p] = 0] ELSE NextWatch.used
      <4>1. f \in [Proxies -> Nat]
        BY <3>1
      <4>2. tick' = [NextWatch EXCEPT !.used = f]
        BY <1>7 DEF QueueWatch
      <4> QED
        BY <4>1, <4>2
    <3> QED
      BY <3>1, <3>2 DEF TickTypes
  <2>3. SinceTypes'
    BY <1>0, <1>7, <2>1 DEF QueueWatch, SinceTypes
  <2>4. jitter' \in [Uuids -> Jitters \cup {0}]
    BY <1>0, <1>7 DEF QueueWatch
  <2>5. QueueType'
    BY <1>0, <1>7, <2>1, PutIs DEF QueueWatch
  <2> QED
    BY <1>7, <2>2, <2>3, <2>4, <2>5, TickStep DEF QueueWatch
<1>8. CASE LeavesLoop
  <2>1. TickTypes' /\ tick'.pc = "over"
    BY <1>0, <1>8 DEF LeavesLoop, TickTypes
  <2> QED
    BY <1>0, <1>8, <2>1, TickStep DEF LeavesLoop, SinceTypes, QueueType
<1>9. CASE Falls
  <2>1. TickTypes' /\ tick'.pc # "due"
    <3>1. PICK long \in BOOLEAN : tick' = AfterFall(long)
      BY <1>9 DEF Falls
    <3>2. CASE exit
      BY <1>0, <3>1, <3>2, EmptySeq DEF AfterFall, TickTypes
    <3>3. CASE ~exit
      <4> DEFINE b == IF long THEN 1 ELSE Min({tick.backoff * 2, MaxBackoff})
      <4>1. b \in Nat
        BY <1>0, MinOf, LimitsAssumption DEF TickTypes
      <4>2. tick' = [Fresh(b) EXCEPT !.pc = "backoff"]
        BY <3>1, <3>3 DEF AfterFall
      <4> HIDE DEF b
      <4> QED
        BY <4>1, <4>2, FreshIs DEF TickTypes
    <3> QED
      BY <3>2, <3>3
  <2>2. SinceTypes'
    BY <1>0, <1>9 DEF Falls, SinceTypes, Quiet
  <2> QED
    BY <1>0, <1>9, <2>1, <2>2, TickStep DEF Falls, QueueType
<1>10. CASE StartAgain
  <2>1. TickTypes' /\ tick'.pc # "due"
    <3>1. Fresh(tick.backoff) \in [pc : {"pass"}, busy : SUBSET Uuids, todo : Seq(Uuids),
                                   index : Nat, backoff : Nat, used : [Proxies -> Nat]]
      BY <1>0, FreshIs DEF TickTypes
    <3> QED
      BY <1>0, <1>10, <3>1 DEF StartAgain, TickTypes
  <2> QED
    BY <1>0, <1>10, <2>1, TickStep DEF StartAgain, SinceTypes, QueueType
<1> QED
  BY <1>1, <1>2, <1>3, <1>4, <1>5, <1>6, <1>7, <1>8, <1>9, <1>10 DEF Ticker

\* A step of the others, which touch the ticker's proxy times at most.
RecheckTypes == recheck \in [pc : {"idle", "sampled", "putting"}, todo : SUBSET Uuids,
                             busy : SUBSET Uuids]

LEMMA MissedIs ==
  ASSUME SinceTypes, NEW u \in Uuids
  PROVE  TickerMissed(u) \in [ticker : SUBSET Uuids, taken : SUBSET Uuids, foreign : Nat,
                              request : SUBSET Uuids]
<1>1. since.foreign + 1 \in Nat /\ since.ticker \cup {u} \in SUBSET Uuids
  BY DEF SinceTypes
<1> QED
  BY <1>1 DEF TickerMissed, SinceTypes

LEMMA RequestsTypes == QueueTypes /\ Requests => QueueTypes'
<1> SUFFICES ASSUME QueueTypes, Requests PROVE QueueTypes'
  OBVIOUS
<1>0. /\ SinceTypes /\ QueueType /\ RecheckTypes /\ changes \in Nat
      /\ there \subseteq Uuids /\ running \subseteq Uuids /\ Queued \subseteq Uuids
  BY DEF QueueTypes, TypeOK, SinceTypes, QueueType, RecheckTypes, Queued
<1>1. ASSUME RecheckTypes', SinceTypes', QueueType', changes' \in Nat,
             UNCHANGED <<settings, jitter, age, order, running, tick, exit>>
      PROVE  QueueTypes'
  BY <1>1 DEF QueueTypes, TypeOK, SinceTypes, QueueType, RecheckTypes, settings, At
<1>2. CASE RequestSamplesQueued
  <2>1. RecheckTypes' /\ changes' \in Nat
    BY <1>0, <1>2 DEF RequestSamplesQueued, RecheckTypes, Change
  <2> QED
    BY <1>0, <1>1, <1>2, <2>1 DEF RequestSamplesQueued, SinceTypes, QueueType
<1>3. ASSUME NEW todo \in SUBSET Uuids
      PROVE  Asking(todo) \in [pc : {"idle", "sampled", "putting"}, todo : SUBSET Uuids,
                               busy : SUBSET Uuids]
  BY DEF Asking, NoRequest
<1>4. CASE RequestSamplesRunning
  <2>1. RecheckTypes'
    BY <1>0, <1>3, <1>4 DEF RequestSamplesRunning, RecheckTypes
  <2>2. SinceTypes'
    BY <1>0, <1>4 DEF RequestSamplesRunning, SinceTypes
  <2> QED
    BY <1>0, <1>1, <1>4, <2>1, <2>2 DEF RequestSamplesRunning, QueueType
<1>5. CASE RequestPuts
  <2>1. PICK u \in recheck.todo :
               /\ Put(u) /\ recheck' = Asking(recheck.todo \ {u})
               /\ since' = [TickerMissed(u) EXCEPT
                              !.request = IF recheck' = NoRequest THEN {} ELSE @]
    BY <1>5 DEF RequestPuts
  <2>2. u \in Uuids /\ recheck.todo \ {u} \in SUBSET Uuids
    BY <1>0 DEF RecheckTypes
  <2>3. RecheckTypes'
    BY <1>3, <2>1, <2>2 DEF RecheckTypes
  <2>4. SinceTypes'
    BY <1>0, <2>1, <2>2, MissedIs DEF SinceTypes
  <2>5. QueueType'
    BY <1>0, <2>1, <2>2, PutIs
  <2> QED
    BY <1>0, <1>1, <1>5, <2>3, <2>4, <2>5 DEF RequestPuts
<1>6. CASE ForceQueue
  <2>1. PICK u \in there :
               /\ Put(u)
               /\ since' = [TickerMissed(u) EXCEPT
                              !.request = IF recheck.pc = "idle" THEN {} ELSE @ \cup {u}]
    BY <1>6 DEF ForceQueue
  <2>2. u \in Uuids
    BY <1>0
  <2>3. SinceTypes'
    BY <1>0, <2>1, <2>2, MissedIs DEF SinceTypes
  <2>4. QueueType'
    BY <1>0, <2>1, <2>2, PutIs
  <2> QED
    BY <1>0, <1>1, <1>6, <2>3, <2>4 DEF ForceQueue, RecheckTypes, Change
<1> QED
  BY <1>2, <1>4, <1>5, <1>6 DEF Requests

LEMMA OthersTypes == QueueTypes /\ (Take \/ Finish \/ Tick \/ Settings) => QueueTypes'
<1> SUFFICES ASSUME QueueTypes, Take \/ Finish \/ Tick \/ Settings PROVE QueueTypes'
  OBVIOUS
<1>0. /\ TickTypes /\ SinceTypes /\ QueueType
      /\ age \in [Uuids -> Nat] /\ order \in Seq(Uuids) /\ running \subseteq Uuids
  BY DEF QueueTypes, TypeOK, TickTypes, SinceTypes, QueueType
<1>1. CASE Take
  <2>1. PICK u \in Queued \ running :
          /\ queue' = [queue EXCEPT ![u] = @ - 1]
          /\ running' = running \cup ({u} \cap there)
          /\ IF u \in there
             THEN age' = [age EXCEPT ![u] = 0] /\ order' = Append(AllBut(order, {u}), u)
             ELSE UNCHANGED <<age, order>>
          /\ since' = IF At("sampled") THEN [since EXCEPT !.taken = @ \cup {u}] ELSE since
    BY <1>1 DEF Take
  <2>2. u \in Uuids
    BY DEF Queued
  <2>3. QueueType'
    BY <1>0, <2>1, TakenIs
  <2>4. AllBut(order, {u}) \in Seq(Uuids)
    BY <1>0, AllButIs
  <2>5. age' \in [Uuids -> Nat]
    BY <1>0, <2>1
  <2>6. order' \in Seq(Uuids)
    <3>1. Append(AllBut(order, {u}), u) \in Seq(Uuids)
      BY <2>2, <2>4
    <3> QED
      BY <1>0, <2>1, <3>1
  <2>7. SinceTypes' /\ running' \subseteq Uuids
    BY <1>0, <2>1, <2>2 DEF SinceTypes
  <2> QED
    BY <1>1, <2>3, <2>5, <2>6, <2>7 DEF Take, QueueTypes, TypeOK, SinceTypes, QueueType, settings, At
<1>2. CASE Finish
  <2>1. running' \subseteq Uuids
    BY <1>0, <1>2 DEF Finish
  <2> QED
    BY <1>2, <2>1 DEF Finish, QueueTypes, TypeOK, settings, At
<1>3. CASE Tick
  <2>1. age' \in [Uuids -> Nat]
    <3>1. \A u \in Uuids : Min({age[u] + 1, MaxAge}) \in Nat
      BY <1>0, MinOf, LimitsAssumption
    <3> QED
      BY <1>3, <3>1 DEF Tick
  <2>2. TickTypes' /\ tick'.pc = tick.pc /\ tick'.todo = tick.todo
    <3> DEFINE f == [p \in Proxies |-> Min({tick.used[p] + 1, Reuse[p]})]
    <3>1. f \in [Proxies -> Nat]
      <4>1. \A p \in Proxies : tick.used[p] + 1 \in Nat /\ Reuse[p] \in Nat
        BY <1>0, ProxiesAssumption DEF TickTypes
      <4> QED
        BY <4>1, MinOf
    <3>2. tick' = [tick EXCEPT !.used = f]
      BY <1>3 DEF Tick
    <3> HIDE DEF f
    <3> QED
      BY <1>0, <3>1, <3>2 DEF TickTypes, At
  <2> QED
    BY <1>3, <2>1, <2>2 DEF Tick, QueueTypes, TypeOK, TickTypes, settings, At
<1>4. CASE Settings
  <2>1. /\ UNCHANGED <<jitter, age, order, queue, running, tick, recheck, since>>
        /\ changes' = changes + 1
    BY <1>4 DEF Settings, Pause, OpenOrClose, PauseAll, Delete, Exit, Change, settings
  <2>2. /\ there' \subseteq Uuids /\ paused' \subseteq Uuids
        /\ zone' \in [Uuids -> {"open", "closed", "bad"}]
        /\ allPaused' \in BOOLEAN /\ exit' \in BOOLEAN
    BY <1>4, ZenonT(30) DEF Settings, Pause, OpenOrClose, PauseAll, Delete, Exit, settings, QueueTypes, TypeOK
  <2> QED
    BY <2>1, <2>2 DEF QueueTypes, TypeOK, At
<1> QED
  BY <1>1, <1>2, <1>3, <1>4

LEMMA QueueTypesStep == QueueTypes /\ [TickerNext]_tickerVars => QueueTypes'
<1> SUFFICES ASSUME QueueTypes, [TickerNext]_tickerVars PROVE QueueTypes'
  OBVIOUS
<1>1. CASE UNCHANGED tickerVars
  BY <1>1 DEF tickerVars, settings, QueueTypes, TypeOK, At
<1> QED
  BY <1>1, TickerTypes, RequestsTypes, OthersTypes DEF TickerNext

\* Every variable of the ticker, of the requests and of the queue keeps its type.
THEOREM TypeCorrect == TickerSpec => []TypeOK
<1>1. QueueTypes => TypeOK
  BY DEF QueueTypes
<1> QED
  BY <1>1, QueueTypesInit, QueueTypesStep, PTL DEF TickerSpec

-----------------------------------------------------------------------------
\* What ticker and requests know.

LEMMA OnceTail ==
  ASSUME NEW A, NEW s \in Seq(A), s # << >>, Once(s)
  PROVE  /\ Once(Tail(s)) /\ Head(s) \notin Range(Tail(s))
         /\ Head(s) \in Range(s) /\ Range(Tail(s)) \subseteq Range(s)
<1> DEFINE t == Tail(s)
<1>1. /\ t \in Seq(A) /\ Len(s) \in Nat \ {0} /\ Len(t) = Len(s) - 1
      /\ \A i \in 1..Len(t) : t[i] = s[i + 1] /\ i + 1 \in 1..Len(s) /\ i + 1 # 1
      /\ Head(s) = s[1] /\ 1 \in 1..Len(s)
      /\ DOMAIN s = 1..Len(s) /\ DOMAIN t = 1..Len(t)
  OBVIOUS
<1> HIDE DEF t
<1>2. Once(t)
  BY <1>1 DEF Once
<1>3. \A i \in 1..Len(t) : t[i] # Head(s) /\ t[i] \in Range(s)
  BY <1>1 DEF Once, Range
<1>4. Head(s) \in Range(s)
  BY <1>1 DEF Range
<1>5. Head(s) \notin Range(t) /\ Range(t) \subseteq Range(s)
  BY <1>1, <1>3 DEF Range
<1> QED
  BY <1>2, <1>4, <1>5 DEF t

Distinct == Once(order) /\ Once(tick.todo)

\* What is queued or running is known to the ticker, unless its turn is over or the samples
\* could not show it.
Known(u) == \/ u \in tick.busy \cup since.ticker \cup since.taken
            \/ tick.pc # "list" /\ u \notin Range(tick.todo)

Seen ==
  /\ At("sampled") => running \subseteq tick.busy \cup since.taken
  /\ Looping => \A u \in Queued \cup running : Known(u)
  /\ At("due") => Head(tick.todo) \notin tick.busy

Asked ==
  /\ recheck.pc = "sampled" => Queued \subseteq recheck.busy \cup since.request
  /\ recheck.pc = "putting" => (Queued \cup running) \cap recheck.todo \subseteq since.request

\* The watches judged since the queue's size was looked at.
Ahead == tick.index % Stride

Bounded ==
  /\ At("loop") /\ Ahead # 0 => QueueSize < MaxQueue + Ahead + since.foreign
  /\ At("due") => QueueSize < MaxQueue + Ahead + since.foreign

Inv == QueueTypes /\ Distinct /\ Seen /\ Asked /\ Bounded

LEMMA InvInit == TickerInit => Inv
<1> SUFFICES ASSUME TickerInit PROVE Inv
  OBVIOUS
<1>1. tick.pc = "pass" /\ tick.todo = << >> /\ recheck.pc = "idle"
  BY DEF TickerInit, Fresh, NoRequest
<1>2. Distinct
  BY <1>1, OrderIs DEF TickerInit, Distinct, Once
<1>3. Seen /\ Asked /\ Bounded
  BY <1>1 DEF Seen, Asked, Bounded, At, Looping
<1> QED
  BY <1>2, <1>3, QueueTypesInit DEF Inv

\* What the next watch's turn changes.
LEMMA NextWatchHas ==
  ASSUME TickTypes
  PROVE  /\ NextWatch.pc = "loop" /\ NextWatch.todo = Tail(tick.todo)
         /\ NextWatch.index = tick.index + 1 /\ NextWatch.busy = tick.busy
         /\ \A f : LET t == [NextWatch EXCEPT !.used = f]
                   IN /\ t.pc = "loop" /\ t.todo = Tail(tick.todo)
                      /\ t.index = tick.index + 1 /\ t.busy = tick.busy
BY DEF NextWatch, TickTypes

LEMMA TurnIs ==
  ASSUME QueueTypes, Judge \/ ProxyNotYet \/ QueueWatch
  PROVE  /\ tick.todo # << >> /\ tick'.busy = tick.busy
         /\ \/ /\ tick'.pc = "loop" /\ tick'.todo = Tail(tick.todo)
               /\ tick'.index = tick.index + 1
            \/ /\ Judge /\ tick'.pc = "due" /\ tick'.todo = tick.todo
               /\ tick'.index = tick.index /\ Head(tick.todo) \notin tick.busy
<1>0. TickTypes
  BY DEF QueueTypes, TypeOK, TickTypes
<1>1. tick.todo # << >>
  BY DEF Judge, ProxyNotYet, QueueWatch, QueueTypes
<1>2. CASE tick' = NextWatch
  BY <1>0, <1>1, <1>2, NextWatchHas
<1>3. CASE Judge /\ tick' # NextWatch
  <2>1. tick' = [tick EXCEPT !.pc = "due"] /\ Head(tick.todo) \notin tick.busy
    BY <1>3 DEF Judge, AfterBadSchedule
  <2> QED
    BY <1>0, <1>1, <1>3, <2>1 DEF TickTypes
<1>4. CASE QueueWatch
  <2>1. PICK f : tick' = [NextWatch EXCEPT !.used = f]
    <3> DEFINE f == IF Timed(ProxyOf[Head(tick.todo)])
                    THEN [NextWatch.used EXCEPT ![ProxyOf[Head(tick.todo)]] = 0]
                    ELSE NextWatch.used
    <3>1. tick' = [NextWatch EXCEPT !.used = f]
      BY <1>4 DEF QueueWatch
    <3> QED
      BY <3>1
  <2> QED
    BY <1>0, <1>1, <2>1, NextWatchHas
<1>5. CASE ProxyNotYet
  BY <1>2, <1>5 DEF ProxyNotYet
<1> QED
  BY <1>2, <1>3, <1>4, <1>5

LEMMA StopsIs ==
  ASSUME QueueTypes, Falls \/ StartAgain
  PROVE  /\ tick'.pc \in {"pass", "backoff", "over"}
         /\ tick'.todo = << >> \/ tick'.todo = tick.todo
<1>0. TickTypes
  BY DEF QueueTypes, TypeOK, TickTypes
<1>1. \/ tick' = [tick EXCEPT !.pc = "over"]
      \/ tick' = [tick EXCEPT !.pc = "over", !.todo = << >>, !.busy = {}]
      \/ \E b : tick' = Fresh(b) \/ tick' = [Fresh(b) EXCEPT !.pc = "backoff"]
  BY DEF Falls, StartAgain, AfterFall
<1>2. CASE \E b : tick' = Fresh(b) \/ tick' = [Fresh(b) EXCEPT !.pc = "backoff"]
  BY <1>2 DEF Fresh
<1> QED
  BY <1>0, <1>1, <1>2 DEF TickTypes

LEMMA DistinctStep == QueueTypes /\ Distinct /\ [TickerNext]_tickerVars => Distinct'
<1> SUFFICES ASSUME QueueTypes, Distinct, [TickerNext]_tickerVars PROVE Distinct'
  OBVIOUS
<1>0. order \in Seq(Uuids) /\ TickTypes
  BY DEF QueueTypes, TypeOK, TickTypes
<1>1. Once(order')
  <2>1. CASE Take
    <3>1. PICK u \in Queued : order' = order \/ order' = Append(AllBut(order, {u}), u)
      BY <2>1 DEF Take
    <3>2. /\ AllBut(order, {u}) \in Seq(Uuids) /\ u \notin Range(AllBut(order, {u}))
          /\ Once(AllBut(order, {u})) /\ u \in Uuids
      BY <1>0, AllButIs DEF Distinct, Queued
    <3>3. Once(Append(AllBut(order, {u}), u))
      BY <3>2, AppendOnce
    <3> QED
      BY <3>1, <3>3 DEF Distinct
  <2>2. ~Take => order' = order
    BY DEF TickerNext, Ticker, SampleRunning, SampleQueued, ListWatches, PassEnds, Judge,
           ProxyNotYet, QueueWatch, LeavesLoop, Falls, StartAgain, Requests,
           RequestSamplesQueued, RequestSamplesRunning, RequestPuts, ForceQueue, Finish, Tick,
           Settings, Pause, OpenOrClose, PauseAll, Delete, Exit, tickerVars
  <2> QED
    BY <2>1, <2>2 DEF Distinct
<1>2. Once(tick'.todo)
  <2>1. CASE Ticker
    <3>1. tick'.todo = tick.todo \/ tick'.todo = << >> \/ tick'.todo = Listing
          \/ (tick.todo # << >> /\ tick'.todo = Tail(tick.todo))
      <4>1. SampleRunning \/ SampleQueued \/ LeavesLoop => tick'.todo = tick.todo
        BY <1>0 DEF SampleRunning, SampleQueued, LeavesLoop, TickTypes
      <4>2. ListWatches => tick'.todo = Listing
        BY <1>0 DEF ListWatches, TickTypes
      <4>3. PassEnds => tick'.todo = << >>
        BY <1>0 DEF PassEnds, TickTypes
      <4>4. Falls \/ StartAgain => tick'.todo = << >> \/ tick'.todo = tick.todo
        BY StopsIs
      <4>5. Judge \/ ProxyNotYet \/ QueueWatch
              => tick.todo # << >> /\ (tick'.todo = tick.todo \/ tick'.todo = Tail(tick.todo))
        BY TurnIs
      <4> QED
        BY <2>1, <4>1, <4>2, <4>3, <4>4, <4>5 DEF Ticker
    <3>2. Once(Listing)
      BY <1>0, AllButIs DEF Listing, Distinct
    <3>3. Once(<< >>)
      BY DEF Once
    <3>4. tick.todo # << >> => Once(Tail(tick.todo))
      BY <1>0, OnceTail DEF Distinct, TickTypes
    <3> QED
      BY <3>1, <3>2, <3>3, <3>4 DEF Distinct
  <2>2. ~Ticker => tick'.todo = tick.todo
    BY <1>0 DEF TickerNext, Requests, Take,
           RequestSamplesQueued, RequestSamplesRunning, RequestPuts, ForceQueue, Finish, Tick,
           Settings, Pause, OpenOrClose, PauseAll, Delete, Exit, tickerVars, TickTypes
  <2> QED
    BY <2>1, <2>2 DEF Distinct
<1> QED
  BY <1>1, <1>2 DEF Distinct

-----------------------------------------------------------------------------
\* A step of others that queues or takes u at most.
LEMMA SeenStays ==
  ASSUME Seen, NEW u, Looping => Known(u)', At("sampled") => u \in since'.taken,
         (Queued \cup running)' \subseteq Queued \cup running \cup {u},
         running' \subseteq running \cup {u},
         since.ticker \subseteq since'.ticker, since.taken \subseteq since'.taken,
         tick'.pc = tick.pc, tick'.todo = tick.todo, tick'.busy = tick.busy
  PROVE  Seen'
<1>1. At("sampled") => running' \subseteq tick'.busy \cup since'.taken
  BY DEF Seen
<1>2. ASSUME Looping, NEW v \in (Queued \cup running)'
      PROVE  Known(v)'
  BY <1>2 DEF Seen, Known
<1>3. At("due") => Head(tick'.todo) \notin tick'.busy
  BY DEF Seen
<1>4. Looping' = Looping /\ \A pc : At(pc)' = At(pc)
  BY DEF Looping, At
<1> QED
  BY <1>1, <1>2, <1>3, <1>4 DEF Seen, At

\* A step that queues and takes nothing, or ends what is being checked.
LEMMA SeenKept ==
  ASSUME Seen, Queued' \subseteq Queued, running' \subseteq running,
         since.ticker \subseteq since'.ticker, since.taken \subseteq since'.taken,
         tick'.pc = tick.pc, tick'.todo = tick.todo, tick'.busy = tick.busy
  PROVE  Seen'
<1>1. At("sampled") => running' \subseteq tick'.busy \cup since'.taken
  BY DEF Seen
<1>2. ASSUME Looping, NEW v \in (Queued \cup running)'
      PROVE  Known(v)'
  BY <1>2 DEF Seen, Known
<1>3. At("due") => Head(tick'.todo) \notin tick'.busy
  BY DEF Seen
<1>4. Looping' = Looping /\ \A pc : At(pc)' = At(pc)
  BY DEF Looping, At
<1> QED
  BY <1>1, <1>2, <1>3, <1>4 DEF Seen, At

LEMMA PutQueues ==
  ASSUME QueueType, NEW u \in Uuids, Put(u)
  PROVE  /\ Queued' = Queued \cup {u}
         /\ \A v \in Uuids : queue'[v] > queue[v] => v = u
BY LimitsAssumption DEF Put, Queued, QueueType

LEMMA SeenByTicker == Inv /\ Ticker => Seen'
<1> SUFFICES ASSUME Inv, Ticker PROVE Seen'
  OBVIOUS
<1>0. TickTypes /\ SinceTypes /\ QueueType /\ QueueTypes /\ Seen /\ running \subseteq Uuids
  BY DEF Inv, QueueTypes, TypeOK, TickTypes, SinceTypes, QueueType
<1>1. CASE SampleRunning
  <2>1. tick'.pc = "sampled" /\ tick'.busy = running /\ running' = running
    BY <1>0, <1>1 DEF SampleRunning, TickTypes
  <2> QED
    BY <2>1 DEF Seen, At, Looping
<1>2. CASE SampleQueued
  <2>1. /\ tick'.pc = "list" /\ tick'.busy = tick.busy \cup Queued /\ running' = running
        /\ Queued' = Queued /\ since' = since
    BY <1>0, <1>2 DEF SampleQueued, TickTypes, Queued
  <2>2. running \subseteq tick.busy \cup since.taken
    BY <1>0, <1>2 DEF SampleQueued, Seen
  <2>3. \A u \in (Queued \cup running)' : Known(u)'
    BY <2>1, <2>2 DEF Known
  <2> QED
    BY <2>1, <2>3 DEF Seen, At
<1>3. CASE ListWatches
  <2>1. /\ tick'.pc = "loop" /\ tick'.busy = tick.busy /\ running' = running
        /\ Queued' = Queued /\ since' = since
    BY <1>0, <1>3 DEF ListWatches, TickTypes, Queued
  <2>2. \A u \in Queued \cup running : u \in tick.busy \cup since.ticker \cup since.taken
    BY <1>0, <1>3 DEF ListWatches, Seen, Looping, At, Known
  <2>3. \A u \in (Queued \cup running)' : Known(u)'
    BY <2>1, <2>2 DEF Known
  <2> QED
    BY <2>1, <2>3 DEF Seen, At
<1>4. CASE PassEnds
  <2>1. tick'.pc = "pass"
    BY <1>0, <1>4 DEF PassEnds, TickTypes
  <2> QED
    BY <2>1 DEF Seen, At, Looping
<1>5. CASE Judge \/ ProxyNotYet \/ QueueWatch
  <2> DEFINE u == Head(tick.todo)
  <2>1. /\ tick.todo # << >> /\ tick'.busy = tick.busy
        /\ \/ /\ tick'.pc = "loop" /\ tick'.todo = Tail(tick.todo)
           \/ /\ Judge /\ tick'.pc = "due" /\ tick'.todo = tick.todo
              /\ u \notin tick.busy
    BY <1>0, <1>5, TurnIs
  <2>2. /\ Once(Tail(tick.todo)) /\ u \notin Range(Tail(tick.todo))
        /\ Range(Tail(tick.todo)) \subseteq Range(tick.todo)
    BY <1>0, <2>1, OnceTail DEF TickTypes, Inv, Distinct
  <2>3. At("loop") \/ At("due")
    BY <1>5 DEF Judge, ProxyNotYet, QueueWatch
  <2>4. running' = running /\ since'.ticker = since.ticker /\ since'.taken = since.taken
    BY <1>0, <1>5 DEF Judge, ProxyNotYet, QueueWatch, SinceTypes
  <2>5. Queued' \subseteq Queued \/ (Queued' = Queued \cup {u} /\ tick'.pc = "loop")
    <3>1. CASE QueueWatch
      <4>1. u \in Uuids /\ Put(u)
        BY <1>0, <2>1, <3>1 DEF QueueWatch, TickTypes
      <4>2. ~Judge
        BY <3>1 DEF QueueWatch, Judge, At
      <4> QED
        BY <1>0, <2>1, <4>1, <4>2, PutQueues
    <3>2. CASE Judge \/ ProxyNotYet
      BY <3>2 DEF Judge, ProxyNotYet, Queued
    <3> QED
      BY <1>5, <3>1, <3>2
  <2> HIDE DEF u
  <2>6. \A v \in (Queued \cup running)' :
          v \in Queued \cup running \/ (v = u /\ tick'.todo = Tail(tick.todo))
    BY <2>1, <2>4, <2>5
  <2>7. \A v \in Queued \cup running :
          v \in tick.busy \cup since.ticker \cup since.taken \/ v \notin Range(tick.todo)
    BY <1>0, <2>3 DEF Seen, Looping, At, Known
  <2>8. \A v : v \notin Range(tick.todo) \/ (v = u /\ tick'.todo = Tail(tick.todo))
                => v \notin Range(tick'.todo)
    BY <2>1, <2>2
  <2>9. \A v \in (Queued \cup running)' : Known(v)'
    BY <2>1, <2>4, <2>6, <2>7, <2>8 DEF Known
  <2> QED
    BY <2>1, <2>9 DEF Seen, At, u
<1>6. CASE Falls \/ StartAgain
  BY <1>0, <1>6, StopsIs DEF Seen, At, Looping
<1>7. CASE LeavesLoop
  <2>1. tick'.pc = "over"
    BY <1>0, <1>7 DEF LeavesLoop, TickTypes
  <2> QED
    BY <2>1 DEF Seen, At, Looping
<1> QED
  BY <1>1, <1>2, <1>3, <1>4, <1>5, <1>6, <1>7 DEF Ticker

\* What a put of others notes.
LEMMA MissedHas ==
  ASSUME SinceTypes, NEW u
  PROVE  /\ since.ticker \subseteq TickerMissed(u).ticker
         /\ Looping => u \in TickerMissed(u).ticker
         /\ TickerMissed(u).taken = since.taken /\ TickerMissed(u).request = since.request
         /\ TickerMissed(u).foreign =
              IF Looping /\ since.foreign < MostItems THEN since.foreign + 1 ELSE since.foreign
         /\ \A R : LET s == [TickerMissed(u) EXCEPT !.request = R]
                   IN /\ s.ticker = TickerMissed(u).ticker /\ s.taken = since.taken
                      /\ s.foreign = TickerMissed(u).foreign /\ s.request = R
BY DEF TickerMissed, SinceTypes

\* A request queues u.
LEMMA OthersPut ==
  ASSUME QueueTypes, RequestPuts \/ ForceQueue
  PROVE  \E u \in Uuids :
           /\ Put(u) /\ running' = running /\ tick' = tick
           /\ since'.ticker = TickerMissed(u).ticker /\ since'.taken = since.taken
           /\ since'.foreign = TickerMissed(u).foreign
           /\ \/ /\ u \in recheck.todo /\ recheck' = Asking(recheck.todo \ {u})
                 /\ recheck.pc = "putting"
                 /\ recheck' # NoRequest => since'.request = since.request
              \/ /\ recheck' = recheck
                 /\ recheck.pc # "idle" => since'.request = since.request \cup {u}
<1>0. SinceTypes /\ recheck.todo \subseteq Uuids /\ there \subseteq Uuids
  BY DEF QueueTypes, TypeOK, SinceTypes
<1>1. CASE RequestPuts
  <2>1. PICK u \in recheck.todo :
               /\ Put(u) /\ recheck' = Asking(recheck.todo \ {u})
               /\ since' = [TickerMissed(u) EXCEPT
                              !.request = IF recheck' = NoRequest THEN {} ELSE @]
    BY <1>1 DEF RequestPuts
  <2> DEFINE R == IF recheck' = NoRequest THEN {} ELSE TickerMissed(u).request
  <2>2. since' = [TickerMissed(u) EXCEPT !.request = R]
    BY <2>1
  <2>3. /\ since'.ticker = TickerMissed(u).ticker /\ since'.taken = since.taken
        /\ since'.foreign = TickerMissed(u).foreign /\ since'.request = R
        /\ TickerMissed(u).request = since.request
    BY <1>0, <2>2, MissedHas
  <2> QED
    BY <1>0, <1>1, <2>1, <2>3 DEF RequestPuts
<1>2. CASE ForceQueue
  <2>1. PICK u \in there :
               /\ Put(u)
               /\ since' = [TickerMissed(u) EXCEPT
                              !.request = IF recheck.pc = "idle" THEN {} ELSE @ \cup {u}]
    BY <1>2 DEF ForceQueue
  <2> DEFINE R == IF recheck.pc = "idle" THEN {} ELSE TickerMissed(u).request \cup {u}
  <2>2. since' = [TickerMissed(u) EXCEPT !.request = R]
    BY <2>1
  <2>3. /\ since'.ticker = TickerMissed(u).ticker /\ since'.taken = since.taken
        /\ since'.foreign = TickerMissed(u).foreign /\ since'.request = R
        /\ TickerMissed(u).request = since.request
    BY <1>0, <2>2, MissedHas
  <2> QED
    BY <1>0, <1>2, <2>1, <2>3 DEF ForceQueue
<1> QED
  BY <1>1, <1>2

LEMMA SeenByOthers == Inv /\ (Requests \/ Take \/ Finish \/ Tick \/ Settings) => Seen'
<1> SUFFICES ASSUME Inv, Requests \/ Take \/ Finish \/ Tick \/ Settings PROVE Seen'
  OBVIOUS
<1>0. TickTypes /\ SinceTypes /\ QueueType /\ QueueTypes /\ Seen /\ running \subseteq Uuids
  BY DEF Inv, QueueTypes, TypeOK, TickTypes, SinceTypes, QueueType
<1>1. CASE RequestPuts \/ ForceQueue
  <2>1. PICK u \in Uuids :
           /\ Put(u) /\ running' = running /\ tick' = tick
           /\ since'.ticker = TickerMissed(u).ticker /\ since'.taken = since.taken
    BY <1>0, <1>1, OthersPut
  <2>2. Queued' = Queued \cup {u}
    BY <1>0, <2>1, PutQueues
  <2>3. since.ticker \subseteq since'.ticker /\ (Looping => u \in since'.ticker)
    BY <1>0, <2>1, MissedHas
  <2>4. At("sampled") => running' \subseteq tick'.busy \cup since'.taken
    BY <1>0, <2>1 DEF Seen
  <2>5. ASSUME Looping, NEW v \in (Queued \cup running)' PROVE Known(v)'
    BY <1>0, <2>1, <2>2, <2>3, <2>5 DEF Seen, Known
  <2>6. At("due") => Head(tick'.todo) \notin tick'.busy
    BY <1>0, <2>1 DEF Seen
  <2> QED
    BY <2>1, <2>4, <2>5, <2>6 DEF Seen, At, Looping
<1>2. CASE RequestSamplesQueued \/ RequestSamplesRunning
  <2>1. /\ queue' = queue /\ running' = running /\ tick' = tick
        /\ since'.ticker = since.ticker /\ since'.taken = since.taken
    BY <1>0, <1>2 DEF RequestSamplesQueued, RequestSamplesRunning, SinceTypes
  <2> QED
    BY <1>0, <2>1, SeenKept DEF Queued
<1>3. CASE Take
  <2>1. PICK u \in Queued \ running :
          /\ queue' = [queue EXCEPT ![u] = @ - 1]
          /\ running' = running \cup ({u} \cap there)
          /\ since' = IF At("sampled") THEN [since EXCEPT !.taken = @ \cup {u}] ELSE since
          /\ tick' = tick
    BY <1>3 DEF Take
  <2>2. Queued' \subseteq Queued
    BY <1>0, <2>1, TakenIs
  <2>3. /\ since'.ticker = since.ticker /\ since.taken \subseteq since'.taken
        /\ At("sampled") => u \in since'.taken
    BY <1>0, <2>1 DEF SinceTypes
  <2>4. Looping => Known(u)'
    BY <1>0, <2>1, <2>3 DEF Seen, Known
  <2> QED
    BY <1>0, <2>1, <2>2, <2>3, <2>4, SeenStays
<1>4. CASE Finish
  <2>1. Queued' = Queued /\ running' \subseteq running /\ tick' = tick /\ since' = since
    BY <1>4 DEF Finish, Queued
  <2> QED
    BY <1>0, <2>1, SeenKept
<1>5. CASE Tick
  <2>1. /\ tick'.pc = tick.pc /\ tick'.todo = tick.todo /\ tick'.busy = tick.busy
        /\ Queued' = Queued /\ running' = running /\ since' = since
    BY <1>0, <1>5 DEF Tick, TickTypes, Queued
  <2> QED
    BY <1>0, <2>1, SeenKept
<1>6. CASE Settings
  <2>1. Queued' = Queued /\ running' = running /\ tick' = tick /\ since' = since
    BY <1>6 DEF Settings, Pause, OpenOrClose, PauseAll, Delete, Exit, Queued
  <2> QED
    BY <1>0, <2>1, SeenKept
<1> QED
  BY <1>1, <1>2, <1>3, <1>4, <1>5, <1>6 DEF Requests

-----------------------------------------------------------------------------
\* What the requests know.

LEMMA AskedStep == Inv /\ [TickerNext]_tickerVars => Asked'
<1> SUFFICES ASSUME Inv, [TickerNext]_tickerVars PROVE Asked'
  OBVIOUS
<1>0. SinceTypes /\ RecheckTypes /\ QueueType /\ QueueTypes /\ Asked /\ TickTypes
  BY DEF Inv, QueueTypes, TypeOK, RecheckTypes, SinceTypes, QueueType, TickTypes
<1>1. ASSUME recheck' = recheck, since'.request = since.request, Queued' \subseteq Queued,
             running' \subseteq running \cup Queued
      PROVE  Asked'
  BY <1>0, <1>1 DEF Asked
<1>2. CASE QueueWatch
  <2> DEFINE u == Head(tick.todo)
  <2>1. u \in Uuids /\ Put(u) /\ recheck' = recheck /\ running' = running
    BY <1>0, <1>2 DEF QueueWatch, QueueTypes, TickTypes
  <2>2. recheck.pc # "idle" => since'.request = since.request \cup {u}
    BY <1>0, <1>2 DEF QueueWatch, SinceTypes
  <2> HIDE DEF u
  <2>3. Queued' = Queued \cup {u}
    BY <1>0, <2>1, PutQueues
  <2> QED
    BY <1>0, <2>1, <2>2, <2>3 DEF Asked
<1>3. CASE Ticker /\ ~QueueWatch
  <2>1. recheck' = recheck /\ Queued' = Queued /\ running' = running
    BY <1>3 DEF Ticker, SampleRunning, SampleQueued, ListWatches, PassEnds, Judge, ProxyNotYet,
                LeavesLoop, Falls, StartAgain, Queued
  <2>2. since'.request = since.request
    BY <1>0, <1>3 DEF Ticker, SampleRunning, SampleQueued, ListWatches, PassEnds, Judge,
                ProxyNotYet, LeavesLoop, Falls, StartAgain, Quiet, SinceTypes
  <2> QED
    BY <1>1, <2>1, <2>2
<1>4. CASE RequestSamplesQueued
  <2>1. recheck'.pc = "sampled" /\ recheck'.busy = Queued /\ Queued' = Queued
    BY <1>4 DEF RequestSamplesQueued, Queued
  <2> QED
    BY <2>1 DEF Asked
<1>5. CASE RequestSamplesRunning
  <2> DEFINE todo == recheck.todo \ (recheck.busy \cup running)
  <2>1. /\ recheck.pc = "sampled" /\ recheck' = Asking(todo)
        /\ Queued' = Queued /\ running' = running
        /\ recheck' # NoRequest => since'.request = since.request
    BY <1>0, <1>5 DEF RequestSamplesRunning, Unneeded, Queued, SinceTypes
  <2>2. (Queued \cup running) \cap todo \subseteq since.request
    BY <1>0, <2>1 DEF Asked
  <2> HIDE DEF todo
  <2>3. CASE todo = {}
    BY <2>1, <2>3 DEF Asking, NoRequest, Asked
  <2>4. CASE todo # {}
    <3>1. recheck'.pc = "putting" /\ recheck'.todo = todo
      BY <2>1, <2>4 DEF Asking
    <3>2. since'.request = since.request
      BY <2>1, <3>1 DEF NoRequest
    <3> QED
      BY <2>1, <2>2, <3>1, <3>2 DEF Asked
  <2> QED
    BY <2>3, <2>4
<1>6. CASE RequestPuts \/ ForceQueue
  <2>1. PICK u \in Uuids :
           /\ Put(u) /\ running' = running
           /\ \/ /\ u \in recheck.todo /\ recheck' = Asking(recheck.todo \ {u})
                 /\ recheck.pc = "putting"
                 /\ recheck' # NoRequest => since'.request = since.request
              \/ /\ recheck' = recheck
                 /\ recheck.pc # "idle" => since'.request = since.request \cup {u}
    BY <1>0, <1>6, OthersPut
  <2>2. Queued' = Queued \cup {u}
    BY <1>0, <2>1, PutQueues
  <2>3. CASE recheck' = recheck /\ (recheck.pc # "idle" =>
                                      since'.request = since.request \cup {u})
    BY <1>0, <2>1, <2>2, <2>3 DEF Asked
  <2>4. CASE /\ u \in recheck.todo /\ recheck' = Asking(recheck.todo \ {u})
             /\ recheck.pc = "putting"
             /\ recheck' # NoRequest => since'.request = since.request
    <3> DEFINE todo == recheck.todo \ {u}
    <3>1. CASE todo = {}
      BY <2>4, <3>1 DEF Asking, NoRequest, Asked
    <3>2. CASE todo # {}
      <4>1. recheck'.pc = "putting" /\ recheck'.todo = todo
        BY <2>4, <3>2 DEF Asking
      <4>2. since'.request = since.request
        BY <2>4, <4>1 DEF NoRequest
      <4> QED
        BY <1>0, <2>1, <2>2, <2>4, <4>1, <4>2 DEF Asked
    <3> QED
      BY <3>1, <3>2
  <2> QED
    BY <2>1, <2>3, <2>4
<1>7. CASE Take
  <2>1. PICK u \in Queued :
          /\ queue' = [queue EXCEPT ![u] = @ - 1] /\ running' \subseteq running \cup {u}
    BY <1>7 DEF Take
  <2>2. Queued' \subseteq Queued
    BY <1>0, <2>1, TakenIs
  <2>3. recheck' = recheck /\ since'.request = since.request
    BY <1>0, <1>7 DEF Take, SinceTypes
  <2> QED
    BY <1>1, <2>1, <2>2, <2>3
<1>8. CASE Finish \/ Tick \/ Settings \/ UNCHANGED tickerVars
  <2>1. recheck' = recheck /\ since' = since /\ Queued' = Queued /\ running' \subseteq running
    BY <1>8 DEF Finish, Tick, Settings, Pause, OpenOrClose, PauseAll, Delete, Exit, tickerVars,
                Queued
  <2> QED
    BY <1>1, <2>1
<1> QED
  BY <1>2, <1>3, <1>4, <1>5, <1>6, <1>7, <1>8 DEF TickerNext, Requests

-----------------------------------------------------------------------------
\* How far the queue is filled.

LEMMA AheadIs ==
  ASSUME TickTypes
  PROVE  /\ Ahead \in 0..(Stride - 1)
         /\ tick'.index = tick.index => Ahead' = Ahead
         /\ tick'.index = tick.index + 1 => Ahead' = Ahead + 1 \/ Ahead' = 0
<1> DEFINE i == tick.index
<1>1. i \in Nat /\ Stride \in Nat \ {0}
  BY StrideAssumption DEF TickTypes
<1> HIDE DEF i
<1>2. i % Stride \in 0..(Stride - 1)
  BY <1>1, Remainder
<1>3. (i + 1) % Stride = (i % Stride) + 1 \/ (i + 1) % Stride = 0
  BY <1>1, NextRemainder
<1> QED
  BY <1>2, <1>3 DEF Ahead, i

LEMMA BoundedByTicker == Inv /\ Ticker => Bounded'
<1> SUFFICES ASSUME Inv, Ticker PROVE Bounded'
  OBVIOUS
<1>0. TickTypes /\ SinceTypes /\ QueueType /\ QueueTypes /\ Bounded
  BY DEF Inv, QueueTypes, TypeOK, TickTypes, SinceTypes, QueueType
<1>1. /\ QueueSize \in Nat /\ since.foreign \in Nat /\ MaxQueue \in Nat \ {0}
      /\ Ahead \in 0..(Stride - 1) /\ Stride \in Nat \ {0}
  BY <1>0, SizeIs, AheadIs, StrideAssumption, LimitsAssumption DEF SinceTypes
<1>2. ASSUME tick'.pc \notin {"loop", "due"} PROVE Bounded'
  BY <1>2 DEF Bounded, At
<1>3. CASE SampleRunning \/ SampleQueued \/ PassEnds \/ LeavesLoop
  BY <1>0, <1>2, <1>3 DEF SampleRunning, SampleQueued, PassEnds, LeavesLoop, TickTypes
<1>4. CASE Falls \/ StartAgain
  BY <1>0, <1>2, <1>4, StopsIs
<1>5. CASE ListWatches
  <2>1. tick'.pc = "loop" /\ tick'.index = 0
    BY <1>0, <1>5 DEF ListWatches, TickTypes
  <2>2. Ahead' = 0
    BY <2>1, Remainder, StrideAssumption DEF Ahead
  <2> QED
    BY <2>1, <2>2 DEF Bounded, At
<1>6. CASE Judge
  <2>1. /\ Ahead # 0 => QueueSize < MaxQueue + Ahead + since.foreign
        /\ Ahead = 0 => QueueSize < MaxQueue
    BY <1>0, <1>1, <1>6 DEF Judge, Bounded, QueueFull, Looks, Ahead
  <2>2. since'.foreign = (IF Ahead = 0 THEN 0 ELSE since.foreign) /\ QueueSize' = QueueSize
    BY <1>0, <1>6 DEF Judge, Looks, Ahead, SinceTypes, QueueSize, Items
  <2>3. \/ tick'.pc = "loop" /\ (Ahead' = Ahead + 1 \/ Ahead' = 0)
        \/ tick'.pc = "due" /\ Ahead' = Ahead
    BY <1>0, <1>6, TurnIs, AheadIs
  <2>4. /\ tick'.pc = "loop" /\ Ahead' # 0
             => QueueSize' < MaxQueue + Ahead' + since'.foreign
        /\ tick'.pc = "due" => QueueSize' < MaxQueue + Ahead' + since'.foreign
    BY <1>1, <2>1, <2>2, <2>3
  <2> QED
    BY <2>4 DEF Bounded, At
<1>7. CASE ProxyNotYet \/ QueueWatch
  <2>1. QueueSize < MaxQueue + Ahead + since.foreign
    BY <1>0, <1>7 DEF ProxyNotYet, QueueWatch, Bounded
  <2>2. since'.foreign = since.foreign
    BY <1>0, <1>7 DEF ProxyNotYet, QueueWatch, SinceTypes
  <2>3. QueueSize' = QueueSize \/ QueueSize' = QueueSize + 1
    <3>1. CASE ProxyNotYet
      BY <3>1 DEF ProxyNotYet, QueueSize, Items
    <3>2. CASE QueueWatch
      <4>1. Head(tick.todo) \in Uuids /\ Put(Head(tick.todo))
        BY <1>0, <3>2 DEF QueueWatch, QueueTypes, TickTypes
      <4> QED
        BY <1>0, <4>1, PutIs
    <3> QED
      BY <1>7, <3>1, <3>2
  <2>4. ~Judge
    BY <1>7 DEF Judge, ProxyNotYet, QueueWatch, At
  <2>5. tick'.pc = "loop" /\ (Ahead' = Ahead + 1 \/ Ahead' = 0)
    BY <1>0, <1>7, <2>4, TurnIs, AheadIs
  <2>6. Ahead' # 0 => QueueSize' < MaxQueue + Ahead' + since'.foreign
    BY <1>1, <2>1, <2>2, <2>3, <2>5
  <2> QED
    BY <2>5, <2>6 DEF Bounded, At
<1> QED
  BY <1>3, <1>4, <1>5, <1>6, <1>7 DEF Ticker

LEMMA BoundedByOthers == Inv /\ (Requests \/ Take \/ Finish \/ Tick \/ Settings) => Bounded'
<1> SUFFICES ASSUME Inv, Requests \/ Take \/ Finish \/ Tick \/ Settings PROVE Bounded'
  OBVIOUS
<1>0. TickTypes /\ SinceTypes /\ QueueType /\ QueueTypes /\ Bounded
  BY DEF Inv, QueueTypes, TypeOK, TickTypes, SinceTypes, QueueType
<1>1. /\ QueueSize \in Nat /\ since.foreign \in Nat /\ MaxQueue \in Nat \ {0}
      /\ Ahead \in 0..(Stride - 1) /\ Stride \in Nat \ {0}
  BY <1>0, SizeIs, AheadIs, StrideAssumption, LimitsAssumption DEF SinceTypes
<1>2. ASSUME tick'.pc = tick.pc, Ahead' = Ahead, since'.foreign = since.foreign,
             QueueSize' \in Nat, QueueSize' <= QueueSize
      PROVE  Bounded'
  BY <1>0, <1>1, <1>2 DEF Bounded, At
<1>3. CASE RequestPuts \/ ForceQueue
  <2>1. PICK u \in Uuids : Put(u) /\ tick' = tick /\ since'.foreign = TickerMissed(u).foreign
    BY <1>0, <1>3, OthersPut
  <2>2. QueueSize' = QueueSize + 1 /\ QueueType'
    BY <1>0, <2>1, PutIs
  <2>3. QueueSize' <= MostItems
    BY <2>2, NewSizeIs
  <2>4. Ahead' = Ahead
    BY <2>1 DEF Ahead
  <2>5. since'.foreign = IF Looping /\ since.foreign < MostItems THEN since.foreign + 1
                         ELSE since.foreign
    BY <1>0, <2>1, MissedHas
  <2>6. ASSUME Looping, QueueSize < MaxQueue + Ahead + since.foreign
        PROVE  QueueSize' < MaxQueue + Ahead + since'.foreign
    BY <1>1, <2>2, <2>3, <2>5, <2>6, MostIs
  <2>7. At("loop") \/ At("due") => Looping
    BY DEF At, Looping
  <2> QED
    BY <1>0, <2>1, <2>4, <2>6, <2>7 DEF Bounded, At
<1>4. CASE Take
  <2>1. PICK u \in Queued : queue' = [queue EXCEPT ![u] = @ - 1]
    BY <1>4 DEF Take
  <2>2. QueueSize' <= QueueSize /\ QueueType'
    BY <1>0, <2>1, TakenIs
  <2>3. QueueSize' \in Nat
    BY <2>2, NewSizeIs
  <2>4. tick' = tick /\ since'.foreign = since.foreign
    BY <1>0, <1>4 DEF Take, SinceTypes
  <2>5. Ahead' = Ahead
    BY <2>4 DEF Ahead
  <2> QED
    BY <1>2, <2>2, <2>3, <2>4, <2>5
<1>5. CASE RequestSamplesQueued \/ RequestSamplesRunning \/ Finish \/ Tick \/ Settings
  <2>1. queue' = queue /\ since'.foreign = since.foreign
    BY <1>0, <1>5 DEF RequestSamplesQueued, RequestSamplesRunning, Finish, Tick, Settings,
       Pause, OpenOrClose, PauseAll, Delete, Exit, SinceTypes
  <2>2. tick'.pc = tick.pc /\ tick'.index = tick.index
    BY <1>0, <1>5 DEF RequestSamplesQueued, RequestSamplesRunning, Finish, Tick, Settings,
       Pause, OpenOrClose, PauseAll, Delete, Exit, TickTypes
  <2>3. QueueSize' = QueueSize
    BY <2>1 DEF QueueSize, Items
  <2>4. Ahead' = Ahead
    BY <2>2 DEF Ahead
  <2> QED
    BY <1>1, <1>2, <2>1, <2>2, <2>3, <2>4
<1> QED
  BY <1>3, <1>4, <1>5 DEF Requests

LEMMA InvStep == Inv /\ [TickerNext]_tickerVars => Inv'
<1> SUFFICES ASSUME Inv, [TickerNext]_tickerVars PROVE Inv'
  OBVIOUS
<1>1. QueueTypes' /\ Distinct' /\ Asked'
  BY QueueTypesStep, DistinctStep, AskedStep DEF Inv
<1>2. Seen' /\ Bounded'
  <2>1. CASE UNCHANGED tickerVars
    <3>1. UNCHANGED <<order, queue, running, tick, since>>
      BY <2>1 DEF tickerVars
    <3>2. Queued' = Queued /\ QueueSize' = QueueSize
      BY <3>1 DEF Queued, QueueSize, Items
    <3> QED
      BY <3>1, <3>2 DEF Inv, Seen, Bounded, At, Looping, Known, Ahead
  <2> QED
    BY <2>1, SeenByTicker, SeenByOthers, BoundedByTicker, BoundedByOthers DEF TickerNext
<1> QED
  BY <1>1, <1>2 DEF Inv

LEMMA InvHolds == TickerSpec => []Inv
BY InvInit, InvStep, PTL DEF TickerSpec

-----------------------------------------------------------------------------

LEMMA NoSeenDoubleStep ==
  ASSUME Inv, QueueWatch \/ RequestPuts, NEW u \in Uuids, queue[u] > 0 \/ u \in running,
         queue'[u] > queue[u]
  PROVE  /\ QueueWatch => u \in since.ticker \cup since.taken
         /\ RequestPuts => u \in since.request
<1>0. QueueType /\ QueueTypes /\ TickTypes /\ Seen /\ Asked /\ SinceTypes /\ u \in Queued \cup running
  BY DEF Inv, QueueTypes, TypeOK, QueueType, TickTypes, Queued, SinceTypes
<1>1. CASE QueueWatch
  <2>1. /\ At("due") /\ tick.todo # << >> /\ Head(tick.todo) \in Uuids
        /\ Put(Head(tick.todo))
    BY <1>0, <1>1 DEF QueueWatch, QueueTypes, TickTypes
  <2>2. u = Head(tick.todo)
    BY <1>0, <2>1, PutQueues
  <2>3. u \in Range(tick.todo)
    BY <1>0, <2>1, <2>2, OnceTail DEF Inv, Distinct, TickTypes
  <2>4. u \in since.ticker \cup since.taken
    BY <1>0, <2>1, <2>2, <2>3 DEF Seen, Known, At, Looping
  <2>5. ~RequestPuts
    <3>1. CASE RequestPuts
      BY <1>1, <3>1 DEF RequestPuts, QueueWatch, Asking, NoRequest
    <3> QED
      BY <3>1
  <2> QED
    BY <2>4, <2>5
<1>2. CASE RequestPuts
  <2>1. recheck.pc = "putting" /\ \E v \in recheck.todo : Put(v)
    BY <1>2 DEF RequestPuts
  <2>2. PICK v \in recheck.todo : Put(v)
    BY <2>1
  <2>3. v \in Uuids
    BY DEF Inv, QueueTypes, TypeOK
  <2>4. u = v
    BY <1>0, <2>2, <2>3, PutQueues
  <2>5. u \in since.request
    BY <1>0, <2>1, <2>2, <2>4 DEF Asked
  <2>6. ~QueueWatch
    <3>1. CASE QueueWatch
      BY <1>2, <3>1 DEF RequestPuts, QueueWatch, Asking, NoRequest
    <3> QED
      BY <3>1
  <2> QED
    BY <2>5, <2>6
<1> QED
  BY <1>1, <1>2

LEMMA OvershootStep ==
  ASSUME Inv, QueueWatch
  PROVE  QueueSize' < MaxQueue + Stride + since.foreign
<1>0. QueueType /\ QueueTypes /\ TickTypes /\ SinceTypes
  BY DEF Inv, QueueTypes, TypeOK, QueueType, TickTypes, SinceTypes
<1>1. QueueSize < MaxQueue + Ahead + since.foreign
  BY DEF Inv, Bounded, QueueWatch
<1>2. QueueSize' = QueueSize + 1
  <2>1. Head(tick.todo) \in Uuids /\ Put(Head(tick.todo))
    BY <1>0 DEF QueueWatch, QueueTypes, TickTypes
  <2> QED
    BY <1>0, <2>1, PutIs
<1>3. QueueSize \in Nat /\ since.foreign \in Nat /\ Ahead \in 0..(Stride - 1)
  BY <1>0, SizeIs, AheadIs DEF SinceTypes
<1> QED
  BY <1>1, <1>2, <1>3, StrideAssumption, LimitsAssumption

\* queue_rechecks(), checknow and the ticker look at the queue and at the running watches at
\* different moments: a recheck they queue for a watch that is queued or running already is
\* one that no sample of theirs could show.
THEOREM DoublesAreUnseen == TickerSpec => NoSeenDouble
<1>1. Inv /\ [TickerNext]_tickerVars
        => [\A u \in Uuids : queue[u] > 0 \/ u \in running =>
              /\ QueueWatch /\ queue'[u] > queue[u] => u \in since.ticker \cup since.taken
              /\ RequestPuts /\ queue'[u] > queue[u] => u \in since.request]_tickerVars
  BY NoSeenDoubleStep
<1> QED
  BY <1>1, InvHolds, PTL DEF TickerSpec, NoSeenDouble

\* ticker_thread_check_time_launch_checks() looks at the queue's size once for many watches:
\* what it queues beyond MAX_QUEUE_SIZE is less than that many and what others put meanwhile.
THEOREM PassesStopWhenFull == TickerSpec => Overshoot
<1>1. Inv /\ [TickerNext]_tickerVars
        => [QueueWatch => QueueSize' < MaxQueue + Stride + since.foreign]_tickerVars
  BY OvershootStep
<1> QED
  BY <1>1, InvHolds, PTL DEF TickerSpec, Overshoot

\* Both, as the run states them.
THEOREM QueueIsKeptWithinReason == TickerSpec => QueuesWithinReason
BY DoublesAreUnseen, PassesStopWhenFull DEF QueuesWithinReason
===============================================================================
