----------------------------- MODULE SignInProofs ------------------------------
(***************************************************************************)
(* The sign-in of assistants, for any number of clients, pairs of tokens   *)
(* and requests: who was answered last can go on with what the answer      *)
(* gave, also after a restart, and a grant that was revoked is gone; and   *)
(* what they do then, for any tokens, limits, plugins and edits: a request *)
(* changes and tells only what its token covered.                          *)
(*                                                                         *)
(* The settings are copied and written without a lock, so the proofs are   *)
(* about the copies there are: a copy that lacks what an answer promised,  *)
(* or still has what was revoked, is older than one that was written, and  *)
(* when it is written after that one the file is Torn.                     *)
(***************************************************************************)
EXTENDS SignIn, Assistants, TLAPS

\* The copies of the settings that were made and are still to be written, and the file.
Copies == {ask[a].copy : a \in {b \in Assistants : ask[b].pc = "write"}}
          \cup {c \in {owner.copy} : owner.pc = "write"} \cup {disk}

\* A map of grants: who each is of, and its pair.
GrantMap(f) == /\ DOMAIN f \subseteq Nat
               /\ \A g \in DOMAIN f : /\ f[g] = [by |-> f[g].by, pair |-> f[g].pair]
                                      /\ f[g].by \in Assistants
                                      /\ f[g].pair \in Nat \cup {Nil}

Stages == {"idle", "copy", "write", "answer", "grant", "new pair", "rotate", "used", "refused"}

Record(r) == /\ r = [op |-> r.op, pc |-> r.pc, gives |-> r.gives, grant |-> r.grant, pair |-> r.pair,
                     copy |-> r.copy]
             /\ r.pc \in Stages
             /\ r.grant \in Nat \cup {Nil} /\ r.pair \in Nat \cup {Nil}

Types == /\ GrantMap(grants)
         /\ DOMAIN ask = Assistants /\ ask = [a \in Assistants |-> ask[a]]
         /\ \A a \in Assistants : Record(ask[a])
         /\ Record(owner)
         /\ DOMAIN held = Assistants /\ held = [a \in Assistants |-> held[a]]
         /\ \A a \in Assistants : /\ held[a] = [code |-> held[a].code, pair |-> held[a].pair]
                                  /\ held[a].pair \in Nat \cup {Nil}
         /\ issued \in Nat /\ version \in Nat /\ newest \in Nat
         /\ \A c \in Copies : GrantMap(c.grants) /\ c.at \in Nat

\* The copies are numbered, and none comes after the last.
Ordered == /\ \A c \in Copies : c.at <= version
           /\ newest <= version

\* The maps of grants there are.
Maps == {grants} \cup {c.grants : c \in Copies}

\* The numbers of a: its grants and pairs, wherever one is written down.
Owns(a) == {n \in Nat : \/ n \in {held[a].pair, ask[a].pair, ask[a].grant}
                        \/ \E f \in Maps : \E g \in DOMAIN f : f[g].by = a /\ n \in {g, f[g].pair}}

\* No two assistants have a number in common, and those to come are new.
Apart == /\ \A a \in Assistants : \A n \in Owns(a) : n <= issued
         /\ \A a, b \in Assistants : a # b => Owns(a) \cap Owns(b) = {}

-----------------------------------------------------------------------------
Has(f, a, p) == \E g \in DOMAIN f : f[g] = [by |-> a, pair |-> p]

\* What a was promised is in memory, and in every copy but those older than n.
Promised(a, p, n) == /\ Has(grants, a, p)
                     /\ \A c \in Copies : Has(c.grants, a, p) \/ c.at < n

\* How far a promise is kept: as long as its owner is not upset, by the request under way.
InForce(a) ==
  /\ ask[a].op \notin {"code", "refresh"} /\ held[a].pair # Nil =>
       Promised(a, held[a].pair, newest)
  /\ ask[a].op \in {"code", "refresh"} =>
       /\ ask[a].pc \in {"used", "copy"} => ask[a].pair # Nil /\ Has(grants, a, ask[a].pair)
       /\ ask[a].pc = "write" => ask[a].pair # Nil /\ Promised(a, ask[a].pair, ask[a].copy.at)
       /\ ask[a].pc = "answer" => ask[a].pair # Nil /\ Promised(a, ask[a].pair, newest)

\* What a request is at, by what was asked.
Course(a) == /\ ask[a].pc = "idle" => ask[a].op \notin {"code", "refresh"}
             /\ ask[a].op \notin {"code", "refresh"} => ask[a].pc \in {"idle", "copy", "write", "answer"}
             /\ ask[a].op \notin {"code", "refresh"} => ask[a].pair = Nil /\ ask[a].grant = Nil
             /\ ask[a].pc = "rotate" => ask[a].pair # Nil

\* The grant that the owner last revoked is in no copy as new as n, and not in memory.
Over(g, n) == /\ g \notin DOMAIN grants
              /\ g <= issued
              /\ \A c \in Copies : g \in DOMAIN c.grants => c.at < n

Revoked ==
  owner.grant # Nil =>
    /\ owner.pc \in {"copy", "write", "answer", "idle"}
    /\ owner.pc = "copy" => Over(owner.grant, version + 1)
    /\ owner.pc = "write" => Over(owner.grant, owner.copy.at)
    /\ owner.pc \in {"answer", "idle"} => Over(owner.grant, newest)

Inv == /\ Types /\ Ordered /\ Apart
       /\ \A a \in Assistants : Course(a)
       /\ \A a \in Assistants \ upset : InForce(a)
       /\ Revoked

-----------------------------------------------------------------------------
LEMMA SignInStarts ==
  ASSUME SignInInit
  PROVE  Inv
<1> USE NilAssumption DEF SignInInit, NoAsking, NoPart
<1>1. Copies = {disk}
  BY DEF Copies
<1>2. Types
  <2>1. GrantMap(grants) /\ GrantMap(disk.grants) /\ disk.at \in Nat
    BY DEF GrantMap
  <2>2. Record(owner) /\ \A a \in Assistants : Record(ask[a])
    BY DEF Record, Stages
  <2>3. DOMAIN ask = Assistants /\ ask = [a \in Assistants |-> ask[a]]
    OBVIOUS
  <2>4. /\ DOMAIN held = Assistants /\ held = [a \in Assistants |-> held[a]]
        /\ \A a \in Assistants : /\ held[a] = [code |-> held[a].code, pair |-> held[a].pair]
                                 /\ held[a].pair \in Nat \cup {Nil}
    OBVIOUS
  <2> QED
    BY <1>1, <2>1, <2>2, <2>3, <2>4 DEF Types
<1>3. Ordered
  BY <1>1 DEF Ordered
<1>4. \A f \in Maps : DOMAIN f = {}
  BY <1>1 DEF Maps
<1>5. \A a \in Assistants : Owns(a) = {}
  BY <1>4 DEF Owns
<1>6. Apart
  BY <1>5 DEF Apart
<1>7. \A a \in Assistants : Course(a) /\ InForce(a)
  BY DEF Course, InForce
<1>8. Revoked
  BY DEF Revoked
<1> QED
  BY <1>2, <1>3, <1>6, <1>7, <1>8 DEF Inv

-----------------------------------------------------------------------------
\* Numbers stay apart when nothing is written down but what its owner has, or a new one.
LEMMA ApartStays ==
  ASSUME Apart, issued \in Nat, issued' \in Nat, issued' >= issued, NEW x, NEW new,
         new # {} => issued' > issued /\ new = {issued'},
         \A a \in Assistants :
           \A n \in {held'[a].pair, ask'[a].pair, ask'[a].grant} \cap Nat :
             n \in Owns(a) \/ (a = x /\ n \in new),
         \A f \in Maps' : \A g \in DOMAIN f : f[g].by \in Assistants =>
           \A n \in {g, f[g].pair} \cap Nat : n \in Owns(f[g].by) \/ (f[g].by = x /\ n \in new)
  PROVE  Apart'
<1>1. \A a \in Assistants : \A n \in Owns(a)' : n \in Owns(a) \/ (a = x /\ n \in new)
  BY DEF Owns
<1>2. \A a \in Assistants : \A n \in Owns(a) : n \in Nat /\ n <= issued
  BY DEF Owns, Apart
<1>3. \A a \in Assistants : \A n \in Owns(a)' : n <= issued'
  <2> SUFFICES ASSUME NEW a \in Assistants, NEW n \in Owns(a)' PROVE n <= issued'
    OBVIOUS
  <2>1. CASE n \in Owns(a)
    BY <1>2, <2>1
  <2>2. CASE n \in new
    BY <2>2
  <2> QED
    BY <1>1, <2>1, <2>2
<1>4. ASSUME NEW a \in Assistants, NEW b \in Assistants, a # b, NEW n \in Owns(a)', n \in Owns(b)'
      PROVE  FALSE
  <2>1. n \in Owns(a) /\ n \in Owns(b) => FALSE
    BY <1>4 DEF Apart
  <2>2. n \in new => n \notin Owns(a) /\ n \notin Owns(b)
    <3> SUFFICES ASSUME n \in new PROVE n \notin Owns(a) /\ n \notin Owns(b)
      OBVIOUS
    <3>1. n > issued
      OBVIOUS
    <3> QED
      BY <1>2, <3>1
  <2> QED
    BY <1>1, <1>4, <2>1, <2>2
<1> QED
  BY <1>3, <1>4 DEF Apart

LEMMA OwnMaps ==
  ASSUME NEW f \in Maps, NEW g \in DOMAIN f, f[g].by \in Assistants
  PROVE  \A n \in {g, f[g].pair} \cap Nat : n \in Owns(f[g].by)
BY DEF Owns

LEMMA OwnParts ==
  ASSUME NEW a \in Assistants
  PROVE  \A n \in {held[a].pair, ask[a].pair, ask[a].grant} \cap Nat : n \in Owns(a)
BY DEF Owns

\* A grant of one assistant is not another one's to rotate.
LEMMA OneOwner ==
  ASSUME Inv, NEW a \in Assistants, NEW f \in Maps, NEW g \in DOMAIN f, f[g].by \in Assistants,
         NEW n \in Owns(a), n \in {g, f[g].pair}
  PROVE  f[g].by = a
<1>1. n \in Nat
  BY DEF Owns
<1>2. n \in Owns(f[g].by)
  BY <1>1, OwnMaps
<1> QED
  BY <1>2 DEF Inv, Apart

\* Those whose request does not move keep what they were promised, and what is revoked stays so,
\* while the copies that are made are of the settings as they are.
LEMMA InForceStays ==
  ASSUME Inv, NEW b \in Assistants, InForce(b), held'[b] = held[b], ask'[b] = ask[b],
         newest' \in Nat, newest' >= newest,
         \A p : Has(grants, b, p) => Has(grants', b, p),
         \A c \in Copies' : c.at \in Nat /\ (c \in Copies \/ c.grants = grants)
  PROVE  InForce(b)'
<1>1. ASSUME NEW p, Promised(b, p, newest)
      PROVE  Has(grants', b, p) /\ \A c \in Copies' : Has(c.grants, b, p) \/ c.at < newest'
  BY <1>1 DEF Promised, Inv, Types
<1>2. ASSUME NEW p, NEW n \in Nat, Promised(b, p, n)
      PROVE  Has(grants', b, p) /\ \A c \in Copies' : Has(c.grants, b, p) \/ c.at < n
  BY <1>2 DEF Promised
<1>3. ask[b].pc = "write" => ask[b].copy.at \in Nat
  BY DEF Inv, Types, Copies
<1>4. CASE ask[b].op \notin {"code", "refresh"}
  BY <1>1, <1>4 DEF InForce, Promised
<1>5. CASE ask[b].op \in {"code", "refresh"}
  <2>1. ask[b].pc \in {"used", "copy"} => ask[b].pair # Nil /\ Has(grants', b, ask[b].pair)
    BY <1>5 DEF InForce
  <2>2. ask[b].pc = "write" =>
          /\ ask[b].pair # Nil /\ Has(grants', b, ask[b].pair)
          /\ \A c \in Copies' : Has(c.grants, b, ask[b].pair) \/ c.at < ask[b].copy.at
    BY <1>2, <1>3, <1>5 DEF InForce
  <2>3. ask[b].pc = "answer" =>
          /\ ask[b].pair # Nil /\ Has(grants', b, ask[b].pair)
          /\ \A c \in Copies' : Has(c.grants, b, ask[b].pair) \/ c.at < newest'
    BY <1>1, <1>5 DEF InForce
  <2> QED
    BY <1>5, <2>1, <2>2, <2>3 DEF InForce, Promised
<1> QED
  BY <1>4, <1>5

LEMMA RevokedStays ==
  ASSUME Inv, owner' = owner, issued' \in Nat, issued' >= issued, newest' \in Nat, newest' >= newest,
         version' \in Nat, version' >= version,
         \A g \in DOMAIN grants' : g \in DOMAIN grants \/ g > issued,
         \A c \in Copies' : c.at \in Nat /\ (c \in Copies \/ c.grants = grants)
  PROVE  Revoked'
<1> SUFFICES ASSUME owner.grant # Nil
             PROVE  /\ owner.pc \in {"copy", "write", "answer", "idle"}
                    /\ owner.pc = "copy" => Over(owner.grant, version + 1)'
                    /\ owner.pc = "write" => Over(owner.grant, owner.copy.at)'
                    /\ owner.pc \in {"answer", "idle"} => Over(owner.grant, newest)'
  BY DEF Revoked
<1>1. owner.grant \in Nat /\ issued \in Nat
  BY DEF Inv, Types, Record
<1>2. ASSUME NEW m \in Nat, NEW n \in Nat, m <= n, Over(owner.grant, m)
      PROVE  /\ owner.grant \notin DOMAIN grants' /\ owner.grant <= issued'
             /\ \A c \in Copies' : owner.grant \in DOMAIN c.grants => c.at < n
  <2>1. owner.grant \notin DOMAIN grants /\ owner.grant <= issued
    BY <1>2 DEF Over
  <2>2. owner.grant \notin DOMAIN grants' /\ owner.grant <= issued'
    BY <1>1, <2>1
  <2>3. ASSUME NEW c \in Copies', owner.grant \in DOMAIN c.grants PROVE c.at < n
    <3>1. c \in Copies /\ c.at < m
      BY <1>2, <2>1, <2>3 DEF Over
    <3> QED
      BY <1>2, <3>1
  <2> QED
    BY <2>2, <2>3
<1>3. /\ version + 1 \in Nat /\ version' + 1 \in Nat /\ version + 1 <= version' + 1
      /\ newest \in Nat /\ (owner.pc = "write" => owner.copy.at \in Nat)
  BY DEF Inv, Types, Copies
<1>4. owner.pc = "copy" => Over(owner.grant, version + 1)'
  BY <1>2, <1>3 DEF Inv, Revoked, Over
<1>5. owner.pc = "write" => Over(owner.grant, owner.copy.at)'
  BY <1>2, <1>3 DEF Inv, Revoked, Over
<1>6. owner.pc \in {"answer", "idle"} => Over(owner.grant, newest)'
  BY <1>2, <1>3 DEF Inv, Revoked, Over
<1> QED
  BY <1>4, <1>5, <1>6 DEF Inv, Revoked

-----------------------------------------------------------------------------
\* Steps of a request that touch no grant, no copy and no file.
Still == UNCHANGED <<grants, disk, owner, version, newest>>

LEMMA Maps1 ==
  ASSUME Copies' \subseteq Copies, UNCHANGED grants
  PROVE  Maps' \subseteq Maps
BY DEF Maps

LEMMA StillStep ==
  ASSUME Inv, NEW a \in Assistants, NEW r, Still,
         ask' = [ask EXCEPT ![a] = r], Record(r), r.pc # "write", ask[a].pc # "write",
         held' = [held EXCEPT ![a] = held'[a]],
         held'[a] = [code |-> held'[a].code, pair |-> held'[a].pair],
         issued' \in Nat, issued' = issued \/ issued' = issued + 1,
         \A n \in {held'[a].pair, r.pair, r.grant} \cap Nat :
            n \in Owns(a) \/ (issued' = issued + 1 /\ n = issued'),
         held'[a].pair \in Nat \cup {Nil},
         Course(a)', \A b \in Assistants : b # a /\ b \notin upset' => b \notin upset,
         a \notin upset' => InForce(a)'
  PROVE  Inv'
<1> USE DEF Still
<1>1. /\ DOMAIN ask = Assistants /\ DOMAIN held = Assistants /\ ask'[a] = r
      /\ \A b \in Assistants \ {a} : ask'[b] = ask[b] /\ held'[b] = held[b]
  BY DEF Inv, Types
<1>2. Copies' = Copies
  BY <1>1 DEF Copies
<1>3. Types'
  BY <1>1, <1>2 DEF Inv, Types
<1>4. Ordered'
  BY <1>2 DEF Inv, Ordered
<1>5. Apart'
  <2>1. Maps' = Maps
    BY <1>2 DEF Maps
  <2> DEFINE new == IF issued' = issued THEN {} ELSE {issued'}
  <2>2. /\ issued \in Nat /\ issued' >= issued
        /\ new # {} => issued' > issued /\ new = {issued'}
        /\ \A n : issued' = issued + 1 /\ n = issued' => n \in new
    BY DEF Inv, Types
  <2>3. \A b \in Assistants : \A n \in {held'[b].pair, ask'[b].pair, ask'[b].grant} \cap Nat :
          n \in Owns(b) \/ (b = a /\ n \in new)
    BY <1>1, <2>2, OwnParts
  <2>4. \A f \in Maps' : \A g \in DOMAIN f : f[g].by \in Assistants =>
          \A n \in {g, f[g].pair} \cap Nat : n \in Owns(f[g].by) \/ (f[g].by = a /\ n \in new)
    BY <2>1, OwnMaps
  <2> HIDE DEF new
  <2> QED
    BY <2>2, <2>3, <2>4, ApartStays DEF Inv
<1>6. \A b \in Assistants : Course(b)'
  BY <1>1 DEF Inv, Course
<1>7. \A b \in Assistants \ upset' : InForce(b)'
  <2> SUFFICES ASSUME NEW b \in Assistants \ upset', b # a PROVE InForce(b)'
    OBVIOUS
  <2>1. InForce(b) /\ ask'[b] = ask[b] /\ held'[b] = held[b]
    BY <1>1 DEF Inv
  <2>2. newest' \in Nat /\ newest' >= newest /\ \A c \in Copies' : c.at \in Nat /\ c \in Copies
    BY <1>2 DEF Inv, Types
  <2>3. \A p : Has(grants, b, p) => Has(grants', b, p)
    BY DEF Has
  <2> QED
    BY <2>1, <2>2, <2>3, InForceStays
<1>8. Revoked'
  <2>1. /\ newest' \in Nat /\ newest' >= newest /\ \A c \in Copies' : c.at \in Nat /\ c \in Copies
        /\ version' \in Nat /\ version' >= version /\ issued' >= issued
    BY <1>2 DEF Inv, Types
  <2> QED
    BY <2>1, RevokedStays
<1> QED
  BY <1>3, <1>4, <1>5, <1>6, <1>7, <1>8 DEF Inv

-----------------------------------------------------------------------------
LEMMA StillCopies ==
  ASSUME Inv, NEW a \in Assistants, NEW r, Still, ask' = [ask EXCEPT ![a] = r],
         r.pc # "write", ask[a].pc # "write"
  PROVE  Copies' = Copies
<1>1. ask'[a] = r /\ \A b \in Assistants \ {a} : ask'[b] = ask[b]
  BY DEF Inv, Types
<1> QED
  BY <1>1 DEF Copies, Still

\* A request that begins, and is not about tokens: what its assistant was promised stands.
LEMMA BeginStep ==
  ASSUME Inv, NEW a \in Assistants, NEW r, Calls(a, r), Still,
         Record(r), r.pc # "write", held' = held,
         issued' \in Nat, issued' = issued \/ issued' = issued + 1,
         r.pair = Nil, r.grant = Nil \/ r.grant \in Owns(a),
         r.op \in {"code", "refresh"} => r.pc \in {"grant", "refused", "new pair"},
         r.op \notin {"code", "refresh"} => r.pc \in {"copy", "answer"} /\ r.grant = Nil,
         upset' = upset \/ (r.op = "code" /\ upset' = upset \ {a})
  PROVE  Inv'
<1>1. /\ ask' = [ask EXCEPT ![a] = r] /\ ask[a].pc = "idle" /\ ask[a].op \notin {"code", "refresh"}
      /\ DOMAIN ask = Assistants /\ ask'[a] = r
      /\ held = [b \in Assistants |-> held[b]]
      /\ held[a] = [code |-> held[a].code, pair |-> held[a].pair] /\ held[a].pair \in Nat \cup {Nil}
  BY DEF Calls, Step, Is, Inv, Types, Course
<1>2. Copies' = Copies
  BY <1>1, StillCopies
<1>3. \A n \in {held'[a].pair, r.pair, r.grant} \cap Nat : n \in Owns(a)
  BY OwnParts, NilAssumption
<1>4. Course(a)'
  BY <1>1 DEF Course
<1>5. a \notin upset' => InForce(a)'
  <2> SUFFICES ASSUME a \notin upset' PROVE InForce(a)'
    OBVIOUS
  <2>1. CASE r.op \in {"code", "refresh"}
    BY <1>1, <2>1 DEF InForce
  <2>2. CASE r.op \notin {"code", "refresh"}
    <3>1. InForce(a)
      BY <2>2 DEF Inv
    <3>2. held[a].pair # Nil => Promised(a, held[a].pair, newest)
      BY <1>1, <3>1 DEF InForce
    <3> QED
      BY <1>1, <1>2, <2>2, <3>2 DEF InForce, Promised, Still
  <2> QED
    BY <2>1, <2>2
<1>6. held' = [held EXCEPT ![a] = held'[a]]
  BY <1>1
<1>7. \A b \in Assistants : b # a /\ b \notin upset' => b \notin upset
  OBVIOUS
<1> QED
  BY <1>1, <1>3, <1>4, <1>5, <1>6, <1>7, StillStep

LEMMA SignInBegins ==
  ASSUME Inv, NEW a \in Assistants,
         Register(a) \/ Approve(a) \/ Exchange(a) \/ Refresh(a)
  PROVE  Inv'
<1>0. issued \in Nat /\ issued + 1 \in Nat
  BY DEF Inv, Types
<1>1. CASE Register(a)
  <2>r. PICK r : r = Saves([NoAsking EXCEPT !.op = "register"])
    OBVIOUS
  <2>1. /\ Calls(a, r) /\ Still /\ held' = held /\ issued' = issued /\ upset' = upset
    BY <1>1, <2>r DEF Register, Still, saving
  <2>2. /\ Record(r) /\ r.pc = "copy" /\ r.pair = Nil /\ r.grant = Nil /\ r.op = "register"
    BY <2>r DEF Saves, NoAsking, Record, Stages
  <2> QED
    BY <1>0, <2>1, <2>2, BeginStep
<1>2. CASE Approve(a)
  <2>r. PICK r : r = [NoAsking EXCEPT !.op = "authorize", !.pc = "answer", !.gives = issued + 1]
    OBVIOUS
  <2>1. /\ Calls(a, r) /\ Still /\ held' = held /\ issued' = issued + 1 /\ upset' = upset
    BY <1>2, <2>r DEF Approve, Still, saving, memory
  <2>2. /\ Record(r) /\ r.pc = "answer" /\ r.pair = Nil /\ r.grant = Nil /\ r.op = "authorize"
    BY <2>r DEF NoAsking, Record, Stages
  <2> QED
    BY <1>0, <2>1, <2>2, BeginStep
<1>3. CASE Exchange(a)
  <2>r. PICK r : r = [NoAsking EXCEPT !.op = "code", !.gives = held[a].code,
                     !.pc = IF Valid(held[a].code, a) THEN "grant" ELSE "refused"]
    OBVIOUS
  <2>1. /\ Calls(a, r) /\ Still /\ held' = held /\ issued' = issued /\ upset' = upset \ {a}
    BY <1>3, <2>r DEF Exchange, Still, saving, memory
  <2>2. /\ Record(r) /\ r.pc \in {"grant", "refused"} /\ r.pair = Nil /\ r.grant = Nil /\ r.op = "code"
    BY <2>r DEF NoAsking, Record, Stages
  <2> QED
    BY <1>0, <2>1, <2>2, BeginStep
<1>4. CASE Refresh(a)
  <2>0. Still /\ held' = held /\ issued' = issued /\ upset' = upset /\ held[a].pair # Nil
    BY <1>4 DEF Refresh, Still, saving, memory
  <2>1. ASSUME Calls(a, [NoAsking EXCEPT !.op = "refresh", !.pc = "refused"]) PROVE Inv'
    <3>r. PICK r : r = [NoAsking EXCEPT !.op = "refresh", !.pc = "refused"]
      OBVIOUS
    <3>1. /\ Record(r) /\ r.pc = "refused" /\ r.pair = Nil /\ r.grant = Nil /\ r.op = "refresh"
      BY <3>r DEF NoAsking, Record, Stages
    <3>2. Calls(a, r)
      BY <2>1, <3>r
    <3> QED
      BY <1>0, <2>0, <3>1, <3>2, BeginStep
  <2>2. ASSUME NEW g \in Found(held[a].pair),
               Calls(a, [NoAsking EXCEPT !.op = "refresh", !.grant = g, !.pc = "new pair"])
        PROVE  Inv'
    <3>r. PICK r : r = [NoAsking EXCEPT !.op = "refresh", !.grant = g, !.pc = "new pair"]
      OBVIOUS
    <3>1. g \in DOMAIN grants /\ grants[g].pair = held[a].pair /\ grants \in Maps
      BY DEF Found, Maps
    <3>2. g \in Nat /\ grants[g].by \in Assistants /\ held[a].pair \in Nat
      BY <2>0, <3>1 DEF Inv, Types, GrantMap
    <3>3. held[a].pair \in Owns(a)
      BY <3>2, OwnParts
    <3>4. grants[g].by = a
      BY <3>1, <3>2, <3>3, OneOwner
    <3>5. g \in Owns(a)
      BY <3>1, <3>2, <3>4, OwnMaps
    <3>6. /\ Record(r) /\ r.pc = "new pair" /\ r.pair = Nil /\ r.grant = g /\ r.op = "refresh"
      BY <3>2, <3>r DEF NoAsking, Record, Stages
    <3>7. Calls(a, r)
      BY <2>2, <3>r
    <3> QED
      BY <1>0, <2>0, <3>5, <3>6, <3>7, BeginStep
  <2> QED
    BY <1>4, <2>1, <2>2 DEF Refresh
<1> QED
  BY <1>1, <1>2, <1>3, <1>4

\* The other steps that touch no grants: a new pair, a client marked used, the answers.
LEMMA SignInGoesOn ==
  ASSUME Inv, NEW a \in Assistants,
         NewPair(a) \/ MarkUsed(a) \/ Answer(a) \/ Refuse(a)
  PROVE  Inv'
<1>0. /\ issued \in Nat /\ issued + 1 \in Nat /\ Nil \notin Nat
      /\ DOMAIN ask = Assistants /\ DOMAIN held = Assistants /\ held = [b \in Assistants |-> held[b]]
      /\ held[a] = [code |-> held[a].code, pair |-> held[a].pair] /\ held[a].pair \in Nat \cup {Nil}
      /\ Record(ask[a]) /\ Course(a) /\ (a \notin upset => InForce(a))
  BY NilAssumption DEF Inv, Types
<1>n. \A n \in {held[a].pair, ask[a].pair, ask[a].grant} \cap Nat : n \in Owns(a)
  BY OwnParts
<1>1. CASE NewPair(a)
  <2>r. PICK r : r = [ask[a] EXCEPT !.pair = issued + 1, !.pc = "rotate"]
    OBVIOUS
  <2>1. /\ ask' = [ask EXCEPT ![a] = r] /\ ask'[a] = r /\ ask[a].pc = "new pair"
        /\ Still /\ held' = held /\ issued' = issued + 1 /\ upset' = upset
    BY <1>0, <1>1, <2>r DEF NewPair, Still, saving, memory, Step, Is
  <2>2. /\ Record(r) /\ r.pc = "rotate" /\ r.pair = issued + 1 /\ r.grant = ask[a].grant
        /\ r.op = ask[a].op
    BY <1>0, <2>r DEF Record, Stages
  <2>3. ask[a].op \in {"code", "refresh"}
    BY <1>0, <2>1 DEF Course
  <2>4. Course(a)' /\ (a \notin upset' => InForce(a)')
    BY <1>0, <2>1, <2>2, <2>3 DEF Course, InForce
  <2>5. held' = [held EXCEPT ![a] = held'[a]]
    BY <1>0, <2>1
  <2>6. \A n \in {held'[a].pair, r.pair, r.grant} \cap Nat :
          n \in Owns(a) \/ (issued' = issued + 1 /\ n = issued')
    BY <1>n, <2>1, <2>2
  <2> QED
    BY <1>0, <2>1, <2>2, <2>4, <2>5, <2>6, StillStep
<1>2. CASE MarkUsed(a)
  <2>r. PICK r : r = [ask[a] EXCEPT !.pc = "copy"]
    OBVIOUS
  <2>1. /\ ask' = [ask EXCEPT ![a] = r] /\ ask'[a] = r /\ ask[a].pc = "used"
        /\ Still /\ held' = held /\ issued' = issued /\ upset' = upset
    BY <1>0, <1>2, <2>r DEF MarkUsed, Still, saving, Step, Is, Saves
  <2>2. /\ Record(r) /\ r.pc = "copy" /\ r.pair = ask[a].pair /\ r.grant = ask[a].grant
        /\ r.op = ask[a].op
    BY <1>0, <2>r DEF Record, Stages
  <2>3. ask[a].op \in {"code", "refresh"}
    BY <1>0, <2>1 DEF Course
  <2>4. Course(a)'
    BY <1>0, <2>1, <2>2, <2>3 DEF Course
  <2>5. a \notin upset' => InForce(a)'
    BY <1>0, <2>1, <2>2, <2>3 DEF InForce, Still, Has
  <2>6. held' = [held EXCEPT ![a] = held'[a]]
    BY <1>0, <2>1
  <2> QED
    BY <1>0, <1>n, <2>1, <2>2, <2>4, <2>5, <2>6, StillStep
<1>3. CASE Answer(a)
  <2>r. PICK r : r = NoAsking
    OBVIOUS
  <2>1. /\ ask' = [ask EXCEPT ![a] = r] /\ ask'[a] = r /\ ask[a].pc = "answer"
        /\ Still /\ issued' = issued
    BY <1>0, <1>3, <2>r DEF Answer, Still, saving, memory, Step, Is
  <2>2. /\ Record(r) /\ r.pc = "idle" /\ r.pair = Nil /\ r.grant = Nil /\ r.op = Nil
    BY <2>r DEF Record, Stages, NoAsking
  <2>3. Copies' = Copies
    BY <2>1, <2>2, StillCopies
  <2>4. Course(a)'
    BY <2>1, <2>2, NilAssumption DEF Course
  <2>5. CASE held' = held /\ upset' = upset \cup {a}
    <3>1. held' = [held EXCEPT ![a] = held'[a]]
      BY <1>0, <2>5
    <3>2. \A n \in {held'[a].pair, r.pair, r.grant} \cap Nat : n \in Owns(a)
      BY <1>0, <1>n, <2>2, <2>5
    <3> QED
      BY <1>0, <2>1, <2>2, <2>4, <2>5, <3>1, <3>2, StillStep
  <2>6. CASE held' = [held EXCEPT ![a] = Answered(a)] /\ upset' = upset
    <3>1. held'[a] = Answered(a) /\ held' = [held EXCEPT ![a] = held'[a]]
      BY <1>0, <2>6
    <3>2. /\ held'[a] = [code |-> held'[a].code, pair |-> held'[a].pair]
          /\ ask[a].op \in {"code", "refresh"} => held'[a].pair = ask[a].pair
          /\ ask[a].op \notin {"code", "refresh"} => held'[a].pair = held[a].pair
      BY <1>0, <3>1 DEF Answered
    <3>3. held'[a].pair \in Nat \cup {Nil} /\ (held'[a].pair \in Nat => held'[a].pair \in Owns(a))
      BY <1>0, <1>n, <3>2 DEF Record
    <3>4. a \notin upset' => InForce(a)'
      <4> SUFFICES ASSUME a \notin upset, held'[a].pair # Nil PROVE Promised(a, held[a].pair, newest)'
        BY <2>1, <2>2, <2>6, NilAssumption DEF InForce
      <4>1. Promised(a, held'[a].pair, newest)
        BY <1>0, <2>1, <3>2 DEF InForce
      <4> QED
        BY <2>1, <2>3, <4>1 DEF Promised, Still
    <3>5. \A n \in {held'[a].pair, r.pair, r.grant} \cap Nat : n \in Owns(a)
      BY <1>0, <2>2, <3>3
    <3> QED
      BY <1>0, <2>1, <2>2, <2>4, <2>6, <3>1, <3>2, <3>3, <3>4, <3>5, StillStep
  <2> QED
    BY <1>3, <2>5, <2>6 DEF Answer
<1>4. CASE Refuse(a)
  <2>r. PICK r : r = NoAsking
    OBVIOUS
  <2>1. /\ ask' = [ask EXCEPT ![a] = r] /\ ask'[a] = r /\ ask[a].pc = "refused"
        /\ Still /\ issued' = issued /\ upset' = upset
        /\ held' = [held EXCEPT ![a] = [code |-> Nil, pair |-> Nil]]
    BY <1>0, <1>4, <2>r DEF Refuse, Still, saving, memory, Step, Is
  <2>2. /\ Record(r) /\ r.pc = "idle" /\ r.pair = Nil /\ r.grant = Nil /\ r.op = Nil
    BY <2>r DEF Record, Stages, NoAsking
  <2>3. held'[a] = [code |-> Nil, pair |-> Nil] /\ held' = [held EXCEPT ![a] = held'[a]]
    BY <1>0, <2>1
  <2>4. Course(a)' /\ InForce(a)'
    BY <2>1, <2>2, <2>3, NilAssumption DEF Course, InForce
  <2>5. \A n \in {held'[a].pair, r.pair, r.grant} \cap Nat : n \in Owns(a)
    BY <1>0, <2>2, <2>3
  <2> QED
    BY <1>0, <2>1, <2>2, <2>3, <2>4, <2>5, StillStep
<1> QED
  BY <1>1, <1>2, <1>3, <1>4

-----------------------------------------------------------------------------
\* The steps of a request that change its grant, or make one.
LEMMA GrantStep ==
  ASSUME Inv, NEW a \in Assistants, NEW r,
         UNCHANGED <<disk, owner, version, newest, held, upset>>,
         ask' = [ask EXCEPT ![a] = r], Record(r), r.pc # "write", ask[a].pc # "write",
         issued' \in Nat, issued' = issued \/ issued' = issued + 1,
         \A n \in {r.pair, r.grant} \cap Nat : n \in Owns(a) \/ (issued' = issued + 1 /\ n = issued'),
         GrantMap(grants'),
         \A g \in DOMAIN grants' : \A n \in {g, grants'[g].pair} \cap Nat :
            \/ n \in Owns(grants'[g].by)
            \/ grants'[g].by = a /\ issued' = issued + 1 /\ n = issued',
         \A g \in DOMAIN grants' : g \in DOMAIN grants \/ g > issued,
         \A b \in Assistants \ {a} : \A p : Has(grants, b, p) => Has(grants', b, p),
         Course(a)', a \notin upset => InForce(a)'
  PROVE  Inv'
<1>1. /\ DOMAIN ask = Assistants /\ ask'[a] = r
      /\ \A b \in Assistants \ {a} : ask'[b] = ask[b] /\ held'[b] = held[b]
  BY DEF Inv, Types
<1>2. Copies' = Copies
  BY <1>1 DEF Copies
<1>3. Types'
  BY <1>1, <1>2 DEF Inv, Types
<1>4. Ordered'
  BY <1>2 DEF Inv, Ordered
<1>5. Apart'
  <2>1. Maps' = {grants'} \cup {c.grants : c \in Copies}
    BY <1>2 DEF Maps
  <2>2. PICK new : new = IF issued' = issued THEN {} ELSE {issued'}
    OBVIOUS
  <2>3. /\ issued \in Nat /\ issued' >= issued
        /\ new # {} => issued' > issued /\ new = {issued'}
        /\ \A n : issued' = issued + 1 /\ n = issued' => n \in new
    BY <2>2 DEF Inv, Types
  <2>4. \A b \in Assistants : \A n \in {held'[b].pair, ask'[b].pair, ask'[b].grant} \cap Nat :
          n \in Owns(b) \/ (b = a /\ n \in new)
    BY <1>1, <2>3, OwnParts
  <2>5. ASSUME NEW f \in Maps', NEW g \in DOMAIN f, f[g].by \in Assistants, NEW n \in {g, f[g].pair} \cap Nat
        PROVE  n \in Owns(f[g].by) \/ (f[g].by = a /\ n \in new)
    <3>1. CASE f = grants'
      BY <2>3, <2>5, <3>1
    <3>2. CASE f # grants'
      <4>1. f \in Maps
        BY <2>1, <3>2 DEF Maps
      <4> QED
        BY <2>5, <4>1, OwnMaps
    <3> QED
      BY <3>1, <3>2
  <2> QED
    BY <2>3, <2>4, <2>5, ApartStays DEF Inv
<1>6. \A b \in Assistants : Course(b)'
  BY <1>1 DEF Inv, Course
<1>7. \A b \in Assistants \ upset' : InForce(b)'
  <2> SUFFICES ASSUME NEW b \in Assistants \ upset', b # a PROVE InForce(b)'
    OBVIOUS
  <2>1. InForce(b) /\ ask'[b] = ask[b] /\ held'[b] = held[b]
    BY <1>1 DEF Inv
  <2>2. newest' \in Nat /\ newest' >= newest /\ \A c \in Copies' : c.at \in Nat /\ c \in Copies
    BY <1>2 DEF Inv, Types
  <2> QED
    BY <2>1, <2>2, InForceStays
<1>8. Revoked'
  <2>1. /\ newest' \in Nat /\ newest' >= newest /\ \A c \in Copies' : c.at \in Nat /\ c \in Copies
        /\ version' \in Nat /\ version' >= version /\ issued' >= issued /\ owner' = owner
    BY <1>2 DEF Inv, Types
  <2> QED
    BY <2>1, RevokedStays
<1> QED
  BY <1>3, <1>4, <1>5, <1>6, <1>7, <1>8 DEF Inv

LEMMA SignInAddGrant ==
  ASSUME Inv, NEW a \in Assistants, AddGrant(a)
  PROVE  Inv'
<1>0. /\ issued \in Nat /\ Nil \notin Nat /\ DOMAIN ask = Assistants /\ Record(ask[a]) /\ Course(a)
      /\ GrantMap(grants) /\ grants \in Maps
  BY NilAssumption DEF Inv, Types, Maps
<1>r. PICK r : r = [ask[a] EXCEPT !.grant = issued + 1, !.pair = issued + 1, !.pc = "rotate"]
  OBVIOUS
<1>1. /\ UNCHANGED <<disk, owner, version, newest, held, upset>> /\ ask' = [ask EXCEPT ![a] = r]
      /\ ask[a].pc = "grant" /\ issued' = issued + 1
      /\ grants' = With(grants, issued + 1, [by |-> a, pair |-> Nil])
  BY <1>r DEF AddGrant, saving, Step, Is
<1>2. /\ Record(r) /\ r.pc = "rotate" /\ r.pair = issued + 1 /\ r.grant = issued + 1 /\ r.op = ask[a].op
  <2>1. issued + 1 \in Nat
    BY <1>0
  <2> QED
    BY <1>0, <2>1, <1>r DEF Record, Stages
<1>11. ask[a].op \in {"code", "refresh"} /\ issued' \in Nat
  BY <1>0, <1>1 DEF Course
<1>3. /\ DOMAIN grants' = DOMAIN grants \cup {issued + 1} /\ grants'[issued + 1] = [by |-> a, pair |-> Nil]
      /\ \A g \in DOMAIN grants \ {issued + 1} : grants'[g] = grants[g]
  BY <1>1 DEF With
<1>4. issued + 1 \notin DOMAIN grants
  <2> SUFFICES ASSUME issued + 1 \in DOMAIN grants PROVE FALSE
    OBVIOUS
  <2>1. grants[issued + 1].by \in Assistants /\ issued + 1 \in Nat
    BY <1>0 DEF GrantMap
  <2>2. issued + 1 \in Owns(grants[issued + 1].by)
    BY <1>0, <2>1, OwnMaps
  <2> QED
    BY <1>0, <2>1, <2>2 DEF Inv, Apart
<1>5. GrantMap(grants')
  BY <1>0, <1>3 DEF GrantMap
<1>6. \A g \in DOMAIN grants' : \A n \in {g, grants'[g].pair} \cap Nat :
         \/ n \in Owns(grants'[g].by)
         \/ grants'[g].by = a /\ issued' = issued + 1 /\ n = issued'
  <2> SUFFICES ASSUME NEW g \in DOMAIN grants', NEW n \in {g, grants'[g].pair} \cap Nat,
                      g # issued + 1
               PROVE  n \in Owns(grants'[g].by)
    BY <1>0, <1>1, <1>3
  <2>1. g \in DOMAIN grants /\ grants'[g] = grants[g] /\ grants[g].by \in Assistants
    BY <1>0, <1>3 DEF GrantMap
  <2> QED
    BY <1>0, <2>1, OwnMaps
<1>7. \A b \in Assistants \ {a} : \A p : Has(grants, b, p) => Has(grants', b, p)
  BY <1>3, <1>4 DEF Has
<1>8. Course(a)' /\ (a \notin upset => InForce(a)')
  BY <1>0, <1>1, <1>2, <1>11 DEF Course, InForce
<1>9. \A g \in DOMAIN grants' : g \in DOMAIN grants \/ g > issued
  BY <1>0, <1>3
<1>10. \A n \in {r.pair, r.grant} \cap Nat : n \in Owns(a) \/ (issued' = issued + 1 /\ n = issued')
  BY <1>1, <1>2
<1> QED
  BY <1>0, <1>1, <1>2, <1>5, <1>6, <1>7, <1>8, <1>9, <1>10, <1>11, GrantStep

LEMMA SignInRotate ==
  ASSUME Inv, NEW a \in Assistants, RotateOrFail(a)
  PROVE  Inv'
<1>0. /\ issued \in Nat /\ Nil \notin Nat /\ DOMAIN ask = Assistants /\ Record(ask[a]) /\ Course(a)
      /\ GrantMap(grants) /\ grants \in Maps
  BY NilAssumption DEF Inv, Types, Maps
<1>1. /\ UNCHANGED <<disk, owner, version, newest, held, upset, issued>> /\ ask[a].pc = "rotate"
      /\ grants' = Rotate(a).grants
  BY DEF RotateOrFail, saving, Step, Is
<1>2. /\ ask[a].op \in {"code", "refresh"} /\ ask[a].pair # Nil /\ ask[a].pair \in Nat
      /\ ask[a].pair \in Owns(a)
  BY <1>0, <1>1, OwnParts DEF Course, Record
<1>3. /\ DOMAIN grants' = DOMAIN grants
      /\ \A g \in DOMAIN grants \ {ask[a].grant} : grants'[g] = grants[g]
      /\ ask[a].grant \in DOMAIN grants =>
           grants'[ask[a].grant] = [grants[ask[a].grant] EXCEPT !.pair = ask[a].pair]
  BY <1>1 DEF Rotate
<1>4. ASSUME ask[a].grant \in DOMAIN grants
      PROVE  /\ grants[ask[a].grant].by = a
             /\ grants'[ask[a].grant] = [by |-> a, pair |-> ask[a].pair]
  <2>1. ask[a].grant \in Nat /\ grants[ask[a].grant].by \in Assistants
    BY <1>0, <1>4 DEF GrantMap
  <2>2. ask[a].grant \in Owns(a)
    BY <2>1, OwnParts
  <2>3. grants[ask[a].grant].by = a
    BY <1>0, <1>4, <2>1, <2>2, OneOwner
  <2>4. PICK x : x = grants[ask[a].grant]
    OBVIOUS
  <2>5. x = [by |-> a, pair |-> x.pair]
    BY <1>0, <1>4, <2>3, <2>4 DEF GrantMap
  <2>6. [x EXCEPT !.pair = ask[a].pair] = [by |-> a, pair |-> ask[a].pair]
    BY <2>5
  <2> QED
    BY <1>3, <1>4, <2>3, <2>4, <2>6
<1>5. GrantMap(grants')
  <2> SUFFICES ASSUME NEW g \in DOMAIN grants
               PROVE  /\ grants'[g] = [by |-> grants'[g].by, pair |-> grants'[g].pair]
                      /\ grants'[g].by \in Assistants /\ grants'[g].pair \in Nat \cup {Nil}
    BY <1>0, <1>3 DEF GrantMap
  <2>1. CASE g = ask[a].grant
    BY <1>2, <1>4, <2>1
  <2>2. CASE g # ask[a].grant
    BY <1>0, <1>3, <2>2 DEF GrantMap
  <2> QED
    BY <2>1, <2>2
<1>6. \A g \in DOMAIN grants' : \A n \in {g, grants'[g].pair} \cap Nat : n \in Owns(grants'[g].by)
  <2> SUFFICES ASSUME NEW g \in DOMAIN grants, NEW n \in {g, grants'[g].pair} \cap Nat
               PROVE  n \in Owns(grants'[g].by)
    BY <1>3
  <2>1. grants[g].by \in Assistants
    BY <1>0 DEF GrantMap
  <2>2. CASE g = ask[a].grant
    <3>1. grants'[g].by = a /\ grants'[g].pair = ask[a].pair /\ grants[g].by = a
      BY <1>4, <2>2
    <3>2. g \in Nat => g \in Owns(a)
      BY <1>0, <2>1, <3>1, OwnMaps
    <3> QED
      BY <1>2, <3>1, <3>2
  <2>3. CASE g # ask[a].grant
    <3>1. grants'[g] = grants[g]
      BY <1>3, <2>3
    <3> QED
      BY <1>0, <2>1, <3>1, OwnMaps
  <2> QED
    BY <2>2, <2>3
<1>7. \A b \in Assistants \ {a} : \A p : Has(grants, b, p) => Has(grants', b, p)
  <2> SUFFICES ASSUME NEW b \in Assistants \ {a}, NEW p, NEW g \in DOMAIN grants,
                      grants[g] = [by |-> b, pair |-> p]
               PROVE  Has(grants', b, p)
    BY DEF Has
  <2>1. g # ask[a].grant
    BY <1>4
  <2> QED
    BY <1>3, <2>1 DEF Has
<1>8. CASE ask[a].grant \notin DOMAIN grants
  <2>r. PICK r : r = [ask[a] EXCEPT !.pc = "refused"]
    OBVIOUS
  <2>1. ask' = [ask EXCEPT ![a] = r] /\ ask'[a] = r
    BY <1>0, <1>8, <2>r DEF RotateOrFail, Rotate, Turns
  <2>2. /\ Record(r) /\ r.pc = "refused" /\ r.pair = ask[a].pair /\ r.grant = ask[a].grant
        /\ r.op = ask[a].op
    BY <1>0, <2>r DEF Record, Stages
  <2>3. Course(a)' /\ (a \notin upset => InForce(a)')
    BY <1>2, <2>1, <2>2 DEF Course, InForce
  <2>4. \A n \in {r.pair, r.grant} \cap Nat : n \in Owns(a)
    BY <2>2, OwnParts
  <2> QED
    BY <1>0, <1>1, <1>3, <1>5, <1>6, <1>7, <2>1, <2>2, <2>3, <2>4, GrantStep
<1>9. CASE ask[a].grant \in DOMAIN grants
  <2>r. PICK r : r = [ask[a] EXCEPT !.pc = IF ask[a].op = "code" THEN "used" ELSE "copy"]
    OBVIOUS
  <2>1. ask' = [ask EXCEPT ![a] = r] /\ ask'[a] = r
    BY <1>0, <1>9, <2>r DEF RotateOrFail, Rotate, Step, Saves
  <2>2. /\ Record(r) /\ r.pc \in {"used", "copy"} /\ r.pair = ask[a].pair /\ r.grant = ask[a].grant
        /\ r.op = ask[a].op
    BY <1>0, <2>r DEF Record, Stages
  <2>3. Has(grants', a, ask[a].pair)
    BY <1>3, <1>4, <1>9 DEF Has
  <2>4. Course(a)' /\ (a \notin upset => InForce(a)')
    BY <1>2, <2>1, <2>2, <2>3 DEF Course, InForce, Has
  <2>5. \A n \in {r.pair, r.grant} \cap Nat : n \in Owns(a)
    BY <2>2, OwnParts
  <2> QED
    BY <1>0, <1>1, <1>3, <1>5, <1>6, <1>7, <2>1, <2>2, <2>4, <2>5, GrantStep
<1> QED
  BY <1>8, <1>9

-----------------------------------------------------------------------------
\* Saving the settings, by a request or by the owner.
LEMMA SaveApart ==
  ASSUME Inv, UNCHANGED <<grants, held, issued>>,
         \A b \in Assistants : ask'[b].pair = ask[b].pair /\ ask'[b].grant = ask[b].grant,
         \A c \in Copies' : c \in Copies \/ c.grants = grants
  PROVE  Apart'
<1>1. Maps' \subseteq Maps
  BY DEF Maps
<1>2. issued \in Nat /\ issued' \in Nat /\ issued' >= issued
  BY DEF Inv, Types
<1>3. \A b \in Assistants : \A n \in {held'[b].pair, ask'[b].pair, ask'[b].grant} \cap Nat : n \in Owns(b)
  BY OwnParts
<1>4. \A f \in Maps' : \A g \in DOMAIN f : f[g].by \in Assistants =>
        \A n \in {g, f[g].pair} \cap Nat : n \in Owns(f[g].by)
  BY <1>1, OwnMaps
<1>5. PICK new : new = {}
  OBVIOUS
<1> QED
  BY <1>2, <1>3, <1>4, <1>5, ApartStays DEF Inv

LEMMA SignInCopies ==
  ASSUME Inv, NEW a \in Assistants, CopySettings(a)
  PROVE  Inv'
<1>0. /\ DOMAIN ask = Assistants /\ Record(ask[a]) /\ Course(a) /\ (a \notin upset => InForce(a))
      /\ version \in Nat /\ newest \in Nat /\ issued \in Nat
  BY DEF Inv, Types
<1>r. PICK r : r = [ask[a] EXCEPT !.copy = Copy, !.pc = "write"]
  OBVIOUS
<1>1. /\ ask' = [ask EXCEPT ![a] = r] /\ ask'[a] = r /\ ask[a].pc = "copy" /\ version' = version + 1
      /\ UNCHANGED <<grants, disk, held, owner, issued, newest, upset>>
      /\ \A b \in Assistants \ {a} : ask'[b] = ask[b]
  BY <1>0, <1>r DEF CopySettings, memory, Step, Is
<1>2. /\ Record(r) /\ r.pc = "write" /\ r.pair = ask[a].pair /\ r.grant = ask[a].grant
      /\ r.op = ask[a].op /\ r.copy = Copy
  BY <1>0, <1>r DEF Record, Stages
<1>3. Copy.grants = grants /\ Copy.at = version + 1
  BY DEF Copy
<1>4. Copies' = Copies \cup {Copy}
  BY <1>1, <1>2 DEF Copies
<1>5. version' \in Nat /\ version' >= version
  BY <1>0, <1>1
<1>6. \A c \in Copies' : /\ GrantMap(c.grants) /\ c.at \in Nat /\ c.at <= version'
                         /\ c \in Copies \/ c.grants = grants
  BY <1>0, <1>1, <1>3, <1>4 DEF Inv, Types, Ordered
<1>7. Types'
  BY <1>1, <1>2, <1>5, <1>6 DEF Inv, Types
<1>8. Ordered'
  BY <1>0, <1>1, <1>6 DEF Inv, Ordered
<1>9. Apart'
  BY <1>1, <1>2, <1>6, SaveApart
<1>10. \A b \in Assistants : Course(b)'
  <2>1. Course(a)'
    BY <1>0, <1>1, <1>2 DEF Course
  <2> QED
    BY <1>1, <2>1 DEF Inv, Course
<1>11. ASSUME NEW b \in Assistants \ upset' PROVE InForce(b)'
  <2>0. InForce(b) /\ held'[b] = held[b] /\ newest' \in Nat /\ newest' >= newest
    BY <1>0, <1>1 DEF Inv
  <2>1. CASE b # a
    BY <1>1, <1>6, <2>0, <2>1, InForceStays DEF Has
  <2>2. CASE b = a /\ ask[a].op \notin {"code", "refresh"}
    <3>1. held[a].pair # Nil => Promised(a, held[a].pair, newest)
      BY <2>0, <2>2 DEF InForce
    <3>2. held[a].pair # Nil => Promised(a, held[a].pair, newest)'
      BY <1>1, <1>3, <1>4, <3>1 DEF Promised, Has
    <3> QED
      BY <1>1, <1>2, <2>0, <2>2, <3>2 DEF InForce
  <2>3. CASE b = a /\ ask[a].op \in {"code", "refresh"}
    <3>1. ask[a].pair # Nil /\ Has(grants, a, ask[a].pair)
      BY <1>1, <2>0, <2>3 DEF InForce
    <3>2. /\ Has(grants', a, ask[a].pair)
          /\ \A c \in Copies' : Has(c.grants, a, ask[a].pair) \/ c.at < version + 1
      <4>1. \A c \in Copies : c.at \in Nat /\ c.at <= version
        BY DEF Inv, Types, Ordered
      <4> QED
        BY <1>0, <1>1, <1>3, <1>4, <3>1, <4>1
    <3> QED
      BY <1>1, <1>2, <1>3, <2>3, <3>1, <3>2 DEF InForce, Promised
  <2> QED
    BY <2>1, <2>2, <2>3
<1>12. Revoked'
  BY <1>0, <1>1, <1>5, <1>6, RevokedStays
<1> QED
  BY <1>7, <1>8, <1>9, <1>10, <1>11, <1>12 DEF Inv

LEMMA SignInWrites ==
  ASSUME Inv, NEW a \in Assistants, WriteSettings(a)
  PROVE  Inv'
<1>0. /\ DOMAIN ask = Assistants /\ Record(ask[a]) /\ Course(a) /\ (a \notin upset => InForce(a))
      /\ version \in Nat /\ newest \in Nat /\ issued \in Nat
  BY DEF Inv, Types
<1>r. PICK r : r = [ask[a] EXCEPT !.copy = Nil, !.pc = "answer"]
  OBVIOUS
<1>1. /\ ask' = [ask EXCEPT ![a] = r] /\ ask'[a] = r /\ ask[a].pc = "write"
      /\ disk' = ask[a].copy /\ newest' = IF ask[a].copy.at > newest THEN ask[a].copy.at ELSE newest
      /\ UNCHANGED <<grants, held, owner, issued, version, upset>>
      /\ \A b \in Assistants \ {a} : ask'[b] = ask[b]
  BY <1>0, <1>r DEF WriteSettings, memory, Step, Is, Write
<1>2. /\ Record(r) /\ r.pc = "answer" /\ r.pair = ask[a].pair /\ r.grant = ask[a].grant
      /\ r.op = ask[a].op
  BY <1>0, <1>r DEF Record, Stages
<1>3. ask[a].copy \in Copies
  BY <1>1 DEF Copies
<1>4. Copies' \subseteq Copies
  BY <1>1, <1>2, <1>3 DEF Copies
<1>5. /\ ask[a].copy.at \in Nat /\ ask[a].copy.at <= version
      /\ newest' \in Nat /\ newest' >= newest /\ newest' >= ask[a].copy.at /\ newest' <= version
  BY <1>0, <1>1, <1>3 DEF Inv, Types, Ordered
<1>6. Types'
  BY <1>1, <1>2, <1>4, <1>5 DEF Inv, Types
<1>7. Ordered'
  BY <1>1, <1>4, <1>5 DEF Inv, Ordered
<1>8. Apart'
  BY <1>1, <1>2, <1>4, SaveApart
<1>9. \A b \in Assistants : Course(b)'
  <2>1. Course(a)'
    BY <1>0, <1>1, <1>2 DEF Course
  <2> QED
    BY <1>1, <2>1 DEF Inv, Course
<1>10. ASSUME NEW b \in Assistants \ upset' PROVE InForce(b)'
  <2>0. InForce(b) /\ held'[b] = held[b] /\ \A c \in Copies' : c \in Copies /\ c.at \in Nat
    BY <1>1, <1>4 DEF Inv, Types
  <2>1. CASE b # a
    BY <1>1, <1>5, <2>0, <2>1, InForceStays DEF Has
  <2>2. CASE b = a /\ ask[a].op \notin {"code", "refresh"}
    <3>1. held[a].pair # Nil => Promised(a, held[a].pair, newest)
      BY <2>0, <2>2 DEF InForce
    <3>2. held[a].pair # Nil => Promised(a, held[a].pair, newest)'
      BY <1>0, <1>1, <1>5, <2>0, <3>1 DEF Promised, Has
    <3> QED
      BY <1>1, <1>2, <2>0, <2>2, <3>2 DEF InForce
  <2>3. CASE b = a /\ ask[a].op \in {"code", "refresh"}
    <3>1. ask[a].pair # Nil /\ Promised(a, ask[a].pair, ask[a].copy.at)
      BY <1>1, <2>0, <2>3 DEF InForce
    <3>2. Promised(a, ask[a].pair, newest)'
      <4>1. Has(grants', a, ask[a].pair)
        BY <1>1, <3>1 DEF Promised
      <4>2. \A c \in Copies' : Has(c.grants, a, ask[a].pair) \/ c.at < newest'
        BY <1>5, <2>0, <3>1 DEF Promised
      <4> QED
        BY <1>1, <1>2, <4>1, <4>2 DEF Promised
    <3> QED
      BY <1>1, <1>2, <2>3, <3>1, <3>2 DEF InForce
  <2> QED
    BY <2>1, <2>2, <2>3
<1>11. Revoked'
  BY <1>0, <1>1, <1>4, <1>5, RevokedStays DEF Inv, Types
<1> QED
  BY <1>6, <1>7, <1>8, <1>9, <1>10, <1>11 DEF Inv

-----------------------------------------------------------------------------
\* The steps that are no assistant's: the owner's, the clock's.
LEMMA OwnerStep ==
  ASSUME Inv, UNCHANGED <<ask, held, issued>>, upset \subseteq upset', Record(owner'), GrantMap(grants'),
         \A g \in DOMAIN grants' : g \in DOMAIN grants /\ grants'[g] = grants[g],
         \A b \in Assistants \ upset' : \A p : Has(grants, b, p) => Has(grants', b, p),
         version' \in Nat, newest' \in Nat, newest' >= newest, newest' <= version',
         \A c \in Copies' : /\ c.at \in Nat /\ c.at <= version' /\ GrantMap(c.grants)
                            /\ c \in Copies \/ c.grants = grants,
         Revoked'
  PROVE  Inv'
<1>0. \A c \in Copies' : c.at \in Nat /\ c.at <= version' /\ GrantMap(c.grants)
  OBVIOUS
<1>1. Types'
  BY <1>0 DEF Inv, Types
<1>2. Ordered'
  BY <1>0 DEF Ordered
<1>3. Apart'
  <2>1. PICK new : new = {}
    OBVIOUS
  <2>2. issued \in Nat /\ issued' \in Nat /\ issued' >= issued
    BY DEF Inv, Types
  <2>3. \A b \in Assistants : \A n \in {held'[b].pair, ask'[b].pair, ask'[b].grant} \cap Nat : n \in Owns(b)
    BY OwnParts
  <2>4. ASSUME NEW f \in Maps', NEW g \in DOMAIN f, f[g].by \in Assistants, NEW n \in {g, f[g].pair} \cap Nat
        PROVE  n \in Owns(f[g].by)
    <3>1. CASE f = grants'
      <4>1. grants \in Maps /\ g \in DOMAIN grants /\ grants[g] = f[g]
        BY <2>4, <3>1 DEF Maps
      <4> QED
        BY <2>4, <4>1, OwnMaps
    <3>2. CASE f # grants'
      <4>1. f \in Maps
        BY <3>2 DEF Maps
      <4> QED
        BY <2>4, <4>1, OwnMaps
    <3> QED
      BY <3>1, <3>2
  <2> QED
    BY <2>1, <2>2, <2>3, <2>4, ApartStays DEF Inv
<1>4. \A b \in Assistants : Course(b)'
  BY DEF Inv, Course
<1>5. \A b \in Assistants \ upset' : InForce(b)'
  <2> SUFFICES ASSUME NEW b \in Assistants \ upset' PROVE InForce(b)'
    OBVIOUS
  <2>1. InForce(b)
    BY DEF Inv
  <2>2. held'[b] = held[b] /\ ask'[b] = ask[b] /\ \A p : Has(grants, b, p) => Has(grants', b, p)
    OBVIOUS
  <2>3. \A c \in Copies' : c.at \in Nat /\ (c \in Copies \/ c.grants = grants)
    OBVIOUS
  <2> QED
    BY <2>1, <2>2, <2>3, InForceStays
<1> QED
  BY <1>1, <1>2, <1>3, <1>4, <1>5 DEF Inv

LEMMA SignInRevoke ==
  ASSUME Inv, Revoke
  PROVE  Inv'
<1>0. /\ GrantMap(grants) /\ version \in Nat /\ newest \in Nat /\ newest <= version /\ grants \in Maps
      /\ \A c \in Copies : c.at \in Nat /\ c.at <= version /\ GrantMap(c.grants)
  BY DEF Inv, Types, Ordered, Maps
<1>1. PICK g \in DOMAIN grants :
        /\ grants' = Lacking(grants, {g}) /\ upset' = upset \cup {grants[g].by}
        /\ OwnerCalls([NoAsking EXCEPT !.op = "revoke", !.grant = g])
  BY DEF Revoke
<1>2. /\ UNCHANGED <<disk, version, newest, ask, held, issued>> /\ owner.pc = "idle"
      /\ owner' = Saves([NoAsking EXCEPT !.op = "revoke", !.grant = g])
  BY <1>1 DEF OwnerCalls, saving
<1>3. g \in Nat /\ grants[g].by \in Assistants
  BY <1>0 DEF GrantMap
<1>4. Record(owner') /\ owner'.pc = "copy" /\ owner'.grant = g
  BY <1>2, <1>3 DEF Saves, NoAsking, Record, Stages
<1>5. Copies' = Copies
  BY <1>2, <1>4 DEF Copies
<1>6. g \notin DOMAIN grants' /\ \A h \in DOMAIN grants \ {g} : h \in DOMAIN grants' /\ grants'[h] = grants[h]
  BY <1>1 DEF Lacking
<1>7. \A h \in DOMAIN grants' : h \in DOMAIN grants /\ grants'[h] = grants[h]
  BY <1>1 DEF Lacking
<1>8. GrantMap(grants')
  BY <1>0, <1>7 DEF GrantMap
<1>9. \A b \in Assistants \ upset' : \A p : Has(grants, b, p) => Has(grants', b, p)
  <2> SUFFICES ASSUME NEW b \in Assistants \ upset', NEW p, NEW h \in DOMAIN grants,
                      grants[h] = [by |-> b, pair |-> p]
               PROVE  Has(grants', b, p)
    BY DEF Has
  <2>1. h # g
    BY <1>1
  <2> QED
    BY <1>6, <2>1 DEF Has
<1>10. Revoked'
  <2>1. g <= issued
    <3>1. g \in Owns(grants[g].by)
      BY <1>0, <1>3, OwnMaps
    <3> QED
      BY <1>3, <3>1 DEF Inv, Apart
  <2>2. \A c \in Copies' : c.at < version + 1
    BY <1>0, <1>5
  <2> QED
    BY <1>2, <1>4, <1>6, <2>1, <2>2 DEF Revoked, Over
<1>11. /\ upset \subseteq upset' /\ version' \in Nat /\ newest' \in Nat /\ newest' >= newest
       /\ newest' <= version'
       /\ \A c \in Copies' : /\ c.at \in Nat /\ c.at <= version' /\ GrantMap(c.grants)
                             /\ c \in Copies \/ c.grants = grants
  BY <1>0, <1>1, <1>2, <1>5
<1> QED
  BY <1>2, <1>4, <1>7, <1>8, <1>9, <1>10, <1>11, OwnerStep

LEMMA SignInOwner ==
  ASSUME Inv, Switch \/ OwnerCopies \/ OwnerWrites \/ OwnerAnswered
  PROVE  Inv'
<1>0. /\ GrantMap(grants) /\ version \in Nat /\ newest \in Nat /\ newest <= version /\ issued \in Nat
      /\ Record(owner) /\ (owner.grant \in Nat => owner.grant # Nil) /\ Revoked
      /\ \A c \in Copies : c.at \in Nat /\ c.at <= version /\ GrantMap(c.grants)
  BY NilAssumption DEF Inv, Types, Ordered
<1>1. UNCHANGED <<grants, ask, held, issued, upset>>
  BY DEF Switch, OwnerCopies, OwnerWrites, OwnerAnswered, OwnerCalls, memory
<1>2. /\ GrantMap(grants') /\ \A g \in DOMAIN grants' : g \in DOMAIN grants /\ grants'[g] = grants[g]
      /\ \A b \in Assistants \ upset' : \A p : Has(grants, b, p) => Has(grants', b, p)
      /\ upset \subseteq upset'
  BY <1>0, <1>1 DEF Has
<1>3. CASE Switch
  <2>1. /\ UNCHANGED <<disk, version, newest>> /\ owner.pc = "idle"
        /\ owner' = Saves([NoAsking EXCEPT !.op = "switch"])
    BY <1>3 DEF Switch, OwnerCalls, saving
  <2>2. Record(owner') /\ owner'.pc = "copy" /\ owner'.grant = Nil
    BY <2>1 DEF Saves, NoAsking, Record, Stages
  <2>3. Copies' = Copies
    BY <1>1, <2>1, <2>2 DEF Copies
  <2>4. Revoked'
    BY <2>2 DEF Revoked
  <2> QED
    BY <1>0, <1>1, <1>2, <2>1, <2>2, <2>3, <2>4, OwnerStep
<1>4. CASE OwnerCopies
  <2>1. /\ UNCHANGED <<disk, newest>> /\ owner.pc = "copy" /\ version' = version + 1
        /\ owner' = [owner EXCEPT !.copy = Copy, !.pc = "write"]
    BY <1>4 DEF OwnerCopies
  <2>2. Record(owner') /\ owner'.pc = "write" /\ owner'.grant = owner.grant /\ owner'.copy = Copy
    BY <1>0, <2>1 DEF Record, Stages
  <2>3. Copies' = Copies \cup {Copy} /\ Copy.grants = grants /\ Copy.at = version + 1
    BY <1>1, <2>1, <2>2 DEF Copies, Copy
  <2>4. version' \in Nat /\ newest <= version' /\
        \A c \in Copies' : /\ c.at \in Nat /\ c.at <= version' /\ GrantMap(c.grants)
                           /\ c \in Copies \/ c.grants = grants
    BY <1>0, <2>1, <2>3
  <2>5. Revoked'
    <3> SUFFICES ASSUME owner.grant # Nil PROVE Over(owner.grant, owner.copy.at)'
      BY <2>2 DEF Revoked
    <3>1. Over(owner.grant, version + 1)
      BY <1>0, <2>1 DEF Revoked
    <3>2. /\ owner.grant \notin DOMAIN grants' /\ owner.grant <= issued'
          /\ \A c \in Copies' : owner.grant \in DOMAIN c.grants => c.at < version + 1
      BY <1>1, <2>3, <3>1 DEF Over
    <3> QED
      BY <2>2, <2>3, <3>2 DEF Over
  <2> QED
    BY <1>0, <1>1, <1>2, <2>1, <2>2, <2>4, <2>5, OwnerStep
<1>5. CASE OwnerWrites
  <2>1. /\ owner.pc = "write" /\ owner' = [owner EXCEPT !.pc = "answer"] /\ version' = version
        /\ disk' = owner.copy /\ newest' = IF owner.copy.at > newest THEN owner.copy.at ELSE newest
    BY <1>5 DEF OwnerWrites, Write
  <2>2. Record(owner') /\ owner'.pc = "answer" /\ owner'.grant = owner.grant
    BY <1>0, <2>1 DEF Record, Stages
  <2>3. owner.copy \in Copies
    BY <2>1 DEF Copies
  <2>4. Copies' \subseteq Copies
    BY <1>1, <2>1, <2>2, <2>3 DEF Copies
  <2>5. /\ owner.copy.at \in Nat /\ newest' \in Nat /\ newest' >= newest
        /\ newest' >= owner.copy.at /\ newest' <= version'
    BY <1>0, <2>1, <2>3
  <2>6. Revoked'
    <3> SUFFICES ASSUME owner.grant # Nil PROVE Over(owner.grant, newest)'
      BY <2>2 DEF Revoked
    <3>1. Over(owner.grant, owner.copy.at)
      BY <1>0, <2>1 DEF Revoked
    <3>2. /\ owner.grant \notin DOMAIN grants' /\ owner.grant <= issued'
          /\ \A c \in Copies' : owner.grant \in DOMAIN c.grants => c.at < newest'
      BY <1>0, <1>1, <2>4, <2>5, <3>1 DEF Over
    <3> QED
      BY <2>2, <3>2 DEF Over
  <2>7. \A c \in Copies' : /\ c.at \in Nat /\ c.at <= version' /\ GrantMap(c.grants)
                           /\ c \in Copies \/ c.grants = grants
    BY <1>0, <2>1, <2>4
  <2> QED
    BY <1>0, <1>1, <1>2, <2>1, <2>2, <2>5, <2>6, <2>7, OwnerStep
<1>6. CASE OwnerAnswered
  <2>1. /\ UNCHANGED <<disk, version, newest>> /\ owner.pc = "answer"
        /\ owner' = [NoAsking EXCEPT !.grant = owner.grant]
    BY <1>6 DEF OwnerAnswered, saving
  <2>2. Record(owner') /\ owner'.pc = "idle" /\ owner'.grant = owner.grant
    BY <1>0, <2>1 DEF Record, Stages, NoAsking
  <2>3. Copies' = Copies
    BY <1>1, <2>1, <2>2 DEF Copies
  <2>4. Revoked'
    BY <1>0, <1>1, <2>1, <2>2, <2>3 DEF Revoked, Over
  <2> QED
    BY <1>0, <1>1, <1>2, <2>1, <2>2, <2>3, <2>4, OwnerStep
<1> QED
  BY <1>3, <1>4, <1>5, <1>6

\* A step that changes no more than the codes, the clients or nothing.
LEMMA SignInQuiet ==
  ASSUME Inv, UNCHANGED <<grants, saving, ask, held, owner, issued, upset>>
  PROVE  Inv'
<1>1. Copies' = Copies /\ UNCHANGED <<disk, version, newest>>
  BY DEF Copies, saving
<1>2. /\ GrantMap(grants') /\ version \in Nat /\ newest \in Nat /\ newest <= version /\ issued \in Nat
      /\ Record(owner)
      /\ \A c \in Copies : c.at \in Nat /\ c.at <= version /\ GrantMap(c.grants)
  BY DEF Inv, Types, Ordered
<1>3. Revoked'
  BY <1>1 DEF Inv, Revoked, Over
<1>4. \A b \in Assistants \ upset' : \A p : Has(grants, b, p) => Has(grants', b, p)
  BY DEF Has
<1> QED
  BY <1>1, <1>2, <1>3, <1>4, OwnerStep

\* A restart goes on from the file: whoever had no request under way, when the file was not
\* Torn, has there what the last answer promised.
LEMMA SignInRestart ==
  ASSUME Inv, Restart
  PROVE  Inv'
<1>0. /\ GrantMap(disk.grants) /\ disk.at \in Nat /\ newest \in Nat /\ issued \in Nat /\ Record(owner)
      /\ Nil \notin Nat \cup {"code", "refresh"} /\ disk \in Copies /\ Revoked
  BY NilAssumption DEF Inv, Types, Copies
<1>1. /\ grants' = disk.grants /\ disk' = disk /\ version' = disk.at /\ newest' = disk.at
      /\ held' = held /\ issued' = issued /\ ask' = [a \in Assistants |-> NoAsking]
      /\ \A a \in Assistants : ask'[a] = NoAsking
      /\ owner' = [NoAsking EXCEPT !.grant = IF owner.pc = "idle" /\ ~Torn THEN owner.grant ELSE Nil]
      /\ \A a \in Assistants \ upset' : a \notin upset /\ ask[a].pc = "idle" /\ ~Torn
  BY DEF Restart, Is
<1>2. NoAsking.pc = "idle" /\ NoAsking.op = Nil /\ NoAsking.pair = Nil /\ NoAsking.grant = Nil
  BY DEF NoAsking
<1>3. /\ Record(NoAsking) /\ Record(owner') /\ owner'.pc = "idle"
      /\ owner'.grant = IF owner.pc = "idle" /\ ~Torn THEN owner.grant ELSE Nil
  BY <1>0, <1>1 DEF Record, NoAsking, Stages
<1>4. Copies' = {disk}
  BY <1>1, <1>2, <1>3 DEF Copies
<1>5. Types'
  BY <1>0, <1>1, <1>3, <1>4 DEF Inv, Types
<1>6. Ordered'
  BY <1>0, <1>1, <1>4 DEF Ordered
<1>7. Apart'
  <2>1. Maps' \subseteq Maps
    BY <1>0, <1>1, <1>4 DEF Maps
  <2>2. PICK new : new = {}
    OBVIOUS
  <2>3. \A b \in Assistants : \A n \in {held'[b].pair, ask'[b].pair, ask'[b].grant} \cap Nat : n \in Owns(b)
    BY <1>0, <1>1, <1>2, OwnParts
  <2>4. \A f \in Maps' : \A g \in DOMAIN f : f[g].by \in Assistants =>
          \A n \in {g, f[g].pair} \cap Nat : n \in Owns(f[g].by)
    BY <2>1, OwnMaps
  <2>5. issued \in Nat /\ issued' \in Nat /\ issued' >= issued
    BY <1>0, <1>1
  <2> QED
    BY <2>2, <2>3, <2>4, <2>5, ApartStays DEF Inv
<1>8. \A b \in Assistants : Course(b)'
  BY <1>0, <1>1, <1>2 DEF Course
<1>9. ASSUME NEW b \in Assistants \ upset' PROVE InForce(b)'
  <2>1. InForce(b) /\ ask[b].pc = "idle" /\ ~Torn /\ ask[b].op \notin {"code", "refresh"}
    BY <1>1 DEF Inv, Course
  <2>2. held[b].pair # Nil => Has(disk.grants, b, held[b].pair)
    <3>1. held[b].pair # Nil => Has(disk.grants, b, held[b].pair) \/ disk.at < newest
      BY <1>0, <2>1 DEF InForce, Promised
    <3> QED
      BY <1>0, <2>1, <3>1 DEF Torn
  <2>3. held[b].pair # Nil => Promised(b, held[b].pair, newest)'
    BY <1>1, <1>4, <2>2 DEF Promised
  <2> QED
    BY <1>0, <1>1, <1>2, <2>3 DEF InForce
<1>10. Revoked'
  <2> SUFFICES ASSUME owner'.grant # Nil PROVE Over(owner.grant, newest)'
    BY <1>3 DEF Revoked
  <2>1. owner.pc = "idle" /\ ~Torn /\ owner'.grant = owner.grant
    BY <1>3
  <2>2. Over(owner.grant, newest)
    BY <1>0, <2>1 DEF Revoked
  <2>3. owner.grant \notin DOMAIN disk.grants
    BY <1>0, <2>1, <2>2 DEF Over, Torn
  <2> QED
    BY <1>1, <1>4, <2>1, <2>2, <2>3 DEF Over
<1> QED
  BY <1>5, <1>6, <1>7, <1>8, <1>9, <1>10 DEF Inv

-----------------------------------------------------------------------------
LEMMA SignInStep ==
  ASSUME Inv, [SignInNext]_signInVars
  PROVE  Inv'
<1>1. ASSUME NEW a \in Assistants, ServeAssistant(a) PROVE Inv'
  BY <1>1, SignInBegins, SignInGoesOn, SignInAddGrant, SignInRotate, SignInCopies, SignInWrites DEF ServeAssistant
<1>2. CASE Owner
  BY <1>2, SignInRevoke, SignInOwner DEF Owner
<1>3. CASE Expire \/ DayPasses \/ UNCHANGED signInVars
  <2>1. UNCHANGED <<grants, saving, ask, held, owner, issued, upset>>
    BY <1>3 DEF Expire, DayPasses, signInVars, memory, saving
  <2> QED
    BY <2>1, SignInQuiet
<1>4. CASE Restart
  BY <1>4, SignInRestart
<1> QED
  BY <1>1, <1>2, <1>3, <1>4 DEF SignInNext

LEMMA SignInInvariant == SignInSpec => []Inv
<1>1. SignInInit => Inv
  BY SignInStarts
<1>2. Inv /\ [SignInNext]_signInVars => Inv'
  BY SignInStep
<1> QED
  BY <1>1, <1>2, PTL DEF SignInSpec

\* Whoever was answered last, was not revoked and lost no answer holds a pair that finds its
\* grant, in memory and, unless an older copy of the settings was written over a newer one,
\* in the file that a restart reads: whatever the requests, saves, switches and restarts, for
\* any number of assistants.
THEOREM HeldPairsWork == SignInSpec => []HeldPairWorks
<1>1. Inv => HeldPairWorks
  <2> SUFFICES ASSUME Inv, NEW a \in Assistants \ upset, held[a].pair # Nil, Is(a, "idle")
               PROVE  /\ Found(held[a].pair) # {}
                      /\ Torn \/ \E g \in DOMAIN disk.grants : disk.grants[g].pair = held[a].pair
    BY DEF HeldPairWorks
  <2>1. Promised(a, held[a].pair, newest)
    BY DEF Inv, Course, InForce, Is
  <2>2. Found(held[a].pair) # {}
    BY <2>1 DEF Promised, Has, Found
  <2>3. disk \in Copies /\ disk.at \in Nat /\ newest \in Nat
    BY DEF Inv, Types, Copies
  <2>4. Torn \/ Has(disk.grants, a, held[a].pair)
    BY <2>1, <2>3 DEF Promised, Torn
  <2> QED
    BY <2>2, <2>4 DEF Has
<1> QED
  BY <1>1, SignInInvariant, PTL

\* Once the owner's revocation is answered the grant is in no memory, whatever refresh was
\* under way, and in no file that a restart reads, unless an older copy was written last.
THEOREM RevokedStaysOver == SignInSpec => []RevokedIsOver
<1>1. Inv => RevokedIsOver
  BY DEF Inv, Revoked, Over, RevokedIsOver
<1> QED
  BY <1>1, SignInInvariant, PTL

\* Both of these, as the run checks them.
THEOREM TokensAreHeld == SignInSpec => []TokensHold
<1>1. HeldPairWorks /\ RevokedIsOver => TokensHold
  BY DEF TokensHold
<1> QED
  BY <1>1, HeldPairsWork, RevokedStaysOver, PTL

-----------------------------------------------------------------------------
\* What assistants do with their tokens: whatever a request is about to do, it may do by what its
\* token said at some moment since the request came in.

CallParts == {"pc", "by", "readonly", "tool", "args", "limit", "todo", "owner", "detached", "url"}
Answerable(r) == r = [f \in CallParts |-> r[f]]

\* What a request may still do, by rows lv, limits hd and what these covered.
Entitled(r, lv, hd, rc) ==
  /\ r.pc \in {"allowed", "scoped", "changing", "resolved", "target"} =>
       /\ r.tool \in DOMAIN get_tools
       /\ ~get_tools[r.tool].reads => get_tools[r.tool].area \in lv
  /\ r.pc \in {"allowed", "scoped", "resolved", "target"} => r.args \subseteq lv
  /\ r.pc \in {"scoped", "changing", "resolved", "target"} => r.limit \in hd
  /\ r.pc = "changing" => r.todo \subseteq rc /\ r.tool \in {"recheck_watches", "pause_watches"}
  /\ r.pc \in {"resolved", "target"} => r.owner \in rc

Covered(done, said, lv, rc) == /\ \A e \in done : e[1] \in lv /\ e[2] \in rc
                               /\ said \subseteq rc

\* The ghosts follow the token.
Followed(c) == /\ Writable(call[c].by, call[c].readonly) \subseteq levels[c]
               /\ token[call[c].by].tags \in had[c]
               /\ \A l \in had[c] : Targets(l) \subseteq reach[c]

Entitles(c) ==
  /\ call[c].pc = "idle" => did[c] = {} /\ told[c] = {}
  /\ call[c].pc # "idle" => /\ Followed(c)
                            /\ Entitled(call[c], levels[c], had[c], reach[c])
  /\ Covered(did[c], told[c], levels[c], reach[c])

CallShape == /\ call = [c \in Callers |-> call[c]]
             /\ did = [c \in Callers |-> did[c]]
             /\ told = [c \in Callers |-> told[c]]
             /\ \A c \in Callers : Answerable(call[c])

AssistInv == CallShape /\ \A c \in Callers : Entitles(c)

-----------------------------------------------------------------------------

\* A tool is of one of the areas, and so are its arguments.
LEMMA ToolAreas ==
  ASSUME NEW n \in DOMAIN get_tools
  PROVE  get_tools[n].area \in Areas /\ get_tools[n].args \subseteq Areas
<1>1. CASE n \in DOMAIN PluginTools
  BY <1>1 DEF get_tools, PluginTools, Tool, Areas
<1>2. CASE n \notin DOMAIN PluginTools
  <2>1. n \in DOMAIN TOOLS /\ get_tools[n] = TOOLS[n]
    BY <1>2 DEF get_tools
  <2>. QED  BY <2>1 DEF TOOLS, Tool, Areas
<1>. QED  BY <1>1, <1>2

\* No plugin takes the name of a built-in tool.
LEMMA BuiltIn ==
  ASSUME NEW n \in DOMAIN TOOLS
  PROVE  n \notin DOMAIN PluginTools /\ n \in DOMAIN get_tools /\ get_tools[n] = TOOLS[n]
<1>1. n \notin DOMAIN PluginTools
  BY DEF PluginTools, Registered, WellFormed
<1>. QED  BY <1>1 DEF get_tools

\* The rows of the tools that change something.
LEMMA Rows ==
  /\ \A n \in {"pause_watches", "recheck_watches", "update_watch", "delete_watch",
               "clear_history"} : ~get_tools[n].reads /\ get_tools[n].area = "monitors"
  /\ \A n \in {"create_tag", "update_tag", "delete_tag"} :
       ~get_tools[n].reads /\ get_tools[n].area = "tags"
  /\ \A n \in {"add_notification", "remove_notification"} :
       ~get_tools[n].reads /\ get_tools[n].area = "notifications"
<1>1. ASSUME NEW n \in {"pause_watches", "recheck_watches", "update_watch", "delete_watch",
                        "clear_history", "create_tag", "update_tag", "delete_tag",
                        "add_notification", "remove_notification"}
      PROVE  get_tools[n] = TOOLS[n]
  <2>1. n \in DOMAIN TOOLS  BY DEF TOOLS
  <2>. QED  BY <2>1, BuiltIn
<1>. QED  BY <1>1 DEF TOOLS, Tool

LEMMA PluginRows ==
  ASSUME NEW n \in DOMAIN PluginTools
  PROVE  get_tools[n].area = "monitors"
BY DEF get_tools, PluginTools, Tool

\* What the arguments select is among what a limit covers.
LEMMA SelectedIsCovered ==
  ASSUME NEW l, NEW ws \in Selections(l)
  PROVE  ws \subseteq SeenWith(l)
BY DEF Selections, SeenWith

LEMMA SeenIsCovered ==
  ASSUME NEW l
  PROVE  /\ SeenWith(l) \subseteq Targets(l) /\ GroupsWith(l) \subseteq Targets(l)
         /\ l = {} => Global \in Targets(l)
BY DEF Targets

\* A request that was let in may do what it asks for.
LEMMA AllowedIsWritable ==
  ASSUME NEW t, NEW readonly, NEW n \in DOMAIN get_tools, NEW args \in SUBSET get_tools[n].args,
         tool_allowed(permissions(token[t].grid, readonly), n),
         blocked_arguments(permissions(token[t].grid, readonly), args) = {}
  PROVE  /\ ~get_tools[n].reads => get_tools[n].area \in Writable(t, readonly)
         /\ args \subseteq Writable(t, readonly)
BY ToolAreas DEF tool_allowed, blocked_arguments, Writable

-----------------------------------------------------------------------------

\* While it is under way a request's ghosts only grow, and follow the token.
LEMMA GhostsGrow ==
  ASSUME Remember, NEW c \in Callers, call'[c].pc # "idle"
  PROVE  /\ levels[c] \subseteq levels'[c]
         /\ had[c] \subseteq had'[c]
         /\ reach[c] \subseteq reach'[c]
         /\ Followed(c)'
<1>1. levels'[c] = levels[c] \cup Writable(call[c].by, call[c].readonly)'
  BY DEF Remember, Since
<1>2. had'[c] = had[c] \cup {(token[call[c].by].tags)'}
  BY DEF Remember, Since
<1>3. reach'[c] = reach[c] \cup UNION {Targets(l)' : l \in had'[c]}
  BY DEF Remember, Since
<1>4. \A l \in had'[c] : Targets(l)' \subseteq reach'[c]
  BY <1>3
<1>. QED  BY <1>1, <1>2, <1>3, <1>4 DEF Followed

LEMMA EntitledStays ==
  ASSUME NEW r, NEW lv, NEW hd, NEW rc, NEW lw, NEW hw, NEW rw, Entitled(r, lv, hd, rc),
         lv \subseteq lw, hd \subseteq hw, rc \subseteq rw
  PROVE  Entitled(r, lw, hw, rw)
BY DEF Entitled

\* Where a request gets to is what it is entitled to, by what it could do before.
LEMMA Lands ==
  ASSUME Remember, NEW c \in Callers,
         call'[c].pc = "idle" => did'[c] = {} /\ told'[c] = {},
         call'[c].pc # "idle" => /\ Entitled(call'[c], levels[c], had[c], reach[c])
                                 /\ Covered(did'[c], told'[c], levels[c], reach[c])
  PROVE  Entitles(c)'
<1>1. CASE call'[c].pc = "idle"
  BY <1>1 DEF Entitles, Covered
<1>2. CASE call'[c].pc # "idle"
  <2>1. /\ levels[c] \subseteq levels'[c] /\ had[c] \subseteq had'[c]
        /\ reach[c] \subseteq reach'[c] /\ Followed(c)'
    BY <1>2, GhostsGrow
  <2>2. Entitled(call'[c], levels'[c], had'[c], reach'[c])
    BY <1>2, <2>1, EntitledStays
  <2>3. Covered(did'[c], told'[c], levels'[c], reach'[c])
    BY <1>2, <2>1 DEF Covered
  <2>. QED  BY <1>2, <2>1, <2>2, <2>3 DEF Entitles
<1>. QED  BY <1>1, <1>2

\* The same request, its list of URLs perhaps nobody's any more.
Alike(d) == /\ Answerable(call'[d])
            /\ call'[d].pc = call[d].pc /\ call'[d].tool = call[d].tool
            /\ call'[d].args = call[d].args /\ call'[d].limit = call[d].limit
            /\ call'[d].todo = call[d].todo /\ call'[d].owner = call[d].owner
            /\ did'[d] = did[d] /\ told'[d] = told[d]

LEMMA OthersStay ==
  ASSUME Remember, NEW d \in Callers, Entitles(d), Alike(d)
  PROVE  Entitles(d)'
<1>1. call'[d].pc # "idle" => Entitled(call'[d], levels[d], had[d], reach[d])
  BY DEF Entitles, Entitled, Alike
<1>2. /\ Covered(did'[d], told'[d], levels[d], reach[d])
      /\ call'[d].pc = "idle" => did'[d] = {} /\ told'[d] = {}
  BY DEF Entitles, Alike
<1>. QED  BY <1>1, <1>2, Lands

Shapes == /\ call' = [c \in Callers |-> call'[c]]
          /\ did' = [c \in Callers |-> did'[c]]
          /\ told' = [c \in Callers |-> told'[c]]

\* A step of one request that leaves the others as they are.
LEMMA RequestTurns ==
  ASSUME AssistInv, Remember, Shapes, NEW c \in Callers, NEW q, Answerable(q), call'[c] = q,
         \A d \in Callers \ {c} : Alike(d),
         q.pc = "idle" => did'[c] = {} /\ told'[c] = {},
         q.pc # "idle" => /\ Entitled(q, levels[c], had[c], reach[c])
                          /\ Covered(did'[c], told'[c], levels[c], reach[c])
  PROVE  AssistInv'
<1>1. Entitles(c)'  BY Lands
<1>2. ASSUME NEW d \in Callers \ {c} PROVE Entitles(d)'
  BY <1>2, OthersStay DEF AssistInv
<1>3. ASSUME NEW d \in Callers PROVE Entitles(d)' /\ Answerable(call'[d])
  BY <1>1, <1>2 DEF Alike
<1>. QED  BY <1>3 DEF AssistInv, CallShape, Shapes

\* Only this request did or told something.
Alone(c) == /\ did' = [d \in Callers |-> IF d = c THEN did'[c] ELSE did[d]]
            /\ told' = [d \in Callers |-> IF d = c THEN told'[c] ELSE told[d]]

LEMMA AloneWhen ==
  ASSUME CallShape, NEW c \in Callers
  PROVE  /\ UNCHANGED <<did, told>> => Alone(c)
         /\ \A what : Does(c, what) /\ told' = told => Alone(c) /\ did'[c] = did[c] \cup what
         /\ \A ws : Tells(c, ws) /\ did' = did => Alone(c) /\ told'[c] = told[c] \cup ws
BY DEF CallShape, Alone, Does, Tells

\* The common form of such a step.
LEMMA Steps ==
  ASSUME AssistInv, Remember, NEW c \in Callers, NEW q, Answerable(q), Alone(c),
         call' = [call EXCEPT ![c] = q],
         q.pc = "idle" => did'[c] = {} /\ told'[c] = {},
         q.pc # "idle" => /\ Entitled(q, levels[c], had[c], reach[c])
                          /\ Covered(did'[c], told'[c], levels[c], reach[c])
  PROVE  AssistInv'
<1>0. CallShape  BY DEF AssistInv
<1>1. call' = [d \in Callers |-> IF d = c THEN q ELSE call[d]]
  BY <1>0 DEF CallShape
<1>2. Shapes /\ call'[c] = q
  BY <1>1 DEF Shapes, Alone
<1>3. \A d \in Callers \ {c} : Alike(d)
  BY <1>0, <1>1 DEF Alike, CallShape, Alone
<1>. QED  BY <1>2, <1>3, RequestTurns

-----------------------------------------------------------------------------
\* A request has all its parts.

LEMMA NoCallShape == Answerable(NoCall) /\ NoCall.pc = "idle"
<1>. DEFINE any == CHOOSE t \in Tokens : TRUE
<1>1. NoCall = [pc |-> "idle", by |-> any, readonly |-> FALSE, tool |-> "none", args |-> {},
                limit |-> {}, todo |-> {}, owner |-> Global, detached |-> FALSE, url |-> 0]
  BY DEF NoCall
<1>. HIDE DEF any
<1>. QED  BY <1>1 DEF Answerable, CallParts

LEMMA AnsweredShape ==
  ASSUME NEW c
  PROVE  Answerable(AnsweredCall(c)) /\ AnsweredCall(c).pc = "answered"
BY NoCallShape DEF AnsweredCall, Answerable, CallParts

\* What a request knows, and what it may do with it.

LEMMA Holds ==
  ASSUME AssistInv, NEW c \in Callers
  PROVE  /\ Answerable(call[c]) /\ Entitles(c) /\ CallShape
         /\ Covered(did[c], told[c], levels[c], reach[c])
         /\ call[c].pc # "idle" => Followed(c) /\ Entitled(call[c], levels[c], had[c], reach[c])
BY DEF AssistInv, Entitles, CallShape

\* What its limit covers is within its reach.
LEMMA LimitReach ==
  ASSUME AssistInv, NEW c \in Callers,
         call[c].pc \in {"scoped", "changing", "resolved", "target"}
  PROVE  /\ call[c].limit \in had[c]
         /\ SeenWith(call[c].limit) \subseteq reach[c]
         /\ GroupsWith(call[c].limit) \subseteq reach[c]
         /\ Targets(call[c].limit) \subseteq reach[c]
         /\ call[c].limit = {} => Global \in reach[c]
<1>1. Followed(c) /\ call[c].limit \in had[c]
  BY Holds DEF Entitled
<1>2. Targets(call[c].limit) \subseteq reach[c]
  BY <1>1 DEF Followed
<1>. QED  BY <1>1, <1>2, SeenIsCovered

\* A call that is answered: nothing more is asked of it.
LEMMA AnswersCall ==
  ASSUME AssistInv, Remember, NEW c \in Callers, call[c].pc # "idle", Closes(c), Alone(c),
         Covered(did'[c], told'[c], levels[c], reach[c])
  PROVE  AssistInv'
<1>1. Entitled(AnsweredCall(c), levels[c], had[c], reach[c])
  BY AnsweredShape DEF Entitled
<1>2. call' = [call EXCEPT ![c] = AnsweredCall(c)]
  BY DEF Closes
<1>. HIDE DEF AnsweredCall
<1>. QED  BY <1>1, <1>2, AnsweredShape, Steps

\* It was told of what is in its reach, or changed what is, in a row it could write to.
LEMMA ToldInReach ==
  ASSUME AssistInv, Remember, NEW c \in Callers, call[c].pc # "idle", Closes(c), did' = did,
         NEW ws, ws \subseteq reach[c], Tells(c, ws)
  PROVE  AssistInv'
<1>1. CallShape /\ Covered(did[c], told[c], levels[c], reach[c])
  BY Holds
<1>2. Alone(c) /\ told'[c] = told[c] \cup ws
  BY <1>1, AloneWhen
<1>3. Covered(did'[c], told'[c], levels[c], reach[c])
  BY <1>1, <1>2 DEF Covered
<1>. QED  BY <1>2, <1>3, AnswersCall

LEMMA DoneInReach ==
  ASSUME AssistInv, Remember, NEW c \in Callers, call[c].pc # "idle", Closes(c), told' = told,
         NEW what, \A e \in what : e[1] \in levels[c] /\ e[2] \in reach[c], Does(c, what)
  PROVE  AssistInv'
<1>1. CallShape /\ Covered(did[c], told[c], levels[c], reach[c])
  BY Holds
<1>2. Alone(c) /\ did'[c] = did[c] \cup what
  BY <1>1, AloneWhen
<1>3. Covered(did'[c], told'[c], levels[c], reach[c])
  BY <1>1, <1>2 DEF Covered
<1>. QED  BY <1>2, <1>3, AnswersCall

LEMMA NothingDone ==
  ASSUME AssistInv, Remember, NEW c \in Callers, call[c].pc # "idle", Closes(c), told' = told,
         did' = did
  PROVE  AssistInv'
<1>1. CallShape /\ Covered(did[c], told[c], levels[c], reach[c])
  BY Holds
<1>2. Alone(c)
  BY <1>1, AloneWhen
<1>. QED  BY <1>1, <1>2, AnswersCall

\* The row of a tool that changes something is one the request could write to.
LEMMA WritesItsRow ==
  ASSUME AssistInv, NEW c \in Callers,
         call[c].pc \in {"allowed", "scoped", "changing", "resolved", "target"}
  PROVE  /\ call[c].tool \in DOMAIN get_tools
         /\ ~get_tools[call[c].tool].reads => get_tools[call[c].tool].area \in levels[c]
BY Holds DEF Entitled

-----------------------------------------------------------------------------
\* The steps of a request up to its handler.

LEMMA ArriveStep ==
  ASSUME AssistInv, Remember, NEW c \in Callers, Arrive(c)
  PROVE  AssistInv'
<1>1. PICK t \in StillFound, readonly \in BOOLEAN :
        call' = [call EXCEPT ![c] = [NoCall EXCEPT !.pc = "message", !.by = t,
                                                   !.readonly = readonly]]
  BY DEF Arrive
<1>. DEFINE asks == [NoCall EXCEPT !.pc = "message", !.by = t, !.readonly = readonly]
<1>2. call' = [call EXCEPT ![c] = asks]
  BY <1>1
<1>3. Answerable(asks) /\ asks.pc = "message"
  BY NoCallShape DEF Answerable, CallParts
<1>. HIDE DEF asks
<1>4. did' = did /\ told' = told /\ Covered(did[c], told[c], levels[c], reach[c]) /\ CallShape
  BY Holds DEF Arrive
<1>5. Entitled(asks, levels[c], had[c], reach[c])
  BY <1>3 DEF Entitled
<1>. QED  BY <1>2, <1>3, <1>4, <1>5, AloneWhen, Steps

LEMMA MessageStep ==
  ASSUME AssistInv, Remember, NEW c \in Callers, Message(c)
  PROVE  AssistInv'
<1>0. /\ call[c].pc = "message" /\ did' = did /\ told' = told
      /\ Covered(did[c], told[c], levels[c], reach[c]) /\ Followed(c)
      /\ Answerable(call[c]) /\ CallShape
  BY Holds DEF Message
<1>1. PICK name \in DOMAIN get_tools : \E args \in SUBSET get_tools[name].args :
        LET perms == permissions(token[call[c].by].grid, call[c].readonly)
        IN IF tool_allowed(perms, name) /\ blocked_arguments(perms, args) = {}
           THEN call' = [call EXCEPT ![c].pc = "allowed", ![c].tool = name, ![c].args = args]
           ELSE Closes(c)
  BY DEF Message
<1>4. PICK args \in SUBSET get_tools[name].args :
        LET perms == permissions(token[call[c].by].grid, call[c].readonly)
        IN IF tool_allowed(perms, name) /\ blocked_arguments(perms, args) = {}
           THEN call' = [call EXCEPT ![c].pc = "allowed", ![c].tool = name, ![c].args = args]
           ELSE Closes(c)
  BY <1>1
<1>2. CASE Closes(c)
  BY <1>0, <1>2, NothingDone
<1>3. CASE /\ tool_allowed(permissions(token[call[c].by].grid, call[c].readonly), name)
           /\ blocked_arguments(permissions(token[call[c].by].grid, call[c].readonly), args) = {}
           /\ call' = [call EXCEPT ![c].pc = "allowed", ![c].tool = name, ![c].args = args]
  <2>. DEFINE asks == [call[c] EXCEPT !.pc = "allowed", !.tool = name, !.args = args]
  <2>1. call' = [call EXCEPT ![c] = asks]
    BY <1>0, <1>3 DEF CallShape
  <2>2. /\ Answerable(asks) /\ asks.pc = "allowed" /\ asks.tool = name /\ asks.args = args
    BY <1>0 DEF Answerable, CallParts
  <2>. HIDE DEF asks
  <2>3. /\ ~get_tools[name].reads => get_tools[name].area \in Writable(call[c].by, call[c].readonly)
        /\ args \subseteq Writable(call[c].by, call[c].readonly)
    BY <1>3, AllowedIsWritable
  <2>4. Entitled(asks, levels[c], had[c], reach[c])
    BY <1>0, <2>2, <2>3 DEF Entitled, Followed
  <2>. QED  BY <1>0, <2>1, <2>2, <2>4, AloneWhen, Steps
<1>. QED  BY <1>2, <1>3, <1>4

LEMMA ScopedStep ==
  ASSUME AssistInv, Remember, NEW c \in Callers, Scoped(c)
  PROVE  AssistInv'
<1>0. /\ call[c].pc = "allowed" /\ did' = did /\ told' = told
      /\ Covered(did[c], told[c], levels[c], reach[c]) /\ Followed(c)
      /\ Answerable(call[c]) /\ CallShape /\ Entitled(call[c], levels[c], had[c], reach[c])
  BY Holds DEF Scoped
<1>. DEFINE asks == [call[c] EXCEPT !.pc = "scoped", !.limit = token[call[c].by].tags]
<1>1. call' = [call EXCEPT ![c] = asks]
  BY <1>0 DEF Scoped, CallShape
<1>2. /\ Answerable(asks) /\ asks.pc = "scoped" /\ asks.limit = token[call[c].by].tags
      /\ asks.tool = call[c].tool /\ asks.args = call[c].args
  BY <1>0 DEF Answerable, CallParts
<1>. HIDE DEF asks
<1>3. Entitled(asks, levels[c], had[c], reach[c])
  BY <1>0, <1>2 DEF Entitled, Followed
<1>. QED  BY <1>0, <1>1, <1>2, <1>3, AloneWhen, Steps

LEMMA AnswerStep ==
  ASSUME AssistInv, Remember, NEW c \in Callers, AnswerCall(c)
  PROVE  AssistInv'
<1>0. /\ call[c].pc \in {"answered", "message"}
      /\ Covered(did[c], told[c], levels[c], reach[c]) /\ Answerable(call[c]) /\ CallShape
  BY Holds DEF AnswerCall
<1>1. CASE /\ call' = [call EXCEPT ![c] = NoCall]
           /\ did' = [did EXCEPT ![c] = {}] /\ told' = [told EXCEPT ![c] = {}]
  <2>1. Alone(c) /\ did'[c] = {} /\ told'[c] = {}
    BY <1>0, <1>1 DEF CallShape, Alone
  <2>. QED  BY <1>1, <2>1, NoCallShape, Steps
<1>2. CASE Moves(c, "message") /\ UNCHANGED <<did, told>>
  <2>. DEFINE asks == [call[c] EXCEPT !.pc = "message"]
  <2>1. call' = [call EXCEPT ![c] = asks]
    BY <1>0, <1>2 DEF Moves, CallShape
  <2>2. Answerable(asks) /\ asks.pc = "message"
    BY <1>0 DEF Answerable, CallParts
  <2>. HIDE DEF asks
  <2>3. Entitled(asks, levels[c], had[c], reach[c])
    BY <2>2 DEF Entitled
  <2>. QED  BY <1>0, <1>2, <2>1, <2>2, <2>3, AloneWhen, Steps
<1>. QED  BY <1>1, <1>2 DEF AnswerCall

LEMMA RefusedStep ==
  ASSUME AssistInv, Remember, NEW c \in Callers, Invalid(c) \/ ToolError(c) \/ notification_services(c)
           \/ list_notifications(c) \/ Changed(c) \/ BadSettings(c)
  PROVE  AssistInv'
<1>1. call[c].pc # "idle" /\ Closes(c) /\ did' = did /\ told' = told
  BY DEF Invalid, ToolError, notification_services, list_notifications, Changed, BadSettings, Handles
<1>. QED  BY <1>1, NothingDone

-----------------------------------------------------------------------------
\* The handlers that tell.

LEMMA TellStep ==
  ASSUME AssistInv, Remember, NEW c \in Callers, get_watch(c) \/ get_screenshot(c) \/ list_tags(c)
           \/ get_system_info(c) \/ send_test_notification(c)
  PROVE  AssistInv'
<1>1. CASE get_watch(c) \/ get_screenshot(c)
  <2>1. PICK w \in SeenWith(call[c].limit) : Tells(c, {w})
    BY <1>1 DEF get_watch, get_screenshot
  <2>2. call[c].pc = "scoped" /\ Closes(c) /\ did' = did
    BY <1>1 DEF get_watch, get_screenshot, Handles
  <2>. QED  BY <2>1, <2>2, LimitReach, ToldInReach
<1>2. CASE list_tags(c) \/ get_system_info(c)
  <2>1. /\ call[c].pc = "scoped" /\ Closes(c) /\ did' = did
        /\ Tells(c, GroupsWith(call[c].limit)) \/ Tells(c, SeenWith(call[c].limit))
    BY <1>2 DEF list_tags, get_system_info, Handles
  <2>. QED  BY <2>1, LimitReach, ToldInReach
<1>3. CASE send_test_notification(c)
  <2>1. call[c].pc = "target" /\ Closes(c) /\ did' = did
    BY <1>3 DEF send_test_notification
  <2>2. call[c].owner \in reach[c]
    BY <2>1, Holds DEF Entitled
  <2>3. Examples(c) \subseteq reach[c]
    BY <2>1, <2>2, LimitReach DEF Examples
  <2>4. CASE told' = told
    BY <2>1, <2>4, NothingDone
  <2>5. CASE \E w \in Examples(c) : Tells(c, {w})
    BY <2>1, <2>3, <2>5, ToldInReach
  <2>. QED  BY <1>3, <2>4, <2>5 DEF send_test_notification
<1>. QED  BY <1>1, <1>2, <1>3

-----------------------------------------------------------------------------
\* The handlers that change.

LEMMA GlobalStep ==
  ASSUME AssistInv, Remember, NEW c \in Callers, pause_scheduler(c) \/ create_tag(c) \/ delete_tag(c)
  PROVE  AssistInv'
<1>1. /\ call[c].pc = "scoped" /\ call[c].limit = {} /\ Closes(c) /\ told' = told
  BY DEF pause_scheduler, create_tag, delete_tag, Handles, Limited
<1>2. PICK area \in {"monitors", "tags"} :
        /\ Does(c, {<<area, Global>>})
        /\ ~get_tools[call[c].tool].reads /\ get_tools[call[c].tool].area = area
  BY Rows DEF pause_scheduler, create_tag, delete_tag, Handles
<1>3. area \in levels[c] /\ Global \in reach[c]
  BY <1>1, <1>2, WritesItsRow, LimitReach
<1>. QED  BY <1>1, <1>2, <1>3, DoneInReach

LEMMA SelectStep ==
  ASSUME AssistInv, Remember, NEW c \in Callers, Select(c)
  PROVE  AssistInv'
<1>0. /\ call[c].pc = "scoped" /\ did' = did /\ told' = told
      /\ call[c].tool \in {"recheck_watches", "pause_watches"}
      /\ Covered(did[c], told[c], levels[c], reach[c])
      /\ Answerable(call[c]) /\ CallShape /\ Entitled(call[c], levels[c], had[c], reach[c])
  BY Holds DEF Select, Handles
<1>1. PICK ws \in Selections(call[c].limit),
           named \in {{w} : w \in SeenWith(call[c].limit)} \cup {{}} :
        \/ call' = [call EXCEPT ![c].pc = "changing",
                                ![c].todo = IF named # {} THEN named ELSE ws \ pausedOf]
        \/ \E pause \in BOOLEAN, of \in {ws, named} :
             call' = [call EXCEPT ![c].pc = "changing", ![c].args = {pause},
                                  ![c].todo = {w \in of : (w \in pausedOf) # pause}]
  BY ZenonT(30) DEF Select
<1>2. ws \subseteq reach[c] /\ named \subseteq reach[c]
  <2>1. SeenWith(call[c].limit) \subseteq reach[c]
    BY <1>0, LimitReach
  <2>2. ws \subseteq SeenWith(call[c].limit)
    BY SelectedIsCovered
  <2>. QED  BY <2>1, <2>2
<1>3. PICK args, todo : /\ todo \subseteq reach[c]
                        /\ call' = [call EXCEPT ![c].pc = "changing", ![c].args = args,
                                                ![c].todo = todo]
  <2>1. CASE call' = [call EXCEPT ![c].pc = "changing",
                                  ![c].todo = IF named # {} THEN named ELSE ws \ pausedOf]
    <3>1. call' = [call EXCEPT ![c].pc = "changing", ![c].args = call[c].args,
                               ![c].todo = IF named # {} THEN named ELSE ws \ pausedOf]
      BY <1>0, <2>1 DEF CallShape, Answerable, CallParts
    <3>. QED  BY <1>2, <3>1
  <2>2. CASE \E pause \in BOOLEAN, of \in {ws, named} :
               call' = [call EXCEPT ![c].pc = "changing", ![c].args = {pause},
                                    ![c].todo = {w \in of : (w \in pausedOf) # pause}]
    BY <1>2, <2>2
  <2>. QED  BY <1>1, <2>1, <2>2
<1>. DEFINE asks == [call[c] EXCEPT !.pc = "changing", !.args = args, !.todo = todo]
<1>4. call' = [call EXCEPT ![c] = asks]
  BY <1>0, <1>3 DEF CallShape
<1>5. /\ Answerable(asks) /\ asks.pc = "changing" /\ asks.todo = todo
      /\ asks.tool = call[c].tool /\ asks.limit = call[c].limit
  BY <1>0 DEF Answerable, CallParts
<1>. HIDE DEF asks
<1>6. Entitled(asks, levels[c], had[c], reach[c])
  BY <1>0, <1>3, <1>5 DEF Entitled
<1>. QED  BY <1>0, <1>4, <1>5, <1>6, AloneWhen, Steps

LEMMA ChangeStep ==
  ASSUME AssistInv, Remember, NEW c \in Callers, ChangeOne(c)
  PROVE  AssistInv'
<1>0. /\ call[c].pc = "changing" /\ told' = told
      /\ Covered(did[c], told[c], levels[c], reach[c])
      /\ Answerable(call[c]) /\ CallShape /\ Entitled(call[c], levels[c], had[c], reach[c])
  BY Holds DEF ChangeOne
<1>1. PICK w \in call[c].todo :
        /\ call' = [call EXCEPT ![c].todo = @ \ {w}]
        /\ Does(c, {<<"monitors", w>>}) \/ did' = did
  BY DEF ChangeOne
<1>2. w \in reach[c] /\ "monitors" \in levels[c]
  BY <1>0, <1>1, Rows, WritesItsRow DEF Entitled
<1>. DEFINE asks == [call[c] EXCEPT !.todo = call[c].todo \ {w}]
<1>3. call' = [call EXCEPT ![c] = asks]
  BY <1>0, <1>1 DEF CallShape
<1>4. /\ Answerable(asks) /\ asks.pc = "changing" /\ asks.todo \subseteq call[c].todo
      /\ asks.tool = call[c].tool /\ asks.limit = call[c].limit
  BY <1>0 DEF Answerable, CallParts
<1>. HIDE DEF asks
<1>5. Entitled(asks, levels[c], had[c], reach[c])
  BY <1>0, <1>4 DEF Entitled
<1>6. CASE did' = did
  BY <1>0, <1>3, <1>4, <1>5, <1>6, AloneWhen, Steps
<1>7. CASE Does(c, {<<"monitors", w>>})
  <2>1. Alone(c) /\ did'[c] = did[c] \cup {<<"monitors", w>>}
    BY <1>0, <1>7, AloneWhen
  <2>2. Covered(did'[c], told'[c], levels[c], reach[c])
    BY <1>0, <1>2, <2>1 DEF Covered
  <2>. QED  BY <1>0, <1>3, <1>4, <1>5, <2>1, <2>2, Steps
<1>. QED  BY <1>1, <1>6, <1>7

\* An owner that was found is in reach, and stays so.
LEMMA ResolveStep ==
  ASSUME AssistInv, Remember, NEW c \in Callers, Resolve(c) \/ notification_target(c)
  PROVE  AssistInv'
<1>0. /\ call[c].pc = "scoped" /\ did' = did /\ told' = told
      /\ Covered(did[c], told[c], levels[c], reach[c])
      /\ Answerable(call[c]) /\ CallShape /\ Entitled(call[c], levels[c], had[c], reach[c])
  BY Holds DEF Resolve, notification_target
<1>1. PICK o \in reach[c], pc \in {"resolved", "target"} :
        call' = [call EXCEPT ![c].pc = pc, ![c].owner = o]
  <2>1. CASE Resolve(c)
    <3>1. PICK o \in IF call[c].tool = "update_tag" THEN GroupsWith(call[c].limit)
                                                    ELSE SeenWith(call[c].limit) :
            call' = [call EXCEPT ![c].pc = "resolved", ![c].owner = o]
      BY <2>1 DEF Resolve
    <3>. QED  BY <1>0, <3>1, LimitReach
  <2>2. CASE notification_target(c)
    BY <1>0, <2>2, LimitReach DEF notification_target
  <2>. QED  BY <2>1, <2>2
<1>. DEFINE asks == [call[c] EXCEPT !.pc = pc, !.owner = o]
<1>2. call' = [call EXCEPT ![c] = asks]
  BY <1>0, <1>1 DEF CallShape
<1>3. /\ Answerable(asks) /\ asks.pc = pc /\ asks.owner = o /\ asks.args = call[c].args
      /\ asks.tool = call[c].tool /\ asks.limit = call[c].limit
  BY <1>0 DEF Answerable, CallParts
<1>. HIDE DEF asks
<1>4. Entitled(asks, levels[c], had[c], reach[c])
  BY <1>0, <1>1, <1>3 DEF Entitled
<1>5. asks.pc # "idle"
  BY <1>1, <1>3
<1>. QED  BY <1>0, <1>2, <1>3, <1>4, <1>5, AloneWhen, Steps

\* A list of URLs that is replaced leaves requests as they are, but for who holds the old one.
LEMMA DetachedAlike ==
  ASSUME AssistInv, NEW o, NEW keep, NEW d \in Callers, did'[d] = did[d], told'[d] = told[d],
         call'[d] = Detaches(o, keep)[d]
  PROVE  Alike(d)
<1>. DEFINE away == call[d].detached \/ (call[d].pc = "target" /\ call[d].owner = o /\ d # keep)
<1>1. call'[d] = [call[d] EXCEPT !.detached = away]
  BY DEF Detaches
<1>. HIDE DEF away
<1>2. Answerable(call[d])
  BY Holds
<1>. QED  BY <1>1, <1>2 DEF Alike, Answerable, CallParts

LEMMA StoreStep ==
  ASSUME AssistInv, Remember, NEW c \in Callers, update_watch(c) \/ update_tag(c)
  PROVE  AssistInv'
<1>1. PICK area \in {"monitors", "tags"} :
        /\ Store(c, call[c].owner, area) /\ call[c].pc = "resolved" /\ told' = told
        /\ ~get_tools[call[c].tool].reads /\ get_tools[call[c].tool].area = area
  BY Rows DEF update_watch, update_tag, Resolved
<1>2. /\ CallShape /\ Entitled(call[c], levels[c], had[c], reach[c])
      /\ Covered(did[c], told[c], levels[c], reach[c])
  BY <1>1, Holds
<1>3. area \in levels[c] /\ call[c].args \subseteq levels[c] /\ call[c].owner \in reach[c]
  BY <1>1, <1>2 DEF Entitled
<1>. DEFINE what == {<<a, call[c].owner>> : a \in {area} \cup call[c].args}
<1>4. Does(c, what) /\ \A e \in what : e[1] \in levels[c] /\ e[2] \in reach[c]
  BY <1>1, <1>3 DEF Store
<1>. HIDE DEF what
<1>5. CASE Closes(c)
  BY <1>1, <1>4, <1>5, DoneInReach
<1>6. CASE call' = [Detaches(call[c].owner, c) EXCEPT ![c] = AnsweredCall(c)]
  <2>1. did' = [d \in Callers |-> IF d = c THEN did[c] \cup what ELSE did[d]]
    BY <1>2, <1>4 DEF Does, CallShape
  <2>2. call' = [d \in Callers |-> IF d = c THEN AnsweredCall(c)
                                            ELSE Detaches(call[c].owner, c)[d]]
    BY <1>6 DEF Detaches
  <2>3. Shapes /\ call'[c] = AnsweredCall(c)
    BY <1>1, <1>2, <2>1, <2>2 DEF Shapes, CallShape
  <2>4. ASSUME NEW d \in Callers \ {c} PROVE Alike(d)
    BY <1>1, <2>1, <2>2, DetachedAlike
  <2>5. Answerable(AnsweredCall(c)) /\ AnsweredCall(c).pc = "answered"
    BY AnsweredShape
  <2>6. Entitled(AnsweredCall(c), levels[c], had[c], reach[c])
    BY <2>5 DEF Entitled
  <2>7. Covered(did'[c], told'[c], levels[c], reach[c])
    BY <1>1, <1>2, <1>4, <2>1 DEF Covered
  <2>. HIDE DEF AnsweredCall
  <2>. QED  BY <2>3, <2>4, <2>5, <2>6, <2>7, RequestTurns
<1>. QED  BY <1>1, <1>5, <1>6 DEF Store

LEMMA DestroyStep ==
  ASSUME AssistInv, Remember, NEW c \in Callers, Destroy(c)
  PROVE  AssistInv'
<1>1. /\ call[c].pc = "resolved" /\ Does(c, {<<"monitors", call[c].owner>>}) /\ Closes(c)
      /\ told' = told
      /\ ~get_tools[call[c].tool].reads /\ get_tools[call[c].tool].area = "monitors"
  BY Rows DEF Destroy
<1>2. "monitors" \in levels[c] /\ call[c].owner \in reach[c]
  BY <1>1, WritesItsRow, Holds DEF Entitled
<1>. QED  BY <1>1, <1>2, DoneInReach

LEMMA PluginStep ==
  ASSUME AssistInv, Remember, NEW c \in Callers, PluginCall(c)
  PROVE  AssistInv'
<1>1. /\ call[c].pc = "resolved" /\ Closes(c) /\ get_tools[call[c].tool].area = "monitors"
  BY PluginRows DEF PluginCall
<1>2. call[c].owner \in reach[c]
  BY <1>1, Holds DEF Entitled
<1>3. CASE Tells(c, {call[c].owner}) /\ UNCHANGED did
  BY <1>1, <1>2, <1>3, ToldInReach
<1>4. CASE /\ ~get_tools[call[c].tool].reads
           /\ Does(c, {<<"monitors", call[c].owner>>}) /\ UNCHANGED told
  BY <1>1, <1>2, <1>4, WritesItsRow, DoneInReach
<1>. QED  BY <1>3, <1>4 DEF PluginCall

LEMMA UrlStep ==
  ASSUME AssistInv, Remember, NEW c \in Callers, add_notification(c) \/ remove_notification(c)
  PROVE  AssistInv'
<1>1. /\ call[c].pc = "target" /\ Closes(c) /\ told' = told
      /\ did' = did \/ Does(c, {<<"notifications", call[c].owner>>})
      /\ ~get_tools[call[c].tool].reads /\ get_tools[call[c].tool].area = "notifications"
  BY Rows DEF add_notification, remove_notification
<1>2. call[c].owner \in reach[c] /\ "notifications" \in levels[c]
  BY <1>1, WritesItsRow, Holds DEF Entitled
<1>3. CASE did' = did
  BY <1>1, <1>3, NothingDone
<1>4. CASE Does(c, {<<"notifications", call[c].owner>>})
  BY <1>1, <1>2, <1>4, DoneInReach
<1>. QED  BY <1>1, <1>3, <1>4

-----------------------------------------------------------------------------
\* The user, and the whole of it.

LEMMA UserStep ==
  ASSUME AssistInv, Remember, User
  PROVE  AssistInv'
<1>0. CallShape  BY DEF AssistInv
<1>1. did' = did /\ told' = told
  BY DEF User, AddToken, EditLevels, EditLimit, RevokeToken, SwitchServer, Move, Discard, EditUrls
<1>2. CASE call' = call
  <2>1. \A d \in Callers : Alike(d)
    BY <1>1, <1>2, Holds DEF Alike
  <2>2. \A d \in Callers : Entitles(d)'
    BY <2>1, OthersStay DEF AssistInv
  <2>. QED  BY <1>0, <1>1, <1>2, <2>2 DEF AssistInv, CallShape
<1>3. CASE EditUrls
  <2>1. PICK o \in Owners : call' = Detaches(o, "nobody")
    BY <1>3 DEF EditUrls
  <2>2. \A d \in Callers : Alike(d)
    BY <1>1, <2>1, DetachedAlike
  <2>3. \A d \in Callers : Entitles(d)'
    BY <2>2, OthersStay DEF AssistInv
  <2>4. call' = [d \in Callers |-> call'[d]]
    BY <2>1 DEF Detaches
  <2>5. \A d \in Callers : Answerable(call'[d])
    BY <2>2 DEF Alike
  <2>. QED  BY <1>0, <1>1, <2>3, <2>4, <2>5 DEF AssistInv, CallShape
<1>. QED  BY <1>2, <1>3 DEF User, AddToken, EditLevels, EditLimit, RevokeToken, SwitchServer, Move,
                            Discard

LEMMA RequestStep ==
  ASSUME AssistInv, Remember, NEW c \in Callers, ToolRequest(c)
  PROVE  AssistInv'
BY ArriveStep, MessageStep, ScopedStep, AnswerStep, RefusedStep, TellStep, GlobalStep, SelectStep,
   ChangeStep, ResolveStep, StoreStep, DestroyStep, PluginStep, UrlStep DEF ToolRequest

LEMMA AssistBegins ==
  ASSUME AssistInit
  PROVE  AssistInv
<1>1. /\ call = [c \in Callers |-> NoCall] /\ did = [c \in Callers |-> {}]
      /\ told = [c \in Callers |-> {}]
  BY DEF AssistInit
<1>2. Answerable(NoCall) /\ NoCall.pc = "idle"
  BY NoCallShape
<1>. QED  BY <1>1, <1>2 DEF AssistInv, CallShape, Entitles, Covered

LEMMA AssistStill ==
  ASSUME AssistInv, UNCHANGED assistVars
  PROVE  AssistInv'
<1>1. /\ call' = call /\ did' = did /\ told' = told /\ levels' = levels /\ had' = had
      /\ reach' = reach /\ token' = token /\ tags' = tags /\ groups' = groups
  BY DEF assistVars, tokenState, data, ghosts
<1>2. ASSUME NEW c \in Callers PROVE Entitles(c)'
  <2>1. Followed(c) => Followed(c)'
    BY <1>1 DEF Followed, Writable, Targets, SeenWith, GroupsWith, Present, Within
  <2>2. Entitles(c)
    BY DEF AssistInv
  <2>. QED  BY <1>1, <2>1, <2>2 DEF Entitles
<1>. QED  BY <1>1, <1>2 DEF AssistInv, CallShape

\* A request changes only what its token covered, in rows it could write to, and tells only of
\* what its token covered, whatever the user edits meanwhile.
THEOREM RequestsStayWithinTokens == AssistSpec => []WithinItsToken
<1>1. AssistInit => AssistInv
  BY AssistBegins
<1>2. AssistInv /\ [AssistNext]_assistVars => AssistInv'
  BY AssistStill, UserStep, RequestStep DEF AssistNext
<1>3. AssistInv => WithinItsToken
  BY DEF AssistInv, Entitles, Covered, WithinItsToken
<1>. QED  BY <1>1, <1>2, <1>3, PTL DEF AssistSpec
=============================================================================
