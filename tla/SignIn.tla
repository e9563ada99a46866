-------------------------------- MODULE SignIn --------------------------------
(***************************************************************************)
(* How an assistant signs in to the MCP server (OAuth) and stays signed in:*)
(* a client registers or is known by the URL of its metadata, the owner    *)
(* approves, the code is exchanged for a pair of tokens, and every refresh *)
(* replaces the pair.  Requests run in threads of their own; each saves    *)
(* the settings before it answers, the codes are in memory only, answers   *)
(* get lost, the program restarts.                                         *)
(*                                                                         *)
(* A pair of tokens is a number, new at every issue; what is left out is   *)
(* PKCE, redirect URIs, resources and the permissions a sign-in carries.   *)
(***************************************************************************)
EXTENDS Integers, FiniteSets

CONSTANTS
  Registering, \* assistants that register (DCR)
  ByUrl,       \* assistants whose client_id is a URL (CIMD)
  Cap,         \* DCR_MAX_CLIENTS
  MaxIssued,   \* bound on the pairs of tokens
  MaxCalls,    \* bound on requests
  Nil

ASSUME NilAssumption == Nil \notin Nat \cup {"register", "authorize", "code", "refresh"}

VARIABLES
  enabled,  \* the MCP switch is on and there is a password
  clients,  \* client |-> [used, created, old]
  codes,    \* <<number, assistant>>: codes not used and not expired
  grants,   \* grant |-> [by, pair]
  disk,     \* the settings file: [clients, grants, at]
  held,     \* held[a]: [code, pair] that a has
  ask,      \* ask[a]: the request of an assistant under way
  owner,    \* the owner's request: a grant revoked, a save of other settings
  issued,   \* pairs and codes issued
  calls,
  version,  \* a ghost: the copies of the settings that were made
  newest,   \* a ghost: the latest copy that was written
  upset     \* a ghost: assistants whose grant was revoked, or an answer to them lost

signInVars == <<enabled, clients, codes, grants, disk, held, ask, owner, issued, calls, version,
                newest, upset>>
memory == <<clients, grants>>
saving == <<disk, version, newest>>

Assistants == Registering \cup ByUrl
NoAsking == [op |-> Nil, pc |-> "idle", gives |-> Nil, grant |-> Nil, pair |-> Nil, copy |-> Nil]
NoPart == [c \in {} |-> Nil]

Lacking(f, S) == [x \in DOMAIN f \ S |-> f[x]]
With(f, x, v) == [y \in DOMAIN f \cup {x} |-> IF y = x THEN v ELSE f[y]]

SignInInit == /\ enabled = TRUE
              /\ clients = NoPart /\ grants = NoPart /\ codes = {}
              /\ disk = [clients |-> NoPart, grants |-> NoPart, at |-> 0]
              /\ held = [a \in Assistants |-> [code |-> Nil, pair |-> Nil]]
              /\ ask = [a \in Assistants |-> NoAsking]
              /\ owner = NoAsking
              /\ issued = 0 /\ calls = 0 /\ version = 0 /\ newest = 0
              /\ upset = {}

Is(a, pc) == ask[a].pc = pc
Step(a, r) == ask' = [ask EXCEPT ![a] = r]
Turns(a, pc) == ask' = [ask EXCEPT ![a].pc = pc]

\* Every route answers 404 while sign-in is not offered.
Offered == enabled

Calls(a, r) == /\ Is(a, "idle") /\ Offered /\ calls < MaxCalls
               /\ calls' = calls + 1
               /\ Step(a, r)

-----------------------------------------------------------------------------
\* Saving: commit() copies the settings, then writes the copy; nothing keeps two apart.

Copy == [clients |-> clients, grants |-> grants, at |-> version + 1]

Saves(r) == [r EXCEPT !.pc = "copy"]

CopySettings(a) == /\ Is(a, "copy")
                   /\ Step(a, [ask[a] EXCEPT !.copy = Copy, !.pc = "write"])
                   /\ version' = version + 1
                   /\ UNCHANGED <<enabled, memory, codes, disk, held, owner, issued, calls, newest, upset>>

Write(copy) == /\ disk' = copy
               /\ newest' = IF copy.at > newest THEN copy.at ELSE newest

\* The file is of an older copy than one written before.
Torn == disk.at < newest

WriteSettings(a) == /\ Is(a, "write")
                    /\ Write(ask[a].copy)
                    /\ Step(a, [ask[a] EXCEPT !.copy = Nil, !.pc = "answer"])
                    /\ UNCHANGED <<enabled, memory, codes, held, owner, issued, calls, version, upset>>

-----------------------------------------------------------------------------
\* The ones never used for a day go, then, at the cap, the oldest,
\* unused before used.

Unwanted == {c \in DOMAIN clients : clients[c].old /\ ~clients[c].used}
First(f) == CHOOSE c \in DOMAIN f : \A d \in DOMAIN f :
              \/ ~f[c].used /\ f[d].used
              \/ f[c].used = f[d].used /\ f[c].created =< f[d].created
Room(f) == IF Cardinality(DOMAIN f) >= Cap THEN Lacking(f, {First(f)}) ELSE f

Register(a) == /\ a \in Registering \ DOMAIN clients
               /\ clients' = With(Room(Lacking(clients, Unwanted)), a,
                                  [used |-> FALSE, created |-> calls, old |-> FALSE])
               /\ Calls(a, Saves([NoAsking EXCEPT !.op = "register"]))
               /\ UNCHANGED <<enabled, codes, grants, saving, held, owner, issued, upset>>

\* The document at its URL names the client; when it does not come nothing happens.
NamedByUrl(a) == a \in ByUrl

\* query_client(): a registered one is looked up.
Known(a) == NamedByUrl(a) \/ a \in DOMAIN clients

-----------------------------------------------------------------------------
\* The consent screen's answer saves a code and hands it over.

Approve(a) == /\ Known(a) /\ issued < MaxIssued
              /\ issued' = issued + 1
              /\ codes' = codes \cup {<<issued', a>>}
              /\ Calls(a, [NoAsking EXCEPT !.op = "authorize", !.pc = "answer", !.gives = issued'])
              /\ UNCHANGED <<enabled, memory, saving, held, owner, upset>>

\* A minute later a code is nothing any more.
Expire == /\ \E c \in codes : codes' = codes \ {c}
          /\ UNCHANGED <<enabled, memory, saving, held, ask, owner, issued, calls, upset>>

-----------------------------------------------------------------------------
\* The token endpoint.

Valid(code, a) == <<code, a>> \in codes

\* A code is looked up and stays until its tokens are saved.
Exchange(a) == /\ Known(a) /\ held[a].code # Nil
               /\ Calls(a, [NoAsking EXCEPT !.op = "code", !.gives = held[a].code,
                              !.pc = IF Valid(held[a].code, a) THEN "grant" ELSE "refused"])
               /\ upset' = upset \ {a}
               /\ UNCHANGED <<enabled, memory, codes, saving, held, owner, issued>>

\* add_grant(): no token finds the grant until rotate() has set the hashes.
AddGrant(a) == /\ Is(a, "grant") /\ issued < MaxIssued
               /\ issued' = issued + 1
               /\ grants' = With(grants, issued', [by |-> a, pair |-> Nil])
               /\ Step(a, [ask[a] EXCEPT !.grant = issued', !.pair = issued', !.pc = "rotate"])
               /\ UNCHANGED <<enabled, clients, codes, saving, held, owner, calls, upset>>

Found(pair) == {g \in DOMAIN grants : grants[g].pair = pair}

\* A refresh finds the grant and lets go of it.
Refresh(a) == /\ held[a].pair # Nil /\ Known(a)
              /\ LET mine == Found(held[a].pair)
                 IN IF mine = {} THEN Calls(a, [NoAsking EXCEPT !.op = "refresh", !.pc = "refused"])
                    ELSE \E g \in mine : Calls(a, [NoAsking EXCEPT !.op = "refresh", !.grant = g, !.pc = "new pair"])
              /\ UNCHANGED <<enabled, memory, codes, saving, held, owner, issued, upset>>

NewPair(a) == /\ Is(a, "new pair") /\ issued < MaxIssued
              /\ issued' = issued + 1
              /\ Step(a, [ask[a] EXCEPT !.pair = issued', !.pc = "rotate"])
              /\ UNCHANGED <<enabled, memory, codes, saving, held, owner, calls, upset>>

\* Mutant: a grant that was revoked meanwhile is put back.
Rotate_Again(a) == [ok |-> TRUE,
                    grants |-> With(grants, ask[a].grant, [by |-> a, pair |-> ask[a].pair])]

\* rotate() takes the grant by its id, an error when it was revoked meanwhile.
Rotate(a) == [ok |-> ask[a].grant \in DOMAIN grants,
              grants |-> [g \in DOMAIN grants |->
                            IF g = ask[a].grant THEN [grants[g] EXCEPT !.pair = ask[a].pair]
                            ELSE grants[g]]]

RotateOrFail(a) == /\ Is(a, "rotate")
                   /\ grants' = Rotate(a).grants
                   /\ IF ~Rotate(a).ok THEN Turns(a, "refused")
                      ELSE Step(a, IF ask[a].op = "code" THEN [ask[a] EXCEPT !.pc = "used"] ELSE Saves(ask[a]))
                   /\ UNCHANGED <<enabled, clients, codes, saving, held, owner, issued, calls, upset>>

\* mark_client_used(): nothing when the client was dropped meanwhile.
MarkUsed(a) == /\ Is(a, "used")
               /\ clients' = IF a \in DOMAIN clients THEN [clients EXCEPT ![a].used = TRUE] ELSE clients
               /\ Step(a, Saves(ask[a]))
               /\ UNCHANGED <<enabled, codes, grants, saving, held, owner, issued, calls, upset>>

\* The answer: the code is deleted before it, the pair is the assistant's.
Answered(a) == CASE ask[a].op = "authorize" -> [held[a] EXCEPT !.code = ask[a].gives]
                 [] ask[a].op \in {"code", "refresh"} -> [code |-> Nil, pair |-> ask[a].pair]
                 [] OTHER -> held[a]

Answer(a) == /\ Is(a, "answer")
             /\ codes' = IF ask[a].op = "code" THEN codes \ {<<ask[a].gives, a>>} ELSE codes
             /\ \/ held' = [held EXCEPT ![a] = Answered(a)] /\ upset' = upset
                \/ held' = held /\ upset' = upset \cup {a}
             /\ Step(a, NoAsking)
             /\ UNCHANGED <<enabled, memory, saving, owner, issued, calls>>

\* An assistant that is refused its tokens forgets them.
Refuse(a) == /\ Is(a, "refused")
             /\ held' = [held EXCEPT ![a] = [code |-> Nil, pair |-> Nil]]
             /\ Step(a, NoAsking)
             /\ UNCHANGED <<enabled, memory, codes, saving, owner, issued, calls, upset>>

-----------------------------------------------------------------------------
\* The owner: revokes a grant, switches the server, saves something else.

OwnerCalls(r) == /\ owner.pc = "idle" /\ calls < MaxCalls
                 /\ calls' = calls + 1
                 /\ owner' = Saves(r)
                 /\ UNCHANGED <<clients, codes, saving, held, ask, issued>>

Revoke == /\ \E g \in DOMAIN grants :
               /\ grants' = Lacking(grants, {g})
               /\ upset' = upset \cup {grants[g].by}
               /\ OwnerCalls([NoAsking EXCEPT !.op = "revoke", !.grant = g])
          /\ UNCHANGED enabled

Switch == /\ enabled' = ~enabled
          /\ OwnerCalls([NoAsking EXCEPT !.op = "switch"])
          /\ UNCHANGED <<grants, upset>>

OwnerCopies == /\ owner.pc = "copy"
               /\ owner' = [owner EXCEPT !.copy = Copy, !.pc = "write"]
               /\ version' = version + 1
               /\ UNCHANGED <<enabled, memory, codes, disk, held, ask, issued, calls, newest, upset>>

OwnerWrites == /\ owner.pc = "write"
               /\ Write(owner.copy)
               /\ owner' = [owner EXCEPT !.pc = "answer"]
               /\ UNCHANGED <<enabled, memory, codes, held, ask, issued, calls, version, upset>>

OwnerAnswered == /\ owner.pc = "answer"
                 /\ owner' = [NoAsking EXCEPT !.grant = owner.grant]
                 /\ UNCHANGED <<enabled, memory, codes, saving, held, ask, issued, calls, upset>>

DayPasses == /\ \E c \in DOMAIN clients : ~clients[c].old
             /\ clients' = [c \in DOMAIN clients |-> [clients[c] EXCEPT !.old = TRUE]]
             /\ UNCHANGED <<enabled, codes, grants, saving, held, ask, owner, issued, calls, upset>>

\* What is in the file is what there is; the requests under way get no answer.
Restart == /\ calls < MaxCalls
           /\ calls' = calls + 1
           /\ clients' = disk.clients /\ grants' = disk.grants /\ codes' = {}
           /\ version' = disk.at
           /\ upset' = upset \cup {a \in Assistants : ~Is(a, "idle")} \cup (IF Torn THEN Assistants ELSE {})
           /\ ask' = [a \in Assistants |-> NoAsking]
           /\ owner' = [NoAsking EXCEPT !.grant = IF owner.pc = "idle" /\ ~Torn THEN owner.grant ELSE Nil]
           /\ newest' = disk.at
           /\ UNCHANGED <<enabled, disk, held, issued>>

ServeAssistant(a) == \/ CopySettings(a) \/ WriteSettings(a) \/ Register(a) \/ Approve(a) \/ Exchange(a) \/ AddGrant(a)
                     \/ Refresh(a) \/ NewPair(a) \/ RotateOrFail(a) \/ MarkUsed(a) \/ Answer(a) \/ Refuse(a)

Owner == Revoke \/ Switch \/ OwnerCopies \/ OwnerWrites \/ OwnerAnswered

SignInNext == (\E a \in Assistants : ServeAssistant(a)) \/ Owner \/ Expire \/ DayPasses \/ Restart

SignInSpec == SignInInit /\ [][SignInNext]_signInVars

-----------------------------------------------------------------------------
\* Properties.

\* The pair of the last answer is the one that works, in memory and in every program started
\* again from the file, unless the grant was revoked, an answer got lost or an older copy of
\* the settings was written last.
HeldPairWorks ==
  \A a \in Assistants \ upset :
    (held[a].pair # Nil /\ Is(a, "idle")) =>
       /\ Found(held[a].pair) # {}
       /\ Torn \/ \E g \in DOMAIN disk.grants : disk.grants[g].pair = held[a].pair

\* "loses access at once": a revoked grant does not come back, not with a refresh that was
\* under way nor with a restart.
RevokedIsOver == (owner.pc = "idle" /\ owner.grant # Nil) => owner.grant \notin DOMAIN grants

\* Both of these, as the run checks them.
TokensHold == HeldPairWorks /\ RevokedIsOver
=============================================================================
