------------------------------ MODULE Assistants ------------------------------
(***************************************************************************)
(* The tools an assistant calls over MCP, what its access token lets it    *)
(* see and change, and the user who edits tokens, monitors and lists of    *)
(* notification URLs meanwhile.                                            *)
(*                                                                         *)
(* A request finds its token once, and keeps the stored dictionary: edits  *)
(* of the token show at the next look at it, a revocation does not.  The   *)
(* levels are looked at first, the groups the token is limited to after    *)
(* them, the monitors and lists after those, and several monitors are      *)
(* changed one after the other.  A body may hold several messages.         *)
(*                                                                         *)
(* New monitors, and groups put on monitors, are the subject of Groups,    *)
(* what tools tell of a history that of Reading, signing in that of        *)
(* SignIn, waiting for checks that of WaitForChecks.                       *)
(***************************************************************************)
EXTENDS Integers, Sequences, FiniteSets, SequencesExt

CONSTANTS
  Callers,  \* requests under way at a time
  Members,  \* the groups of each monitor at first
  Tokens, Monitors, Labels, Urls,
  Global,   \* the owner of the global settings
  Grids,    \* what the token form stores: areas to levels
  Limits,   \* the lists of groups that tokens are limited to
  Plugins,  \* what plugins register, in order: [name, kind, complete]
  MaxEdits, \* bound on the user's edits
  MaxMessages \* bound on the messages

VARIABLES
  token,    \* the dictionary of a token: [grid, tags]; a holder keeps it
  stored,   \* mcp_tokens: the tokens that are still found
  mcpEnabled, \* mcp_enabled
  tags,     \* tags[w]: the groups of a monitor
  groups,   \* the groups that there are
  pausedOf, \* the monitors paused
  pausedAll,
  urls,     \* urls[o]: the notification URLs of a monitor, of a group, of the settings
  call,     \* call[c]: the request under way
  edits, messages,
  levels,   \* levels[c]: the areas it could write to at some moment (ghosts, as are the next)
  had,      \* had[c]: the limits its token had at some moment
  reach,    \* reach[c]: what these covered at some moment
  did,      \* did[c]: <<area, target>> it changed
  told      \* told[c]: the monitors it was told about

tokenState == <<token, stored, mcpEnabled>>
data == <<tags, groups, pausedOf, pausedAll, urls>>
ghosts == <<levels, had, reach, did, told>>
assistVars == <<tokenState, data, call, edits, messages, ghosts>>

Blank == [grid |-> << >>, tags |-> {Global}]  \* a token not given out yet
Areas == {"monitors", "tags", "notifications", "browser", "system"}
Present == {w \in Monitors : tags[w] # {Global}}
Gone == {Global}
Owners == Monitors \cup Labels \cup {Global}

NoCall == [pc |-> "idle", by |-> CHOOSE t \in Tokens : TRUE, readonly |-> FALSE, tool |-> "none",
           args |-> {}, limit |-> {}, todo |-> {}, owner |-> Global, detached |-> FALSE, url |-> 0]

-----------------------------------------------------------------------------
\* The grid of a token.

Default == [monitors |-> "write", tags |-> "write", notifications |-> "read", browser |-> "none",
            system |-> "read"]

permissions(grid, readonly) ==
  [a \in Areas |->
     LET level == IF a \in DOMAIN grid THEN grid[a] ELSE Default[a]
     IN IF level = "write" /\ (readonly \/ a = "system") THEN "read" ELSE level]

Tool(area, reads, args) == [area |-> area, reads |-> reads, args |-> args]
TOOLS ==
  [get_watch |-> Tool("monitors", TRUE, {}),
   list_tags |-> Tool("tags", TRUE, {}),
   get_screenshot |-> Tool("monitors", TRUE, {}),
   notification_services |-> Tool("notifications", TRUE, {}),
   get_system_info |-> Tool("system", TRUE, {}),
   list_notifications |-> Tool("notifications", TRUE, {}),
   pause_watches |-> Tool("monitors", FALSE, {}),
   update_watch |-> Tool("monitors", FALSE, {"notifications", "browser"}),
   recheck_watches |-> Tool("monitors", FALSE, {}),
   delete_watch |-> Tool("monitors", FALSE, {}),
   clear_history |-> Tool("monitors", FALSE, {}),
   create_tag |-> Tool("tags", FALSE, {"notifications"}),
   update_tag |-> Tool("tags", FALSE, {"notifications"}),
   delete_tag |-> Tool("tags", FALSE, {}),
   add_notification |-> Tool("notifications", FALSE, {}),
   remove_notification |-> Tool("notifications", FALSE, {}),
   send_test_notification |-> Tool("notifications", FALSE, {})]

\* A plugin's tool of an unknown kind, without a handler or of a taken name is left out.
WellFormed(spec) ==
  spec.kind \in {"read", "write", "destructive"} /\ spec.complete /\ spec.name \notin DOMAIN TOOLS
Registered == {i \in DOMAIN Plugins :
                 /\ WellFormed(Plugins[i])
                 /\ \A j \in 1..i - 1 : WellFormed(Plugins[j]) => Plugins[j].name # Plugins[i].name}
PluginTools == [n \in {Plugins[i].name : i \in Registered} |->
                  Tool("monitors",
                       \E i \in Registered : Plugins[i].name = n /\ Plugins[i].kind = "read", {})]

get_tools == [n \in DOMAIN TOOLS \cup DOMAIN PluginTools |->
                IF n \in DOMAIN PluginTools THEN PluginTools[n] ELSE TOOLS[n]]

tool_allowed(perms, name) ==
  \/ perms[get_tools[name].area] = "write"
  \/ perms[get_tools[name].area] = "read" /\ get_tools[name].reads

\* Arguments that are another row's: alerts, browser steps.
blocked_arguments(perms, args) == {a \in args : perms[a] # "write"}

-----------------------------------------------------------------------------
\* Context: an empty list is no limit, a list of groups deleted since is one.

Within(w, limit) == limit = {} \/ tags[w] \cap limit # {}
SeenWith(limit) == {w \in Present : Within(w, limit)}
GroupsWith(limit) == {g \in groups : limit = {} \/ g \in limit}

\* Mutant: all is every monitor there is.
Selections_All(limit) == {Present} \cup {{w \in Present : g \in tags[w]} : g \in GroupsWith(limit)}

\* _select(): by a group the token sees, or all that it sees.
Selections(limit) ==
  {SeenWith(limit)}
    \cup {{w \in Present : g \in tags[w] /\ Within(w, limit)} : g \in GroupsWith(limit)}

\* _notification_target(): a monitor or a group it sees; the settings, unless it is limited.
Targets(limit) == SeenWith(limit) \cup GroupsWith(limit) \cup IF limit = {} THEN {Global} ELSE {}

\* The areas a token may write to now.
Writable(t, readonly) == {a \in Areas : permissions(token[t].grid, readonly)[a] = "write"}

-----------------------------------------------------------------------------
\* A request: endpoint(), access_denied(), handle(), call().

Moves(c, pc) == call' = [call EXCEPT ![c].pc = pc]

\* find_token(), by its hash; that it was used is noted in the dictionary.
StillFound == stored

Arrive(c) ==
  /\ call[c].pc = "idle" /\ mcpEnabled /\ messages < MaxMessages
  /\ \E t \in StillFound, readonly \in BOOLEAN :
       call' = [call EXCEPT ![c] =
                  [NoCall EXCEPT !.pc = "message", !.by = t, !.readonly = readonly]]
  /\ UNCHANGED <<tokenState, data, edits, messages, did, told>>

AnsweredCall(c) ==
  [NoCall EXCEPT !.pc = "answered", !.by = call[c].by, !.readonly = call[c].readonly]
Closes(c) == call' = [call EXCEPT ![c] = AnsweredCall(c)]

\* handle() up to the call: the tool, then its row, then the rows of its arguments.
Message(c) ==
  /\ call[c].pc = "message" /\ messages < MaxMessages
  /\ messages' = messages + 1
  /\ \E name \in DOMAIN get_tools : \E args \in SUBSET get_tools[name].args :
       LET perms == permissions(token[call[c].by].grid, call[c].readonly)
       IN IF tool_allowed(perms, name) /\ blocked_arguments(perms, args) = {}
          THEN call' = [call EXCEPT ![c].pc = "allowed", ![c].tool = name, ![c].args = args]
          ELSE Closes(c)
  /\ UNCHANGED <<tokenState, data, edits, did, told>>

\* tools.call(ctx.scoped(tags), ...)
Scoped(c) ==
  /\ call[c].pc = "allowed"
  /\ call' = [call EXCEPT ![c].pc = "scoped", ![c].limit = token[call[c].by].tags]
  /\ UNCHANGED <<tokenState, data, edits, messages, did, told>>

\* argument_errors(): not what the tool's schema asks for.
Invalid(c) ==
  /\ call[c].pc = "scoped"
  /\ Closes(c)
  /\ UNCHANGED <<tokenState, data, edits, messages, did, told>>

\* The rest of a batch goes on with the token it came with.
AnswerCall(c) ==
  /\ call[c].pc \in {"answered", "message"}
  /\ \/ /\ call' = [call EXCEPT ![c] = NoCall]
        /\ did' = [did EXCEPT ![c] = {}]
        /\ told' = [told EXCEPT ![c] = {}]
     \/ call[c].pc = "answered" /\ Moves(c, "message") /\ UNCHANGED <<did, told>>
  /\ UNCHANGED <<tokenState, data, edits, messages>>

-----------------------------------------------------------------------------
\* The handlers.

Handles(c, name) == call[c].pc = "scoped" /\ call[c].tool = name
Tells(c, ws) == told' = [told EXCEPT ![c] = @ \cup ws]
Does(c, what) == did' = [did EXCEPT ![c] = @ \cup what]
Limited(c) == call[c].limit # {}
ListTools == {"list_notifications", "add_notification", "remove_notification",
              "send_test_notification"}

\* Reading a monitor; what there is of one, or none, is in its answer.
get_watch(c) ==
  /\ Handles(c, "get_watch")
  /\ \E w \in SeenWith(call[c].limit) : Tells(c, {w})
  /\ Closes(c)
  /\ UNCHANGED <<tokenState, data, edits, messages, did>>

get_screenshot(c) ==
  /\ Handles(c, "get_screenshot")
  /\ \E w \in SeenWith(call[c].limit) : Tells(c, {w})
  /\ Closes(c)
  /\ UNCHANGED <<tokenState, data, edits, messages, did>>

list_tags(c) ==
  /\ Handles(c, "list_tags")
  /\ Tells(c, GroupsWith(call[c].limit))
  /\ Closes(c)
  /\ UNCHANGED <<tokenState, data, edits, messages, did>>

\* What services there are is the library's to say.
notification_services(c) ==
  /\ Handles(c, "notification_services")
  /\ Closes(c)
  /\ UNCHANGED <<tokenState, data, edits, messages, did, told>>

\* The monitors checked, queued and overdue are those the token sees.
get_system_info(c) ==
  /\ Handles(c, "get_system_info")
  /\ Tells(c, SeenWith(call[c].limit))
  /\ Closes(c)
  /\ UNCHANGED <<tokenState, data, edits, messages, did>>

\* A ToolError: nothing found, nothing given, or not for a limited token.
ToolError(c) ==
  /\ call[c].pc = "scoped"
  /\ \/ call[c].tool \in {"create_tag", "delete_tag"} /\ Limited(c)
     \/ /\ call[c].tool \in {"get_watch", "get_screenshot", "update_watch", "delete_watch",
                              "clear_history"}
        /\ SeenWith(call[c].limit) = {}
     \/ call[c].tool \in {"delete_tag", "update_tag"} /\ GroupsWith(call[c].limit) = {}
     \/ call[c].tool = "create_tag" /\ Labels \subseteq groups
     \/ call[c].tool \in ListTools /\ Targets(call[c].limit) = {}
     \/ call[c].tool \in DOMAIN PluginTools /\ SeenWith(call[c].limit) = {}
  /\ Closes(c)
  /\ UNCHANGED <<tokenState, data, edits, messages, did, told>>

\* scheduler=true: the "pause all" of the interface.
pause_scheduler(c) ==
  /\ Handles(c, "pause_watches") /\ ~Limited(c)
  /\ pausedAll' = ~pausedAll
  /\ Does(c, {<<"monitors", Global>>})
  /\ Closes(c)
  /\ UNCHANGED <<tokenState, tags, groups, pausedOf, urls, edits, messages, told>>

\* The monitors are found first, and changed one by one: those that are not as asked yet.  A recheck
\* of all of them leaves out the paused ones; one by name does not.
Select(c) ==
  /\ \E ws \in Selections(call[c].limit),
        named \in {{w} : w \in SeenWith(call[c].limit)} \cup {{}} :
       \/ /\ Handles(c, "recheck_watches")
          /\ call' = [call EXCEPT ![c].pc = "changing",
                                  ![c].todo = IF named # {} THEN named ELSE ws \ pausedOf]
       \/ /\ Handles(c, "pause_watches")
          /\ \E pause \in BOOLEAN, of \in {ws, named} :
               call' = [call EXCEPT ![c].pc = "changing", ![c].args = {pause},
                                    ![c].todo = {w \in of : (w \in pausedOf) # pause}]
  /\ UNCHANGED <<tokenState, data, edits, messages, did, told>>

\* One that was deleted meanwhile is changed in memory only.
ChangeOne(c) ==
  /\ call[c].pc = "changing"
  /\ \E w \in call[c].todo :
       /\ call' = [call EXCEPT ![c].todo = @ \ {w}]
       /\ CASE call[c].tool = "recheck_watches" -> UNCHANGED pausedOf
            [] TRUE \in call[c].args -> pausedOf' = pausedOf \cup ({w} \cap Present)
            [] OTHER -> pausedOf' = pausedOf \ {w}
       /\ IF w \in Present THEN Does(c, {<<"monitors", w>>}) ELSE UNCHANGED did
  /\ UNCHANGED <<tokenState, tags, groups, pausedAll, urls, edits, messages, told>>

\* The answer of a recheck says where the checks are, of the monitors it began with.
Changed(c) ==
  /\ call[c].pc = "changing" /\ call[c].todo = {}
  /\ Closes(c)
  /\ UNCHANGED <<tokenState, data, edits, messages, did, told>>

\* update_watch and update_tag replace the list of URLs; a plugin's tool is given a monitor.
Resolve(c) ==
  /\ call[c].pc = "scoped"
  /\ \E o \in IF call[c].tool = "update_tag" THEN GroupsWith(call[c].limit)
                                             ELSE SeenWith(call[c].limit) :
       call' = [call EXCEPT ![c].pc = "resolved", ![c].owner = o]
  /\ \/ call[c].tool \in {"update_watch", "update_tag", "delete_watch", "clear_history"}
     \/ call[c].tool \in DOMAIN PluginTools
  /\ UNCHANGED <<tokenState, data, edits, messages, did, told>>

\* Those who hold the list of URLs have one that is nobody's any more.
Detaches(o, keep) ==
  [x \in Callers |-> [call[x] EXCEPT !.detached =
                        @ \/ (call[x].pc = "target" /\ call[x].owner = o /\ x # keep)]]

Exists(o) == o \in Present \cup groups

\* The whole list of URLs is replaced when the arguments have one.
Store(c, o, area) ==
  /\ Does(c, {<<a, o>> : a \in {area} \cup call[c].args})
  /\ IF "notifications" \in call[c].args
     THEN \E list \in {<< >>} \cup {<<u>> : u \in Urls} :
            /\ urls' = [urls EXCEPT ![o] = list]
            /\ call' = [Detaches(o, c) EXCEPT ![c] = AnsweredCall(c)]
     ELSE urls' = urls /\ Closes(c)

Resolved(c, name) == call[c].pc = "resolved" /\ call[c].tool = name

update_watch(c) ==
  /\ Resolved(c, "update_watch") /\ Exists(call[c].owner)
  /\ Store(c, call[c].owner, "monitors")
  /\ UNCHANGED <<tokenState, tags, groups, pausedOf, pausedAll, edits, messages, told>>

update_tag(c) ==
  /\ Resolved(c, "update_tag") /\ Exists(call[c].owner)
  /\ Store(c, call[c].owner, "tags")
  /\ UNCHANGED <<tokenState, tags, groups, pausedOf, pausedAll, edits, messages, told>>

\* _watch_settings(): steps, conditions, templates, proxies and fetchers that cannot be, or a
\* monitor that is gone.
BadSettings(c) ==
  /\ call[c].pc = "resolved" /\ call[c].tool \in {"update_watch", "update_tag"}
  /\ Closes(c)
  /\ UNCHANGED <<tokenState, data, edits, messages, did, told>>

Destroy(c) ==
  /\ call[c].pc = "resolved" /\ call[c].tool \in {"delete_watch", "clear_history"}
  /\ tags' = IF call[c].tool = "delete_watch" THEN [tags EXCEPT ![call[c].owner] = Gone] ELSE tags
  /\ Does(c, {<<"monitors", call[c].owner>>})
  /\ Closes(c)
  /\ UNCHANGED <<tokenState, groups, pausedOf, pausedAll, urls, edits, messages, told>>

PluginCall(c) ==
  /\ call[c].pc = "resolved" /\ call[c].tool \in DOMAIN PluginTools
  /\ IF get_tools[call[c].tool].reads
     THEN Tells(c, {call[c].owner}) /\ UNCHANGED did
     ELSE Does(c, {<<"monitors", call[c].owner>>}) /\ UNCHANGED told
  /\ Closes(c)
  /\ UNCHANGED <<tokenState, data, edits, messages>>

create_tag(c) ==
  /\ Handles(c, "create_tag") /\ ~Limited(c)
  /\ \E g \in Labels \ groups : groups' = groups \cup {g} /\ Does(c, {<<"tags", Global>>})
  /\ Closes(c)
  /\ UNCHANGED <<tokenState, tags, pausedOf, pausedAll, urls, edits, messages, told>>

delete_tag(c) ==
  /\ Handles(c, "delete_tag") /\ ~Limited(c)
  /\ \E g \in GroupsWith(call[c].limit) :
       /\ groups' = groups \ {g}
       /\ tags' = [w \in Monitors |-> tags[w] \ {g}]
       /\ Does(c, {<<"tags", Global>>})
  /\ Closes(c)
  /\ UNCHANGED <<tokenState, pausedOf, pausedAll, urls, edits, messages, told>>

\* The list of URLs is held from here on.
notification_target(c) ==
  /\ call[c].pc = "scoped"
  /\ call[c].tool \in ListTools
  /\ \E o \in Targets(call[c].limit) : call' = [call EXCEPT ![c].pc = "target", ![c].owner = o]
  /\ UNCHANGED <<tokenState, data, edits, messages, did, told>>

add_notification(c) ==
  /\ call[c].pc = "target" /\ call[c].tool = "add_notification"
  /\ LET o == call[c].owner
     IN \E u \in Urls :
          IF call[c].detached \/ \E i \in DOMAIN urls[o] : urls[o][i] = u
          THEN UNCHANGED <<urls, did>>
          ELSE urls' = [urls EXCEPT ![o] = Append(@, u)] /\ Does(c, {<<"notifications", o>>})
  /\ Closes(c)
  /\ UNCHANGED <<tokenState, tags, groups, pausedOf, pausedAll, edits, messages, told>>

remove_notification(c) ==
  /\ call[c].pc = "target" /\ call[c].tool = "remove_notification"
  /\ LET o == call[c].owner
     IN IF call[c].detached \/ urls[o] = << >>
        THEN UNCHANGED <<urls, did>>
        ELSE \E i \in DOMAIN urls[o] : /\ urls' = [urls EXCEPT ![o] = RemoveAt(@, i)]
                                       /\ Does(c, {<<"notifications", o>>})
  /\ Closes(c)
  /\ UNCHANGED <<tokenState, tags, groups, pausedOf, pausedAll, edits, messages, told>>

\* The example is a change of a monitor the token sees, one of the group when it is a group's.
Examples(c) ==
  LET o == call[c].owner
  IN IF o \in Monitors THEN {o}
     ELSE {w \in SeenWith(call[c].limit) : o = Global \/ o \in tags[w]}

send_test_notification(c) ==
  /\ call[c].pc = "target" /\ call[c].tool = "send_test_notification"
  /\ IF Examples(c) = {} THEN UNCHANGED told ELSE \E w \in Examples(c) : Tells(c, {w})
  /\ Closes(c)
  /\ UNCHANGED <<tokenState, data, edits, messages, did>>

\* URLs are told masked.
list_notifications(c) ==
  /\ call[c].pc = "target" /\ call[c].tool = "list_notifications"
  /\ Closes(c)
  /\ UNCHANGED <<tokenState, data, edits, messages, did, told>>

-----------------------------------------------------------------------------
\* The user, on the settings page and in the lists of monitors and groups.

Edits == edits < MaxEdits /\ edits' = edits + 1

AddToken == /\ \E t \in Tokens, g \in Grids, l \in Limits :
                 /\ token[t] = Blank
                 /\ token' = [token EXCEPT ![t] = [grid |-> g, tags |-> l]]
                 /\ stored' = stored \cup {t}
            /\ UNCHANGED <<mcpEnabled, data, call, edits, messages, did, told>>

\* mcp_token_update() stores the levels and then the groups.
EditLevels == /\ Edits
              /\ \E t \in stored, g \in Grids : token' = [token EXCEPT ![t].grid = g]
              /\ UNCHANGED <<stored, mcpEnabled, data, call, messages, did, told>>
EditLimit == /\ Edits
             /\ \E t \in stored, l \in Limits : token' = [token EXCEPT ![t].tags = l]
             /\ UNCHANGED <<stored, mcpEnabled, data, call, messages, did, told>>

RevokeToken == /\ Edits
               /\ \E t \in stored : stored' = stored \ {t}
               /\ UNCHANGED <<token, mcpEnabled, data, call, messages, did, told>>

SwitchServer == /\ Edits
                /\ mcpEnabled' = ~mcpEnabled
                /\ UNCHANGED <<token, stored, data, call, messages, did, told>>

Move == /\ Edits
        /\ \E w \in Present, gs \in SUBSET groups : tags' = [tags EXCEPT ![w] = gs]
        /\ UNCHANGED <<tokenState, groups, pausedOf, pausedAll, urls, call, messages, did, told>>

Discard == /\ Edits
           /\ \E w \in Present : tags' = [tags EXCEPT ![w] = Gone]
           /\ UNCHANGED <<tokenState, groups, pausedOf, pausedAll, urls, call, messages, did, told>>

\* A form replaces the list.
EditUrls == /\ Edits
            /\ \E o \in Owners, list \in {<< >>} \cup {<<u>> : u \in Urls} :
                 urls' = [urls EXCEPT ![o] = list] /\ call' = Detaches(o, "nobody")
            /\ UNCHANGED <<tokenState, tags, groups, pausedOf, pausedAll, messages, did, told>>

User == \/ AddToken \/ EditLevels \/ EditLimit \/ RevokeToken \/ SwitchServer
        \/ Move \/ Discard \/ EditUrls

ToolRequest(c) ==
  \/ Arrive(c) \/ Message(c) \/ Scoped(c) \/ Invalid(c) \/ AnswerCall(c) \/ ToolError(c)
  \/ get_watch(c) \/ get_screenshot(c) \/ list_tags(c) \/ notification_services(c)
  \/ get_system_info(c) \/ pause_scheduler(c) \/ Select(c) \/ ChangeOne(c) \/ Changed(c)
  \/ Resolve(c) \/ update_watch(c) \/ update_tag(c) \/ BadSettings(c) \/ Destroy(c)
  \/ PluginCall(c) \/ create_tag(c) \/ delete_tag(c)
  \/ notification_target(c) \/ add_notification(c) \/ remove_notification(c)
  \/ send_test_notification(c) \/ list_notifications(c)

\* Kept of a request until it is answered.
Since(c, old, now) == IF call'[c].pc = "idle" THEN {} ELSE old \cup now
Remember ==
  /\ levels' = [c \in Callers |->
                  Since(c, levels[c], Writable(call[c].by, call[c].readonly)')]
  /\ had' = [c \in Callers |-> Since(c, had[c], {(token[call[c].by].tags)'})]
  /\ reach' = [c \in Callers |->
                 Since(c, reach[c], UNION {Targets(l)' : l \in had'[c]})]

AssistInit == /\ token = [t \in Tokens |-> Blank]
              /\ stored = {}
              /\ mcpEnabled = TRUE
              /\ tags = Members
              /\ groups = Labels
              /\ pausedOf = {}
              /\ pausedAll = FALSE
              /\ urls = [o \in Owners |-> << >>]
              /\ call = [c \in Callers |-> NoCall]
              /\ edits = 0 /\ messages = 0
              /\ levels = [c \in Callers |-> {}]
              /\ had = [c \in Callers |-> {}]
              /\ reach = [c \in Callers |-> {}]
              /\ did = [c \in Callers |-> {}]
              /\ told = [c \in Callers |-> {}]

AssistNext == (User \/ \E c \in Callers : ToolRequest(c)) /\ Remember

AssistSpec == AssistInit /\ [][AssistNext]_assistVars

-----------------------------------------------------------------------------
\* A request changes only what its token covered, in rows it could write to, and tells only of
\* what its token covered: at some moment since the request came in, under a limit that the token
\* had then or before, however its batch, the user's edits of the token, of the monitors and of
\* the groups, and its own steps come between each other.
WithinItsToken ==
  \A c \in Callers : /\ \A e \in did[c] : e[1] \in levels[c] /\ e[2] \in reach[c]
                     /\ told[c] \subseteq reach[c]
=============================================================================
