---------------------------- MODULE ToolDiscovery ----------------------------
(***************************************************************************)
(* The tools of MCP servers: how servers are connected and listed, what a  *)
(* turn offers, under which names, and what becomes of the calls that the  *)
(* model makes of it (crates/gestalt-runtime/src/mcp, tool_catalog.rs,     *)
(* tool_catalog_planner.rs, providers/tool_schema_adapter.rs;              *)
(* tool_name_mapping.rs, tool_validation.rs and agent/executor.rs of       *)
(* gestalt-core).  A server answers by itself, changes its list and dies.  *)
(* Catalogs take the locks of the registry with try_lock, so that a lock   *)
(* that another task holds makes tools disappear.                          *)
(***************************************************************************)
EXTENDS Naturals, Sequences, SequencesExt, FiniteSets, FiniteSetsExt

CONSTANTS
  Servers,         \* configured MCP servers
  AlwaysOn,        \* those that are connected when the runtime is built
  Permissions,     \* what the configuration fixes: admitted servers and the profile
  ServerTools,     \* what servers may have, as <<server, tool>>
  BaseTools,       \* names in the base catalog
  Position,        \* the order of canonical ids
  BaseName,        \* generate_provider_name: a sequence, to which suffixes are appended
  Threshold,       \* mcp_discovery_threshold
  Agents,          \* runs that share the runtime
  NoServer, NoCaller, NoList,
  MaxTurns, MaxCalls,   \* bounds: of each run
  MaxHostJobs,          \* bound: jobs of the embedder
  MaxListChanges        \* bound: changes of the servers' lists, and deaths

Embedder == "embedder"
Callers == {Embedder} \cup Agents \cup AlwaysOn

DiscoveryTools == {"search_tools", "get_tool_details"}
Builtin(n) == <<"builtin", n>>
McpId(t) == <<"mcp", t[1], t[2]>>
McpIds == {McpId(t) : t \in ServerTools}
ToolIds == McpIds \cup {Builtin(n) : n \in BaseTools \cup DiscoveryTools}
IsMcp(id) == id[1] = "mcp"
NameOf(id) == Last(id)

ToolsOf(s) == {t[2] : t \in {u \in ServerTools : u[1] = s}}

ASSUME DiscoveryAssumption ==
  /\ AlwaysOn \subseteq Servers
  /\ Embedder \notin Agents \cup AlwaysOn /\ Agents \cap AlwaysOn = {} /\ NoCaller \notin Callers
  /\ IsFiniteSet(ServerTools) /\ IsFiniteSet(BaseTools) /\ Threshold \in Nat
  /\ \A t \in ServerTools : t = <<t[1], t[2]>> /\ t[1] \in Servers
  /\ Position \in [ToolIds -> Nat] /\ IsInjective(Position)
  /\ \A id \in ToolIds : LET name == BaseName[id] IN
       Len(name) \in Nat /\ name = [i \in 1..Len(name) |-> name[i]]

VARIABLES
  registry,   \* of a server: its cell, who initialises it, whether it is marked, its cache
  mapHolder,  \* who has locked the map of clients
  mcpServer,  \* of a server: the processes, what it lists, its unread notifications
  caller,     \* what a task that needs a client is doing
  turn,       \* the turn of a run
  selected,   \* McpDiscoveryState: ids and names
  settled,    \* the configuration: which servers the permission validator admits, the profile
  inspected,  \* the last answer of get_all_states
  spent       \* turns, jobs and changes so far

discoveryVars ==
  <<registry, mapHolder, mcpServer, caller, turn, selected, settled, inspected, spent>>

NoErrand == [at |-> "idle", job |-> "none", server |-> NoServer, left |-> {}, asked |-> <<>>,
          heard |-> {}, listed |-> {}]

\* changed: servers whose cache has been emptied since the offer; blind: a lock was held.
NoTurn == [at |-> "idle", found |-> {}, offer |-> <<>>, calls |-> <<>>, outcome |-> <<>>,
           ran |-> <<>>, changed |-> {}, blind |-> FALSE]

DiscoveryInit ==
  /\ registry = [s \in Servers |->
       [cell |-> "absent", starter |-> NoCaller, failed |-> FALSE, cache |-> NoList]]
  /\ mapHolder = NoCaller
  /\ mcpServer = [s \in Servers |->
       [processes |-> 0, up |-> TRUE, tools |-> ToolsOf(s), unread |-> 0]]
  /\ caller = [c \in Callers |->
       IF c \in AlwaysOn THEN [NoErrand EXCEPT !.at = "entry", !.job = "connect", !.server = c]
       ELSE NoErrand]
  /\ turn = [r \in Agents |-> NoTurn]
  /\ selected = {}
  /\ settled \in Permissions
  /\ inspected = [s \in Servers |-> "Disconnected"]
  /\ spent = [turns |-> [r \in Agents |-> 0], jobs |-> 0, changes |-> 0]

-----------------------------------------------------------------------------
(* McpRegistry::get_client, in a task of its own or as part of a job.      *)

Fails(c) == caller' = [caller EXCEPT ![c] =
  [NoErrand EXCEPT !.at = "failed", !.job = caller[c].job, !.server = caller[c].server]]
Moves(c, at) == caller' = [caller EXCEPT ![c].at = at]

\* The permission validator of the registry: shell for a server that is launched, network for
\* one that is called.
Permits(s) == s \in settled.admitted

\* A server that failed once stays unavailable; the validator is asked each time.
EnterRegistry(c) ==
  LET s == caller[c].server
  IN /\ caller[c].at = "entry"
     /\ IF registry[s].failed \/ ~Permits(s)
        THEN Fails(c) /\ UNCHANGED mapHolder
        ELSE mapHolder = NoCaller /\ mapHolder' = c /\ Moves(c, "cell")
     /\ UNCHANGED <<registry, mcpServer, selected>>

TakeCell(c) ==
  LET s == caller[c].server
  IN /\ caller[c].at = "cell" /\ mapHolder = c
     /\ mapHolder' = NoCaller
     /\ registry' = [registry EXCEPT ![s].cell = IF @ = "absent" THEN "empty" ELSE @]
     /\ Moves(c, "wait")
     /\ UNCHANGED <<mcpServer, selected>>

\* A bug: every task that finds no client connects one.
MayInitialiseToo(s) == registry[s].cell = "empty"

MayInitialise(s) == registry[s].cell = "empty" /\ registry[s].starter = NoCaller

\* OnceCell::get_or_init: one of those who wait connects, and the others wait for it.
StartConnect(c) ==
  LET s == caller[c].server
  IN /\ caller[c].at = "wait" /\ MayInitialise(s)
     /\ registry' = [registry EXCEPT ![s].starter = c]
     /\ mcpServer' = [mcpServer EXCEPT ![s].processes = @ + 1]
     /\ Moves(c, "connect")
     /\ UNCHANGED <<mapHolder, selected>>

\* McpClient::connect: the process, the handshake, and the task that hears notifications.
EndConnect(c) ==
  LET s == caller[c].server
  IN /\ caller[c].at = "connect"
     /\ Moves(c, "wait")
     /\ \/ /\ mcpServer[s].up
           /\ registry' = [registry EXCEPT ![s].cell = "ready", ![s].starter = NoCaller]
           /\ UNCHANGED mcpServer
        \/ /\ registry' = [registry EXCEPT ![s].cell = "failed", ![s].starter = NoCaller]
           /\ mcpServer' = [mcpServer EXCEPT ![s].processes = @ - 1]
     /\ UNCHANGED <<mapHolder, selected>>

HaveClient(c) ==
  LET s == caller[c].server
  IN /\ caller[c].at = "wait" /\ registry[s].cell \in {"ready", "failed"}
     /\ IF registry[s].cell = "ready" THEN Moves(c, "client") /\ UNCHANGED registry
        ELSE Fails(c) /\ registry' = [registry EXCEPT ![s].failed = TRUE]
     /\ UNCHANGED <<mapHolder, mcpServer, selected>>

\* The task of a caller is dropped, a cancelled call for one: what it was connecting is
\* killed with it, and another task that waits for the cell begins anew.
TaskDropped(c) ==
  LET s == caller[c].server
  IN /\ c \notin AlwaysOn
     /\ caller[c].at \in {"wait", "connect", "client", "listing"}
     /\ Fails(c)
     /\ IF caller[c].at = "connect"
        THEN /\ registry' = [registry EXCEPT ![s].starter = NoCaller]
             /\ mcpServer' = [mcpServer EXCEPT ![s].processes = @ - 1]
        ELSE UNCHANGED <<registry, mcpServer>>
     /\ UNCHANGED <<mapHolder, selected>>

-----------------------------------------------------------------------------
(* McpClient::list_tools and the listener for list_changed.                *)

CacheLocked(s) == \E c \in Callers : caller[c].at = "storing" /\ caller[c].server = s

Lists(c, tools) ==
  caller' = [caller EXCEPT ![c].at = "next", ![c].heard = {},
               ![c].listed = @ \cup {<<"mcp", caller[c].server, t>> : t \in tools}]

ReadCache(c) ==
  LET s == caller[c].server
  IN /\ caller[c].at = "client" /\ caller[c].job \in {"list", "details"}
     /\ ~CacheLocked(s)
     /\ IF registry[s].cache # NoList THEN Lists(c, registry[s].cache) ELSE Moves(c, "listing")
     /\ UNCHANGED <<registry, mapHolder, mcpServer, selected>>

\* The answer to tools/list is what the server has when it answers.
HearList(c) ==
  LET s == caller[c].server
  IN /\ caller[c].at = "listing"
     /\ IF mcpServer[s].up
        THEN caller' = [caller EXCEPT ![c].at = "heard", ![c].heard = mcpServer[s].tools]
        ELSE Fails(c)
     /\ UNCHANGED <<registry, mapHolder, mcpServer, selected>>

LockCache(c) ==
  /\ caller[c].at = "heard" /\ ~CacheLocked(caller[c].server)
  /\ Moves(c, "storing")
  /\ UNCHANGED <<registry, mapHolder, mcpServer, selected>>

StoreCache(c) ==
  /\ caller[c].at = "storing"
  /\ registry' = [registry EXCEPT ![caller[c].server].cache = caller[c].heard]
  /\ Lists(c, caller[c].heard)
  /\ UNCHANGED <<mapHolder, mcpServer, selected>>

\* notifications/tools/list_changed empties the cache, and nothing lists again.
ListChanged(s) ==
  /\ mcpServer[s].unread > 0 /\ registry[s].cell = "ready" /\ ~CacheLocked(s)
  /\ mcpServer' = [mcpServer EXCEPT ![s].unread = @ - 1]
  /\ registry' = [registry EXCEPT ![s].cache = NoList]
  /\ turn' = [r \in Agents |->
                IF turn[r].at = "idle" THEN turn[r] ELSE [turn[r] EXCEPT !.changed = @ \cup {s}]]
  /\ UNCHANGED <<mapHolder, caller, selected, settled, inspected, spent>>

\* What a server does by itself.
ServerActs(s) ==
  /\ spent.changes < MaxListChanges
  /\ spent' = [spent EXCEPT !.changes = @ + 1]
  /\ \/ \E t \in ToolsOf(s) :
          mcpServer' = [mcpServer EXCEPT ![s].tools = IF t \in @ THEN @ \ {t} ELSE @ \cup {t},
                                         ![s].unread = @ + (IF registry[s].cell = "ready" THEN 1 ELSE 0)]
     \/ mcpServer' = [mcpServer EXCEPT ![s].up = FALSE]
  /\ UNCHANGED <<registry, mapHolder, caller, turn, selected, settled, inspected>>

-----------------------------------------------------------------------------
(* list_all_tools, search_tools and get_tool_details.  A run never gets to *)
(* execute the last two, see ValidateCall; an embedder does by their name. *)

NextServer(c) ==
  /\ caller[c].at = "next" /\ caller[c].left # {}
  /\ \E s \in caller[c].left :
       caller' = [caller EXCEPT ![c].at = "entry", ![c].server = s, ![c].left = @ \ {s}]
  /\ UNCHANGED <<registry, mapHolder, mcpServer, selected>>

Answers(id, name) == name \in {BaseName[id], id, <<NameOf(id)>>}

\* The first tool that answers to the name is selected, under its id and its base name.
Selects(listed, name) ==
  LET matching == {id \in listed : Answers(id, name)}
      first == CHOOSE id \in matching : \A other \in matching : Position[id] <= Position[other]
  IN IF matching = {} THEN {} ELSE {first, BaseName[first]}

EndListing(c) ==
  /\ caller[c].at = "next" /\ caller[c].left = {}
  /\ selected' = IF caller[c].job = "details"
                 THEN selected \cup Selects(caller[c].listed, caller[c].asked) ELSE selected
  /\ caller' = [caller EXCEPT ![c] = NoErrand]
  /\ UNCHANGED <<registry, mapHolder, mcpServer>>

\* One server that fails makes the whole listing fail.
EndJob(c) ==
  /\ c \notin Agents
  /\ caller[c].at = "failed" \/ (caller[c].at = "client" /\ caller[c].job = "connect")
  /\ caller' = [caller EXCEPT ![c] = NoErrand]
  /\ UNCHANGED <<registry, mapHolder, mcpServer, selected>>

CallerStep(c) ==
  /\ \/ EnterRegistry(c) \/ TakeCell(c) \/ StartConnect(c) \/ EndConnect(c) \/ HaveClient(c)
     \/ TaskDropped(c) \/ ReadCache(c) \/ HearList(c) \/ LockCache(c) \/ StoreCache(c)
     \/ NextServer(c) \/ EndListing(c) \/ EndJob(c)
  /\ UNCHANGED <<turn, settled, inspected, spent>>

EmbedderLists ==
  /\ caller[Embedder] = NoErrand /\ spent.jobs < MaxHostJobs
  /\ spent' = [spent EXCEPT !.jobs = @ + 1]
  /\ \E job \in {[job |-> "list", asked |-> <<>>]}
            \cup {[job |-> "details", asked |-> n] : n \in {BaseName[id] : id \in McpIds}} :
       caller' = [caller EXCEPT ![Embedder] =
                    [NoErrand EXCEPT !.at = "next", !.job = job.job, !.asked = job.asked,
                                  !.left = Servers]]
  /\ UNCHANGED <<registry, mapHolder, mcpServer, turn, selected, settled, inspected>>

\* get_all_states, which tries the locks too and keeps that of the map while it counts.
ConnectionState(s) ==
  IF mapHolder # NoCaller /\ ~registry[s].failed THEN "Disconnected"
  ELSE IF registry[s].failed THEN "Failed"
  ELSE CASE registry[s].cell = "failed" -> "Failed"
         [] registry[s].cell = "ready" -> "Connected"
         [] registry[s].cell = "empty" -> "Connecting"
         [] OTHER -> "Disconnected"
get_all_states ==
  /\ spent.jobs < MaxHostJobs
  /\ spent' = [spent EXCEPT !.jobs = @ + 1]
  /\ inspected' = [s \in Servers |-> ConnectionState(s)]
  /\ UNCHANGED <<registry, mapHolder, mcpServer, caller, turn, selected, settled>>

-----------------------------------------------------------------------------
(* The catalog, the planner and the names of a turn.                       *)

\* get_cached_tools: nothing if the map is locked, nothing of a server whose cache is.
Cached ==
  IF mapHolder # NoCaller THEN {}
  ELSE UNION {{<<"mcp", s, t>> : t \in registry[s].cache} :
                s \in {x \in Servers : registry[x].cell = "ready" /\ registry[x].cache # NoList
                                         /\ ~CacheLocked(x)}}
Contended == mapHolder # NoCaller \/ \E s \in Servers : CacheLocked(s)

\* ComposedToolCatalog::descriptors, up to the planner.
ReadDescriptors(r) ==
  /\ turn[r].at = "idle" /\ spent.turns[r] < MaxTurns
  /\ spent' = [spent EXCEPT !.turns[r] = @ + 1]
  /\ turn' = [turn EXCEPT ![r] = [NoTurn EXCEPT
                !.at = "planning", !.blind = Contended,
                !.found = Cached \cup {Builtin(n) : n \in BaseTools \cup DiscoveryTools}]]
  /\ UNCHANGED <<registry, mapHolder, mcpServer, caller, selected, settled, inspected>>

InProfile(id) == settled.profile = "All" \/ ~IsMcp(id)

\* Beyond the threshold a tool of a server is offered if it has been selected.  The
\* tools are counted in a second reading of the caches.
Chosen(id) == id \in selected \/ BaseName[id] \in selected
Planned(found) ==
  {id \in found : InProfile(id) /\ (Cardinality(Cached) > Threshold => ~IsMcp(id) \/ Chosen(id))}

Suffixed(name, n) == Append(name, n)

\* A bug: a candidate is taken without a look at the names given before.
SuffixedNames(ids) ==
  [i \in DOMAIN ids |->
     LET base == BaseName[ids[i]]
         occurrence == 1 + Cardinality({j \in 1..(i - 1) : BaseName[ids[j]] = base})
     IN IF occurrence = 1 THEN base ELSE Suffixed(base, occurrence)]

\* The name that is as its base name or has a suffix, a longer one while the name is given.
FreeName(ids, i, given) ==
  LET base == BaseName[ids[i]]
      occurrence == 1 + Cardinality({j \in 1..(i - 1) : BaseName[ids[j]] = base})
      candidate == IF occurrence = 1 THEN base ELSE Suffixed(base, occurrence)
      free == {n \in occurrence..(occurrence + Len(ids)) : Suffixed(base, n) \notin ToSet(given)}
  IN IF candidate \notin ToSet(given) THEN candidate ELSE Suffixed(base, Min(free))

\* resolve_provider_names: the first with a base name keeps it, the others get a suffix.
ProviderNames(ids) ==
  LET names[i \in 0..Len(ids)] ==
        IF i = 0 THEN <<>> ELSE Append(names[i - 1], FreeName(ids, i, names[i - 1]))
  IN names[Len(ids)]

\* Tools in the order of their canonical ids.
PlaceIn(ids, id) == Cardinality({other \in ids : Position[other] <= Position[id]})
InOrder(ids) == [k \in 1..Cardinality(ids) |-> CHOOSE id \in ids : PlaceIn(ids, id) = k]

\* adapt_tools, of sorted descriptors.
AdaptTools(found) ==
  LET ids == InOrder(found)
      names == ProviderNames(ids)
  IN [i \in DOMAIN ids |-> [id |-> ids[i], name |-> names[i]]]

PlanTurn(r) ==
  /\ turn[r].at = "planning"
  /\ turn' = [turn EXCEPT ![r].at = "offered",
                ![r].offer = AdaptTools(Planned(turn[r].found)),
                ![r].blind = @ \/ Contended]
  /\ UNCHANGED <<registry, mapHolder, mcpServer, caller, selected, settled, inspected, spent>>

-----------------------------------------------------------------------------
(* The calls of a turn.                                                     *)

UnknownName == <<"unknown">>
Offered(r) == {turn[r].offer[i].name : i \in DOMAIN turn[r].offer}
Denotes(r, name) == CHOOSE id \in ToolIds : \E i \in DOMAIN turn[r].offer : turn[r].offer[i] = [id |-> id, name |-> name]

\* ComposedToolCatalog::get_by_id: a built-in id is looked for in the base catalog only,
\* where the discovery tools, which are registered with the runtime, are not.
GetById(id) == IF IsMcp(id) THEN id \in Cached ELSE NameOf(id) \in BaseTools

ModelCalls(r) ==
  /\ turn[r].at = "offered"
  /\ \E n \in 1..MaxCalls : \E calls \in [1..n -> Offered(r) \cup {UnknownName}] :
       turn' = [turn EXCEPT ![r].at = "validating", ![r].calls = calls,
                                ![r].found = {}]
  /\ UNCHANGED <<registry, mapHolder, mcpServer, caller, selected, settled, inspected, spent>>

Pending(r, outcome) == {i \in DOMAIN turn[r].outcome : turn[r].outcome[i] = outcome}

\* ToolCallValidator::validate, for each call before any is decided upon.
ValidateCall(r) ==
  LET n == Len(turn[r].outcome) + 1
      name == turn[r].calls[n]
      outcome == IF name \notin Offered(r) THEN "inactive"
                 ELSE IF GetById(Denotes(r, name)) THEN "valid" ELSE "not_registered"
  IN /\ turn[r].at = "validating"
     /\ turn' = [turn EXCEPT ![r].outcome = Append(@, outcome), ![r].blind = @ \/ Contended,
                   ![r].at = IF n = Len(turn[r].calls) THEN "deciding" ELSE @]
     /\ UNCHANGED <<registry, mapHolder, mcpServer, caller, selected, settled, inspected, spent>>

\* The tool is looked up again for the policy, and its absence is a panic; a decision
\* takes its time, so that the next call may be looked up much later.
DecideCall(r) ==
  /\ turn[r].at = "deciding" /\ Pending(r, "valid") # {}
  /\ LET n == Min(Pending(r, "valid"))
         id == Denotes(r, turn[r].calls[n])
     IN IF ~GetById(id)
        THEN turn' = [turn EXCEPT ![r].at = "panicked", ![r].blind = @ \/ Contended,
                                  ![r].outcome[n] = "panic"]
        ELSE \E decision \in {"denied", "allowed"} :
               turn' = [turn EXCEPT ![r].outcome[n] = decision]
  /\ UNCHANGED <<registry, mapHolder, mcpServer, caller, selected, settled, inspected, spent>>

\* McpBackedTool::execute, of the tool as it was found: by its server and its name.
ExecuteCall(r) ==
  /\ turn[r].at = "deciding" /\ Pending(r, "valid") = {} /\ Pending(r, "allowed") # {}
  /\ caller[r] = NoErrand
  /\ LET n == Min(Pending(r, "allowed"))
         id == Denotes(r, turn[r].calls[n])
     IN IF IsMcp(id)
        THEN /\ caller' = [caller EXCEPT ![r] = [NoErrand EXCEPT
                             !.at = "entry", !.job = "call", !.server = id[2], !.asked = <<NameOf(id)>>]]
             /\ UNCHANGED turn
        ELSE /\ turn' = [turn EXCEPT ![r].outcome[n] = "ran", ![r].ran = Append(@, <<n, id>>)]
             /\ UNCHANGED caller
  /\ UNCHANGED <<registry, mapHolder, mcpServer, selected, settled, inspected, spent>>

\* The answer of the server, or why there is none.
EndCall(r) ==
  /\ caller[r].job = "call" /\ caller[r].at \in {"client", "failed"}
  /\ LET n == Min(Pending(r, "allowed"))
         s == caller[r].server
     IN \E answered \in BOOLEAN :
          /\ answered => caller[r].at = "client" /\ mcpServer[s].up
          /\ turn' = [turn EXCEPT ![r].outcome[n] = IF answered THEN "ran" ELSE "error",
                        ![r].ran = IF answered THEN Append(@, <<n, <<"mcp", s, caller[r].asked[1]>>>>) ELSE @]
  /\ caller' = [caller EXCEPT ![r] = NoErrand]
  /\ UNCHANGED <<registry, mapHolder, mcpServer, selected, settled, inspected, spent>>

EndTurn(r) ==
  /\ turn[r].at = "deciding" /\ Pending(r, "valid") = {} /\ Pending(r, "allowed") = {}
  /\ turn' = [turn EXCEPT ![r] = NoTurn]
  /\ UNCHANGED <<registry, mapHolder, mcpServer, caller, selected, settled, inspected, spent>>

TurnStep(r) ==
  \/ ReadDescriptors(r) \/ PlanTurn(r) \/ ModelCalls(r) \/ ValidateCall(r)
  \/ DecideCall(r) \/ ExecuteCall(r) \/ EndCall(r) \/ EndTurn(r)

DiscoveryNext ==
  \/ \E c \in Callers : CallerStep(c)
  \/ EmbedderLists \/ get_all_states
  \/ \E s \in Servers : ListChanged(s) \/ ServerActs(s)
  \/ \E r \in Agents : TurnStep(r)

DiscoverySpec == DiscoveryInit /\ [][DiscoveryNext]_discoveryVars

-----------------------------------------------------------------------------
(* What a turn offers can be told apart, and a call runs the tool that its *)
(* name stood for, whatever has been listed since.                         *)
NamesAreTools(r) ==
  LET it == turn[r] IN
  /\ \A i, j \in DOMAIN it.offer : it.offer[i].name = it.offer[j].name => i = j
  /\ \A i \in DOMAIN it.ran :
       \E j \in DOMAIN it.offer : it.offer[j] = [id |-> it.ran[i][2], name |-> it.calls[it.ran[i][1]]]

(* A tool that a turn offers is there when the model calls it, and a call  *)
(* that was found valid does not end the run, unless a list has changed or *)
(* a lock was held by another task (executor.rs, the expect of line 166).  *)
Undisturbed(r) == ~turn[r].blind /\ turn[r].changed = {}
CallsAreFound(r) ==
  LET it == turn[r] IN
  \A i \in DOMAIN it.outcome : Undisturbed(r) =>
    /\ it.outcome[i] # "panic"
    /\ it.outcome[i] = "not_registered" =>
         NameOf(Denotes(r, it.calls[i])) \in DiscoveryTools

(* Beyond the threshold tools of servers are offered that were selected,   *)
(* or whose name is that of one which was.                                 *)
DiscoveryIsProgressive(r) ==
  LET it == turn[r] IN
  it.at = "offered" /\ ~it.blind /\ Cardinality(it.found \cap McpIds) > Threshold /\ it.changed = {} =>
    \A i \in DOMAIN it.offer : IsMcp(it.offer[i].id) => Chosen(it.offer[i].id)

(* A server has at most one process, however many ask for it first and     *)
(* whoever of them gives up, and an answer of get_all_states stays true.   *)
ServersAreOne ==
  \A s \in Servers :
    /\ mcpServer[s].processes <= 1
    /\ registry[s].cell = "ready" => mcpServer[s].processes = 1
    /\ inspected[s] = "Failed" => registry[s].cell = "failed"
    /\ inspected[s] = "Connected" => registry[s].cell = "ready"

(* The four together: what is offered, called and connected agrees.        *)
ToolsAsOffered ==
  /\ \A r \in Agents : NamesAreTools(r) /\ CallsAreFound(r) /\ DiscoveryIsProgressive(r)
  /\ ServersAreOne

(* The model uses the discovery tools that a turn offers it; they answer   *)
(* like every tool that is offered (docs/adrs/ADR-027, section 3).         *)
OfferedIsRegistered ==
  \A r \in Agents : \A i \in DOMAIN turn[r].outcome :
    Undisturbed(r) => turn[r].outcome[i] # "not_registered"
=============================================================================
