---------------------------- MODULE MCApplication ----------------------------
(***************************************************************************)
(* Instances, for TLC, of the parts around the runtime: the directory of   *)
(* runs, the terminal interface, the activation of extensions, commands,   *)
(* the resolution of models, the memory of a workspace, the tools of MCP   *)
(* servers.  They share no state; `part` tells which of them a behaviour   *)
(* is about, and a part that it is not about stays in an initial state.    *)
(***************************************************************************)
EXTENDS RunStore, Terminal, Activation, CommandExecution,
        ModelResolution, Memory, ToolDiscovery, TLC

CONSTANTS AppParts, k1, v1, v2, x, y, ct, m1, m2, a, b, l1, l2, sa, sb, tf, tg, run1

\* Two manifests of one package: a process, a process that may fail, a command tool.
MCPackageOf == [m \in {v1, v2} |-> k1]
MCPartsOf == [m \in {v1, v2} |-> IF m = v1 THEN {x, y} ELSE {x, y, ct}]
Instance1(off) == [package |-> k1, enabled |-> TRUE, off |-> off]
MCSettings ==
  [trusted : SUBSET {v1, v2}, disabled : {{}}, allow : {FALSE},
   instances : {<<>>, <<Instance1({})>>, <<Instance1({}), Instance1({x})>>}]
  \cup [trusted : {{v1}}, disabled : SUBSET {k1}, allow : {TRUE},
        instances : {<<Instance1({y, ct})>>,
                     <<[Instance1({}) EXCEPT !.enabled = FALSE], Instance1({ct})>>}]

\* The first files: none; a profile of a variant that is not defined; a variant that extends
\* another; two that a file may tie together.
MCCachedInfo == [m \in {m1, m2} |-> [window |-> 2, reasoning |-> m = m2, tools |-> m = m1]]
NothingSet == <<>>
Dangling == <<"profile", "variant">> :> a
Inherits ==
  (<<m1, "reasoning">> :> TRUE) @@ (<<"profile", "variant">> :> a) @@ (<<m1, a, "extends">> :> b)
    @@ (<<m1, b, "temperature">> :> 1) @@ (<<m1, b, "thinking">> :> 1)
Overlays ==
  (<<m1, "temperature">> :> 2) @@ (<<m1, a, "thinking">> :> 2)
    @@ (<<"profile", "temperature">> :> 1) @@ (<<"context", "max_window">> :> 1)
MCFirstLayers == {[global |-> NothingSet, workspace |-> NothingSet],
                  [global |-> Dangling, workspace |-> NothingSet],
                  [global |-> Inherits, workspace |-> NothingSet],
                  [global |-> Inherits, workspace |-> Overlays]}

\* An entry with further lines, and two that say the same; a pinned one, marked.
Written(section, mark, line, tail) == [section |-> section, mark |-> mark, line |-> line, tail |-> tail]
MCFirstEntries ==
  {<<Written("General", NoMark, l1, "indented"), Written("Facts", l1, l2, "none")>>,
   <<Written("Facts", NoMark, l1, "none"), Written("Facts", NoMark, l1, "none")>>}

\* Two servers whose tools sanitise to one name, and a third tool with a name like an alias.
MCServerTools == {<<sa, tf>>, <<sa, tg>>, <<sb, tf>>}
MCOrder == <<Builtin("get_tool_details"), Builtin("read"), Builtin("search_tools"),
             <<"mcp", sa, tf>>, <<"mcp", sa, tg>>, <<"mcp", sb, tf>>>>
MCPosition == [id \in ToSet(MCOrder) |-> CHOOSE i \in DOMAIN MCOrder : MCOrder[i] = id]
MCBaseName == [id \in ToSet(MCOrder) |->
  CASE id[1] = "builtin" -> <<id[2]>>
    [] id[3] = tf -> <<"same">>
    [] OTHER -> <<"same", 2>>]

MCPermissions ==
  {[admitted |-> {sa, sb}, profile |-> "All"], [admitted |-> {sa}, profile |-> "BuiltInOnly"]}

\* Bound: the server that is connected when the runtime is built changes its list or dies;
\* to connect the other one may fail.
SteadyOnDemand ==
  \A s \in Servers \ AlwaysOn : mcpServer[s].up /\ mcpServer[s].tools = ToolsOf(s)

VARIABLE part

\* Sessions are alike: the runs of the past are of this one.
OneSession == CHOOSE s \in StoredSessions : TRUE

allVars == <<storeVars, terminalVars, activationVars, commandVars,
             resolutionVars, memoryVars, discoveryVars, part>>

AllInit ==
  /\ part \in AppParts
  /\ StoreInit /\ (\A r \in PastRuns : runDirs[r].session = OneSession)
  /\ TerminalInit
  /\ (part # "terminal" =>
        ui.modal = "None" /\ stored = <<>> /\ jobs = 0
          /\ ui.session = CHOOSE n \in SessionNames : TRUE)
  /\ ActivationInit
  /\ (part # "activation" =>
        host = "runtime" /\ settings.trusted = {} /\ settings.instances = <<>>
          /\ \A n \in DOMAIN onDisk : onDisk[n] = NoManifest)
  /\ CommandInit
  /\ (part # "command" =>
        Kind = "verifier" /\ \A f \in DOMAIN command.request \ {"kind"} : command.request[f])
  /\ ResolutionInit /\ (part # "resolution" => layers.global = Dangling)
  /\ MemoryInit
  /\ (part # "memory" => memory = NoMemory)
  /\ DiscoveryInit
  /\ (part # "discovery" => settled = CHOOSE given \in MCPermissions : TRUE)

Others ==
  /\ part # "store" => UNCHANGED storeVars
  /\ part # "terminal" => UNCHANGED terminalVars
  /\ part # "activation" => UNCHANGED activationVars
  /\ part # "command" => UNCHANGED commandVars
  /\ part # "resolution" => UNCHANGED resolutionVars
  /\ part # "memory" => UNCHANGED memoryVars
  /\ part # "discovery" => UNCHANGED discoveryVars
  /\ UNCHANGED part

AllNext ==
  \/ part = "store" /\ StoreNext /\ Others
  \/ part = "terminal" /\ TerminalNext /\ Others
  \/ part = "activation" /\ ActivationNext /\ Others
  \/ part = "command" /\ CommandNext /\ Others
  \/ part = "resolution" /\ ResolutionNext /\ Others
  \/ part = "memory" /\ MemoryNext /\ Others
  \/ part = "discovery" /\ DiscoveryNext /\ SteadyOnDemand' /\ Others

\* Whether a question was approved or denied is not read.
TerminalView ==
  <<ui, approval_tx, bridge, job, jobs, connects, stored,
    [q \in DOMAIN replies |-> IF replies[q] = "Deny" THEN "Approve" ELSE replies[q]]>>

\* Of a request nothing is read but its kind, whether it is permitted and whether it is
\* recorded.
CommandView ==
  <<Kind, Permitted, command.request.recorded, command.phase, command.waited,
    living, streams, artifacts, late, outcome>>

\* What tells two states apart is the state of the part: the others do not move.
PartView ==
  <<part,
    CASE part = "store" -> storeVars
      [] part = "terminal" -> TerminalView
      [] part = "activation" -> activationVars
      [] part = "command" -> CommandView
      [] part = "resolution" -> resolutionVars
      [] part = "memory" -> memoryVars
      [] part = "discovery" -> discoveryVars>>

\* In the store, processes are alike, and so are the runs that are still to come.
StoreSymmetry == Permutations(Users) \cup Permutations(StoredRuns \ PastRuns)

AllSpec == AllInit /\ [][AllNext]_allVars
=============================================================================
