------------------------------- MODULE MCTurn -------------------------------
(***************************************************************************)
(* Instances, for TLC, of the runtime-backed host whose clients do not     *)
(* wait, and of the parts that a turn of a run relies on.  They share no   *)
(* state; `part` tells which of them a behaviour is about, and a part that *)
(* it is not about stays in an initial state.                              *)
(***************************************************************************)
EXTENDS RuntimeHost, MCToolPolicy, ContextManagement, TraceResume, MCConfigLayers, FilePatch

CONSTANT Parts

VARIABLE part

TurnSymmetry == Permutations(ToolCalls)

allVars == <<vars, toolPolicyVars, contextVars, traceVars, configVars, filePatchVars, part>>

AllInit ==
  /\ part \in Parts
  /\ Init
  /\ ToolPolicyInit
  /\ part # "policy" => mode = "Confirm" /\ activeSkills = {} /\ matching = [a \in Actors |-> {}]
  /\ ContextInit /\ (part # "context" => managed /\ durability = "Required")
  /\ TraceInit
  /\ ConfigInit
  /\ part # "config" => /\ <<globalFile, workspaceFile, legacy>> = <<NoFile, NoFile, TRUE>>
                       /\ <<environment, flags>> = <<NoSettings, NoSettings>>
  /\ FilePatchInit /\ (part # "files" => onFile = [n \in FileNames |-> Missing])

Others ==
  /\ part # "host" => UNCHANGED vars
  /\ part # "policy" => UNCHANGED toolPolicyVars
  /\ part # "context" => UNCHANGED contextVars
  /\ part # "trace" => UNCHANGED traceVars
  /\ part # "config" => UNCHANGED configVars
  /\ part # "files" => UNCHANGED filePatchVars
  /\ UNCHANGED part

AllNext ==
  \/ part = "host" /\ Next /\ Others
  \/ part = "policy" /\ ToolPolicyNext /\ Others
  \/ part = "context" /\ ContextNext /\ Others
  \/ part = "trace" /\ TraceNext /\ Others
  \/ part = "config" /\ ConfigNext /\ Others
  \/ part = "files" /\ FilePatchNext /\ Others

\* What tells two states apart is the state of the part: the others do not move.
PartView ==
  <<part,
    CASE part = "host" -> vars
      [] part = "policy" -> toolPolicyVars
      [] part = "context" -> contextVars
      [] part = "trace" -> traceVars
      [] part = "config" -> configVars
      [] part = "files" -> filePatchVars>>

AllSpec == AllInit /\ [][AllNext]_allVars
=============================================================================
