------------------------------ MODULE MCControl ------------------------------
(***************************************************************************)
(* Instances, for TLC, of the runtime-backed host whose clients wait, and  *)
(* of the parts around it: submits, the event log, approvals, the pipes of *)
(* child processes, the extension manager, prompts, the streams of models, *)
(* traces.  They share no state; `part` tells which of them a behaviour is *)
(* about, and a part that it is not about stays in an initial state.       *)
(***************************************************************************)
EXTENDS MCRuntimeHost, SubmitMessage, EventLog, Approvals, Requests, MCExtensions,
        ModelStream, PromptAssembly, TraceRecord

CONSTANT Parts

MCUserBlocks == {<<"text">>, <<"text", "untrusted", "document">>}
MCReplyBlocks == {<<"text">>, <<"thinking", "text", "call", "call">>, <<"call">>}

VARIABLE part

allVars == <<vars, submitVars, eventLogVars, approvalVars, requestVars, extensionVars,
             streamVars, promptVars, recordVars, part>>

AllInit ==
  /\ part \in Parts
  /\ Init
  /\ SubmitInit /\ (part # "submit" => host = "memory")
  /\ EventLogInit /\ (part # "events" => wanted = EventKinds)
  /\ ApprovalsInit
  /\ RequestsInit /\ (part # "requests" => broker = "extension")
  /\ ExtensionsInit
  /\ StreamInit /\ (part # "streams" => format = "chat")
  /\ PromptInit
  /\ (part # "prompt" => prompting = [strategy |-> "Dynamic", capture |-> "disabled"])
  /\ TraceRecordInit

Others ==
  /\ part # "host" => UNCHANGED vars
  /\ part # "submit" => UNCHANGED submitVars
  /\ part # "events" => UNCHANGED eventLogVars
  /\ part # "approvals" => UNCHANGED approvalVars
  /\ part # "requests" => UNCHANGED requestVars
  /\ part # "extensions" => UNCHANGED extensionVars
  /\ part # "streams" => UNCHANGED streamVars
  /\ part # "prompt" => UNCHANGED promptVars
  /\ part # "trace" => UNCHANGED recordVars
  /\ UNCHANGED part

AllNext ==
  \/ part = "host" /\ Next /\ Others
  \/ part = "submit" /\ SubmitNext /\ Others
  \/ part = "events" /\ EventLogNext /\ Others
  \/ part = "approvals" /\ ApprovalsNext /\ Others
  \/ part = "requests" /\ RequestsNext /\ Others
  \/ part = "extensions" /\ ExtensionsNext /\ Others
  \/ part = "streams" /\ StreamNext /\ Others
  \/ part = "prompt" /\ PromptNext /\ Others
  \/ part = "trace" /\ TraceRecordNext /\ Others

\* What tells two states apart is the state of the part: the others do not move.
PartView ==
  <<part,
    CASE part = "host" -> vars
      [] part = "submit" -> submitVars
      [] part = "events" -> eventLogVars
      [] part = "approvals" -> approvalVars
      [] part = "requests" -> requestVars
      [] part = "extensions" -> extensionVars
      [] part = "streams" -> streamVars
      [] part = "prompt" -> promptVars
      [] part = "trace" -> recordVars>>

AllSpec == AllInit /\ [][AllNext]_allVars
=============================================================================
