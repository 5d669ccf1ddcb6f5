----------------------------- MODULE MCProgress -----------------------------
(***************************************************************************)
(* Instances, for TLC, of what must end: tool batches, and the tasks of    *)
(* the runtime-backed host.  They share no state; `part` tells which one a *)
(* behaviour is about, and the fairness of that one is assumed.            *)
(***************************************************************************)
EXTENDS RuntimeHost, ToolBatch

CONSTANTS Parts, bash, fetch, list, remove

\* bash may run in parallel with a harmless input only; fetch always.
MCMalformed == {<<fetch, remove>>}
MCExclusive == {<<bash, remove>>}
MCRisk == [p \in Tools \X Inputs |-> IF p \in MCExclusive THEN 2 ELSE 1]

VARIABLE part

allVars == <<vars, batchVars, part>>

AllInit == part \in Parts /\ Init /\ BatchInit

AllNext ==
  /\ UNCHANGED part
  /\ \/ part = "host" /\ Next /\ UNCHANGED batchVars
     \/ part = "batch" /\ BatchNext /\ UNCHANGED vars

\* Spawned tasks and handlers of the host run on, and a run ends: AgentRuntime's part.
HostTask(p) == part = "host" /\ TaskStep(p)
HostRun(p) == part = "host" /\ RunReturns(p)
HostMark(s, r) == part = "host" /\ MarkCancelled(s, r)

\* The task of a batch runs on, and a select with the token set returns.  The policy,
\* the user, hooks and tools may never answer.
BatchTask == part = "batch" /\ LocalStep
BatchCancel == part = "batch" /\ ReturnCancelled

AllSpec ==
  /\ AllInit /\ [][AllNext]_allVars
  /\ \A p \in Prompts : WF_vars(HostTask(p)) /\ WF_vars(HostRun(p))
  /\ \A s \in Sessions, r \in RunIds : WF_vars(HostMark(s, r))
  /\ WF_batchVars(BatchTask) /\ WF_batchVars(BatchCancel)
=============================================================================
