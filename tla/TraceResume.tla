----------------------------- MODULE TraceResume -----------------------------
(***************************************************************************)
(* The trace of a run on disk and the analysis that decides whether a run  *)
(* may be resumed or continued from its last checkpoint                    *)
(* (crates/gestalt-runtime/src/trace, gestalt-app/src/run.rs, sessions.rs, *)
(* gestalt-core/src/agent.rs): the agent emits events into a buffered      *)
(* writer, the process may die at any point, and `run.json` is rewritten   *)
(* in place when the run ends.  The events are those the analysis reads.   *)
(***************************************************************************)
EXTENDS Naturals, Sequences, SequencesExt, FiniteSets

CONSTANTS
  ToolCalls,   \* ids of the tool calls the model may propose
  MaxRunTurns  \* max_turns of the loop

ASSUME TraceAssumption == IsFiniteSet(ToolCalls) /\ MaxRunTurns \in Nat

VARIABLES
  step,      \* where the run is
  turnsDone, \* turns
  emitted,   \* every event emitted so far
  onDisk,    \* how many of them the writer has passed on to the file
  torn,      \* the file ends within a line
  runJson,   \* run.json: its lifecycle_state, and whether it names the prompt snapshot
  prompted,  \* artifacts/prompt-snapshot.json is written
  proposed,  \* the calls of this turn that are not judged, asked or started yet, per stage
  started,   \* the calls of this turn in execution
  unanswered,   \* the calls of this turn whose results are still to be emitted
  ran,       \* the calls whose tool has run, or may have
  stopped    \* the cancel token

traceVars == <<step, turnsDone, emitted, onDisk, torn, runJson, prompted, proposed, started,
               unanswered, ran, stopped>>

-----------------------------------------------------------------------------
\* Events: an operation starts or is over, a checkpoint keeps a history.

Begun(op) == [event |-> op, over |-> FALSE, ids |-> {}]
Over(op) == [event |-> op, over |-> TRUE, ids |-> {}]
ToolExecutionStarted(c) == [event |-> "tool", over |-> FALSE, ids |-> {c}]
ToolResult(c) == [event |-> "tool", over |-> TRUE, ids |-> {c}]
Checkpoint == [event |-> "checkpoint", over |-> TRUE, ids |-> ran]
PromptSnapshotCreated == [event |-> "snapshot", over |-> TRUE, ids |-> {}]

\* The writer keeps the events or passes some of them on to the file.
Emit(events) ==
  /\ emitted' = emitted \o events
  /\ onDisk' \in {onDisk} \cup (Len(emitted) + 1)..Len(emitted')

\* A start that is not flushed before the tool runs.
EmitUnflushed(events) == Emit(events)

EmitAndFlush(events) ==
  /\ emitted' = emitted \o events
  /\ onDisk' = Len(emitted')

-----------------------------------------------------------------------------
\* What another process finds on disk.

OnDisk == SubSeq(emitted, 1, onDisk)
CheckpointsOf(t) == {i \in DOMAIN t : t[i].event = "checkpoint"}
LastCheckpoint(t) == CHOOSE i \in CheckpointsOf(t) : \A j \in CheckpointsOf(t) : j <= i
AfterCheckpoint(t) == SubSeq(t, LastCheckpoint(t) + 1, Len(t))

\* Booleans for all operations but the tools: the last event decides.
InFlightOp(t, op) ==
  \E i \in DOMAIN t : /\ t[i].event = op /\ ~t[i].over
                      /\ \A j \in (i + 1)..Len(t) : t[j].event # op
InFlightTools(t) ==
  {c \in ToolCalls : \E i \in DOMAIN t :
     /\ t[i] = ToolExecutionStarted(c)
     /\ \A j \in (i + 1)..Len(t) : t[j] # ToolResult(c)}

SnapshotMissing(t) ==
  ~runJson.snapshot /\ \E i \in DOMAIN t : t[i].event = "snapshot"

LifecycleStatus ==
  CASE runJson.state = "Completed" -> "CompletedHead"
    [] runJson.state = "Interrupted" -> "InterruptedSafe"
    [] runJson.state = "Failed" -> "FailedWithCheckpoint"
    [] OTHER -> "UnfinalizedRunning"

RecoveryStatus(compatible, drifted) ==
  LET late == AfterCheckpoint(OnDisk)
  IN IF runJson.state = "absent" THEN "LegacyNonResumable"
     ELSE IF runJson.state = "torn" THEN "IncompatibleTrace"
     ELSE IF ~compatible THEN "IncompatibleFingerprint"
     ELSE IF torn \/ SnapshotMissing(OnDisk) THEN "IncompatibleTrace"
     ELSE IF CheckpointsOf(OnDisk) = {} THEN "LegacyNonResumable"
     ELSE IF drifted THEN "WorkspaceDrift"
     ELSE IF InFlightTools(late) # {} THEN "InterruptedAmbiguousTool"
     ELSE IF InFlightOp(late, "hook") THEN "InterruptedAmbiguousHook"
     ELSE IF InFlightOp(late, "approval") THEN "InterruptedPendingApproval"
     ELSE IF InFlightOp(late, "policy") THEN "InterruptedPolicyEval"
     ELSE IF InFlightOp(late, "provider") THEN "InterruptedProviderStream"
     ELSE IF InFlightOp(late, "context") THEN "InterruptedContextBuild"
     ELSE LifecycleStatus

SafeToResume == {"InterruptedSafe", "InterruptedContextBuild", "InterruptedProviderStream",
                 "InterruptedPolicyEval", "InterruptedPendingApproval"}
SafeToContinue == {"CompletedHead"}

\* run_session_action takes the run up again without being told a checkpoint.
TakenUp(compatible, drifted) ==
  RecoveryStatus(compatible, drifted) \in SafeToResume \cup SafeToContinue

-----------------------------------------------------------------------------
NoCalls == [policy |-> {}, confirm |-> {}, execute |-> {}]

TraceInit ==
  /\ step = "new" /\ turnsDone = 0
  /\ emitted = <<>> /\ onDisk = 0 /\ torn = FALSE
  /\ runJson = [state |-> "absent", snapshot |-> FALSE] /\ prompted = FALSE
  /\ proposed = NoCalls /\ started = {} /\ unanswered = {} /\ ran = {}
  /\ stopped = FALSE

Alive == step \notin {"over", "dead"}
batch == <<proposed, started, unanswered>>
files == <<runJson, prompted>>

\* File::create empties run.json before the manifest is written into it.
SaveManifest ==
  \/ /\ step = "new" /\ step' = "saving"
     /\ runJson' = [runJson EXCEPT !.state = "torn"]
     /\ UNCHANGED <<turnsDone, emitted, onDisk, torn, prompted, batch, ran, stopped>>
  \/ /\ step = "saving" /\ step' = "begin"
     /\ runJson' = [state |-> "Running", snapshot |-> FALSE]
     /\ UNCHANGED <<turnsDone, emitted, onDisk, torn, prompted, batch, ran, stopped>>

\* The run is over with a result; the caller flushes, then saves the manifest.
End(result) == step' = result

BeginRun ==
  /\ step = "begin" /\ step' = "loop"
  /\ Emit(<<Checkpoint>>)
  /\ UNCHANGED <<turnsDone, torn, files, batch, ran, stopped>>

LoopTop ==
  /\ step = "loop"
  /\ IF stopped THEN End("Interrupted") /\ UNCHANGED <<emitted, onDisk>>
     ELSE IF turnsDone = MaxRunTurns THEN End("Completed") /\ UNCHANGED <<emitted, onDisk>>
     ELSE step' = "context" /\ Emit(<<Begun("context")>>)
  /\ UNCHANGED <<turnsDone, torn, files, batch, ran, stopped>>

\* The prompt snapshot is written when the first packet is built.
BuildContext ==
  /\ step = "context"
  /\ \/ /\ step' = "request"
        /\ \/ prompted /\ prompted' = prompted /\ Emit(<<Over("context")>>)
           \/ prompted' = TRUE /\ Emit(<<PromptSnapshotCreated, Over("context")>>)
           \/ ~prompted /\ prompted' = prompted /\ Emit(<<Over("context")>>)
     \/ /\ stopped /\ End("Interrupted") /\ Emit(<<Over("context")>>) /\ UNCHANGED prompted
     \/ /\ End("Failed") /\ Emit(<<Over("context")>>) /\ UNCHANGED prompted
  /\ UNCHANGED <<turnsDone, torn, runJson, batch, ran, stopped>>

AskProvider ==
  /\ step = "request" /\ step' = "stream"
  /\ Emit(<<Begun("provider")>>)
  /\ UNCHANGED <<turnsDone, torn, files, batch, ran, stopped>>

\* The stream fails, is interrupted, or ends with the calls of the turn.
Stream ==
  /\ step = "stream"
  /\ \/ /\ \E calls \in SUBSET (ToolCalls \ ran) :
             /\ proposed' = [NoCalls EXCEPT !.policy = calls]
             /\ unanswered' = calls
             /\ step' = IF calls = {} THEN "turnEnd" ELSE "policy"
        /\ Emit(<<Over("provider")>>)
     \/ /\ stopped /\ End("Interrupted") /\ Emit(<<Over("provider")>>)
        /\ UNCHANGED <<proposed, unanswered>>
     \/ /\ End("Failed") /\ Emit(<<Over("provider")>>)
        /\ UNCHANGED <<proposed, unanswered>>
  /\ UNCHANGED <<turnsDone, torn, files, started, ran, stopped>>


\* Every call is judged before any is asked about, and asked about before any runs.
PolicyStarts ==
  /\ step = "policy"
  /\ IF proposed.policy = {} THEN step' = "confirm" /\ UNCHANGED <<emitted, onDisk>>
     ELSE step' = "judging" /\ Emit(<<Begun("policy")>>)
  /\ UNCHANGED <<turnsDone, torn, files, batch, ran, stopped>>

Judged(c, stages) ==
  proposed' = [s \in DOMAIN proposed |->
                 IF s = "policy" THEN proposed[s] \ {c}
                 ELSE IF s \in stages THEN proposed[s] \cup {c} ELSE proposed[s]]

PolicyDecides ==
  /\ step = "judging"
  /\ Emit(<<Over("policy")>>)
  /\ \/ /\ step' = "policy"
        /\ \E c \in proposed.policy : \E stages \in {{}, {"confirm"}, {"execute"}} :
             Judged(c, stages)
     \/ stopped /\ End("Interrupted") /\ UNCHANGED proposed
     \/ End("Failed") /\ UNCHANGED proposed
  /\ UNCHANGED <<turnsDone, torn, files, started, unanswered, ran, stopped>>

RequestApproval ==
  /\ step = "confirm"
  /\ IF proposed.confirm = {} THEN step' = "execute" /\ UNCHANGED <<emitted, onDisk>>
     ELSE step' = "asking" /\ Emit(<<Begun("approval")>>)
  /\ UNCHANGED <<turnsDone, torn, files, batch, ran, stopped>>

\* An approval that fails leaves its request in flight.
ApprovalArrives ==
  /\ step = "asking"
  /\ \/ /\ step' = "confirm" /\ Emit(<<Over("approval")>>)
        /\ \E c \in proposed.confirm : \E granted \in {{}, {c}} :
             proposed' = [proposed EXCEPT !.confirm = @ \ {c}, !.execute = @ \cup granted]
     \/ stopped /\ End("Interrupted") /\ Emit(<<Over("approval")>>) /\ UNCHANGED proposed
     \/ End("Failed") /\ UNCHANGED <<emitted, onDisk, proposed>>
  /\ UNCHANGED <<turnsDone, torn, files, started, unanswered, ran, stopped>>

\* The hooks before the next group of calls; a cancel leaves the hook in flight.
BeforeTools ==
  /\ step = "execute" /\ proposed.execute # {}
  /\ \/ /\ step' = "group"
        /\ Emit(<<Begun("hook"), Over("hook")>>)
     \/ /\ stopped /\ End("Interrupted")
        /\ Emit(<<Begun("hook")>>)
  /\ UNCHANGED <<turnsDone, torn, files, batch, ran, stopped>>

\* One call that runs alone, or a group that runs in parallel.
StartTools ==
  /\ step = "group"
  /\ \E group \in (SUBSET proposed.execute) \ {{}} :
       /\ EmitAndFlush(SetToSeq({ToolExecutionStarted(c) : c \in group}))
       /\ started' = group
       /\ proposed' = [proposed EXCEPT !.execute = @ \ group]
  /\ step' = "running"
  /\ UNCHANGED <<turnsDone, torn, files, unanswered, ran, stopped>>

\* From here on the tools may have had their effects; a cancel drops the results.
RunTools ==
  \/ /\ step = "running" /\ started \ ran # {}
     /\ ran' = ran \cup started
     /\ UNCHANGED <<step, started>>
  \/ /\ step = "running" /\ started \subseteq ran
     /\ started' = {} /\ step' = "execute" /\ UNCHANGED ran
  \/ /\ step = "running" /\ stopped
     /\ End("Interrupted") /\ UNCHANGED <<ran, started>>

ToolsRun ==
  /\ RunTools
  /\ UNCHANGED <<turnsDone, emitted, onDisk, torn, files, proposed, unanswered, stopped>>

\* The results of a batch are emitted when all of it has run, each with its hooks.
AnswerTools ==
  /\ step = "execute" /\ proposed.execute = {}
  /\ IF unanswered = {} THEN step' = "turnEnd" /\ UNCHANGED <<emitted, onDisk, unanswered>>
     ELSE \E c \in unanswered :
            /\ unanswered' = unanswered \ {c}
            /\ \/ step' = step /\ Emit(<<ToolResult(c), Begun("hook"), Over("hook")>>)
               \/ stopped /\ End("Interrupted") /\ Emit(<<ToolResult(c), Begun("hook")>>)
  /\ UNCHANGED <<turnsDone, torn, files, proposed, started, ran, stopped>>

\* A turn without a tool call is the last.
TurnEnd ==
  /\ step = "turnEnd"
  /\ Emit(<<Checkpoint>>)
  /\ turnsDone' = turnsDone + 1
  /\ \/ step' = "loop"
     \/ End("Completed")
  /\ UNCHANGED <<torn, files, batch, ran, stopped>>

\* run_prompt and run_session_action after the loop: flush, then the manifest.
RunOver == {"Completed", "Interrupted", "Failed"}

Finish ==
  \/ /\ step \in RunOver /\ onDisk < Len(emitted)
     /\ onDisk' = Len(emitted)
     /\ UNCHANGED <<step, runJson>>
  \/ /\ step \in RunOver /\ onDisk = Len(emitted) /\ runJson.state = "Running"
     /\ runJson' = [runJson EXCEPT !.state = "torn"]
     /\ UNCHANGED <<step, onDisk>>
  \/ /\ step \in RunOver /\ runJson.state = "torn"
     /\ runJson' = [state |-> step, snapshot |-> prompted]
     /\ step' = "over" /\ UNCHANGED onDisk

FinishRun ==
  /\ Finish
  /\ UNCHANGED <<turnsDone, emitted, torn, prompted, batch, ran, stopped>>

CancelToken ==
  /\ Alive /\ ~stopped /\ stopped' = TRUE
  /\ UNCHANGED <<step, turnsDone, emitted, onDisk, torn, files, batch, ran>>

\* The process dies: what the writer holds is lost, perhaps within a line.
Die ==
  /\ Alive /\ step' = "dead"
  /\ torn' \in {FALSE, onDisk < Len(emitted)}
  /\ UNCHANGED <<turnsDone, emitted, onDisk, files, batch, ran, stopped>>

TraceNext ==
  \/ SaveManifest \/ BeginRun \/ LoopTop \/ BuildContext \/ AskProvider \/ Stream
  \/ PolicyStarts \/ PolicyDecides \/ RequestApproval \/ ApprovalArrives
  \/ BeforeTools \/ StartTools \/ ToolsRun \/ AnswerTools \/ TurnEnd
  \/ FinishRun \/ CancelToken \/ Die

TraceSpec == TraceInit /\ [][TraceNext]_traceVars

-----------------------------------------------------------------------------
\* The calls the history of the next run knows of.
Restored == OnDisk[LastCheckpoint(OnDisk)].ids

(* Whenever the analysis lets a run be resumed or continued, every tool    *)
(* that has run, or may have, is in the history it goes on from, so no     *)
(* side effect is repeated (ADR-022, "Consequences").                      *)
ResumeRepeatsNothing == TakenUp(TRUE, FALSE) => ran \subseteq Restored
=============================================================================
