---------------------------- MODULE AgentRuntime ----------------------------
(***************************************************************************)
(* An `AgentRuntime` and the runs it executes: run_session                 *)
(* (crates/gestalt-runtime/src/runtime.rs) around AgentLoop::run           *)
(* (crates/gestalt-core/src/agent.rs), with the steering queue all runs of *)
(* the runtime share and the senders that submit messages while a run is   *)
(* in progress.  A run is a process: pc is the await it has reached.       *)
(***************************************************************************)
EXTENDS SteeringQueue, FiniteSets

CONSTANTS
  Runs,             \* calls of run_session on this runtime
  MaxTurns,         \* config.max_turns
  MaxCalls,         \* bound: tool calls in one assistant message
  SingleWriter,     \* TRUE: the host starts a run only when none is in progress
  AssemblerBacked   \* FALSE: the context pipeline may have no assembler

ASSUME AgentRuntimeAssumption ==
  /\ MaxTurns \in Nat
  /\ MaxCalls \in Nat
  /\ SingleWriter \in BOOLEAN
  /\ AssemblerBacked \in BOOLEAN

VARIABLES
  queue,        \* the runtime's steering queue
  acks,         \* acks[i]: what the sender of message i was told
  accepted,     \* messages acknowledged Queued since the queue last completed
  injected,     \* SessionMessageInjected events since the queue last completed
  pc,           \* pc[r]: where run r is
  turns,        \* turns[r]: completed turns
  cancelled,    \* cancelled[r]: the run's CancelToken
  exhausted,    \* exhausted[r]: token_budget.exhausted()
  batch,        \* batch[r]: tool calls of the turn, and results appended so far
  history,      \* history[r]: session.history
  checkpoint,   \* checkpoint[r]: history of the last Checkpoint event
  outcome       \* outcome[r]: what run_session returns

queueVars == <<queue, acks, accepted, injected>>
runVars == <<pc, turns, cancelled, exhausted, batch, history, checkpoint, outcome>>
vars == <<queueVars, runVars>>

-----------------------------------------------------------------------------
(* Messages of a session and states of a run. *)

Entry ==
  [kind : {"user"}] \cup [kind : {"steering"}, message : QueuedSessionMessage]
    \cup [kind : {"assistant"}, calls : 0..MaxCalls]
    \cup [kind : {"tool_result"}, call : 1..MaxCalls]

Prompt == [kind |-> "user"]
Steering(m) == [kind |-> "steering", message |-> m]
Assistant(n) == [kind |-> "assistant", calls |-> n]
ToolResult(i) == [kind |-> "tool_result", call |-> i]

\* A bug: the tool executor is not raced with the token.
CancelPointsButTools ==
  {"start_hooks", "loop_head", "drain", "before_context", "after_context",
   "requesting", "after_model", "results", "next_turn", "end_hooks"}

\* Awaits that are raced with the cancellation token, by a hook dispatch, by
\* the provider stream or by the tool executor, and the two explicit checks.
CancelPoints ==
  {"start_hooks", "loop_head", "drain", "before_context", "after_context",
   "requesting", "after_model", "tools", "results", "next_turn", "end_hooks"}

RunPc == CancelPoints \cup
  {"idle", "opening", "composing", "preparing", "turn_end", "closing",
   "completing", "done"}

Outcome == {"none", "end_turn", "max_turns", "budget_exhausted",
            "hook_blocked", "cancelled", "failed"}

InProgress(r) == pc[r] \notin {"idle", "done"}

\* A session may come with a spent budget from its earlier runs.
Init ==
  /\ queue = NewQueue
  /\ acks = [i \in MessageIds |-> "none"]
  /\ accepted = <<>>
  /\ injected = <<>>
  /\ pc = [r \in Runs |-> "idle"]
  /\ turns = [r \in Runs |-> 0]
  /\ cancelled = [r \in Runs |-> FALSE]
  /\ exhausted \in [Runs -> BOOLEAN]
  /\ batch = [r \in Runs |-> [calls |-> 0, answered |-> 0]]
  /\ history = [r \in Runs |-> <<>>]
  /\ checkpoint = [r \in Runs |-> <<>>]
  /\ outcome = [r \in Runs |-> "none"]

-----------------------------------------------------------------------------
(* Senders and hosts. *)

\* enqueue_message: a sender on any thread, at any time.
Submit(m) ==
  /\ acks[m.id] = "none"
  /\ acks' = [acks EXCEPT ![m.id] = EnqueueAck(queue, m)]
  /\ queue' = AfterEnqueue(queue, m)
  /\ accepted' = IF EnqueueAck(queue, m) = "Queued" THEN Append(accepted, m)
                                                    ELSE accepted
  /\ UNCHANGED <<injected, runVars>>

\* The holder of the run's token cancels it.
Cancel(r) ==
  /\ InProgress(r)
  /\ ~cancelled[r]
  /\ cancelled' = [cancelled EXCEPT ![r] = TRUE]
  /\ UNCHANGED <<queueVars, pc, turns, exhausted, batch, history, checkpoint,
                 outcome>>

-----------------------------------------------------------------------------
(* Steps of a run. *)

Goto(r, label) == pc' = [pc EXCEPT ![r] = label]

\* Control moves and nothing else changes.
Step(r, from, to) ==
  /\ pc[r] = from
  /\ Goto(r, to)
  /\ UNCHANGED <<queueVars, turns, cancelled, exhausted, batch, history,
                 checkpoint, outcome>>

\* AgentLoop::run returns an error: the queue is not closed, run_session goes
\* straight to its cleanup.
Return(r, result) ==
  /\ Goto(r, "completing")
  /\ outcome' = [outcome EXCEPT ![r] = result]
  /\ UNCHANGED <<queueVars, turns, cancelled, exhausted, batch, history,
                 checkpoint>>

\* The loop breaks with a stop reason.
Break(r, reason) ==
  /\ Goto(r, "closing")
  /\ outcome' = [outcome EXCEPT ![r] = reason]

\* append_user_message on a session the run owns.
Begin(r) ==
  /\ pc[r] = "idle"
  /\ SingleWriter => \A other \in Runs : ~InProgress(other)
  /\ Goto(r, "opening")
  /\ history' = [history EXCEPT ![r] = Append(@, Prompt)]
  /\ UNCHANGED <<queueVars, turns, cancelled, exhausted, batch, checkpoint,
                 outcome>>

\* run_session opens the queue before it composes the run.
OpenQueue(r) ==
  /\ pc[r] = "opening"
  /\ Goto(r, "composing")
  /\ queue' = AfterLifecycle(queue, "Active")
  /\ UNCHANGED <<acks, accepted, injected, turns, cancelled, exhausted, batch,
                 history, checkpoint, outcome>>

Compose(r) == Step(r, "composing", "start_hooks")

\* Hooks are configured but the pipeline has no assembler: run_session returns
\* without its cleanup.
RejectPipeline(r) ==
  /\ pc[r] = "composing"
  /\ ~AssemblerBacked
  /\ Goto(r, "done")
  /\ outcome' = [outcome EXCEPT ![r] = "failed"]
  /\ UNCHANGED <<queueVars, turns, cancelled, exhausted, batch, history,
                 checkpoint>>

\* A raced await, or a check of the token, sees the cancellation.
NoticeCancel(r) ==
  /\ cancelled[r]
  /\ pc[r] \in CancelPoints
  /\ Return(r, "cancelled")

\* A bug: no checkpoint before the first turn.
StartHooksUnsaved(r) == Step(r, "start_hooks", "loop_head")

\* Session-start hooks, then the first checkpoint.
StartHooks(r) ==
  /\ pc[r] = "start_hooks"
  /\ Goto(r, "loop_head")
  /\ checkpoint' = [checkpoint EXCEPT ![r] = history[r]]
  /\ UNCHANGED <<queueVars, turns, cancelled, exhausted, batch, history, outcome>>

StopAtLimit(r) ==
  /\ pc[r] = "loop_head"
  /\ ~cancelled[r]
  /\ turns[r] >= MaxTurns \/ exhausted[r]
  /\ Break(r, IF turns[r] >= MaxTurns THEN "max_turns" ELSE "budget_exhausted")
  /\ UNCHANGED <<queueVars, turns, cancelled, exhausted, batch, history,
                 checkpoint>>

EnterTurn(r) ==
  /\ ~cancelled[r]
  /\ turns[r] < MaxTurns
  /\ ~exhausted[r]
  /\ Step(r, "loop_head", "drain")

\* drain_session_messages: every queued message becomes a user message of the
\* session, and a checkpoint is emitted when there was one.
Drain(r) ==
  /\ pc[r] = "drain"
  /\ ~cancelled[r]
  /\ Goto(r, "before_context")
  /\ LET drained == [i \in DOMAIN queue.messages |-> Steering(queue.messages[i])]
         extended == history[r] \o drained
     IN /\ history' = [history EXCEPT ![r] = extended]
        /\ checkpoint' = IF drained = <<>> THEN checkpoint
                         ELSE [checkpoint EXCEPT ![r] = extended]
  /\ injected' = injected \o queue.messages
  /\ queue' = AfterDrain(queue)
  /\ UNCHANGED <<acks, accepted, turns, cancelled, exhausted, batch, outcome>>

\* Context hooks before the packet is built; one that blocks makes the next
\* event fail the run.
BeforeContext(r) == Step(r, "before_context", "preparing")
ContextBlocked(r) ==
  pc[r] \in {"before_context", "after_context"} /\ Return(r, "failed")

\* prepare_context may ask the provider to compact the history, and is not
\* raced with the token.
PrepareContext(r) ==
  \/ Step(r, "preparing", "after_context")
  \/ pc[r] = "preparing" /\ Return(r, "failed")

AfterContext(r) == Step(r, "after_context", "requesting")

\* The stream ends: usage is recorded and the assistant message is committed
\* before any of its tool calls runs.  With no call the provider's stop reason
\* decides the turn: end_turn ends the run, tool_use does not.
Respond(r) ==
  /\ pc[r] = "requesting"
  /\ Goto(r, "after_model")
  /\ \E n \in 0..MaxCalls, over \in BOOLEAN, stop \in {"end_turn", "none"} :
       /\ batch' = [batch EXCEPT ![r] = [calls |-> n, answered |-> 0]]
       /\ exhausted' = [exhausted EXCEPT ![r] = over]
       /\ history' = [history EXCEPT ![r] = Append(@, Assistant(n))]
       /\ outcome' = [outcome EXCEPT ![r] = IF n = 0 THEN stop ELSE "none"]
  /\ UNCHANGED <<queueVars, turns, cancelled, checkpoint>>

ProviderFails(r) == pc[r] = "requesting" /\ Return(r, "failed")

\* A bug: a message without calls is executed like one with calls.
AfterModelAlwaysTools(r) == Step(r, "after_model", "tools")

AfterModel(r) ==
  Step(r, "after_model", IF batch[r].calls = 0 THEN "turn_end" ELSE "tools")

\* execute_tool_batch answers every call of the batch, or fails as a whole.
ToolsAnswer(r) == Step(r, "tools", "results")

\* A bug: a failed batch ends the turn and not the run.
ToolsFailEndsTurn(r) == Step(r, "tools", "turn_end")
ToolsFail(r) == pc[r] = "tools" /\ Return(r, "failed")

\* One result: its hooks, then its message.
AppendResult(r) ==
  /\ pc[r] = "results"
  /\ LET i == batch[r].answered + 1
     IN /\ batch' = [batch EXCEPT ![r] = [calls |-> @.calls, answered |-> i]]
        /\ history' = [history EXCEPT ![r] = Append(@, ToolResult(i))]
        /\ Goto(r, IF i = batch[r].calls THEN "turn_end" ELSE "results")
  /\ UNCHANGED <<queueVars, turns, cancelled, exhausted, checkpoint, outcome>>

StopReason(r, completed) ==
  IF completed >= MaxTurns THEN "max_turns"
  ELSE IF exhausted[r] THEN "budget_exhausted" ELSE outcome[r]

\* The turn is counted and checkpointed, and stop_reason decides.
EndTurn(r) ==
  /\ pc[r] = "turn_end"
  /\ turns' = [turns EXCEPT ![r] = @ + 1]
  /\ checkpoint' = [checkpoint EXCEPT ![r] = history[r]]
  /\ LET reason == StopReason(r, turns[r] + 1)
     IN IF reason = "none" THEN Goto(r, "next_turn") /\ UNCHANGED outcome
                           ELSE Break(r, reason)
  /\ UNCHANGED <<queueVars, cancelled, exhausted, batch, history>>

NextTurn(r) == Step(r, "next_turn", "loop_head")
NextTurnBlocked(r) ==
  /\ pc[r] = "next_turn"
  /\ Break(r, "hook_blocked")
  /\ UNCHANGED <<queueVars, turns, cancelled, exhausted, batch, history,
                 checkpoint>>

\* No drain can follow: the loop closes the queue before session-end hooks.
CloseQueue(r) ==
  /\ pc[r] = "closing"
  /\ Goto(r, "end_hooks")
  /\ queue' = AfterLifecycle(queue, "Closing")
  /\ UNCHANGED <<acks, accepted, injected, turns, cancelled, exhausted, batch,
                 history, checkpoint, outcome>>

EndHooks(r) == Step(r, "end_hooks", "completing")

\* The trace worker has ended: run_session completes the queue.
CompleteQueue(r) ==
  /\ pc[r] = "completing"
  /\ Goto(r, "done")
  /\ queue' = AfterLifecycle(queue, "Completed")
  /\ accepted' = <<>>
  /\ injected' = <<>>
  /\ UNCHANGED <<acks, turns, cancelled, exhausted, batch, history, checkpoint,
                 outcome>>

-----------------------------------------------------------------------------
\* Steps the run takes by itself.
LocalStep(r) ==
  \/ OpenQueue(r) \/ Compose(r) \/ RejectPipeline(r) \/ NoticeCancel(r)
  \/ StopAtLimit(r) \/ EnterTurn(r) \/ Drain(r) \/ AppendResult(r)
  \/ EndTurn(r) \/ CloseQueue(r) \/ CompleteQueue(r)

\* Steps that wait for a hook, the provider, a tool or an approval.
Answer(r) ==
  \/ StartHooks(r) \/ BeforeContext(r) \/ ContextBlocked(r) \/ AfterContext(r)
  \/ Respond(r) \/ ProviderFails(r) \/ AfterModel(r)
  \/ ToolsAnswer(r) \/ ToolsFail(r) \/ NextTurn(r) \/ NextTurnBlocked(r)
  \/ EndHooks(r)

RunStep(r) == Begin(r) \/ LocalStep(r) \/ Answer(r) \/ PrepareContext(r)

Next ==
  \/ \E m \in QueuedSessionMessage : Submit(m)
  \/ \E r \in Runs : RunStep(r) \/ Cancel(r)

\* Only the executor's own progress is assumed: a provider, a hook, a tool or
\* an approver may never answer.
Fairness == \A r \in Runs : WF_vars(LocalStep(r))

Spec == Init /\ [][Next]_vars /\ Fairness

\* In addition, a compaction request is answered, which no cancellation awaits.
CompactingSpec == Spec /\ \A r \in Runs : WF_vars(PrepareContext(r))

-----------------------------------------------------------------------------
(* Properties. *)

TypeOK ==
  /\ queue \in QueueState
  /\ acks \in [MessageIds -> QueueAck \cup {"none"}]
  /\ accepted \in Seq(QueuedSessionMessage)
  /\ injected \in Seq(QueuedSessionMessage)
  /\ pc \in [Runs -> RunPc]
  /\ turns \in [Runs -> Nat]
  /\ cancelled \in [Runs -> BOOLEAN]
  /\ exhausted \in [Runs -> BOOLEAN]
  /\ batch \in [Runs -> [calls : 0..MaxCalls, answered : 0..MaxCalls]]
  /\ history \in [Runs -> Seq(Entry)]
  /\ checkpoint \in [Runs -> Seq(Entry)]
  /\ outcome \in [Runs -> Outcome]

\* A batch that is awaited, or whose results are being appended, has a call
\* that is not answered yet.
BatchUnanswered ==
  \A r \in Runs :
    /\ pc[r] \in {"tools", "results"} => batch[r].answered < batch[r].calls
    /\ pc[r] = "after_model" => batch[r].answered = 0

\* Nothing that was acknowledged Queued is lost, reordered or repeated before
\* the queue completes: it was injected, in order, or it still waits
\* (enqueue, drain, drain_session_messages).
NothingLost == accepted = injected \o queue.messages

\* Two messages accepted between two completions never share an idempotency
\* key, though drain empties the queue in between.
KeyAcceptedOnce ==
  \A i, j \in DOMAIN accepted :
    accepted[i].key = accepted[j].key => i = j \/ accepted[i].key = NoKey

\* Over every run of the runtime a steering message enters at most one session,
\* at one place, and only if its sender was told Queued.
SteeredOnce ==
  LET places == UNION {{r} \X {i \in DOMAIN history[r] :
                                history[r][i].kind = "steering"} : r \in Runs}
      MessageAt(p) == history[p[1]][p[2]].message
  IN \A p, q \in places :
       /\ acks[MessageAt(p).id] = "Queued"
       /\ MessageAt(p).id = MessageAt(q).id => p = q

\* Steering is injected between turns only: the results of an assistant
\* message follow it directly and in order, and a run whose last batch is not
\* fully answered makes no further request.
ExchangeUnbroken ==
  \A r \in Runs : \A i \in DOMAIN history[r] :
    history[r][i].kind = "assistant" =>
      \A c \in 1..history[r][i].calls :
        IF i + c \in DOMAIN history[r]
        THEN history[r][i + c] = ToolResult(c)
        ELSE pc[r] \in {"after_model", "tools", "results", "completing", "done"}

\* Whenever the run waits for the model, or stops normally, the last Checkpoint
\* event holds the whole history: a crash there loses no message.
CheckpointCurrent ==
  \A r \in Runs :
    pc[r] \in {"loop_head", "drain", "before_context", "preparing",
              "after_context", "requesting", "next_turn", "closing", "end_hooks"}
      => checkpoint[r] = history[r]

\* A sender told Duplicate had the same key and payload accepted before, one
\* told Conflict the same key and another payload, and one told Full meets a
\* queue at its bound.
AcksAreTruthful ==
  [][\A m \in QueuedSessionMessage :
       LET earlier == {i \in DOMAIN accepted : accepted[i].key = m.key}
       IN Submit(m) =>
            CASE acks'[m.id] = "Duplicate" ->
                   \E i \in earlier : accepted[i].payload = m.payload
              [] acks'[m.id] = "Conflict" ->
                   \E i \in earlier : accepted[i].payload # m.payload
              [] acks'[m.id] = "Full" -> Len(queue.messages) = Capacity
              [] OTHER -> TRUE]_vars

\* With one writer, steering is accepted neither by a run that is past its last drain,
\* while its session-end hooks run (agent.rs:266-270), nor, once it has ended, before
\* another run begins (runtime.rs:514-516).
NoSteeringPastRun ==
  /\ (\E r \in Runs : pc[r] = "end_hooks") => queue.lifecycle # "Active"
  /\ (\E r \in Runs : pc[r] = "done") /\ (\A r \in Runs : ~InProgress(r))
       => queue.lifecycle = "Completed"

\* Steering enters a session between exchanges, and a queue only while it will be drained.
SteeringInPlace == ExchangeUnbroken /\ NoSteeringPastRun

\* The runtime keeps the promise made to senders.
Promise ==
  INSTANCE SteeringPromise WITH
    Message <- QueuedSessionMessage,
    open <- queue.lifecycle = "Active",
    pending <- queue.messages,
    delivered <- injected

PromiseKept == Promise!Spec

\* A cancelled run ends, whoever does not answer it.
CancelEndsRun ==
  \A r \in Runs : cancelled[r] /\ InProgress(r) ~> pc[r] = "done"

\* A message that waits while a run is in progress is injected or dropped, if
\* everyone the run waits for answers: a provider, a hook, a tool, an approver.
QueueSettles ==
  (\A r \in Runs : WF_vars(Answer(r))) =>
    \A i \in MessageIds :
      (\E r \in Runs : InProgress(r)) /\ (\E k \in DOMAIN queue.messages : queue.messages[k].id = i)
        ~> ~\E k \in DOMAIN queue.messages : queue.messages[k].id = i
=============================================================================
