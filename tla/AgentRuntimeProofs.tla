------------------------- MODULE AgentRuntimeProofs -------------------------
(***************************************************************************)
(* Proofs about AgentRuntime for every set of messages, keys and runs and  *)
(* every capacity and turn bound.                                          *)
(***************************************************************************)
EXTENDS AgentRuntime, SteeringQueueProofs, TLAPS, SequenceTheorems

-----------------------------------------------------------------------------
(* Type correctness. *)

TypeInv == TypeOK /\ BatchUnanswered

\* The messages of a queue become entries of a session one by one.
LEMMA DrainedEntries ==
  ASSUME NEW s \in Seq(QueuedSessionMessage)
  PROVE  [i \in DOMAIN s |-> Steering(s[i])] \in Seq(Entry)
<1>1. \A i \in DOMAIN s : Steering(s[i]) \in Entry
  BY DEF Steering, Entry
<1>2. DOMAIN s = 1..Len(s) /\ Len(s) \in Nat
  OBVIOUS
<1>3. [i \in DOMAIN s |-> Steering(s[i])] \in [1..Len(s) -> Entry]
  BY <1>1, <1>2
<1> QED
  BY <1>2, <1>3, SeqDef

LEMMA InitType == Init => TypeInv
<1>1. Init => TypeOK
  BY SteeringQueueAssumption, AgentRuntimeAssumption
     DEF Init, TypeOK, NewQueue, QueueState, QueueLifecycle, RunPc, Outcome
<1>2. Init => BatchUnanswered
  BY DEF Init, BatchUnanswered
<1> QED
  BY <1>1, <1>2 DEF TypeInv

LEMMA SubmitType ==
  ASSUME TypeInv, NEW m \in QueuedSessionMessage, Submit(m)
  PROVE  TypeInv'
<1> USE DEF TypeInv, TypeOK
<1>1. queue' \in QueueState /\ EnqueueAck(queue, m) \in QueueAck
  BY EnqueueCases DEF Submit
<1>2. accepted' \in Seq(QueuedSessionMessage)
  BY DEF Submit
<1>3. acks' \in [MessageIds -> QueueAck \cup {"none"}]
  BY <1>1 DEF Submit
<1> QED
  BY <1>1, <1>2, <1>3 DEF Submit, runVars, BatchUnanswered

LEMMA CancelType ==
  ASSUME TypeInv, NEW r \in Runs, Cancel(r)
  PROVE  TypeInv'
BY DEF TypeInv, TypeOK, Cancel, queueVars, BatchUnanswered

\* One step of a run.
LEMMA RunStepType ==
  ASSUME TypeInv, NEW r \in Runs, RunStep(r)
  PROVE  TypeInv'
<1> USE DEF TypeInv, TypeOK, BatchUnanswered, queueVars, Goto, RunPc, CancelPoints
<1>1. ASSUME NEW from, NEW to \in RunPc \ {"tools", "results", "after_model"},
             Step(r, from, to)
      PROVE  TypeInv'
  BY <1>1 DEF Step
<1>2. ASSUME NEW result \in Outcome, Return(r, result) PROVE TypeInv'
  BY <1>2 DEF Return
<1>3. CASE Begin(r)
  <2>1. Append(history[r], Prompt) \in Seq(Entry)
    BY DEF Prompt, Entry
  <2> QED
    BY <1>3, <2>1 DEF Begin
<1>4. CASE OpenQueue(r)
  <2>1. queue' \in QueueState
    BY <1>4, LifecycleCases DEF OpenQueue, QueueLifecycle
  <2> QED
    BY <1>4, <2>1 DEF OpenQueue
<1>5. CASE Compose(r)
  BY <1>1, <1>5 DEF Compose
<1>6. CASE RejectPipeline(r)
  BY <1>6 DEF RejectPipeline, Outcome
<1>7. CASE NoticeCancel(r)
  BY <1>2, <1>7 DEF NoticeCancel, Outcome
<1>8. CASE StopAtLimit(r)
  BY <1>8 DEF StopAtLimit, Break, Outcome
<1>9. CASE EnterTurn(r)
  BY <1>1, <1>9 DEF EnterTurn
<1>10. CASE Drain(r)
  <2> DEFINE drained == [i \in DOMAIN queue.messages |-> Steering(queue.messages[i])]
  <2>1. queue.messages \in Seq(QueuedSessionMessage)
    BY DEF QueueState
  <2>2. history[r] \o drained \in Seq(Entry)
    BY <2>1, DrainedEntries
  <2>3. injected' \in Seq(QueuedSessionMessage)
    BY <1>10, <2>1 DEF Drain
  <2>4. queue' \in QueueState
    BY <1>10, DrainCases DEF Drain
  <2>5. /\ history' = [history EXCEPT ![r] = history[r] \o drained]
        /\ checkpoint' = IF drained = <<>> THEN checkpoint
                         ELSE [checkpoint EXCEPT ![r] = history[r] \o drained]
    BY <1>10 DEF Drain
  <2>6. history' \in [Runs -> Seq(Entry)] /\ checkpoint' \in [Runs -> Seq(Entry)]
    BY <2>2, <2>5
  <2> QED
    BY <1>10, <2>3, <2>4, <2>6 DEF Drain
<1>11. CASE AppendResult(r)
  <2> DEFINE i == batch[r].answered + 1
  <2>1. i \in 1..MaxCalls /\ i <= batch[r].calls /\ MaxCalls \in Nat
    BY <1>11, AgentRuntimeAssumption DEF AppendResult
  <2>2. Append(history[r], ToolResult(i)) \in Seq(Entry)
    BY <2>1 DEF ToolResult, Entry
  <2>3. /\ history' = [history EXCEPT ![r] = Append(history[r], ToolResult(i))]
        /\ batch' = [batch EXCEPT ![r] = [calls |-> batch[r].calls, answered |-> i]]
        /\ pc' = [pc EXCEPT ![r] = IF i = batch[r].calls THEN "turn_end" ELSE "results"]
    BY <1>11 DEF AppendResult
  <2>4. /\ history' \in [Runs -> Seq(Entry)]
        /\ batch' \in [Runs -> [calls : 0..MaxCalls, answered : 0..MaxCalls]]
        /\ batch'[r].answered = i /\ batch'[r].calls = batch[r].calls
        /\ \A o \in Runs \ {r} : batch'[o] = batch[o] /\ pc'[o] = pc[o]
    BY <2>1, <2>2, <2>3
  <2>5. BatchUnanswered'
    BY <2>1, <2>3, <2>4
  <2> QED
    BY <1>11, <2>3, <2>4, <2>5 DEF AppendResult
<1>12. CASE EndTurn(r)
  <2> DEFINE reason == StopReason(r, turns[r] + 1)
  <2>1. reason \in Outcome
    BY DEF StopReason, Outcome
  <2>2. \/ Goto(r, "next_turn") /\ UNCHANGED outcome
        \/ Break(r, reason)
    BY <1>12 DEF EndTurn
  <2>3. /\ pc' \in [Runs -> RunPc]
        /\ outcome' \in [Runs -> Outcome]
        /\ pc'[r] \in {"next_turn", "closing"}
        /\ \A o \in Runs \ {r} : pc'[o] = pc[o]
    BY <2>1, <2>2, ZenonT(40) DEF Break
  <2>4. batch' = batch /\ turns' \in [Runs -> Nat]
    BY <1>12 DEF EndTurn
  <2>5. BatchUnanswered'
    BY <2>3, <2>4
  <2> QED
    BY <1>12, <2>3, <2>4, <2>5 DEF EndTurn
<1>13. CASE CloseQueue(r)
  <2>1. queue' \in QueueState
    BY <1>13, LifecycleCases DEF CloseQueue, QueueLifecycle
  <2> QED
    BY <1>13, <2>1 DEF CloseQueue
<1>14. CASE CompleteQueue(r)
  <2>1. queue' \in QueueState /\ <<>> \in Seq(QueuedSessionMessage)
    BY <1>14, LifecycleCases DEF CompleteQueue, QueueLifecycle
  <2> QED
    BY <1>14, <2>1 DEF CompleteQueue
<1>15. CASE StartHooks(r)
  BY <1>15 DEF StartHooks
<1>16. CASE BeforeContext(r) \/ AfterContext(r) \/ NextTurn(r) \/ EndHooks(r)
  BY <1>1, <1>16 DEF BeforeContext, AfterContext, NextTurn, EndHooks
<1>17. CASE ContextBlocked(r) \/ ProviderFails(r) \/ ToolsFail(r)
  BY <1>2, <1>17 DEF ContextBlocked, ProviderFails, ToolsFail, Outcome
<1>18. CASE PrepareContext(r)
  BY <1>1, <1>2, <1>18 DEF PrepareContext, Outcome
<1>19. CASE Respond(r)
  <2> PICK n \in 0..MaxCalls, over \in BOOLEAN, stop \in {"end_turn", "none"} :
         /\ batch' = [batch EXCEPT ![r] = [calls |-> n, answered |-> 0]]
         /\ exhausted' = [exhausted EXCEPT ![r] = over]
         /\ history' = [history EXCEPT ![r] = Append(@, Assistant(n))]
         /\ outcome' = [outcome EXCEPT ![r] = IF n = 0 THEN stop ELSE "none"]
    BY <1>19 DEF Respond
  <2>1. Append(history[r], Assistant(n)) \in Seq(Entry)
    BY DEF Assistant, Entry
  <2>2. 0 \in 0..MaxCalls
    BY AgentRuntimeAssumption
  <2>3. /\ batch' \in [Runs -> [calls : 0..MaxCalls, answered : 0..MaxCalls]]
        /\ history' \in [Runs -> Seq(Entry)]
        /\ exhausted' \in [Runs -> BOOLEAN]
    BY <2>1, <2>2
  <2>4. outcome' \in [Runs -> Outcome]
    BY DEF Outcome
  <2>5. BatchUnanswered'
    BY <1>19 DEF Respond
  <2> QED
    BY <1>19, <2>3, <2>4, <2>5 DEF Respond
<1>20. CASE AfterModel(r)
  <2>1. batch[r].answered = 0 /\ batch[r].calls \in 0..MaxCalls /\ MaxCalls \in Nat
    BY <1>20, AgentRuntimeAssumption DEF AfterModel, Step
  <2> QED
    BY <1>20, <2>1 DEF AfterModel, Step
<1>21. CASE ToolsAnswer(r)
  BY <1>21 DEF ToolsAnswer, Step
<1>22. CASE NextTurnBlocked(r)
  BY <1>22 DEF NextTurnBlocked, Break, Outcome
<1> HIDE DEF TypeInv, TypeOK, BatchUnanswered, queueVars, Goto, RunPc, CancelPoints
<1> QED
  BY <1>3, <1>4, <1>5, <1>6, <1>7, <1>8, <1>9, <1>10, <1>11, <1>12, <1>13, <1>14,
     <1>15, <1>16, <1>17, <1>18, <1>19, <1>20, <1>21, <1>22
     DEF RunStep, LocalStep, Answer

LEMMA TypesKept == Spec => []TypeInv
<1>1. TypeInv /\ [Next]_vars => TypeInv'
  <2> SUFFICES ASSUME TypeInv, [Next]_vars PROVE TypeInv'
    OBVIOUS
  <2>1. CASE UNCHANGED vars
    BY <2>1 DEF vars, queueVars, runVars, TypeInv, TypeOK, BatchUnanswered
  <2>2. CASE Next
    BY <2>2, SubmitType, CancelType, RunStepType DEF Next
  <2> QED
    BY <2>1, <2>2
<1> QED
  BY InitType, <1>1, PTL DEF Spec

\* Every variable keeps its type, whatever the interleaving of senders, runs
\* and cancellations (the state of runtime.rs, agent.rs and session_queue.rs).
THEOREM TypeCorrect == Spec => []TypeOK
<1>1. TypeInv => TypeOK
  BY DEF TypeInv
<1> QED
  BY TypesKept, <1>1, PTL

-----------------------------------------------------------------------------
(* What the queue and its ghosts say of each other. *)

\* Every message the runtime answered for has an answer, no id is used twice,
\* and the idempotency map holds exactly the accepted messages with a key.
KeysRemembered ==
  /\ \A i \in DOMAIN accepted :
       /\ acks[accepted[i].id] # "none"
       /\ accepted[i].key # NoKey
            => queue.idempotent_messages[accepted[i].key] = accepted[i]
  /\ \A i, j \in DOMAIN accepted : accepted[i].id = accepted[j].id => i = j
  /\ \A k \in Keys : queue.idempotent_messages[k] # NoMessage =>
       \E i \in DOMAIN accepted :
         /\ accepted[i] = queue.idempotent_messages[k]
         /\ accepted[i].key = k

QueueInv ==
  /\ TypeInv
  /\ NothingLost
  /\ KeysRemembered
  /\ Len(queue.messages) <= Capacity

LEMMA InitQueue == Init => QueueInv
<1> SUFFICES ASSUME Init PROVE QueueInv
  OBVIOUS
<1>1. TypeInv
  BY InitType
<1>2. NothingLost
  BY DEF Init, NothingLost, NewQueue
<1>3. KeysRemembered
  BY DEF Init, KeysRemembered, NewQueue
<1>4. Len(queue.messages) <= Capacity
  BY SteeringQueueAssumption DEF Init, NewQueue
<1> QED
  BY <1>1, <1>2, <1>3, <1>4 DEF QueueInv

\* An accepted message is new to the accepted ones, in its id and its key.
LEMMA AcceptedIsNew ==
  ASSUME QueueInv, NEW m \in QueuedSessionMessage, Submit(m),
         EnqueueAck(queue, m) = "Queued"
  PROVE  \A i \in DOMAIN accepted :
           /\ accepted[i].id # m.id
           /\ m.key # NoKey => accepted[i].key # m.key
<1>1. queue \in QueueState
  BY DEF QueueInv, TypeInv, TypeOK
<1>2. ~KeyKnown(queue, m)
  BY <1>1, EnqueueCases
<1>3. \A i \in DOMAIN accepted : accepted[i] \in QueuedSessionMessage
  BY DEF QueueInv, TypeInv, TypeOK
<1> QED
  BY <1>2, <1>3, SteeringQueueAssumption
     DEF QueueInv, KeysRemembered, KeyKnown, Submit

LEMMA AcceptedIds ==
  ASSUME QueueInv
  PROVE  \A i \in DOMAIN accepted :
           accepted[i] \in QueuedSessionMessage /\ accepted[i].id \in MessageIds
<1>1. \A i \in DOMAIN accepted : accepted[i] \in QueuedSessionMessage
  BY DEF QueueInv, TypeInv, TypeOK
<1> QED
  BY <1>1 DEF QueuedSessionMessage

LEMMA SubmitQueue ==
  ASSUME QueueInv, NEW m \in QueuedSessionMessage, Submit(m)
  PROVE  QueueInv'
<1>1. /\ queue \in QueueState /\ queue.messages \in Seq(QueuedSessionMessage)
      /\ queue.idempotent_messages \in [Keys -> QueuedSessionMessage \cup {NoMessage}]
      /\ accepted \in Seq(QueuedSessionMessage)
      /\ injected \in Seq(QueuedSessionMessage)
      /\ acks \in [MessageIds -> QueueAck \cup {"none"}]
  BY DEF QueueInv, TypeInv, TypeOK, QueueState
<1>2. TypeInv'
  BY SubmitType DEF QueueInv
<1>3. /\ EnqueueAck(queue, m) \in QueueAck
      /\ acks' = [acks EXCEPT ![m.id] = EnqueueAck(queue, m)]
      /\ injected' = injected
      /\ m.id \in MessageIds /\ m.key \in Keys \cup {NoKey}
  BY <1>1, EnqueueCases DEF Submit, runVars, QueuedSessionMessage
<1>4. \A i \in MessageIds : acks[i] # "none" => acks'[i] # "none"
  BY <1>1, <1>3 DEF QueueAck
<1>5. CASE EnqueueAck(queue, m) # "Queued"
  <2>1. queue' = queue /\ accepted' = accepted
    BY <1>1, <1>5, EnqueueCases DEF Submit
  <2>2. KeysRemembered'
    BY <1>4, <2>1, AcceptedIds DEF QueueInv, KeysRemembered
  <2> QED
    BY <1>2, <1>3, <2>1, <2>2 DEF QueueInv, NothingLost
<1>6. CASE EnqueueAck(queue, m) = "Queued"
  <2>1. /\ queue'.messages = Append(queue.messages, m)
        /\ queue'.idempotent_messages = Remember(queue.idempotent_messages, m)
        /\ accepted' = Append(accepted, m)
        /\ ~(Len(queue.messages) >= Capacity)
    BY <1>1, <1>6, EnqueueCases DEF Submit
  <2>2. NothingLost'
    <3>1. accepted = injected \o queue.messages
      BY DEF QueueInv, NothingLost
    <3>2. injected \in Seq(QueuedSessionMessage) /\ queue.messages \in Seq(QueuedSessionMessage)
      BY <1>1
    <3>3. Append(injected \o queue.messages, m) = injected \o Append(queue.messages, m)
      BY <3>2, SMTT(30)
    <3> QED
      BY <1>3, <2>1, <3>1, <3>3, Zenon DEF NothingLost
  <2>3. Len(queue'.messages) <= Capacity
    BY <1>1, <2>1, SteeringQueueAssumption
  <2>4. /\ DOMAIN accepted' = DOMAIN accepted \cup {Len(accepted) + 1}
        /\ accepted'[Len(accepted) + 1] = m
        /\ \A i \in DOMAIN accepted : accepted'[i] = accepted[i]
        /\ \A i \in DOMAIN accepted :
             accepted[i] \in QueuedSessionMessage /\ accepted[i].id \in MessageIds
    BY <1>1, <2>1, AcceptedIds
  <2>5. \A k \in Keys : queue'.idempotent_messages[k] =
          IF k = m.key THEN m ELSE queue.idempotent_messages[k]
    BY <1>1, <2>1, SteeringQueueAssumption DEF Remember
  <2>6. \A i \in DOMAIN accepted :
          /\ accepted[i].id # m.id
          /\ m.key # NoKey => accepted[i].key # m.key
    BY <1>6, AcceptedIsNew
  <2>7. \A i \in DOMAIN accepted' :
          /\ acks'[accepted'[i].id] # "none"
          /\ accepted'[i].key # NoKey
               => queue'.idempotent_messages[accepted'[i].key] = accepted'[i]
    <3> SUFFICES ASSUME NEW i \in DOMAIN accepted'
                 PROVE  /\ acks'[accepted'[i].id] # "none"
                        /\ accepted'[i].key # NoKey
                             => queue'.idempotent_messages[accepted'[i].key] = accepted'[i]
      OBVIOUS
    <3>1. CASE i \in DOMAIN accepted
      <4>1. accepted[i].key \in Keys \cup {NoKey}
        BY <2>4, <3>1 DEF QueuedSessionMessage
      <4> QED
        BY <1>4, <2>4, <2>5, <2>6, <3>1, <4>1 DEF QueueInv, KeysRemembered
    <3>2. CASE i = Len(accepted) + 1
      BY <1>1, <1>3, <2>4, <2>5, <3>2 DEF QueueAck
    <3> QED
      BY <2>4, <3>1, <3>2
  <2>8. \A i, j \in DOMAIN accepted' : accepted'[i].id = accepted'[j].id => i = j
    BY <2>4, <2>6 DEF QueueInv, KeysRemembered
  <2>9. \A k \in Keys : queue'.idempotent_messages[k] # NoMessage =>
          \E i \in DOMAIN accepted' :
            /\ accepted'[i] = queue'.idempotent_messages[k]
            /\ accepted'[i].key = k
    <3> SUFFICES ASSUME NEW k \in Keys, queue'.idempotent_messages[k] # NoMessage
                 PROVE  \E i \in DOMAIN accepted' :
                          /\ accepted'[i] = queue'.idempotent_messages[k]
                          /\ accepted'[i].key = k
      OBVIOUS
    <3>1. CASE k = m.key
      BY <2>4, <2>5, <3>1
    <3>2. CASE k # m.key
      <4>1. PICK i \in DOMAIN accepted :
              accepted[i] = queue.idempotent_messages[k] /\ accepted[i].key = k
        BY <2>5, <3>2 DEF QueueInv, KeysRemembered
      <4> QED
        BY <2>4, <2>5, <3>2, <4>1
    <3> QED
      BY <3>1, <3>2
  <2> QED
    BY <1>2, <2>2, <2>3, <2>7, <2>8, <2>9 DEF QueueInv, KeysRemembered
<1> QED
  BY <1>5, <1>6

\* The steps of a run, seen from the queue: they open, close, drain or complete
\* it, or leave it alone.
RunOpens == queue' = AfterLifecycle(queue, "Active") /\ UNCHANGED <<acks, accepted, injected>>
RunCloses == queue' = AfterLifecycle(queue, "Closing") /\ UNCHANGED <<acks, accepted, injected>>
RunDrains ==
  /\ queue' = AfterDrain(queue)
  /\ injected' = injected \o queue.messages
  /\ UNCHANGED <<acks, accepted>>
RunCompletes ==
  /\ queue' = AfterLifecycle(queue, "Completed")
  /\ accepted' = <<>>
  /\ injected' = <<>>
  /\ acks' = acks

LEMMA RunStepOnQueue ==
  ASSUME NEW r \in Runs, RunStep(r)
  PROVE  RunOpens \/ RunCloses \/ RunDrains \/ RunCompletes \/ UNCHANGED queueVars
<1>1. CASE LocalStep(r)
  BY <1>1 DEF LocalStep, RunOpens, RunCloses, RunDrains, RunCompletes, queueVars,
     OpenQueue, Compose, RejectPipeline, NoticeCancel, StopAtLimit, EnterTurn, Drain,
     AppendResult, EndTurn, CloseQueue, CompleteQueue, Step, Return
<1>2. CASE Answer(r)
  BY <1>2 DEF Answer, queueVars, StartHooks, BeforeContext, ContextBlocked,
     AfterContext, Respond, ProviderFails, AfterModel, ToolsAnswer, ToolsFail,
     NextTurn, NextTurnBlocked, EndHooks, Step, Return
<1>3. CASE Begin(r) \/ PrepareContext(r)
  BY <1>3 DEF Begin, PrepareContext, Step, Return, queueVars
<1> QED
  BY <1>1, <1>2, <1>3 DEF RunStep

LEMMA RunStepQueue ==
  ASSUME QueueInv, NEW r \in Runs, RunStep(r)
  PROVE  QueueInv'
<1>1. /\ queue \in QueueState /\ queue.messages \in Seq(QueuedSessionMessage)
      /\ accepted \in Seq(QueuedSessionMessage)
      /\ injected \in Seq(QueuedSessionMessage)
  BY DEF QueueInv, TypeInv, TypeOK, QueueState
<1>2. TypeInv'
  BY RunStepType DEF QueueInv
<1>3. CASE RunOpens \/ RunCloses
  <2>1. /\ queue'.messages = queue.messages
        /\ queue'.idempotent_messages = queue.idempotent_messages
        /\ UNCHANGED <<acks, accepted, injected>>
    BY <1>1, <1>3, LifecycleCases DEF RunOpens, RunCloses, QueueLifecycle
  <2> QED
    BY <1>2, <2>1 DEF QueueInv, NothingLost, KeysRemembered
<1>4. CASE RunDrains
  <2>1. /\ queue'.messages = <<>>
        /\ queue'.idempotent_messages = queue.idempotent_messages
        /\ injected' = injected \o queue.messages
        /\ UNCHANGED <<acks, accepted>>
    BY <1>1, <1>4, DrainCases DEF RunDrains
  <2>2. NothingLost'
    BY <1>1, <2>1 DEF QueueInv, NothingLost
  <2>3. KeysRemembered'
    BY <2>1 DEF QueueInv, KeysRemembered
  <2> QED
    BY <1>2, <2>1, <2>2, <2>3, SteeringQueueAssumption DEF QueueInv
<1>5. CASE RunCompletes
  <2>1. /\ queue'.messages = <<>> /\ accepted' = <<>> /\ injected' = <<>>
        /\ \A k \in Keys : queue'.idempotent_messages[k] = NoMessage
    <3>1. queue' = AfterLifecycle(queue, "Completed")
      BY <1>5 DEF RunCompletes
    <3> QED
      BY <1>1, <1>5, <3>1 DEF RunCompletes, AfterLifecycle, QueueState
  <2>2. NothingLost' /\ KeysRemembered'
    BY <2>1 DEF NothingLost, KeysRemembered
  <2> QED
    BY <1>2, <2>1, <2>2, SteeringQueueAssumption DEF QueueInv
<1>6. CASE UNCHANGED queueVars
  BY <1>2, <1>6 DEF queueVars, QueueInv, NothingLost, KeysRemembered
<1> QED
  BY <1>3, <1>4, <1>5, <1>6, RunStepOnQueue

LEMMA CancelQueue ==
  ASSUME QueueInv, NEW r \in Runs, Cancel(r)
  PROVE  QueueInv'
<1>1. TypeInv'
  BY CancelType DEF QueueInv
<1> QED
  BY <1>1, SMTT(30) DEF Cancel, queueVars, QueueInv, NothingLost, KeysRemembered

LEMMA QueueCorrect == Spec => []QueueInv
<1>1. QueueInv /\ [Next]_vars => QueueInv'
  <2> SUFFICES ASSUME QueueInv, [Next]_vars PROVE QueueInv'
    OBVIOUS
  <2>1. CASE UNCHANGED vars
    BY <2>1, ZenonT(40) DEF vars, queueVars, runVars, QueueInv, TypeInv, TypeOK,
       BatchUnanswered, NothingLost, KeysRemembered
  <2>2. CASE Next
    BY <2>2, SubmitQueue, CancelQueue, RunStepQueue DEF Next
  <2> QED
    BY <2>1, <2>2
<1> QED
  BY InitQueue, <1>1, PTL DEF Spec

\* Whatever the senders, the runs and the cancellations do, a message
\* acknowledged Queued is injected or still waits, in the order of the
\* acknowledgements (enqueue, drain and update_lifecycle of session_queue.rs).
THEOREM AcceptedIsKept == Spec => []NothingLost
<1>1. QueueInv => NothingLost
  BY DEF QueueInv
<1> QED
  BY QueueCorrect, <1>1, PTL

\* Two accepted messages never share an idempotency key, at any capacity and
\* with any number of drains in between.
THEOREM KeysAcceptedOnce == Spec => []KeyAcceptedOnce
<1>1. ASSUME QueueInv PROVE KeyAcceptedOnce
  <2> SUFFICES ASSUME NEW i \in DOMAIN accepted, NEW j \in DOMAIN accepted,
                      accepted[i].key = accepted[j].key, accepted[i].key # NoKey
               PROVE  i = j
    BY DEF KeyAcceptedOnce
  <2>1. accepted[i] = accepted[j]
    BY <1>1 DEF QueueInv, KeysRemembered
  <2> QED
    BY <1>1, <2>1 DEF QueueInv, KeysRemembered
<1> QED
  BY QueueCorrect, <1>1, PTL

-----------------------------------------------------------------------------
(* The runtime implements the promise made to senders. *)

LEMMA InitPromise == Init => Promise!Init
BY DEF Init, NewQueue, Promise!Init

LEMMA SubmitPromise ==
  ASSUME QueueInv, NEW m \in QueuedSessionMessage, Submit(m)
  PROVE  \/ Promise!Accept(m)
         \/ UNCHANGED <<queue, injected>>
<1>1. queue \in QueueState /\ injected' = injected
  BY DEF QueueInv, TypeInv, TypeOK, Submit, runVars
<1>2. CASE EnqueueAck(queue, m) # "Queued"
  BY <1>1, <1>2, EnqueueCases DEF Submit
<1>3. CASE EnqueueAck(queue, m) = "Queued"
  <2>1. /\ queue.lifecycle = "Active"
        /\ queue'.lifecycle = queue.lifecycle
        /\ ~(Len(queue.messages) >= Capacity)
        /\ queue'.messages = Append(queue.messages, m)
    BY <1>1, <1>3, EnqueueCases DEF Submit
  <2>2. Len(queue.messages) \in Nat /\ Capacity \in Nat
    BY <1>1, SteeringQueueAssumption DEF QueueState
  <2>3. Len(queue.messages) < Capacity
    BY <2>1, <2>2
  <2>4. \A i \in DOMAIN Promise!Taken :
          /\ Promise!Taken[i].id # m.id
          /\ m.key # NoKey => Promise!Taken[i].key # m.key
    BY <1>3, AcceptedIsNew DEF QueueInv, NothingLost, Promise!Taken
  <2> QED
    BY <1>1, <2>1, <2>3, <2>4 DEF Promise!Accept
<1> QED
  BY <1>2, <1>3

LEMMA RunStepPromise ==
  ASSUME QueueInv, NEW r \in Runs, RunStep(r)
  PROVE  Promise!Next \/ UNCHANGED <<queue, injected>>
<1>1. queue \in QueueState
  BY DEF QueueInv, TypeInv, TypeOK
<1>2. CASE RunOpens
  BY <1>1, <1>2, LifecycleCases DEF RunOpens, QueueLifecycle, Promise!Next, Promise!Open
<1>3. CASE RunCloses
  BY <1>1, <1>3, LifecycleCases DEF RunCloses, QueueLifecycle, Promise!Next, Promise!Close
<1>4. CASE RunDrains
  BY <1>1, <1>4, DrainCases DEF RunDrains, Promise!Next, Promise!Deliver
<1>5. CASE RunCompletes
  BY <1>1, <1>5, LifecycleCases
     DEF RunCompletes, QueueLifecycle, Promise!Next, Promise!Complete
<1>6. CASE UNCHANGED queueVars
  BY <1>6 DEF queueVars
<1> QED
  BY <1>2, <1>3, <1>4, <1>5, <1>6, RunStepOnQueue

\* Every behaviour of the runtime, with any number of concurrent runs, is one
\* the abstract channel allows: bounded, in order, each message once, never two
\* under one key (session_queue.rs, agent.rs drain_session_messages).
THEOREM PromiseImplemented == Spec => PromiseKept
<1>1. ASSUME QueueInv, [Next]_vars
      PROVE  [Promise!Next]_<<queue.lifecycle = "Active", queue.messages, injected>>
  <2>1. CASE UNCHANGED vars
    BY <2>1 DEF vars, queueVars
  <2>2. CASE \E m \in QueuedSessionMessage : Submit(m)
    BY <1>1, <2>2, SubmitPromise DEF Promise!Next
  <2>3. CASE \E r \in Runs : RunStep(r)
    BY <1>1, <2>3, RunStepPromise
  <2>4. CASE \E r \in Runs : Cancel(r)
    BY <2>4 DEF Cancel, queueVars
  <2> QED
    BY <1>1, <2>1, <2>2, <2>3, <2>4 DEF Next
<1> QED
  BY InitPromise, QueueCorrect, <1>1, PTL DEF Spec, PromiseKept, Promise!Spec

-----------------------------------------------------------------------------
(* Checkpoints. *)

\* One step of a run leaves its last checkpoint current wherever it must be.
LEMMA RunStepCheckpoint ==
  ASSUME TypeInv, CheckpointCurrent, NEW r \in Runs, RunStep(r)
  PROVE  CheckpointCurrent'
<1> USE DEF CheckpointCurrent, Goto, queueVars
<1>1. /\ pc \in [Runs -> RunPc] /\ checkpoint \in [Runs -> Seq(Entry)]
      /\ history \in [Runs -> Seq(Entry)] /\ outcome \in [Runs -> Outcome]
  BY DEF TypeInv, TypeOK
<1>2. CASE Begin(r) \/ OpenQueue(r) \/ RejectPipeline(r) \/ CompleteQueue(r)
  BY <1>1, <1>2 DEF Begin, OpenQueue, RejectPipeline, CompleteQueue
<1>3. CASE NoticeCancel(r) \/ ContextBlocked(r) \/ ProviderFails(r) \/ ToolsFail(r)
  BY <1>1, <1>3 DEF NoticeCancel, ContextBlocked, ProviderFails, ToolsFail, Return
<1>4. CASE Compose(r) \/ EnterTurn(r) \/ BeforeContext(r) \/ AfterContext(r)
             \/ AfterModel(r) \/ ToolsAnswer(r) \/ NextTurn(r) \/ EndHooks(r)
  BY <1>1, <1>4 DEF Compose, EnterTurn, BeforeContext, AfterContext, AfterModel,
     ToolsAnswer, NextTurn, EndHooks, Step
<1>5. CASE PrepareContext(r)
  BY <1>1, <1>5 DEF PrepareContext, Step, Return
<1>6. CASE StartHooks(r) \/ CloseQueue(r)
  BY <1>1, <1>6 DEF StartHooks, CloseQueue
<1>7. CASE StopAtLimit(r) \/ NextTurnBlocked(r)
  BY <1>1, <1>7 DEF StopAtLimit, NextTurnBlocked, Break
<1>8. CASE Drain(r)
  <2> DEFINE drained == [i \in DOMAIN queue.messages |-> Steering(queue.messages[i])]
  <2>1. /\ history' = [history EXCEPT ![r] = history[r] \o drained]
        /\ checkpoint' = IF drained = <<>> THEN checkpoint
                         ELSE [checkpoint EXCEPT ![r] = history[r] \o drained]
        /\ pc[r] = "drain" /\ pc' = [pc EXCEPT ![r] = "before_context"]
    BY <1>8 DEF Drain
  <2>2. history[r] \o <<>> = history[r]
    BY <1>1, ConcatEmptySeq
  <2> HIDE DEF drained
  <2> QED
    BY <1>1, <2>1, <2>2
<1>9. CASE Respond(r)
  BY <1>1, <1>9 DEF Respond
<1>10. CASE AppendResult(r)
  <2>1. /\ pc'[r] \in {"turn_end", "results"} /\ checkpoint' = checkpoint
        /\ \A o \in Runs \ {r} : pc'[o] = pc[o] /\ history'[o] = history[o]
    BY <1>1, <1>10 DEF AppendResult
  <2> QED
    BY <2>1
<1>11. CASE EndTurn(r)
  <2>1. /\ checkpoint' = [checkpoint EXCEPT ![r] = history[r]] /\ history' = history
        /\ \A o \in Runs \ {r} : pc'[o] = pc[o]
    BY <1>1, <1>11 DEF EndTurn, Break
  <2> QED
    BY <1>1, <2>1
<1> QED
  BY <1>2, <1>3, <1>4, <1>5, <1>6, <1>7, <1>8, <1>9, <1>10, <1>11
     DEF RunStep, LocalStep, Answer

\* Wherever a run waits for the provider, for a context hook or for its end, the
\* last Checkpoint event holds the whole history (agent.rs).
THEOREM CheckpointsAreCurrent == Spec => []CheckpointCurrent
<1>1. Init => CheckpointCurrent
  BY DEF Init, CheckpointCurrent
<1>2. ASSUME TypeInv, CheckpointCurrent, [Next]_vars
      PROVE  CheckpointCurrent'
  <2>1. CASE UNCHANGED vars
    BY <1>2, <2>1 DEF vars, runVars, CheckpointCurrent
  <2>2. CASE \E m \in QueuedSessionMessage : Submit(m)
    BY <1>2, <2>2 DEF Submit, runVars, CheckpointCurrent
  <2>3. CASE \E r \in Runs : Cancel(r)
    BY <1>2, <2>3 DEF Cancel, CheckpointCurrent
  <2>4. CASE \E r \in Runs : RunStep(r)
    BY <1>2, <2>4, RunStepCheckpoint
  <2> QED
    BY <1>2, <2>1, <2>2, <2>3, <2>4 DEF Next
<1> QED
  BY <1>1, <1>2, TypesKept, PTL DEF Spec

-----------------------------------------------------------------------------
(* Where steering is: in the queue, or in one session, and there once. *)

SteeringInv ==
  /\ \A k \in DOMAIN queue.messages : acks[queue.messages[k].id] = "Queued"
  /\ \A k, l \in DOMAIN queue.messages : queue.messages[k].id = queue.messages[l].id => k = l
  /\ \A r \in Runs : \A i \in DOMAIN history[r] : history[r][i].kind = "steering" =>
       /\ acks[history[r][i].message.id] = "Queued"
       /\ \A k \in DOMAIN queue.messages : queue.messages[k].id # history[r][i].message.id
  /\ \A r, s \in Runs : \A i \in DOMAIN history[r], j \in DOMAIN history[s] :
       /\ history[r][i].kind = "steering" /\ history[s][j].kind = "steering"
       /\ history[r][i].message.id = history[s][j].message.id
       => r = s /\ i = j

\* A run brings into its session what it takes from the queue, and leaves what others have.
Carries(r) ==
  /\ acks' = acks
  /\ \A k \in DOMAIN queue'.messages :
       k \in DOMAIN queue.messages /\ queue'.messages[k] = queue.messages[k]
  /\ \A s \in Runs : \A i \in DOMAIN history'[s] : history'[s][i].kind = "steering" =>
       \/ i \in DOMAIN history[s] /\ history[s][i] = history'[s][i]
       \/ /\ s = r /\ queue'.messages = <<>>
          /\ i - Len(history[r]) \in DOMAIN queue.messages
          /\ history'[s][i].message = queue.messages[i - Len(history[r])]

\* What is in a session after an entry, or the messages of a queue, have been appended to it.
LEMMA Appended ==
  ASSUME NEW h \in Seq(Entry), NEW e \in Entry
  PROVE  /\ Append(h, e) \in Seq(Entry) /\ Len(Append(h, e)) = Len(h) + 1
         /\ DOMAIN Append(h, e) = 1..(Len(h) + 1) /\ DOMAIN h = 1..Len(h) /\ Len(h) \in Nat
         /\ Append(h, e)[Len(h) + 1] = e
         /\ \A i \in 1..Len(h) : Append(h, e)[i] = h[i]
OBVIOUS

Drained(q) == [i \in DOMAIN q |-> Steering(q[i])]

Extends(h, q, g) ==
  /\ g \in Seq(Entry) /\ DOMAIN g = 1..Len(g) /\ Len(g) = Len(h) + Len(q)
  /\ Len(h) \in Nat /\ Len(q) \in Nat /\ DOMAIN h = 1..Len(h) /\ DOMAIN q = 1..Len(q)
  /\ \A i \in 1..Len(h) : g[i] = h[i]
  /\ \A i \in (Len(h) + 1)..Len(g) :
       g[i].kind = "steering" /\ i - Len(h) \in 1..Len(q) /\ g[i].message = q[i - Len(h)]

LEMMA Extended ==
  ASSUME NEW h \in Seq(Entry), NEW q \in Seq(QueuedSessionMessage),
         NEW g, g = h \o Drained(q)
  PROVE  Extends(h, q, g)
<1> PICK x : x = Drained(q)
  OBVIOUS
<1>1. x \in Seq(Entry) /\ DOMAIN x = DOMAIN q /\ \A i \in DOMAIN q : x[i] = Steering(q[i])
  BY DrainedEntries DEF Drained
<1>2. Len(q) \in Nat /\ DOMAIN q = 1..Len(q) /\ Len(x) = Len(q)
      /\ \A i \in 1..Len(q) : x[i] = Steering(q[i])
  BY <1>1, LenProperties
<1>3. /\ g \in Seq(Entry) /\ Len(g) = Len(h) + Len(x)
      /\ \A i \in 1..Len(g) : g[i] = IF i <= Len(h) THEN h[i] ELSE x[i - Len(h)]
  BY <1>1, ConcatProperties
<1>4. /\ DOMAIN g = 1..Len(g) /\ DOMAIN h = 1..Len(h) /\ Len(h) \in Nat
  BY <1>3, LenProperties
<1>5. \A i \in 1..Len(h) : g[i] = h[i]
  BY <1>2, <1>3, <1>4
<1>6. ASSUME NEW i \in (Len(h) + 1)..Len(g)
      PROVE  g[i].kind = "steering" /\ i - Len(h) \in 1..Len(q) /\ g[i].message = q[i - Len(h)]
  <2>1. i - Len(h) \in 1..Len(q)
    BY <1>2, <1>3, <1>4
  <2>2. g[i] = Steering(q[i - Len(h)])
    BY <1>2, <1>3, <1>4, <2>1
  <2> QED
    BY <2>1, <2>2 DEF Steering
<1> QED
  BY <1>2, <1>3, <1>4, <1>5, <1>6 DEF Extends

\* The steps of a run, seen from the sessions: one entry of its own is appended, the
\* messages of the queue are, or nothing is.
RunAppends(r) ==
  \E e \in Entry : e.kind # "steering" /\ history' = [history EXCEPT ![r] = Append(history[r], e)]
RunInjects(r) ==
  history' = [history EXCEPT ![r] = history[r] \o Drained(queue.messages)]

LEMMA RunStepOnSessions ==
  ASSUME TypeInv, NEW r \in Runs, RunStep(r)
  PROVE  \/ RunAppends(r) /\ UNCHANGED queueVars
         \/ RunInjects(r) /\ RunDrains
         \/ UNCHANGED history
<1>1. CASE Begin(r)
  <2>1. Prompt \in Entry /\ Prompt.kind # "steering"
    BY DEF Prompt, Entry
  <2> QED
    BY <1>1, <2>1 DEF Begin, RunAppends
<1>2. CASE Drain(r)
  <2>1. RunInjects(r) /\ RunDrains
    BY <1>2 DEF Drain, RunInjects, RunDrains, Drained
  <2> QED
    BY <2>1
<1>3. CASE Respond(r)
  <2>1. PICK n \in 0..MaxCalls : history' = [history EXCEPT ![r] = Append(@, Assistant(n))]
    BY <1>3 DEF Respond
  <2>2. Assistant(n) \in Entry /\ Assistant(n).kind # "steering"
    BY DEF Assistant, Entry
  <2> QED
    BY <1>3, <2>1, <2>2 DEF Respond, RunAppends
<1>4. CASE AppendResult(r)
  <2> DEFINE i == batch[r].answered + 1
  <2>1. i \in 1..MaxCalls
    BY <1>4, AgentRuntimeAssumption DEF AppendResult, TypeInv, TypeOK, BatchUnanswered
  <2>2. ToolResult(i) \in Entry /\ ToolResult(i).kind # "steering"
    BY <2>1 DEF ToolResult, Entry
  <2>3. history' = [history EXCEPT ![r] = Append(@, ToolResult(i))]
    BY <1>4 DEF AppendResult
  <2> HIDE DEF i
  <2> QED
    BY <1>4, <2>2, <2>3 DEF AppendResult, RunAppends
<1>5. CASE OpenQueue(r) \/ Compose(r) \/ RejectPipeline(r) \/ NoticeCancel(r) \/ StopAtLimit(r)
             \/ EnterTurn(r) \/ EndTurn(r) \/ CloseQueue(r) \/ CompleteQueue(r)
  BY <1>5 DEF OpenQueue, Compose, RejectPipeline, NoticeCancel, StopAtLimit, EnterTurn,
     EndTurn, CloseQueue, CompleteQueue, Step, Return
<1>6. CASE StartHooks(r) \/ BeforeContext(r) \/ ContextBlocked(r) \/ AfterContext(r)
             \/ ProviderFails(r) \/ AfterModel(r) \/ ToolsAnswer(r) \/ ToolsFail(r)
             \/ NextTurn(r) \/ NextTurnBlocked(r) \/ EndHooks(r) \/ PrepareContext(r)
  BY <1>6 DEF StartHooks, BeforeContext, ContextBlocked, AfterContext, ProviderFails,
     AfterModel, ToolsAnswer, ToolsFail, NextTurn, NextTurnBlocked, EndHooks,
     PrepareContext, Step, Return
<1> QED
  BY <1>1, <1>2, <1>3, <1>4, <1>5, <1>6 DEF RunStep, LocalStep, Answer

\* What no run takes stays in the queue, or is dropped when the queue completes.
LEMMA RunStepCarries ==
  ASSUME QueueInv, NEW r \in Runs, RunStep(r)
  PROVE  Carries(r)
<1>1. /\ queue \in QueueState /\ queue.messages \in Seq(QueuedSessionMessage)
      /\ history \in [Runs -> Seq(Entry)] /\ TypeInv
  BY DEF QueueInv, TypeInv, TypeOK, QueueState
<1>2. DOMAIN <<>> = {}
  OBVIOUS
<1>3. /\ acks' = acks
      /\ queue'.messages = queue.messages \/ queue'.messages = <<>>
  <2>1. CASE RunOpens \/ RunCloses
    BY <1>1, <2>1, LifecycleCases DEF RunOpens, RunCloses, QueueLifecycle
  <2>2. CASE RunDrains
    BY <1>1, <2>2, DrainCases DEF RunDrains
  <2>3. CASE RunCompletes
    BY <1>1, <2>3, LifecycleCases DEF RunCompletes, QueueLifecycle
  <2>4. CASE UNCHANGED queueVars
    BY <2>4 DEF queueVars
  <2> QED
    BY <2>1, <2>2, <2>3, <2>4, RunStepOnQueue
<1>4. \A k \in DOMAIN queue'.messages :
        k \in DOMAIN queue.messages /\ queue'.messages[k] = queue.messages[k]
  BY <1>2, <1>3
<1>5. ASSUME NEW s \in Runs, NEW i \in DOMAIN history'[s], history'[s][i].kind = "steering"
      PROVE  \/ i \in DOMAIN history[s] /\ history[s][i] = history'[s][i]
             \/ /\ s = r /\ queue'.messages = <<>>
                /\ i - Len(history[r]) \in DOMAIN queue.messages
                /\ history'[s][i].message = queue.messages[i - Len(history[r])]
  <2>1. CASE UNCHANGED history
    BY <1>5, <2>1
  <2>2. CASE RunAppends(r)
    <3>1. PICK e \in Entry : /\ e.kind # "steering"
                             /\ history' = [history EXCEPT ![r] = Append(history[r], e)]
      BY <2>2 DEF RunAppends
    <3>2. CASE s = r
      <4>1. history'[s] = Append(history[r], e) /\ history[r] \in Seq(Entry)
        BY <1>1, <3>1, <3>2
      <4> QED
        BY <1>5, <3>1, <3>2, <4>1, Appended
    <3>3. CASE s # r
      BY <1>1, <1>5, <3>1, <3>3
    <3> QED
      BY <3>2, <3>3
  <2>3. CASE RunInjects(r) /\ RunDrains
    <3>1. queue'.messages = <<>>
      BY <1>1, <2>3, DrainCases DEF RunDrains
    <3>2. CASE s = r
      <4>6. PICK q : q = queue.messages
        OBVIOUS
      <4>7. PICK h : h = history[r]
        OBVIOUS
      <4>8. PICK g : g = h \o Drained(q)
        OBVIOUS
      <4>1. history'[r] = g
        BY <1>1, <2>3, <4>6, <4>7, <4>8 DEF RunInjects
      <4>2. Extends(h, q, g)
        <5>1. h \in Seq(Entry) /\ q \in Seq(QueuedSessionMessage)
          BY <1>1, <4>6, <4>7
        <5> QED
          BY ONLY <4>8, <5>1, Extended
      <4>3. i \in 1..Len(g)
        BY <1>5, <3>2, <4>1, <4>2 DEF Extends
      <4>4. CASE i \in 1..Len(h)
        BY <3>2, <4>1, <4>2, <4>4, <4>7 DEF Extends
      <4>5. CASE i \in (Len(h) + 1)..Len(g)
        <5>1. i - Len(h) \in DOMAIN q /\ g[i].message = q[i - Len(h)]
          BY <4>2, <4>5 DEF Extends
        <5> QED
          BY <3>1, <3>2, <4>1, <4>6, <4>7, <5>1
      <4> QED
        BY <4>2, <4>3, <4>4, <4>5 DEF Extends
    <3>3. CASE s # r
      BY <1>1, <1>5, <2>3, <3>3 DEF RunInjects
    <3> QED
      BY <3>2, <3>3
  <2> QED
    BY <1>1, <2>1, <2>2, <2>3, RunStepOnSessions
<1> QED
  BY <1>3, <1>4, <1>5 DEF Carries

LEMMA RunStepSteering ==
  ASSUME SteeringInv, TypeInv, TypeInv', NEW r \in Runs, Carries(r)
  PROVE  SteeringInv'
<1>1. \A k \in DOMAIN queue'.messages : acks'[queue'.messages[k].id] = "Queued"
  BY DEF SteeringInv, Carries
<1>2. \A k, l \in DOMAIN queue'.messages : queue'.messages[k].id = queue'.messages[l].id => k = l
  BY DEF SteeringInv, Carries
<1>3. ASSUME NEW s \in Runs, NEW i \in DOMAIN history'[s], history'[s][i].kind = "steering"
      PROVE  /\ acks'[history'[s][i].message.id] = "Queued"
             /\ \A k \in DOMAIN queue'.messages :
                  queue'.messages[k].id # history'[s][i].message.id
  <2>1. CASE i \in DOMAIN history[s] /\ history[s][i] = history'[s][i]
    BY <1>3, <2>1 DEF SteeringInv, Carries
  <2>2. CASE /\ queue'.messages = <<>>
             /\ i - Len(history[r]) \in DOMAIN queue.messages
             /\ history'[s][i].message = queue.messages[i - Len(history[r])]
    BY <2>2 DEF SteeringInv, Carries
  <2> QED
    BY <1>3, <2>1, <2>2 DEF Carries
<1>4. ASSUME NEW s \in Runs, NEW t \in Runs, NEW i \in DOMAIN history'[s],
             NEW j \in DOMAIN history'[t],
             history'[s][i].kind = "steering", history'[t][j].kind = "steering",
             history'[s][i].message.id = history'[t][j].message.id
      PROVE  s = t /\ i = j
  <2> DEFINE Old(u, k) == k \in DOMAIN history[u] /\ history[u][k] = history'[u][k]
             New(u, k) == /\ u = r /\ k - Len(history[r]) \in DOMAIN queue.messages
                          /\ history'[u][k].message = queue.messages[k - Len(history[r])]
  <2>1. (Old(s, i) \/ New(s, i)) /\ (Old(t, j) \/ New(t, j))
    BY <1>4 DEF Carries
  <2>2. CASE Old(s, i) /\ Old(t, j)
    BY <1>4, <2>2 DEF SteeringInv
  <2>3. CASE Old(s, i) /\ New(t, j)
    BY <1>4, <2>3 DEF SteeringInv
  <2>4. CASE New(s, i) /\ Old(t, j)
    BY <1>4, <2>4 DEF SteeringInv
  <2>5. CASE New(s, i) /\ New(t, j)
    <3>1. i - Len(history[r]) = j - Len(history[r]) /\ s = t
      BY <1>4, <2>5 DEF SteeringInv
    <3>2. history'[s] \in Seq(Entry) /\ history'[t] \in Seq(Entry) /\ history[r] \in Seq(Entry)
      BY DEF TypeInv, TypeOK
    <3>3. i \in Nat /\ j \in Nat /\ Len(history[r]) \in Nat
      BY <1>4, <3>2, LenProperties
    <3> QED
      BY <3>1, <3>3
  <2> QED
    BY <2>1, <2>2, <2>3, <2>4, <2>5
<1> QED
  BY <1>1, <1>2, <1>3, <1>4 DEF SteeringInv

LEMMA SubmitSteering ==
  ASSUME QueueInv, SteeringInv, NEW m \in QueuedSessionMessage, Submit(m)
  PROVE  SteeringInv'
<1>1. /\ queue \in QueueState /\ queue.messages \in Seq(QueuedSessionMessage)
      /\ acks \in [MessageIds -> QueueAck \cup {"none"}]
      /\ m.id \in MessageIds /\ acks[m.id] = "none" /\ history' = history
      /\ acks' = [acks EXCEPT ![m.id] = EnqueueAck(queue, m)]
  BY DEF QueueInv, TypeInv, TypeOK, QueueState, QueuedSessionMessage, Submit, runVars
<1>2. \A id : acks[id] = "Queued" => id # m.id
  BY <1>1
<1>3. \A k \in DOMAIN queue.messages :
        /\ queue.messages[k].id # m.id
        /\ acks'[queue.messages[k].id] = "Queued"
  <2> SUFFICES ASSUME NEW k \in DOMAIN queue.messages
               PROVE  queue.messages[k].id # m.id /\ acks'[queue.messages[k].id] = "Queued"
    OBVIOUS
  <2>1. queue.messages[k] \in QueuedSessionMessage
    BY <1>1
  <2>2. queue.messages[k].id \in MessageIds /\ acks[queue.messages[k].id] = "Queued"
    BY <2>1 DEF SteeringInv, QueuedSessionMessage
  <2> QED
    BY <1>1, <1>2, <2>2
<1>4. ASSUME NEW s \in Runs, NEW i \in DOMAIN history[s], history[s][i].kind = "steering"
      PROVE  /\ history[s][i].message.id # m.id
             /\ acks'[history[s][i].message.id] = "Queued"
  <2>1. history[s][i] \in Entry
    BY DEF QueueInv, TypeInv, TypeOK
  <2>2. history[s][i].message.id \in MessageIds
    BY <1>4, <2>1 DEF Entry, QueuedSessionMessage
  <2>3. acks[history[s][i].message.id] = "Queued"
    BY <1>4 DEF SteeringInv
  <2> QED
    BY <1>1, <1>2, <2>2, <2>3
<1>5. CASE EnqueueAck(queue, m) # "Queued"
  <2>1. queue' = queue
    BY <1>1, <1>5, EnqueueCases DEF Submit
  <2> QED
    BY <1>1, <1>3, <1>4, <2>1 DEF SteeringInv
<1>6. CASE EnqueueAck(queue, m) = "Queued"
  <2>1. queue'.messages = Append(queue.messages, m)
    BY <1>1, <1>6, EnqueueCases DEF Submit
  <2>2. /\ DOMAIN queue'.messages = DOMAIN queue.messages \cup {Len(queue.messages) + 1}
        /\ queue'.messages[Len(queue.messages) + 1] = m
        /\ \A k \in DOMAIN queue.messages : queue'.messages[k] = queue.messages[k]
        /\ acks'[m.id] = "Queued"
    BY <1>1, <1>6, <2>1
  <2>3. \A k \in DOMAIN queue'.messages : acks'[queue'.messages[k].id] = "Queued"
    BY <1>3, <2>2
  <2>4. \A k, l \in DOMAIN queue'.messages :
          queue'.messages[k].id = queue'.messages[l].id => k = l
    BY <1>3, <2>2 DEF SteeringInv
  <2>5. \A s \in Runs : \A i \in DOMAIN history[s] : history[s][i].kind = "steering" =>
          /\ acks'[history[s][i].message.id] = "Queued"
          /\ \A k \in DOMAIN queue'.messages : queue'.messages[k].id # history[s][i].message.id
    BY <1>4, <2>2 DEF SteeringInv
  <2> QED
    BY <1>1, <2>3, <2>4, <2>5 DEF SteeringInv
<1> QED
  BY <1>5, <1>6

LEMMA SteeringCorrect == Spec => []SteeringInv
<1>1. Init => SteeringInv
  BY DEF Init, SteeringInv, NewQueue
<1>2. ASSUME QueueInv, QueueInv', SteeringInv, [Next]_vars
      PROVE  SteeringInv'
  <2>1. CASE UNCHANGED vars
    <3>1. queue' = queue /\ acks' = acks /\ history' = history
      BY <2>1 DEF vars, queueVars, runVars
    <3> QED
      BY <1>2, <3>1 DEF SteeringInv
  <2>2. CASE \E m \in QueuedSessionMessage : Submit(m)
    BY <1>2, <2>2, SubmitSteering
  <2>3. CASE \E r \in Runs : Cancel(r)
    <3>1. queue' = queue /\ acks' = acks /\ history' = history
      BY <2>3 DEF Cancel, queueVars
    <3> QED
      BY <1>2, <3>1 DEF SteeringInv
  <2>4. CASE \E r \in Runs : RunStep(r)
    <3>1. PICK r \in Runs : RunStep(r)
      BY <2>4
    <3>2. Carries(r)
      BY <1>2, <3>1, RunStepCarries
    <3>3. TypeInv /\ TypeInv'
      BY <1>2 DEF QueueInv
    <3> QED
      BY <1>2, <3>2, <3>3, RunStepSteering
  <2> QED
    BY <1>2, <2>1, <2>2, <2>3, <2>4 DEF Next
<1> QED
  BY <1>1, <1>2, QueueCorrect, PTL DEF Spec

\* Over any number of concurrent runs of a runtime, a steering message enters at most one
\* session, at one place, and only if its sender was told Queued (enqueue of
\* session_queue.rs, drain_session_messages of agent.rs).
THEOREM SteeringEntersOnce == Spec => []SteeredOnce
<1>1. ASSUME SteeringInv PROVE SteeredOnce
  <2> DEFINE places == UNION {{r} \X {i \in DOMAIN history[r] :
                                history[r][i].kind = "steering"} : r \in Runs}
  <2>1. ASSUME NEW p \in places
        PROVE  /\ p[1] \in Runs /\ p[2] \in DOMAIN history[p[1]] /\ p = <<p[1], p[2]>>
               /\ history[p[1]][p[2]].kind = "steering"
    OBVIOUS
  <2>2. ASSUME NEW p \in places, NEW q \in places
        PROVE  /\ acks[history[p[1]][p[2]].message.id] = "Queued"
               /\ history[p[1]][p[2]].message.id = history[q[1]][q[2]].message.id => p = q
    <3> HIDE DEF places
    <3>1. /\ p[1] \in Runs /\ p[2] \in DOMAIN history[p[1]] /\ p = <<p[1], p[2]>>
          /\ history[p[1]][p[2]].kind = "steering"
      BY <2>1
    <3>2. /\ q[1] \in Runs /\ q[2] \in DOMAIN history[q[1]] /\ q = <<q[1], q[2]>>
          /\ history[q[1]][q[2]].kind = "steering"
      BY <2>1
    <3>3. acks[history[p[1]][p[2]].message.id] = "Queued"
      BY <1>1, <3>1 DEF SteeringInv
    <3>4. history[p[1]][p[2]].message.id = history[q[1]][q[2]].message.id
            => p[1] = q[1] /\ p[2] = q[2]
      BY <1>1, <3>1, <3>2 DEF SteeringInv
    <3> QED
      BY <3>1, <3>2, <3>3, <3>4
  <2> QED
    BY <2>2 DEF SteeredOnce
<1> QED
  BY <1>1, SteeringCorrect, PTL

-----------------------------------------------------------------------------
(* Where steering enters sessions: between exchanges. *)

\* Where a message with tool calls may lack results, and where a run has been left.
Unanswered == {"after_model", "tools", "results"}
Left == {"completing", "done"}

\* The results of a message follow it; all of them, but those of the last exchange while
\* the run is about it.
Exchange(h, label, b) ==
  /\ \A i \in DOMAIN h : h[i].kind = "assistant" =>
       \A c \in 1..h[i].calls : i + c \in DOMAIN h => h[i + c] = ToolResult(c)
  /\ label \notin Unanswered \cup Left =>
       \A i \in DOMAIN h : h[i].kind = "assistant" => i + h[i].calls <= Len(h)
  /\ label \in Unanswered =>
       /\ b.answered < Len(h) /\ h[Len(h) - b.answered] = Assistant(b.calls)
       /\ \A i \in DOMAIN h : h[i].kind = "assistant" /\ i # Len(h) - b.answered
            => i + h[i].calls <= Len(h)

ExchangeInv == \A r \in Runs : Exchange(history[r], pc[r], batch[r])

\* The messages of an assistant in a session.
LEMMA AssistantEntry ==
  ASSUME NEW e \in Entry, e.kind = "assistant"
  PROVE  e.calls \in 0..MaxCalls /\ e.calls \in Nat /\ e = Assistant(e.calls)
BY AgentRuntimeAssumption DEF Entry, Assistant

\* Outside of an exchange, entries that are not an assistant's may be appended.
LEMMA ExchangeGrows ==
  ASSUME NEW h \in Seq(Entry), NEW g \in Seq(Entry), NEW l, NEW b, NEW k, NEW d,
         Exchange(h, l, b), l \notin Unanswered \cup Left, k \notin Unanswered,
         Len(h) <= Len(g), \A i \in 1..Len(h) : g[i] = h[i],
         \A i \in (Len(h) + 1)..Len(g) : g[i].kind # "assistant"
  PROVE  Exchange(g, k, d)
<1>1. /\ DOMAIN h = 1..Len(h) /\ DOMAIN g = 1..Len(g) /\ Len(h) \in Nat /\ Len(g) \in Nat
  BY LenProperties
<1>2. ASSUME NEW i \in DOMAIN g, g[i].kind = "assistant"
      PROVE  i \in 1..Len(h) /\ g[i] = h[i] /\ h[i].kind = "assistant" /\ i + h[i].calls <= Len(h)
  <2>1. i \in 1..Len(h) /\ g[i] = h[i]
    BY <1>1, <1>2
  <2> QED
    BY <1>1, <1>2, <2>1 DEF Exchange
<1>3. ASSUME NEW i \in DOMAIN g, g[i].kind = "assistant"
      PROVE  /\ i + g[i].calls <= Len(g)
             /\ \A c \in 1..g[i].calls : g[i + c] = ToolResult(c)
  <2>1. i \in 1..Len(h) /\ g[i] = h[i] /\ h[i].kind = "assistant" /\ i + h[i].calls <= Len(h)
    BY <1>2, <1>3
  <2>2. h[i].calls \in Nat
    BY <1>1, <2>1, AssistantEntry
  <2>3. \A c \in 1..h[i].calls : i + c \in 1..Len(h)
    BY <1>1, <2>1, <2>2
  <2>4. \A c \in 1..h[i].calls : h[i + c] = ToolResult(c)
    BY <1>1, <2>1, <2>3 DEF Exchange
  <2> QED
    BY <1>1, <2>1, <2>2, <2>3, <2>4
<1> QED
  BY <1>3 DEF Exchange

\* An assistant's message opens an exchange.
LEMMA ExchangeOpens ==
  ASSUME NEW h \in Seq(Entry), NEW l, NEW b, NEW n \in 0..MaxCalls,
         Exchange(h, l, b), l \notin Unanswered \cup Left,
         NEW g, g = Append(h, Assistant(n)), NEW d, d.calls = n, d.answered = 0
  PROVE  Exchange(g, "after_model", d)
<1>1. Assistant(n) \in Entry /\ MaxCalls \in Nat
  BY AgentRuntimeAssumption DEF Entry, Assistant
<1>2. /\ DOMAIN g = 1..(Len(h) + 1) /\ Len(g) = Len(h) + 1 /\ DOMAIN h = 1..Len(h)
      /\ Len(h) \in Nat /\ g[Len(h) + 1] = Assistant(n) /\ \A i \in 1..Len(h) : g[i] = h[i]
  BY <1>1, Appended
<1>3. ASSUME NEW i \in 1..Len(h), h[i].kind = "assistant"
      PROVE  /\ i + h[i].calls <= Len(h) /\ h[i].calls \in Nat
             /\ \A c \in 1..h[i].calls : i + c \in 1..Len(h) /\ h[i + c] = ToolResult(c)
  <2>1. h[i].calls \in Nat /\ i + h[i].calls <= Len(h)
    BY <1>2, <1>3, AssistantEntry DEF Exchange
  <2>2. \A c \in 1..h[i].calls : i + c \in 1..Len(h)
    BY <1>2, <2>1
  <2> QED
    BY <1>2, <1>3, <2>1, <2>2 DEF Exchange
<1>4. ASSUME NEW i \in DOMAIN g, g[i].kind = "assistant", NEW c \in 1..g[i].calls,
             i + c \in DOMAIN g
      PROVE  g[i + c] = ToolResult(c)
  <2>1. CASE i \in 1..Len(h)
    BY <1>2, <1>3, <1>4, <2>1
  <2>2. CASE i = Len(h) + 1
    <3>1. c \in 1..n
      BY <1>2, <1>4, <2>2 DEF Assistant
    <3> QED
      BY <1>1, <1>2, <1>4, <2>2, <3>1
  <2> QED
    BY <1>2, <1>4, <2>1, <2>2
<1>5. /\ d.answered < Len(g) /\ g[Len(g) - d.answered] = Assistant(d.calls)
      /\ \A i \in DOMAIN g : g[i].kind = "assistant" /\ i # Len(g) - d.answered
           => i + g[i].calls <= Len(g)
  <2>1. d.answered < Len(g) /\ Len(g) - d.answered = Len(h) + 1
    BY <1>2
  <2>2. ASSUME NEW i \in DOMAIN g, g[i].kind = "assistant", i # Len(h) + 1
        PROVE  i + g[i].calls <= Len(g)
    <3>1. i \in 1..Len(h) /\ g[i] = h[i]
      BY <1>2, <2>2
    <3>2. i + h[i].calls <= Len(h) /\ h[i].calls \in Nat
      BY <1>3, <2>2, <3>1
    <3> QED
      BY <1>2, <3>1, <3>2
  <2> QED
    BY <1>2, <2>1, <2>2
<1> QED
  BY <1>4, <1>5 DEF Exchange, Unanswered, Left

\* Each result goes where the exchange expects it, and the last one closes the exchange.
LEMMA ExchangeAnswers ==
  ASSUME NEW h \in Seq(Entry), NEW b, Exchange(h, "results", b),
         b.calls \in 0..MaxCalls, b.answered \in Nat, b.answered < b.calls,
         NEW j, j = b.answered + 1,
         NEW g, g = Append(h, ToolResult(j)), NEW d, d.calls = b.calls, d.answered = j,
         NEW k, k = IF j = b.calls THEN "turn_end" ELSE "results"
  PROVE  Exchange(g, k, d)
<1>1. /\ b.calls \in Nat /\ MaxCalls \in Nat /\ j \in 1..MaxCalls /\ j <= b.calls
      /\ j \in Nat
  BY AgentRuntimeAssumption
<1>2. ToolResult(j) \in Entry /\ ToolResult(j).kind # "assistant"
  BY <1>1 DEF Entry, ToolResult
<1>3. /\ DOMAIN g = 1..(Len(h) + 1) /\ Len(g) = Len(h) + 1 /\ DOMAIN h = 1..Len(h)
      /\ Len(h) \in Nat /\ g[Len(h) + 1] = ToolResult(j) /\ \A i \in 1..Len(h) : g[i] = h[i]
  BY <1>2, Appended
<1>10. PICK o : o = Len(h) - b.answered
  OBVIOUS
<1>11. b.answered < Len(h) /\ h[o] = Assistant(b.calls)
  BY <1>10 DEF Exchange, Unanswered
<1>12. /\ o \in 1..Len(h) /\ o \in Nat /\ o + j = Len(h) + 1 /\ Len(g) - d.answered = o
       /\ d.answered < Len(g)
  <2>1. /\ Len(h) \in Nat /\ Len(g) = Len(h) + 1 /\ d.answered = j /\ j = b.answered + 1
        /\ b.answered \in Nat /\ b.answered < Len(h)
    BY <1>3, <1>11
  <2>2. o \in Nat
    BY ONLY <1>10, <2>1
  <2>3. o \in 1..Len(h)
    BY ONLY <1>10, <2>1, <2>2
  <2>4. o + j = Len(h) + 1
    BY ONLY <1>10, <2>1, <2>2
  <2>5. Len(g) - d.answered = o
    BY ONLY <1>10, <2>1, <2>2
  <2>6. d.answered < Len(g)
    BY ONLY <2>1
  <2> QED
    BY <2>2, <2>3, <2>4, <2>5, <2>6
<1>4. /\ o \in 1..Len(h) /\ o \in Nat /\ h[o] = Assistant(b.calls) /\ o + j = Len(h) + 1
      /\ Len(g) - d.answered = o
  BY <1>11, <1>12
<1>5. h[o].kind = "assistant" /\ h[o].calls = b.calls
  BY <1>4 DEF Assistant
<1>6. ASSUME NEW i \in DOMAIN g, g[i].kind = "assistant"
      PROVE  /\ i \in 1..Len(h) /\ g[i] = h[i] /\ h[i].calls \in Nat
             /\ i # o => i + h[i].calls <= Len(h)
  <2>1. i \in 1..Len(h) /\ g[i] = h[i]
    BY <1>2, <1>3, <1>6
  <2>2. h[i].calls \in Nat
    BY <1>3, <1>6, <2>1, AssistantEntry
  <2>3. i # o => i + h[i].calls <= Len(h)
    BY <1>3, <1>6, <1>10, <2>1 DEF Exchange, Unanswered
  <2> QED
    BY <2>1, <2>2, <2>3
<1>7. ASSUME NEW i \in DOMAIN g, g[i].kind = "assistant", NEW c \in 1..g[i].calls,
             i + c \in DOMAIN g
      PROVE  g[i + c] = ToolResult(c)
  <2>1. /\ i \in 1..Len(h) /\ g[i] = h[i] /\ h[i].calls \in Nat
        /\ i # o => i + h[i].calls <= Len(h)
    BY <1>6, <1>7
  <2>2. CASE i + c \in 1..Len(h)
    <3>1. h[i + c] = ToolResult(c)
      BY <1>3, <1>7, <2>1, <2>2 DEF Exchange
    <3> QED
      BY <1>3, <2>2, <3>1
  <2>3. CASE i + c = Len(h) + 1
    <3>1. i = o
      BY <1>3, <1>7, <2>1, <2>3
    <3>2. c = j
      <4>1. o + c = Len(h) + 1
        BY <2>3, <3>1
      <4>2. j \in Nat /\ o \in Nat /\ Len(h) \in Nat /\ o + j = Len(h) + 1
        BY <1>1, <1>3, <1>4
      <4>4. c \in 1..h[i].calls /\ h[i].calls \in Nat
        BY <2>1
      <4>5. c \in Nat
        BY <4>4
      <4>3. o + c = o + j
        BY <4>1, <4>2
      <4> QED
        BY ONLY <4>2, <4>3, <4>5
    <3> QED
      BY <1>3, <2>3, <3>2
  <2> QED
    BY <1>3, <1>7, <2>1, <2>2, <2>3
<1>8. CASE j = b.calls
  <2>1. ASSUME NEW i \in DOMAIN g, g[i].kind = "assistant" PROVE i + g[i].calls <= Len(g)
    <3>1. /\ i \in 1..Len(h) /\ g[i] = h[i] /\ h[i].calls \in Nat
          /\ i # o => i + h[i].calls <= Len(h)
      BY <1>6, <2>1
    <3>2. CASE i = o
      <4>1. i + g[i].calls = o + j
        BY <1>5, <1>8, <3>1, <3>2
      <4> QED
        BY <1>3, <1>4, <4>1
    <3>3. CASE i # o
      <4>1. i + h[i].calls <= Len(h)
        BY <3>1, <3>3
      <4> QED
        BY <1>3, <3>1, <4>1
    <3> QED
      BY <3>2, <3>3
  <2>2. k = "turn_end"
    BY <1>8
  <2> QED
    BY <1>7, <2>1, <2>2 DEF Exchange, Unanswered, Left
<1>9. CASE j # b.calls
  <2>1. d.answered < Len(g) /\ g[Len(g) - d.answered] = Assistant(d.calls)
    <3>1. g[o] = h[o]
      BY <1>3, <1>4
    <3>2. g[o] = Assistant(d.calls)
      BY <1>4, <3>1
    <3> QED
      BY ONLY <1>12, <3>2
  <2>2. ASSUME NEW i \in DOMAIN g, g[i].kind = "assistant", i # Len(g) - d.answered
        PROVE  i + g[i].calls <= Len(g)
    <3>1. /\ i \in 1..Len(h) /\ g[i] = h[i] /\ h[i].calls \in Nat
          /\ i # o => i + h[i].calls <= Len(h)
      BY <1>6, <2>2
    <3>2. i + h[i].calls <= Len(h)
      BY <1>4, <2>2, <3>1
    <3> QED
      BY <1>3, <3>1, <3>2
  <2>3. k = "results"
    BY <1>9
  <2> QED
    BY <1>7, <2>1, <2>2, <2>3 DEF Exchange, Unanswered, Left
<1> QED
  BY <1>8, <1>9

\* A step of a run, seen from its exchanges.
LEMMA RunStepExchange ==
  ASSUME TypeInv, ExchangeInv, NEW r \in Runs, RunStep(r)
  PROVE  ExchangeInv'
<1>1. /\ pc \in [Runs -> RunPc] /\ history \in [Runs -> Seq(Entry)]
      /\ batch \in [Runs -> [calls : 0..MaxCalls, answered : 0..MaxCalls]]
      /\ Exchange(history[r], pc[r], batch[r])
  BY DEF TypeInv, TypeOK, ExchangeInv
<1>2. ASSUME \A s \in Runs \ {r} : pc'[s] = pc[s] /\ history'[s] = history[s]
                                     /\ batch'[s] = batch[s],
             Exchange(history'[r], pc'[r], batch'[r])
      PROVE  ExchangeInv'
  BY <1>2 DEF ExchangeInv
<1>3. ASSUME NEW to, to \notin Unanswered, pc[r] \notin Unanswered \cup Left \/ to \in Left,
             Goto(r, to), history' = history, batch' = batch
      PROVE  ExchangeInv'
  <2>1. Exchange(history[r], to, batch[r])
    BY <1>1, <1>3 DEF Exchange
  <2>2. pc'[r] = to /\ \A s \in Runs \ {r} : pc'[s] = pc[s]
    BY <1>1, <1>3 DEF Goto
  <2> QED
    BY <1>2, <1>3, <2>1, <2>2
<1>4. CASE Begin(r)
  <2> PICK h : h = history[r]
    OBVIOUS
  <2> PICK g : g = Append(h, Prompt)
    OBVIOUS
  <2>1. Prompt \in Entry /\ Prompt.kind # "assistant" /\ h \in Seq(Entry)
    BY <1>1 DEF Prompt, Entry
  <2>2. /\ g \in Seq(Entry) /\ Len(h) <= Len(g)
        /\ \A i \in 1..Len(h) : g[i] = h[i]
        /\ \A i \in (Len(h) + 1)..Len(g) : g[i].kind # "assistant"
    BY <2>1, Appended
  <2>3. /\ pc[r] = "idle" /\ pc'[r] = "opening" /\ history'[r] = g /\ batch' = batch
        /\ \A s \in Runs \ {r} : pc'[s] = pc[s] /\ history'[s] = history[s]
    BY <1>1, <1>4 DEF Begin, Goto
  <2>4. Exchange(h, "idle", batch[r])
    BY <1>1, <2>3
  <2>5. Exchange(g, "opening", batch[r])
    BY <2>1, <2>2, <2>4, ExchangeGrows DEF Unanswered, Left
  <2> QED
    BY <1>2, <2>3, <2>5
<1>5. CASE Drain(r)
  <2>7. PICK h : h = history[r]
    OBVIOUS
  <2>8. PICK q : q = queue.messages
    OBVIOUS
  <2>9. PICK g : g = h \o Drained(q)
    OBVIOUS
  <2>1. h \in Seq(Entry) /\ q \in Seq(QueuedSessionMessage)
    BY <1>1, <2>7, <2>8 DEF TypeInv, TypeOK, QueueState
  <2>2. Extends(h, q, g)
    BY ONLY <2>1, <2>9, Extended
  <2>3. /\ g \in Seq(Entry) /\ Len(h) <= Len(g)
        /\ \A i \in 1..Len(h) : g[i] = h[i]
        /\ \A i \in (Len(h) + 1)..Len(g) : g[i].kind # "assistant"
    BY <2>2 DEF Extends
  <2>4. /\ pc[r] = "drain" /\ pc'[r] = "before_context" /\ history'[r] = g /\ batch' = batch
        /\ \A s \in Runs \ {r} : pc'[s] = pc[s] /\ history'[s] = history[s]
    BY <1>1, <1>5, <2>7, <2>8, <2>9 DEF Drain, Goto, Drained
  <2>5. Exchange(h, "drain", batch[r])
    BY <1>1, <2>4, <2>7
  <2>6. Exchange(g, "before_context", batch[r])
    BY <2>1, <2>3, <2>5, ExchangeGrows DEF Unanswered, Left
  <2> QED
    BY <1>2, <2>4, <2>6
<1>6. CASE Respond(r)
  <2> PICK n \in 0..MaxCalls :
         /\ batch' = [batch EXCEPT ![r] = [calls |-> n, answered |-> 0]]
         /\ history' = [history EXCEPT ![r] = Append(@, Assistant(n))]
    BY <1>6 DEF Respond
  <2> PICK h : h = history[r]
    OBVIOUS
  <2> PICK d : d = [calls |-> n, answered |-> 0]
    OBVIOUS
  <2> PICK g : g = Append(h, Assistant(n))
    OBVIOUS
  <2>1. /\ pc[r] = "requesting" /\ pc'[r] = "after_model"
        /\ history'[r] = g /\ batch'[r] = d
        /\ \A s \in Runs \ {r} : pc'[s] = pc[s] /\ history'[s] = history[s]
                                   /\ batch'[s] = batch[s]
    BY <1>1, <1>6 DEF Respond, Goto
  <2>2. h \in Seq(Entry) /\ Exchange(h, "requesting", batch[r]) /\ d.calls = n /\ d.answered = 0
    BY <1>1, <2>1
  <2>3. Exchange(g, "after_model", d)
    <3>1. "requesting" \notin Unanswered \cup Left
      BY DEF Unanswered, Left
    <3> QED
      BY <2>2, <3>1, ExchangeOpens
  <2> QED
    BY <1>2, <2>1, <2>3
<1>7. CASE AfterModel(r)
  <2>1. /\ pc[r] = "after_model" /\ history' = history /\ batch' = batch
        /\ pc'[r] = IF batch[r].calls = 0 THEN "turn_end" ELSE "tools"
        /\ \A s \in Runs \ {r} : pc'[s] = pc[s]
    BY <1>1, <1>7 DEF AfterModel, Step, Goto
  <2>2. batch[r].answered = 0
    BY <2>1 DEF TypeInv, BatchUnanswered
  <2>3. Exchange(history[r], pc'[r], batch[r])
    <3>1. CASE batch[r].calls = 0
      <4> PICK h : h = history[r]
        OBVIOUS
      <4>1. /\ h[Len(h)] = Assistant(0) /\ 0 < Len(h) /\ Len(h) \in Nat
            /\ \A i \in DOMAIN h : h[i].kind = "assistant" /\ i # Len(h)
                 => i + h[i].calls <= Len(h)
        BY <1>1, <2>1, <2>2, <3>1 DEF Exchange, Unanswered
      <4>2. h[Len(h)].calls = 0
        BY <4>1 DEF Assistant
      <4>3. \A i \in DOMAIN h : h[i].kind = "assistant" => i + h[i].calls <= Len(h)
        BY <4>1, <4>2
      <4>4. pc'[r] = "turn_end"
        BY <2>1, <3>1
      <4> QED
        BY <1>1, <4>3, <4>4 DEF Exchange, Unanswered, Left
    <3>2. CASE batch[r].calls # 0
      BY <1>1, <2>1, <3>2 DEF Exchange, Unanswered, Left
    <3> QED
      BY <3>1, <3>2
  <2> QED
    BY <1>2, <2>1, <2>3
<1>8. CASE ToolsAnswer(r)
  <2>1. /\ pc[r] = "tools" /\ pc'[r] = "results" /\ history' = history /\ batch' = batch
        /\ \A s \in Runs \ {r} : pc'[s] = pc[s]
    BY <1>1, <1>8 DEF ToolsAnswer, Step, Goto
  <2>2. Exchange(history[r], "results", batch[r])
    BY <1>1, <2>1 DEF Exchange, Unanswered, Left
  <2> QED
    BY <1>2, <2>1, <2>2
<1>9. CASE AppendResult(r)
  <2> PICK h : h = history[r]
    OBVIOUS
  <2> PICK b : b = batch[r]
    OBVIOUS
  <2> PICK j : j = b.answered + 1
    OBVIOUS
  <2> PICK d : d = [calls |-> b.calls, answered |-> j]
    OBVIOUS
  <2> PICK k : k = IF j = b.calls THEN "turn_end" ELSE "results"
    OBVIOUS
  <2> PICK g : g = Append(h, ToolResult(j))
    OBVIOUS
  <2>1. /\ pc[r] = "results" /\ pc'[r] = k /\ history'[r] = g /\ batch'[r] = d
        /\ \A s \in Runs \ {r} : pc'[s] = pc[s] /\ history'[s] = history[s]
                                   /\ batch'[s] = batch[s]
    BY <1>1, <1>9 DEF AppendResult, Goto
  <2>2. /\ h \in Seq(Entry) /\ Exchange(h, "results", b) /\ d.calls = b.calls /\ d.answered = j
        /\ b.calls \in 0..MaxCalls /\ b.answered \in Nat /\ b.answered < b.calls
    BY <1>1, <2>1, AgentRuntimeAssumption DEF TypeInv, BatchUnanswered
  <2>3. Exchange(g, k, d)
    BY <2>2, ExchangeAnswers
  <2> QED
    BY <1>2, <2>1, <2>3
<1>10. CASE EndTurn(r)
  <2>1. /\ pc[r] = "turn_end" /\ history' = history /\ batch' = batch
        /\ Goto(r, "next_turn") \/ Goto(r, "closing")
    BY <1>10 DEF EndTurn, Break
  <2> QED
    BY <1>3, <2>1 DEF Unanswered, Left
<1>11. CASE OpenQueue(r) \/ Compose(r) \/ EnterTurn(r) \/ StopAtLimit(r) \/ CloseQueue(r)
             \/ StartHooks(r)
  <2>1. /\ history' = history /\ batch' = batch /\ pc[r] \notin Unanswered \cup Left
        /\ \E to \in {"composing", "start_hooks", "drain", "closing", "end_hooks", "loop_head"} :
             Goto(r, to)
    BY <1>11 DEF OpenQueue, Compose, EnterTurn, StopAtLimit, CloseQueue, StartHooks, Step,
       Break, Unanswered, Left
  <2> QED
    BY <1>3, <2>1 DEF Unanswered
<1>12. CASE BeforeContext(r) \/ AfterContext(r) \/ NextTurn(r) \/ NextTurnBlocked(r)
              \/ EndHooks(r) \/ PrepareContext(r)
  <2>1. /\ history' = history /\ batch' = batch /\ pc[r] \notin Unanswered \cup Left
        /\ \E to \in {"preparing", "after_context", "requesting", "loop_head", "closing",
                      "completing"} : Goto(r, to)
    BY <1>12 DEF BeforeContext, AfterContext, NextTurn, NextTurnBlocked, EndHooks,
       PrepareContext, Step, Return, Break, Unanswered, Left
  <2> QED
    BY <1>3, <2>1 DEF Unanswered
<1>13. CASE NoticeCancel(r) \/ ContextBlocked(r) \/ ProviderFails(r) \/ ToolsFail(r)
              \/ RejectPipeline(r) \/ CompleteQueue(r)
  <2>1. /\ history' = history /\ batch' = batch
        /\ Goto(r, "completing") \/ Goto(r, "done")
    BY <1>13 DEF NoticeCancel, ContextBlocked, ProviderFails, ToolsFail, RejectPipeline,
       CompleteQueue, Return
  <2> QED
    BY <1>3, <2>1 DEF Unanswered, Left
<1> QED
  BY <1>4, <1>5, <1>6, <1>7, <1>8, <1>9, <1>10, <1>11, <1>12, <1>13
     DEF RunStep, LocalStep, Answer

LEMMA ExchangesHold == Spec => [](TypeInv /\ ExchangeInv)
<1>1. Init => ExchangeInv
  <2> SUFFICES ASSUME Init, NEW r \in Runs PROVE Exchange(history[r], pc[r], batch[r])
    BY DEF ExchangeInv
  <2>1. history[r] = <<>> /\ pc[r] = "idle" /\ DOMAIN <<>> = {}
    BY DEF Init
  <2> QED
    BY <2>1 DEF Exchange, Unanswered
<1>2. ASSUME TypeInv, ExchangeInv, [Next]_vars
      PROVE  ExchangeInv'
  <2>1. CASE history' = history /\ pc' = pc /\ batch' = batch
    BY <1>2, <2>1 DEF ExchangeInv
  <2>2. CASE UNCHANGED vars
    BY <2>1, <2>2 DEF vars, runVars
  <2>3. CASE \E m \in QueuedSessionMessage : Submit(m)
    BY <2>1, <2>3 DEF Submit, runVars
  <2>4. CASE \E r \in Runs : Cancel(r)
    BY <2>1, <2>4 DEF Cancel
  <2>5. CASE \E r \in Runs : RunStep(r)
    BY <1>2, <2>5, RunStepExchange
  <2> QED
    BY <1>2, <2>2, <2>3, <2>4, <2>5 DEF Next
<1> QED
  BY <1>1, <1>2, TypesKept, PTL DEF Spec

LEMMA ExchangesUnbroken ==
  ASSUME TypeInv, ExchangeInv
  PROVE  ExchangeUnbroken
<1> SUFFICES ASSUME NEW r \in Runs, NEW i \in DOMAIN history[r], history[r][i].kind = "assistant",
                    NEW c \in 1..history[r][i].calls
             PROVE  IF i + c \in DOMAIN history[r]
                    THEN history[r][i + c] = ToolResult(c)
                    ELSE pc[r] \in {"after_model", "tools", "results", "completing", "done"}
  BY DEF ExchangeUnbroken
<1> PICK h : h = history[r]
  OBVIOUS
<1>1. h \in Seq(Entry) /\ Exchange(h, pc[r], batch[r])
  BY DEF TypeInv, TypeOK, ExchangeInv
<1>2. DOMAIN h = 1..Len(h) /\ Len(h) \in Nat /\ h[i] \in Entry
  BY <1>1, LenProperties
<1>3. CASE i + c \in DOMAIN h
  BY <1>1, <1>3 DEF Exchange
<1>4. CASE i + c \notin DOMAIN h
  <2>1. h[i].calls \in Nat
    BY <1>2, AssistantEntry
  <2>2. ~(i + h[i].calls <= Len(h))
    BY <1>2, <1>4, <2>1
  <2> QED
    BY <1>1, <1>4, <2>2 DEF Exchange, Unanswered, Left
<1> QED
  BY <1>3, <1>4

\* With one writer, and a pipeline that has an assembler, no two runs are in progress and
\* the queue is not open past the last drain of a run.
OneWriter ==
  /\ \A r, s \in Runs : InProgress(r) /\ InProgress(s) => r = s
  /\ NoSteeringPastRun

LEMMA RunStepOneWriter ==
  ASSUME SingleWriter, AssemblerBacked, TypeInv, OneWriter, NEW r \in Runs, RunStep(r)
  PROVE  OneWriter'
<1>1. pc \in [Runs -> RunPc] /\ queue \in QueueState
  BY DEF TypeInv, TypeOK
<1>2. ASSUME NEW to \in RunPc \ {"idle", "done", "end_hooks"}, Goto(r, to),
             InProgress(r) \/ \A s \in Runs : ~InProgress(s)
      PROVE  OneWriter'
  <2>1. pc'[r] = to /\ \A s \in Runs \ {r} : pc'[s] = pc[s]
    BY <1>1, <1>2 DEF Goto
  <2>2. \A s \in Runs \ {r} : ~InProgress(s)
    BY <1>2 DEF OneWriter
  <2>3. \A s \in Runs \ {r} : pc'[s] \in {"idle", "done"}
    BY <2>1, <2>2 DEF InProgress
  <2>4. pc'[r] \notin {"idle", "done", "end_hooks"}
    BY <1>2, <2>1
  <2> QED
    BY <2>3, <2>4 DEF OneWriter, NoSteeringPastRun, InProgress
<1>3. CASE Begin(r)
  BY <1>2, <1>3 DEF Begin, RunPc, CancelPoints
<1>4. CASE CloseQueue(r)
  <2>1. /\ pc[r] = "closing" /\ pc'[r] = "end_hooks" /\ queue'.lifecycle = "Closing"
        /\ \A s \in Runs \ {r} : pc'[s] = pc[s]
    BY <1>1, <1>4, LifecycleCases DEF CloseQueue, Goto, QueueLifecycle
  <2>2. \A s \in Runs \ {r} : pc'[s] \in {"idle", "done"}
    BY <2>1 DEF OneWriter, InProgress
  <2> QED
    BY <2>1, <2>2 DEF OneWriter, NoSteeringPastRun, InProgress
<1>5. CASE CompleteQueue(r)
  <2>1. /\ pc[r] = "completing" /\ pc'[r] = "done" /\ queue'.lifecycle = "Completed"
        /\ \A s \in Runs \ {r} : pc'[s] = pc[s]
    BY <1>1, <1>5, LifecycleCases DEF CompleteQueue, Goto, QueueLifecycle
  <2>2. \A s \in Runs \ {r} : pc'[s] \in {"idle", "done"}
    BY <2>1 DEF OneWriter, InProgress
  <2> QED
    BY <2>1, <2>2 DEF OneWriter, NoSteeringPastRun, InProgress
<1>6. CASE RejectPipeline(r)
  BY <1>6 DEF RejectPipeline
<1>7. CASE OpenQueue(r) \/ Compose(r) \/ NoticeCancel(r) \/ StopAtLimit(r) \/ EnterTurn(r)
             \/ Drain(r) \/ AppendResult(r) \/ EndTurn(r)
  <2>1. /\ InProgress(r)
        /\ \E to \in RunPc \ {"idle", "done", "end_hooks"} : Goto(r, to)
    BY <1>7 DEF OpenQueue, Compose, NoticeCancel, StopAtLimit, EnterTurn, Drain, AppendResult,
       EndTurn, Step, Return, Break, InProgress, RunPc, CancelPoints
  <2> QED
    BY <1>2, <2>1
<1>8. CASE StartHooks(r) \/ BeforeContext(r) \/ ContextBlocked(r) \/ AfterContext(r)
             \/ Respond(r) \/ ProviderFails(r) \/ AfterModel(r) \/ ToolsAnswer(r)
             \/ ToolsFail(r) \/ NextTurn(r) \/ NextTurnBlocked(r) \/ EndHooks(r)
             \/ PrepareContext(r)
  <2>1. /\ InProgress(r)
        /\ \E to \in RunPc \ {"idle", "done", "end_hooks"} : Goto(r, to)
    BY <1>8 DEF StartHooks, BeforeContext, ContextBlocked, AfterContext, Respond,
       ProviderFails, AfterModel, ToolsAnswer, ToolsFail, NextTurn, NextTurnBlocked,
       EndHooks, PrepareContext, Step, Return, Break, InProgress, RunPc, CancelPoints
  <2> QED
    BY <1>2, <2>1
<1> QED
  BY <1>3, <1>4, <1>5, <1>6, <1>7, <1>8 DEF RunStep, LocalStep, Answer

LEMMA OneWriterHolds ==
  ASSUME SingleWriter, AssemblerBacked
  PROVE  Spec => []OneWriter
<1>1. Init => OneWriter
  BY DEF Init, OneWriter, NoSteeringPastRun, InProgress
<1>2. ASSUME TypeInv, OneWriter, [Next]_vars
      PROVE  OneWriter'
  <2>1. CASE pc' = pc /\ queue'.lifecycle = queue.lifecycle
    BY <1>2, <2>1 DEF OneWriter, NoSteeringPastRun, InProgress
  <2>2. CASE UNCHANGED vars
    BY <2>1, <2>2 DEF vars, runVars, queueVars
  <2>3. CASE \E m \in QueuedSessionMessage : Submit(m)
    <3>1. queue \in QueueState
      BY <1>2 DEF TypeInv, TypeOK
    <3>2. pc' = pc /\ queue'.lifecycle = queue.lifecycle
      BY <2>3, <3>1, EnqueueCases DEF Submit, runVars
    <3> QED
      BY <2>1, <3>2
  <2>4. CASE \E r \in Runs : Cancel(r)
    BY <2>1, <2>4 DEF Cancel, queueVars
  <2>5. CASE \E r \in Runs : RunStep(r)
    BY <1>2, <2>5, RunStepOneWriter
  <2> QED
    BY <1>2, <2>2, <2>3, <2>4, <2>5 DEF Next
<1> QED
  BY <1>1, <1>2, TypesKept, PTL DEF Spec

\* The results of an assistant's message follow it directly, and where one run at a time is
\* in progress, none accepts steering after its last drain (run and drain_session_messages
\* of agent.rs, run_session of runtime.rs).
THEOREM SteeringStaysInPlace ==
  ASSUME SingleWriter, AssemblerBacked
  PROVE  Spec => []SteeringInPlace
<1>1. TypeInv /\ ExchangeInv /\ OneWriter => SteeringInPlace
  BY ExchangesUnbroken DEF SteeringInPlace, OneWriter
<1> QED
  BY <1>1, ExchangesHold, OneWriterHolds, PTL

-----------------------------------------------------------------------------
(* What senders are told. *)

\* What enqueue answers to a message that it does not take.
LEMMA Refusals ==
  ASSUME NEW q \in QueueState, NEW m \in QueuedSessionMessage
  PROVE  /\ EnqueueAck(q, m) = "Duplicate" => KeyKnown(q, m) /\ SamePayload(q, m)
         /\ EnqueueAck(q, m) = "Conflict" => KeyKnown(q, m) /\ ~SamePayload(q, m)
         /\ EnqueueAck(q, m) = "Full" => Len(q.messages) >= Capacity
<1>1. q.lifecycle \in QueueLifecycle
  BY DEF QueueState
<1> QED
  BY <1>1 DEF EnqueueAck, QueueLifecycle

\* A sender told Duplicate, Conflict or Full has been told the truth, at any capacity and
\* with any number of runs and drains in between (enqueue of session_queue.rs).
THEOREM AnswersAreTruthful == Spec => AcksAreTruthful
<1> DEFINE Earlier(m) == {i \in DOMAIN accepted : accepted[i].key = m.key}
           Truthful(m) ==
             CASE acks'[m.id] = "Duplicate" ->
                    \E i \in Earlier(m) : accepted[i].payload = m.payload
               [] acks'[m.id] = "Conflict" ->
                    \E i \in Earlier(m) : accepted[i].payload # m.payload
               [] acks'[m.id] = "Full" -> Len(queue.messages) = Capacity
               [] OTHER -> TRUE
<1>1. ASSUME QueueInv, NEW m \in QueuedSessionMessage, Submit(m)
      PROVE  Truthful(m)
  <2>1. /\ queue \in QueueState /\ queue.messages \in Seq(QueuedSessionMessage)
        /\ acks \in [MessageIds -> QueueAck \cup {"none"}]
        /\ m.id \in MessageIds /\ m.key \in Keys \cup {NoKey}
        /\ acks'[m.id] = EnqueueAck(queue, m)
    BY <1>1 DEF QueueInv, TypeInv, TypeOK, QueueState, QueuedSessionMessage, Submit
  <2>2. KeyKnown(queue, m) =>
          \E i \in DOMAIN accepted : accepted[i] = queue.idempotent_messages[m.key]
                                       /\ accepted[i].key = m.key
    BY <1>1, <2>1 DEF QueueInv, KeysRemembered, KeyKnown
  <2>3. acks'[m.id] = "Duplicate" => \E i \in Earlier(m) : accepted[i].payload = m.payload
    <3> SUFFICES ASSUME acks'[m.id] = "Duplicate"
                 PROVE  \E i \in Earlier(m) : accepted[i].payload = m.payload
      OBVIOUS
    <3>1. KeyKnown(queue, m) /\ SamePayload(queue, m)
      BY <2>1, Refusals
    <3>2. PICK i \in DOMAIN accepted : accepted[i] = queue.idempotent_messages[m.key]
                                         /\ accepted[i].key = m.key
      BY <2>2, <3>1
    <3> QED
      BY <3>1, <3>2 DEF SamePayload
  <2>4. acks'[m.id] = "Conflict" => \E i \in Earlier(m) : accepted[i].payload # m.payload
    <3> SUFFICES ASSUME acks'[m.id] = "Conflict"
                 PROVE  \E i \in Earlier(m) : accepted[i].payload # m.payload
      OBVIOUS
    <3>1. KeyKnown(queue, m) /\ ~SamePayload(queue, m)
      BY <2>1, Refusals
    <3>2. PICK i \in DOMAIN accepted : accepted[i] = queue.idempotent_messages[m.key]
                                         /\ accepted[i].key = m.key
      BY <2>2, <3>1
    <3> QED
      BY <3>1, <3>2 DEF SamePayload
  <2>5. acks'[m.id] = "Full" => Len(queue.messages) = Capacity
    <3>1. Len(queue.messages) \in Nat /\ Len(queue.messages) <= Capacity /\ Capacity \in Nat
      BY <1>1, <2>1, SteeringQueueAssumption, LenProperties DEF QueueInv
    <3>2. acks'[m.id] = "Full" => Len(queue.messages) >= Capacity
      BY <2>1, Refusals
    <3> QED
      BY <3>1, <3>2
  <2> HIDE DEF Earlier
  <2> QED
    BY <2>3, <2>4, <2>5
<1>2. QueueInv => \A m \in QueuedSessionMessage : Submit(m) => Truthful(m)
  BY <1>1
<1> QED
  BY <1>2, QueueCorrect, PTL DEF AcksAreTruthful
=============================================================================
