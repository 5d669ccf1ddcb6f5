------------------------------ MODULE Approvals ------------------------------
(***************************************************************************)
(* A question the executor asks about a tool call, and the clients that    *)
(* answer it: the projection of the event into the control state, the      *)
(* host's HostApprovalBroker, and respond_to_approval, which passes both   *)
(* (crates/gestalt-runtime/src/activation.rs, control/host.rs and          *)
(* control/host/runtime_backed.rs).                                        *)
(***************************************************************************)
EXTENDS Naturals, Sequences, FiniteSets

CONSTANTS
  CallIds,      \* tool call ids, chosen by the model; they may come again
  Responders,   \* responses of clients
  NoCall,       \* no tool call
  MaxAsks       \* bound: questions of a run

ASSUME ApprovalsAssumption == MaxAsks \in Nat /\ NoCall \notin CallIds

\* "malformed" is an edit that violates the editable input rules.
Decisions == {"approve", "deny", "edit", "malformed"}
AskPhase == {"requested", "waiting", "decided", "cancelled"}

VARIABLES
  asks,       \* the questions of the run: call id, phase and the decision received
  projecting, \* ApprovalRequested events the host has not projected yet
  approvals,  \* the control state's approvals
  answered,   \* answered_approvals
  senders,     \* pending_approvals: the question a sender belongs to; 0 is none
  responses,  \* per response: its call id, decision, steps left and acknowledgement
  cancelState, \* "no", "signalled": the token is cancelled, "marked": so are the approvals
  closed      \* ghost: open questions that cancel_run marked

approvalVars == <<asks, projecting, approvals, answered, senders, responses, cancelState, closed>>

NoResponse == [id |-> NoCall, decision |-> "deny", steps |-> <<>>, ok |-> FALSE]

ApprovalsInit ==
  /\ asks = <<>> /\ projecting = <<>>
  /\ approvals = [id \in CallIds |-> "none"]
  /\ answered = {}
  /\ senders = [id \in CallIds |-> 0]
  /\ responses = [c \in Responders |-> NoResponse]
  /\ cancelState = "no" /\ closed = {}

-----------------------------------------------------------------------------
(* The executor asks one question at a time. *)

Current == Len(asks)
InPhase(phase) == asks # <<>> /\ asks[Current].phase = phase

\* ApprovalRequested is emitted into the channel of the event task.
Ask(id) ==
  /\ cancelState = "no" /\ Current < MaxAsks
  /\ asks = <<>> \/ InPhase("decided")
  /\ asks' = Append(asks, [id |-> id, phase |-> "requested", decision |-> "none"])
  /\ projecting' = Append(projecting, id)
  /\ UNCHANGED <<approvals, answered, senders, responses, cancelState, closed>>

\* approve: the sender of an earlier question with the id is dropped.
Register ==
  LET id == asks[Current].id IN
  /\ InPhase("requested")
  /\ asks' = [asks EXCEPT ![Current].phase = "waiting"]
  /\ senders' = [senders EXCEPT ![id] = Current]
  /\ UNCHANGED <<projecting, approvals, answered, responses, cancelState, closed>>

\* approve_cancellable races the token; its sender stays with the broker.
GiveUp ==
  /\ InPhase("waiting") /\ cancelState # "no"
  /\ asks' = [asks EXCEPT ![Current].phase = "cancelled"]
  /\ UNCHANGED <<projecting, approvals, answered, senders, responses, cancelState, closed>>

\* project_agent_event: an approval is inserted whatever is known of its id.
Project ==
  /\ projecting # <<>>
  /\ projecting' = Tail(projecting)
  /\ approvals' = [approvals EXCEPT ![Head(projecting)] = "pending"]
  /\ UNCHANGED <<asks, answered, senders, responses, cancelState, closed>>

\* cancel_run signals the token, then marks what is pending.
SignalCancel ==
  /\ cancelState = "no"
  /\ cancelState' = "signalled"
  /\ UNCHANGED <<asks, projecting, approvals, answered, senders, responses, closed>>

MarkRunCancelled ==
  /\ cancelState = "signalled"
  /\ cancelState' = "marked"
  /\ approvals' = [id \in CallIds |-> IF approvals[id] = "pending" THEN "cancelled"
                                      ELSE approvals[id]]
  /\ closed' = {id \in CallIds : approvals[id] = "pending"} \ answered
  /\ UNCHANGED <<asks, projecting, answered, senders, responses>>

-----------------------------------------------------------------------------
(* respond_to_approval. *)

\* A bug: the executor is told before the control state has decided.
BrokerFirst(runtime) == IF runtime THEN <<"broker", "control">> ELSE <<"control">>

\* The broker is only told when it knew the id at the beginning.
StepsOf(runtime) == IF runtime THEN <<"control", "broker">> ELSE <<"control">>

Respond(c, id, decision) ==
  /\ responses[c].id = NoCall
  /\ responses' = [responses EXCEPT ![c] =
       [id |-> id, decision |-> decision, steps |-> StepsOf(senders[id] # 0), ok |-> FALSE]]
  /\ UNCHANGED <<asks, projecting, approvals, answered, senders, cancelState, closed>>

Answerable(id) == id \notin answered /\ approvals[id] = "pending"

Step(c, name) == responses[c].steps # <<>> /\ Head(responses[c].steps) = name

\* An approval that is not answered yet is taken out, then its state and the
\* edit are looked at.
AskControl(c) ==
  LET id == responses[c].id
      ok == Answerable(id) /\ responses[c].decision # "malformed"
  IN /\ Step(c, "control")
     /\ approvals' = IF id \in answered THEN approvals
                     ELSE [approvals EXCEPT ![id] = "none"]
     /\ answered' = IF ok THEN answered \cup {id} ELSE answered
     /\ responses' = [responses EXCEPT ![c].steps = IF ok THEN Tail(@) ELSE <<>>,
                                       ![c].ok = ok]
     /\ UNCHANGED <<asks, projecting, senders, cancelState, closed>>

\* The sender is used up; nobody may be listening.
TellBroker(c) ==
  LET id == responses[c].id
      n == senders[id]
      heard == n # 0 /\ n = Current /\ asks[n].phase = "waiting"
  IN /\ Step(c, "broker")
     /\ senders' = [senders EXCEPT ![id] = 0]
     /\ asks' = IF heard
                THEN [asks EXCEPT ![n].phase = "decided", ![n].decision = responses[c].decision]
                ELSE asks
     /\ responses' = [responses EXCEPT ![c].steps = Tail(@)]
     /\ UNCHANGED <<projecting, approvals, answered, cancelState, closed>>

ApprovalsNext ==
  \/ \E id \in CallIds : Ask(id)
  \/ Register \/ GiveUp \/ Project \/ SignalCancel \/ MarkRunCancelled
  \/ \E c \in Responders :
       \/ \E id \in CallIds, decision \in Decisions : Respond(c, id, decision)
       \/ AskControl(c)
       \/ TellBroker(c)

ApprovalsSpec == ApprovalsInit /\ [][ApprovalsNext]_approvalVars

-----------------------------------------------------------------------------
(* Properties. *)

\* The executor acts on a decision only if the client that gave it was told so, and
\* one answer decides one question: not on that of a client that was refused.
DecisionIsAnswer ==
  \A n \in DOMAIN asks :
    asks[n].phase = "decided" =>
      /\ \E c \in Responders :
           /\ responses[c].ok /\ responses[c].id = asks[n].id
           /\ responses[c].decision = asks[n].decision
      /\ \A k \in DOMAIN asks : asks[k].id = asks[n].id /\ asks[k].phase = "decided" => k = n

\* A question that was open when cancel_run marked the approvals is never answered,
\* whatever responses were under way and whatever the broker still holds.
CancelledStaysOpen == closed \cap answered = {}

\* Executor, broker and control state agree on every answer (respond_to_approval).
AnswersAgree == DecisionIsAnswer /\ CancelledStaysOpen
=============================================================================
