---------------------------- MODULE SteeringQueue ----------------------------
(***************************************************************************)
(* The bounded steering queue of a runtime session, `InMemorySteeringQueue`*)
(* (crates/gestalt-runtime/src/session_queue.rs).  Each of its operations  *)
(* runs under one mutex, so each is one function from the queue to the     *)
(* queue; the modules that own a queue apply these functions in their      *)
(* actions.                                                                *)
(***************************************************************************)
EXTENDS Naturals, Sequences

CONSTANTS
  MessageIds,   \* ids of submissions; the code draws a fresh one per call
  Keys,         \* idempotency keys
  NoKey,        \* idempotency_key = None
  Payloads,     \* (content, source, injected_at_turn), compared as a whole
  NoMessage,    \* a key that is not in the idempotency map
  Capacity      \* the bound given to with_capacity

QueuedSessionMessage ==
  [id : MessageIds, key : Keys \cup {NoKey}, payload : Payloads]

ASSUME SteeringQueueAssumption ==
  /\ Capacity \in Nat
  /\ NoKey \notin Keys
  /\ NoMessage \notin QueuedSessionMessage

QueueLifecycle == {"Active", "Closing", "Completed"}

QueueAck == {"Queued", "Duplicate", "Conflict", "Full",
             "SessionNotActive", "SessionClosing"}

QueueState ==
  [lifecycle : QueueLifecycle,
   messages : Seq(QueuedSessionMessage),
   idempotent_messages : [Keys -> QueuedSessionMessage \cup {NoMessage}]]

\* with_capacity, then active_with_capacity: the queue of a new runtime is Active.
NewQueue ==
  [lifecycle |-> "Active",
   messages |-> <<>>,
   idempotent_messages |-> [k \in Keys |-> NoMessage]]

KeyKnown(q, m) ==
  m.key # NoKey /\ q.idempotent_messages[m.key] # NoMessage

\* A bug this module's runs must see: any retry of a key is a Duplicate.
SamePayloadIgnored(q, m) == TRUE

SamePayload(q, m) == q.idempotent_messages[m.key].payload = m.payload

\* What enqueue answers.  The key is looked up before the capacity is, so the
\* retry of an accepted message is a Duplicate even when the queue is full.
EnqueueAck(q, m) ==
  CASE q.lifecycle = "Completed" -> "SessionNotActive"
    [] q.lifecycle = "Closing" -> "SessionClosing"
    [] q.lifecycle = "Active" /\ KeyKnown(q, m) ->
         IF SamePayload(q, m) THEN "Duplicate" ELSE "Conflict"
    [] q.lifecycle = "Active" /\ ~KeyKnown(q, m) ->
         IF Len(q.messages) >= Capacity THEN "Full" ELSE "Queued"

\* A bug: the key is never remembered.
RememberNothing(remembered, m) == remembered

Remember(remembered, m) ==
  IF m.key = NoKey THEN remembered ELSE [remembered EXCEPT ![m.key] = m]

\* What enqueue leaves behind; the key is remembered only with the message.
AfterEnqueue(q, m) ==
  IF EnqueueAck(q, m) = "Queued"
  THEN [q EXCEPT !.messages = Append(@, m),
                 !.idempotent_messages = Remember(@, m)]
  ELSE q

\* Bugs: drain forgets the keys, drain copies instead of taking.
DrainForgetsKeys(q) ==
  [q EXCEPT !.messages = <<>>,
            !.idempotent_messages = [k \in Keys |-> NoMessage]]
DrainCopies(q) == q

\* drain returns q.messages; the keys stay known until the run completes.
AfterDrain(q) == [q EXCEPT !.messages = <<>>]

\* A bug: completing the queue leaves its messages there.
LifecycleOnly(q, lifecycle) == [q EXCEPT !.lifecycle = lifecycle]

AfterLifecycle(q, lifecycle) ==
  IF lifecycle = "Completed"
  THEN [q EXCEPT !.lifecycle = lifecycle,
                 !.messages = <<>>,
                 !.idempotent_messages = [k \in Keys |-> NoMessage]]
  ELSE [q EXCEPT !.lifecycle = lifecycle]
=============================================================================
