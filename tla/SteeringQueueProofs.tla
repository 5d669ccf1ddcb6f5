------------------------ MODULE SteeringQueueProofs ------------------------
(***************************************************************************)
(* What the operations of the steering queue do, for every set of messages *)
(* and keys and every capacity: the lemmas that the proofs about the       *)
(* owners of a queue share.                                                *)
(***************************************************************************)
EXTENDS SteeringQueue, TLAPS, SequenceTheorems

\* What enqueue leaves behind, by its answer.
LEMMA EnqueueCases ==
  ASSUME NEW q \in QueueState, NEW m \in QueuedSessionMessage
  PROVE  /\ EnqueueAck(q, m) \in QueueAck
         /\ AfterEnqueue(q, m) \in QueueState
         /\ AfterEnqueue(q, m).lifecycle = q.lifecycle
         /\ EnqueueAck(q, m) # "Queued" => AfterEnqueue(q, m) = q
         /\ EnqueueAck(q, m) = "Queued" =>
              /\ q.lifecycle = "Active"
              /\ ~(Len(q.messages) >= Capacity)
              /\ ~KeyKnown(q, m)
              /\ AfterEnqueue(q, m).messages = Append(q.messages, m)
              /\ AfterEnqueue(q, m).idempotent_messages
                   = Remember(q.idempotent_messages, m)
         /\ EnqueueAck(q, m) = "Duplicate" => KeyKnown(q, m) /\ SamePayload(q, m)
<1>1. q.lifecycle \in QueueLifecycle
  BY DEF QueueState
<1>2. EnqueueAck(q, m) \in QueueAck
  BY <1>1 DEF EnqueueAck, QueueAck, QueueLifecycle
<1>3. CASE EnqueueAck(q, m) # "Queued"
  <2>1. EnqueueAck(q, m) = "Duplicate" => KeyKnown(q, m) /\ SamePayload(q, m)
    BY <1>1 DEF EnqueueAck, QueueLifecycle
  <2> QED
    BY <1>2, <1>3, <2>1 DEF AfterEnqueue
<1>4. CASE EnqueueAck(q, m) = "Queued"
  <2>1. /\ q.lifecycle = "Active"
        /\ ~(Len(q.messages) >= Capacity)
        /\ ~KeyKnown(q, m)
    BY <1>1, <1>4 DEF EnqueueAck, QueueLifecycle
  <2>2. Append(q.messages, m) \in Seq(QueuedSessionMessage)
    BY DEF QueueState
  <2>3. Remember(q.idempotent_messages, m)
          \in [Keys -> QueuedSessionMessage \cup {NoMessage}]
    BY DEF Remember, QueueState, QueuedSessionMessage
  <2>4. AfterEnqueue(q, m) =
          [q EXCEPT !.messages = Append(q.messages, m),
                    !.idempotent_messages = Remember(q.idempotent_messages, m)]
    BY <1>4 DEF AfterEnqueue
  <2> QED
    BY <1>2, <1>4, <2>1, <2>2, <2>3, <2>4 DEF QueueState
<1> QED
  BY <1>3, <1>4

\* drain and update_lifecycle keep the queue well formed, and only Completed
\* forgets messages and keys.
LEMMA LifecycleCases ==
  ASSUME NEW q \in QueueState, NEW l \in QueueLifecycle
  PROVE  /\ AfterLifecycle(q, l) \in QueueState
         /\ AfterLifecycle(q, l).lifecycle = l
         /\ l # "Completed" =>
              /\ AfterLifecycle(q, l).messages = q.messages
              /\ AfterLifecycle(q, l).idempotent_messages = q.idempotent_messages
         /\ l = "Completed" =>
              /\ AfterLifecycle(q, l).messages = <<>>
              /\ \A k \in Keys : AfterLifecycle(q, l).idempotent_messages[k] = NoMessage
<1> DEFINE none == [k \in Keys |-> NoMessage]
<1>1. /\ none \in [Keys -> QueuedSessionMessage \cup {NoMessage}]
      /\ \A k \in Keys : none[k] = NoMessage
  OBVIOUS
<1>2. <<>> \in Seq(QueuedSessionMessage)
  OBVIOUS
<1> HIDE DEF none
<1>3. CASE l = "Completed"
  <2>1. AfterLifecycle(q, l) =
          [q EXCEPT !.lifecycle = l, !.messages = <<>>, !.idempotent_messages = none]
    BY <1>3 DEF AfterLifecycle, none
  <2> QED
    BY <1>1, <1>2, <1>3, <2>1 DEF QueueState
<1>4. CASE l # "Completed"
  BY <1>4 DEF AfterLifecycle, QueueState
<1> QED
  BY <1>3, <1>4

LEMMA DrainCases ==
  ASSUME NEW q \in QueueState
  PROVE  /\ AfterDrain(q) \in QueueState
         /\ AfterDrain(q).messages = <<>>
         /\ AfterDrain(q).lifecycle = q.lifecycle
         /\ AfterDrain(q).idempotent_messages = q.idempotent_messages
<1>1. <<>> \in Seq(QueuedSessionMessage)
  OBVIOUS
<1> QED
  BY <1>1 DEF AfterDrain, QueueState

LEMMA NewQueueType == NewQueue \in QueueState
BY EmptySeq DEF NewQueue, QueueState, QueueLifecycle
=============================================================================
