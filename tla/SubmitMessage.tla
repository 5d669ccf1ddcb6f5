---------------------------- MODULE SubmitMessage ----------------------------
(***************************************************************************)
(* submit_message of the two control hosts over the steering queue         *)
(* (crates/gestalt-runtime/src/control/host.rs and host/runtime_backed.rs).*)
(* The in-memory host remembers the answer to a key after the queue has    *)
(* decided, the runtime-backed host before; runs end and are resumed while *)
(* submits are under way.                                                  *)
(***************************************************************************)
EXTENDS SteeringQueue, FiniteSets

CONSTANTS
  NotCached,    \* a key without a remembered answer
  MaxResumes    \* bound: resumes of the run

\* What is remembered of a key.
KeyAnswer == [payload : Payloads, id : MessageIds]

ASSUME SubmitMessageAssumption == MaxResumes \in Nat /\ NotCached \notin KeyAnswer

SubmitHosts == {"memory", "runtime"}

VARIABLES
  host,       \* the host under study
  status,     \* the status of the session's run; it is active while Running
  queue,      \* the queue of the session's current runtime
  epoch,      \* how often the run was resumed
  begun,    \* requests on the run that have taken the first of their two steps
  answers,    \* submit_idempotency; in memory the idempotency cache
  submits,    \* per submit: where its handler is, its message and what it answers
  taken       \* ghost: the messages a queue has accepted, in order

submitVars == <<host, status, queue, epoch, begun, answers, submits, taken>>

NoSubmit == [pc |-> "idle", key |-> NoKey, payload |-> NoMessage, epoch |-> 0,
             ok |-> FALSE]

SubmitInit ==
  /\ host \in SubmitHosts
  /\ status = "Running" /\ queue = NewQueue /\ epoch = 0 /\ begun = {}
  /\ answers = [k \in Keys |-> NotCached]
  /\ submits = [i \in MessageIds |-> NoSubmit]
  /\ taken = <<>>

Message(i) == [id |-> i, key |-> submits[i].key, payload |-> submits[i].payload]

\* Only an accepted message and a retry of it are acknowledged.
Acknowledges(ack) == ack \in {"Queued", "Duplicate"}

Answers(i, key, payload, ok) ==
  submits' = [submits EXCEPT ![i] = [pc |-> "done", key |-> key, payload |-> payload,
                                     epoch |-> epoch, ok |-> ok]]

\* A bug: the answer is not remembered before the queue is asked.
ClaimNothing(as, i, key, payload) == as

\* The runtime-backed host remembers that it answered before it knows the answer.
Claimed(as, i, key, payload) ==
  IF key = NoKey THEN as ELSE [as EXCEPT ![key] = [payload |-> payload, id |-> i]]

\* The first critical section of a submit: an answer is replayed, or the message
\* gets its id.  Both hosts refuse a submit to a session without an active run.
Submit(i, key, payload) ==
  /\ submits[i].pc = "idle"
  /\ UNCHANGED <<host, status, queue, epoch, begun, taken>>
  /\ LET active == status = "Running"
         known == key # NoKey /\ answers[key] # NotCached
         replayed == known /\ answers[key].payload = payload
         admitted == ~known /\ active
         \* in memory the cache is asked before the run is
         answered == known /\ (host = "memory" \/ active)
     IN \/ /\ answered \/ ~active
           /\ Answers(i, key, payload, answered /\ replayed)
           /\ UNCHANGED answers
        \/ /\ admitted
           /\ submits' = [submits EXCEPT ![i] = [pc |-> "enqueue", key |-> key,
                            payload |-> payload, epoch |-> epoch, ok |-> FALSE]]
           /\ answers' = IF host = "runtime" THEN Claimed(answers, i, key, payload)
                         ELSE answers

\* The queue decides; a runtime that was replaced has completed its own.
Enqueue(i) ==
  LET stale == host = "runtime" /\ submits[i].epoch # epoch
      ack == IF stale THEN "SessionNotActive" ELSE EnqueueAck(queue, Message(i))
  IN /\ submits[i].pc = "enqueue"
     /\ queue' = IF stale THEN queue ELSE AfterEnqueue(queue, Message(i))
     /\ taken' = IF ack = "Queued" THEN Append(taken, Message(i)) ELSE taken
     /\ submits' = [submits EXCEPT ![i].pc = IF Acknowledges(ack) THEN "accepted" ELSE "refused"]
     /\ UNCHANGED <<host, status, epoch, begun, answers>>

\* MessageQueued is published and in memory the answer remembered; a refused
\* submit of the runtime-backed host withdraws its claim.
Answer(i) ==
  LET m == Message(i) IN
  /\ submits[i].pc \in {"accepted", "refused"}
  /\ Answers(i, m.key, m.payload, submits[i].pc = "accepted")
  /\ answers' = CASE host = "memory" /\ submits[i].pc = "accepted" ->
                       Claimed(answers, i, m.key, m.payload)
                  [] host = "runtime" /\ submits[i].pc = "refused" /\ m.key # NoKey ->
                       [answers EXCEPT ![m.key] = NotCached]
                  [] OTHER -> answers
  /\ UNCHANGED <<host, status, queue, epoch, begun, taken>>

-----------------------------------------------------------------------------
(* The run.  Status and queue have a lock each, so each request is two steps. *)

Begins(request) == request \notin begun /\ begun' = begun \cup {request}
Ends(request) == request \in begun /\ begun' = begun \ {request}

\* A run drains its queue; nothing drains the in-memory host's.
DrainQueue ==
  /\ host = "runtime" /\ queue.lifecycle = "Active" /\ queue.messages # <<>>
  /\ queue' = AfterDrain(queue)
  /\ UNCHANGED <<host, status, epoch, begun, answers, submits, taken>>

\* run_session ends with the queue, and so begins complete_run in memory.
CompleteQueue ==
  /\ queue.lifecycle = "Active" /\ Begins("complete")
  /\ queue' = AfterLifecycle(queue, "Completed")
  /\ UNCHANGED <<host, status, epoch, answers, submits, taken>>

\* The control state follows, unless the task of the run has seen a cancel.
CompleteRun ==
  /\ Ends("complete")
  /\ \/ status' = "Completed"
     \/ host = "runtime" /\ status = "Cancelled" /\ UNCHANGED status
  /\ UNCHANGED <<host, queue, epoch, answers, submits, taken>>

\* cancel_run goes the other way round; in the runtime-backed host the queue it
\* completes is one that no submit uses.
CancelSubmits ==
  /\ status = "Running"
  /\ status' = "Cancelled"
  /\ IF host = "memory" THEN Begins("cancel") ELSE UNCHANGED begun
  /\ UNCHANGED <<host, queue, epoch, answers, submits, taken>>

CancelQueue ==
  /\ Ends("cancel")
  /\ queue' = AfterLifecycle(queue, "Completed")
  /\ UNCHANGED <<host, status, epoch, answers, submits, taken>>

ResumeRun ==
  /\ status = "Completed" /\ epoch < MaxResumes /\ Begins("resume")
  /\ status' = "Running"
  /\ UNCHANGED <<host, queue, epoch, answers, submits, taken>>

\* The runtime-backed host builds a runtime with a queue of its own, the
\* in-memory host opens the queue it has.
OpenQueue ==
  /\ Ends("resume")
  /\ epoch' = epoch + 1
  /\ queue' = IF host = "runtime" THEN NewQueue ELSE AfterLifecycle(queue, "Active")
  /\ UNCHANGED <<host, status, answers, submits, taken>>

SubmitNext ==
  \/ \E i \in MessageIds :
       \/ \E key \in Keys \cup {NoKey}, payload \in Payloads : Submit(i, key, payload)
       \/ Enqueue(i)
       \/ Answer(i)
  \/ DrainQueue \/ CompleteQueue \/ CompleteRun
  \/ CancelSubmits \/ CancelQueue \/ ResumeRun \/ OpenQueue

SubmitSpec == SubmitInit /\ [][SubmitNext]_submitVars

-----------------------------------------------------------------------------
(* Properties. *)

\* The runtime-backed host puts at most one message of a key into any queue, in
\* all the runs of a session: a key that was accepted is never forgotten, though
\* the queues forget theirs and a refused submit withdraws its claim.
KeyQueuedOnce ==
  host = "runtime" =>
    \A j, k \in DOMAIN taken :
      taken[j].key # NoKey /\ taken[j].key = taken[k].key => j = k

\* The in-memory host acknowledges a submit only if a message with its key and
\* content, or the very message, was accepted by the queue.
AcknowledgedWasQueued ==
  host = "memory" =>
    \A i \in MessageIds :
      submits[i].ok =>
        \E k \in DOMAIN taken :
          /\ taken[k].payload = submits[i].payload
          /\ taken[k].key = submits[i].key
          /\ submits[i].key = NoKey => taken[k].id = i

\* Submits are honoured: a key stands for one queued message, and what was
\* acknowledged was queued (submit_message of both hosts).
SubmitsAreHonoured == KeyQueuedOnce /\ AcknowledgedWasQueued
=============================================================================
