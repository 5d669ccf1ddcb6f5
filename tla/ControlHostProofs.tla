-------------------------- MODULE ControlHostProofs --------------------------
(***************************************************************************)
(* Proofs about the control hosts: Approvals for every number of clients,  *)
(* questions and call ids, SubmitMessage for every number of submits, keys *)
(* and resumes and every capacity, EventLog for every retention, limit and *)
(* set of kinds; and about what they project of a model's answer:          *)
(* ModelStream for every number of calls and fragments.                    *)
(***************************************************************************)
EXTENDS Approvals, SubmitMessage, EventLog, ModelStream, SteeringQueueProofs, TLAPS,
        SequenceTheorems, FiniteSetTheorems

-----------------------------------------------------------------------------
(* Approvals: the inductive invariant. *)

Question == [id : CallIds, phase : AskPhase, decision : Decisions \cup {"none"}]

\* What is left of respond_to_approval.
StepsLeft == {<<>>, <<"broker">>, <<"control">>, <<"control", "broker">>}
Response == [id : CallIds \cup {NoCall}, decision : Decisions, steps : StepsLeft, ok : BOOLEAN]

ApprovalsType ==
  /\ asks \in Seq(Question)
  /\ projecting \in Seq(CallIds)
  /\ approvals \in [CallIds -> {"none", "pending", "cancelled"}]
  /\ answered \subseteq CallIds
  /\ senders \in [CallIds -> Nat]
  /\ responses \in [Responders -> Response]
  /\ cancelState \in {"no", "signalled", "marked"}
  /\ closed \subseteq CallIds

\* The questions: all but the last are decided; an id that was projected was asked.
Asked == {asks[n].id : n \in DOMAIN asks}
Projecting == {projecting[i] : i \in DOMAIN projecting}

AsksInv ==
  /\ \A n \in DOMAIN asks : n # Current => asks[n].phase = "decided"
  /\ Projecting \subseteq Asked
  /\ \A id \in CallIds : approvals[id] # "none" => id \in Asked
  /\ \A id \in CallIds : senders[id] # 0 => senders[id] \in DOMAIN asks /\ asks[senders[id]].id = id

\* An id that is not answered was asked once, and is projected once.
ProjectionInv ==
  /\ \A i, j \in DOMAIN projecting :
       projecting[i] = projecting[j] => i = j \/ projecting[i] \in answered
  /\ \A id \in Projecting : id \in answered \/ approvals[id] = "none"

\* A client that was told yes is the only one for its id, and asks the broker next.
ResponsesInv ==
  /\ \A c \in Responders :
       responses[c].ok =>
         /\ responses[c].id \in answered
         /\ responses[c].steps \in {<<>>, <<"broker">>}
         /\ responses[c].decision # "malformed"
  /\ \A c \in Responders : responses[c].steps = <<"broker">> => responses[c].ok
  /\ \A c, d \in Responders :
       responses[c].ok /\ responses[d].ok /\ responses[c].id = responses[d].id => c = d
  /\ \A c \in Responders : responses[c].steps # <<>> => responses[c].id \in CallIds

\* Every decision came from a client that was told yes and has nothing left to do.
DecidedBy(n, c) ==
  /\ responses[c].ok /\ responses[c].id = asks[n].id
  /\ responses[c].decision = asks[n].decision
  /\ responses[c].steps = <<>>

DecisionInv ==
  \A n \in DOMAIN asks : asks[n].phase = "decided" =>
    /\ \E c \in Responders : DecidedBy(n, c)
    /\ \A k \in DOMAIN asks : asks[k].id = asks[n].id /\ asks[k].phase = "decided" => k = n

\* What the cancellation closed stays closed.
ClosedInv ==
  /\ closed # {} => cancelState = "marked"
  /\ \A id \in closed : id \notin answered /\ approvals[id] # "pending" /\ id \notin Projecting

ApprovalsInv ==
  /\ ApprovalsType /\ AsksInv /\ ProjectionInv /\ ResponsesInv /\ DecisionInv /\ ClosedInv

-----------------------------------------------------------------------------
(* Approvals: every step keeps the invariant. *)

LEMMA InitApprovalsInv == ApprovalsInit => ApprovalsInv
<1> SUFFICES ASSUME ApprovalsInit PROVE ApprovalsInv
  OBVIOUS
<1> USE DEF ApprovalsInit
<1>1. DOMAIN asks = {} /\ DOMAIN projecting = {} /\ Projecting = {} /\ Asked = {}
  BY DEF Projecting, Asked
<1>2. asks \in Seq(Question) /\ projecting \in Seq(CallIds)
  BY EmptySeq
<1>3. responses \in [Responders -> Response] /\ \A c \in Responders : responses[c] = NoResponse
  BY DEF NoResponse, Response, StepsLeft, Decisions
<1>4. ApprovalsType
  BY <1>2, <1>3 DEF ApprovalsType
<1>5. ResponsesInv
  BY <1>3 DEF ResponsesInv, NoResponse
<1> QED
  BY <1>1, <1>4, <1>5 DEF ApprovalsInv, AsksInv, ProjectionInv, DecisionInv, ClosedInv

\* A sequence with another element.
LEMMA Appended ==
  ASSUME NEW S, NEW s \in Seq(S), NEW e \in S
  PROVE  /\ Append(s, e) \in Seq(S) /\ Len(Append(s, e)) = Len(s) + 1
         /\ DOMAIN Append(s, e) = DOMAIN s \cup {Len(s) + 1}
         /\ \A i \in DOMAIN s : Append(s, e)[i] = s[i] /\ i # Len(s) + 1
         /\ Append(s, e)[Len(s) + 1] = e
<1>1. /\ Append(s, e) \in Seq(S) /\ Len(Append(s, e)) = Len(s) + 1
      /\ Append(s, e)[Len(s) + 1] = e
      /\ \A i \in 1..Len(s) : Append(s, e)[i] = s[i]
  OBVIOUS
<1>2. /\ Len(s) \in Nat /\ DOMAIN s = 1..Len(s)
      /\ DOMAIN Append(s, e) = 1..(Len(s) + 1)
  BY <1>1, LenProperties
<1> QED
  BY <1>1, <1>2

\* Ask: every earlier question is decided, so its id is answered.
LEMMA AskKeeps ==
  ASSUME ApprovalsInv, NEW id \in CallIds, Ask(id)
  PROVE  ApprovalsInv'
<1> USE DEF ApprovalsInv
<1> PICK question : question = [id |-> id, phase |-> "requested", decision |-> "none"]
  OBVIOUS
<1>1. /\ cancelState = "no" /\ (asks = <<>> \/ InPhase("decided"))
      /\ asks' = Append(asks, question) /\ projecting' = Append(projecting, id)
      /\ UNCHANGED <<approvals, answered, senders, responses, cancelState, closed>>
  BY DEF Ask
<1>2. /\ question \in Question /\ question.id = id /\ question.phase = "requested"
      /\ asks \in Seq(Question) /\ projecting \in Seq(CallIds)
  BY DEF Question, AskPhase, ApprovalsType
<1>3. /\ asks' \in Seq(Question) /\ DOMAIN asks' = DOMAIN asks \cup {Current + 1}
      /\ \A n \in DOMAIN asks : asks'[n] = asks[n] /\ n # Current + 1
      /\ asks'[Current + 1] = question /\ Current' = Current + 1
  BY <1>1, <1>2, Appended DEF Current
<1>4. /\ projecting' \in Seq(CallIds)
      /\ DOMAIN projecting' = DOMAIN projecting \cup {Len(projecting) + 1}
      /\ \A i \in DOMAIN projecting : projecting'[i] = projecting[i]
      /\ projecting'[Len(projecting) + 1] = id
  BY <1>1, <1>2, Appended
<1>5. /\ Asked' = Asked \cup {id}
      /\ Projecting' = Projecting \cup {id}
  BY <1>2, <1>3, <1>4 DEF Asked, Projecting
<1>6. \A n \in DOMAIN asks : asks[n].phase = "decided"
  BY <1>1 DEF AsksInv, InPhase, Current
<1>7. ASSUME NEW n \in DOMAIN asks PROVE asks[n].id \in answered
  BY <1>6, <1>7 DEF DecisionInv, ResponsesInv, DecidedBy
<1>8. Asked \subseteq answered
  BY <1>7 DEF Asked
<1>9. ApprovalsType'
  BY <1>1, <1>3, <1>4 DEF ApprovalsType
<1>10. AsksInv'
  BY <1>1, <1>3, <1>5, <1>6 DEF AsksInv
<1>11. ProjectionInv'
  <2>1. ASSUME NEW i \in DOMAIN projecting', NEW j \in DOMAIN projecting',
               projecting'[i] = projecting'[j], i # j
        PROVE  projecting'[i] \in answered
    <3>1. CASE i \in DOMAIN projecting /\ j \in DOMAIN projecting
      BY <1>4, <2>1, <3>1 DEF ProjectionInv
    <3>2. CASE i \in DOMAIN projecting /\ j \notin DOMAIN projecting
      BY <1>4, <1>8, <3>2 DEF Projecting, AsksInv
    <3>3. CASE i \notin DOMAIN projecting
      <4>1. j \in DOMAIN projecting
        BY <1>4, <2>1, <3>3
      <4> QED
        BY <1>4, <1>8, <2>1, <4>1 DEF Projecting, AsksInv
    <3> QED
      BY <3>1, <3>2, <3>3
  <2>2. approvals[id] = "none" \/ id \in answered
    BY <1>8 DEF AsksInv
  <2> QED
    BY <1>1, <1>5, <2>1, <2>2 DEF ProjectionInv
<1>12. ResponsesInv'
  BY <1>1 DEF ResponsesInv
<1>13. DecisionInv'
  <2>1. \A n \in DOMAIN asks' : asks'[n].phase = "decided" =>
          n \in DOMAIN asks /\ asks'[n] = asks[n] /\ asks[n].phase = "decided"
    BY <1>2, <1>3
  <2>2. ASSUME NEW n \in DOMAIN asks', asks'[n].phase = "decided"
        PROVE  \E c \in Responders : DecidedBy(n, c)'
    BY <1>1, <2>1, <2>2, SMTT(30) DEF DecisionInv, DecidedBy
  <2>3. ASSUME NEW n \in DOMAIN asks', asks'[n].phase = "decided",
               NEW k \in DOMAIN asks', asks'[k].id = asks'[n].id, asks'[k].phase = "decided"
        PROVE  k = n
    BY <2>1, <2>3 DEF DecisionInv
  <2> QED
    BY <2>2, <2>3 DEF DecisionInv
<1>14. ClosedInv'
  BY <1>1 DEF ClosedInv
<1> QED
  BY <1>9, <1>10, <1>11, <1>12, <1>13, <1>14

\* Register, GiveUp, TellBroker: the last question moves on.
LEMMA MovesOn ==
  ASSUME ApprovalsType, asks # <<>>, NEW q \in Question, q.id = asks[Current].id,
         NEW moved, moved = [asks EXCEPT ![Current] = q]
  PROVE  /\ Current \in DOMAIN asks /\ Current \in Nat /\ Current # 0
         /\ moved \in Seq(Question) /\ DOMAIN moved = DOMAIN asks /\ Len(moved) = Current
         /\ moved[Current] = q
         /\ \A n \in DOMAIN asks : n # Current => moved[n] = asks[n]
         /\ \A n \in DOMAIN asks : moved[n].id = asks[n].id
<1>1. asks \in Seq(Question)
  BY DEF ApprovalsType
<1>2. Current \in DOMAIN asks /\ Current \in Nat /\ Current # 0
  BY <1>1, EmptySeq, LenProperties DEF Current
<1>3. moved \in Seq(Question) /\ DOMAIN moved = DOMAIN asks /\ Len(moved) = Len(asks)
  BY <1>1, <1>2, ExceptSeq
<1>4. moved[Current] = q /\ \A n \in DOMAIN asks : n # Current => moved[n] = asks[n]
  BY <1>2
<1>5. \A n \in DOMAIN asks : moved[n].id = asks[n].id
  BY <1>4
<1> QED
  BY <1>2, <1>3, <1>4, <1>5 DEF Current

LEMMA AskMoves ==
  ASSUME ApprovalsInv, Register \/ GiveUp
  PROVE  ApprovalsInv'
<1> USE DEF ApprovalsInv
<1>1. /\ asks # <<>> /\ asks[Current].phase \in {"requested", "waiting"}
      /\ UNCHANGED <<projecting, approvals, answered, responses, cancelState, closed>>
  BY DEF Register, GiveUp, InPhase
<1>2. asks \in Seq(Question) /\ Current \in DOMAIN asks /\ asks[Current] \in Question
  BY <1>1, EmptySeq, LenProperties, ElementOfSeq DEF ApprovalsType, Current
<1>3. PICK phase \in {"waiting", "cancelled"} :
        asks' = [asks EXCEPT ![Current] = [asks[Current] EXCEPT !.phase = phase]]
  BY DEF Register, GiveUp
<1> PICK q : q = [asks[Current] EXCEPT !.phase = phase]
  OBVIOUS
<1>4. q \in Question /\ q.id = asks[Current].id /\ q.phase = phase
  BY <1>2 DEF Question, AskPhase
<1>5. /\ asks' \in Seq(Question) /\ DOMAIN asks' = DOMAIN asks /\ Current' = Current
      /\ asks'[Current] = q /\ Current \in Nat /\ Current # 0
      /\ \A n \in DOMAIN asks : n # Current => asks'[n] = asks[n]
      /\ Asked' = Asked /\ Projecting' = Projecting
  <2>1. asks' = [asks EXCEPT ![Current] = q]
    BY <1>3
  <2>2. /\ asks' \in Seq(Question) /\ DOMAIN asks' = DOMAIN asks /\ Len(asks') = Current
        /\ asks'[Current] = q /\ Current \in Nat /\ Current # 0
        /\ \A n \in DOMAIN asks : n # Current => asks'[n] = asks[n]
        /\ \A n \in DOMAIN asks : asks'[n].id = asks[n].id
    BY <1>1, <1>4, <2>1, MovesOn
  <2>3. Current' = Len(asks')
    BY DEF Current
  <2>4. Asked' = Asked /\ Projecting' = Projecting
    BY <1>1, <2>2 DEF Asked, Projecting
  <2> QED
    BY <2>2, <2>3, <2>4
<1>6. \A n \in DOMAIN asks : /\ asks'[n].id = asks[n].id
                             /\ asks'[n].phase = "decided" => asks'[n] = asks[n]
  BY <1>4, <1>5
<1>7. /\ senders' \in [CallIds -> Nat]
      /\ \A id \in CallIds : senders'[id] = senders[id]
                               \/ (senders'[id] = Current /\ asks[Current].id = id)
  <2>1. CASE GiveUp
    BY <2>1 DEF GiveUp, ApprovalsType
  <2>2. CASE Register
    <3>1. asks[Current].id \in CallIds /\ senders' = [senders EXCEPT ![asks[Current].id] = Current]
      BY <1>2, <2>2 DEF Register, Question
    <3> QED
      BY <1>5, <3>1 DEF ApprovalsType
  <2> QED
    BY <2>1, <2>2
<1>8. ApprovalsType'
  BY <1>1, <1>5, <1>7 DEF ApprovalsType
<1>9. AsksInv'
  BY <1>1, <1>2, <1>5, <1>6, <1>7 DEF AsksInv
<1>10. DecisionInv'
  BY <1>1, <1>5, <1>6 DEF DecisionInv, DecidedBy
<1> QED
  BY <1>1, <1>5, <1>8, <1>9, <1>10 DEF ProjectionInv, ResponsesInv, ClosedInv

\* Project: an id that comes again later is answered.
LEMMA ProjectKeeps ==
  ASSUME ApprovalsInv, Project
  PROVE  ApprovalsInv'
<1> USE DEF ApprovalsInv
<1> PICK head : head = Head(projecting)
  OBVIOUS
<1>1. /\ projecting # <<>> /\ projecting' = Tail(projecting)
      /\ approvals' = [approvals EXCEPT ![head] = "pending"]
      /\ UNCHANGED <<asks, answered, senders, responses, cancelState, closed>>
  BY DEF Project
<1>2. projecting \in Seq(CallIds) /\ approvals \in [CallIds -> {"none", "pending", "cancelled"}]
  BY DEF ApprovalsType
<1>3. /\ DOMAIN projecting = 1..Len(projecting) /\ Len(projecting) \in Nat
      /\ Len(projecting) # 0 /\ head \in CallIds /\ head = projecting[1]
  BY <1>1, <1>2, EmptySeq, LenProperties, HeadTailProperties
<1>4. /\ projecting' \in Seq(CallIds) /\ Len(projecting') = Len(projecting) - 1
      /\ \A i \in 1..Len(projecting') : projecting'[i] = projecting[i + 1]
  BY <1>1, <1>2, HeadTailProperties
<1>5. /\ DOMAIN projecting' = 1..Len(projecting')
      /\ \A i \in DOMAIN projecting' :
           i + 1 \in DOMAIN projecting /\ projecting'[i] = projecting[i + 1] /\ i + 1 # 1
  BY <1>3, <1>4, LenProperties
<1>6. /\ Projecting' \subseteq Projecting /\ head \in Projecting
      /\ head \in Projecting' => head \in answered
  <2>1. Projecting' \subseteq Projecting
    BY <1>5 DEF Projecting
  <2>2. 1 \in DOMAIN projecting /\ head \in Projecting
    BY <1>3 DEF Projecting
  <2>3. ASSUME head \in Projecting' PROVE head \in answered
    <3>1. PICK i \in DOMAIN projecting' : head = projecting'[i]
      BY <2>3 DEF Projecting
    <3>2. i \in Nat /\ i + 1 \in DOMAIN projecting /\ projecting[i + 1] = projecting[1] /\ i + 1 # 1
      BY <1>3, <1>5, <3>1
    <3> QED
      BY <1>3, <2>2, <3>2 DEF ProjectionInv
  <2> QED
    BY <2>1, <2>2, <2>3
<1>7. Asked' = Asked
  BY <1>1 DEF Asked
<1>8. ApprovalsType'
  BY <1>1, <1>3, <1>4 DEF ApprovalsType
<1>9. AsksInv'
  BY <1>1, <1>2, <1>6, <1>7 DEF AsksInv, Current
<1>10. ProjectionInv'
  <2>1. ASSUME NEW i \in DOMAIN projecting', NEW j \in DOMAIN projecting',
               projecting'[i] = projecting'[j]
        PROVE  i = j \/ projecting'[i] \in answered
    <3>1. i \in Nat /\ j \in Nat
      BY <1>4, <1>5, LenProperties
    <3>2. i + 1 = j + 1 \/ projecting[i + 1] \in answered
      BY <1>5, <2>1 DEF ProjectionInv
    <3> QED
      BY <1>5, <3>1, <3>2
  <2> QED
    BY <1>1, <1>2, <1>6, <2>1 DEF ProjectionInv
<1>11. ResponsesInv'
  BY <1>1 DEF ResponsesInv
<1>12. DecisionInv'
  BY <1>1 DEF DecisionInv, DecidedBy
<1>13. ClosedInv'
  BY <1>1, <1>2, <1>6 DEF ClosedInv
<1> QED
  BY <1>8, <1>9, <1>10, <1>11, <1>12, <1>13

\* The two steps of cancel_run.
LEMMA CancelKeeps ==
  ASSUME ApprovalsInv, SignalCancel \/ MarkRunCancelled
  PROVE  ApprovalsInv'
<1> USE DEF ApprovalsInv
<1>1. UNCHANGED <<asks, projecting, answered, senders, responses>>
  BY DEF SignalCancel, MarkRunCancelled
<1>2. Asked' = Asked /\ Projecting' = Projecting
  BY <1>1 DEF Asked, Projecting
<1>3. ResponsesInv' /\ DecisionInv'
  BY <1>1 DEF ResponsesInv, DecisionInv, DecidedBy
<1>4. CASE SignalCancel
  BY <1>1, <1>2, <1>3, <1>4
     DEF SignalCancel, ApprovalsType, AsksInv, Current, ProjectionInv, ClosedInv
<1>5. CASE MarkRunCancelled
  <2>1. /\ cancelState' = "marked"
        /\ approvals' = [id \in CallIds |-> IF approvals[id] = "pending" THEN "cancelled"
                                            ELSE approvals[id]]
        /\ closed' = {id \in CallIds : approvals[id] = "pending"} \ answered
    BY <1>5 DEF MarkRunCancelled
  <2>2. ApprovalsType'
    BY <1>1, <2>1 DEF ApprovalsType
  <2>3. AsksInv'
    BY <1>1, <1>2, <2>1 DEF AsksInv, Current, ApprovalsType
  <2>4. ProjectionInv'
    <3>1. Projecting \subseteq CallIds
      BY ElementOfSeq DEF Projecting, ApprovalsType
    <3>2. \A id \in Projecting : id \in answered \/ approvals'[id] = "none"
      BY <2>1, <3>1 DEF ProjectionInv
    <3> QED
      BY <1>1, <1>2, <3>2 DEF ProjectionInv
  <2>5. ClosedInv'
    BY <1>1, <1>2, <2>1 DEF ClosedInv, ProjectionInv
  <2> QED
    BY <1>3, <2>2, <2>3, <2>4, <2>5
<1> QED
  BY <1>4, <1>5

\* Respond: a new response is not told yes.
LEMMA RespondKeeps ==
  ASSUME ApprovalsInv, NEW c \in Responders, NEW id \in CallIds, NEW decision \in Decisions,
         Respond(c, id, decision)
  PROVE  ApprovalsInv'
<1> USE DEF ApprovalsInv
<1> PICK r : r = [id |-> id, decision |-> decision, steps |-> StepsOf(senders[id] # 0),
                  ok |-> FALSE]
  OBVIOUS
<1>1. /\ responses[c].id = NoCall /\ responses' = [responses EXCEPT ![c] = r]
      /\ UNCHANGED <<asks, projecting, approvals, answered, senders, cancelState, closed>>
  BY DEF Respond
<1>2. /\ r \in Response /\ ~r.ok /\ r.id \in CallIds
      /\ r.steps \in {<<"control", "broker">>, <<"control">>}
  BY DEF Response, StepsLeft, StepsOf
<1>3. /\ responses' \in [Responders -> Response] /\ responses'[c] = r
      /\ \A d \in Responders : d # c => responses'[d] = responses[d]
  BY <1>1, <1>2 DEF ApprovalsType
<1>4. ~responses[c].ok
  BY <1>1, ApprovalsAssumption DEF ResponsesInv, ApprovalsType
<1>5. Asked' = Asked /\ Projecting' = Projecting /\ Current' = Current
  BY <1>1 DEF Asked, Projecting, Current
<1>6. ApprovalsType'
  BY <1>1, <1>3 DEF ApprovalsType
<1>7. AsksInv' /\ ProjectionInv' /\ ClosedInv'
  BY <1>1, <1>5 DEF AsksInv, ProjectionInv, ClosedInv
<1>8. ResponsesInv'
  <2>1. r.steps # <<"broker">>
    BY <1>2
  <2>2. \A d \in Responders : responses'[d].ok => responses'[d] = responses[d] /\ d # c
    BY <1>2, <1>3
  <2> QED
    BY <1>1, <1>2, <1>3, <2>1, <2>2 DEF ResponsesInv
<1>9. DecisionInv'
  <2>1. \A n \in DOMAIN asks, d \in Responders : DecidedBy(n, d) => DecidedBy(n, d)'
    BY <1>1, <1>3, <1>4 DEF DecidedBy
  <2> QED
    BY <1>1, <2>1 DEF DecisionInv
<1> QED
  BY <1>6, <1>7, <1>8, <1>9

\* AskControl: an id that becomes answered was answered by nobody before.
LEMMA AskControlKeeps ==
  ASSUME ApprovalsInv, NEW c \in Responders, AskControl(c)
  PROVE  ApprovalsInv'
<1> USE DEF ApprovalsInv
<1> PICK id : id = responses[c].id
  OBVIOUS
<1> PICK ok : ok = (Answerable(id) /\ responses[c].decision # "malformed")
  OBVIOUS
<1> PICK r : r = [responses[c] EXCEPT !.steps = IF ok THEN Tail(@) ELSE <<>>, !.ok = ok]
  OBVIOUS
<1>1. /\ Step(c, "control")
      /\ approvals' = IF id \in answered THEN approvals ELSE [approvals EXCEPT ![id] = "none"]
      /\ answered' = IF ok THEN answered \cup {id} ELSE answered
      /\ responses' = [responses EXCEPT ![c].steps = IF ok THEN Tail(@) ELSE <<>>,
                                        ![c].ok = ok]
      /\ UNCHANGED <<asks, projecting, senders, cancelState, closed>>
  BY DEF AskControl
<1>2. responses' = [responses EXCEPT ![c] = r]
  BY <1>1 DEF ApprovalsType
<1>3. /\ responses[c] \in Response /\ responses[c].steps \in {<<"control">>, <<"control", "broker">>}
      /\ id \in CallIds /\ ok \in BOOLEAN
  <2>1. responses[c] \in Response
    BY DEF ApprovalsType
  <2>2. responses[c].steps \in {<<"control">>, <<"control", "broker">>}
    BY <1>1, <2>1 DEF Step, Response, StepsLeft
  <2> QED
    BY <2>1, <2>2 DEF ResponsesInv
<1>4. /\ r.id = id /\ r.ok = ok /\ r.decision = responses[c].decision
      /\ r.steps \in {<<>>, <<"broker">>} /\ (r.steps = <<"broker">> => ok)
      /\ r \in Response
  <2>1. r.id = id /\ r.ok = ok /\ r.decision = responses[c].decision
    BY <1>3 DEF Response
  <2>2. r.steps = IF ok THEN Tail(responses[c].steps) ELSE <<>>
    BY <1>3 DEF Response
  <2>3. Tail(<<"control">>) = <<>> /\ Tail(<<"control", "broker">>) = <<"broker">>
    OBVIOUS
  <2>4. r.steps \in {<<>>, <<"broker">>} /\ (r.steps = <<"broker">> => ok)
    <3>1. CASE ok
      <4>1. r.steps = Tail(responses[c].steps)
        BY <2>2, <3>1
      <4> QED
        BY <1>3, <2>3, <3>1, <4>1
    <3>2. CASE ~ok
      <4>1. r.steps = <<>>
        BY <2>2, <3>2
      <4>2. <<>> # <<"broker">>
        OBVIOUS
      <4> QED
        BY <4>1, <4>2
    <3> QED
      BY <1>3, <3>1, <3>2
  <2>5. r.steps \in StepsLeft
    BY <2>4 DEF StepsLeft
  <2> QED
    BY <1>3, <2>1, <2>4, <2>5 DEF Response
<1>5. /\ responses' \in [Responders -> Response] /\ responses'[c] = r
      /\ \A d \in Responders : d # c => responses'[d] = responses[d]
  BY <1>2, <1>4 DEF ApprovalsType
<1>6. ok => id \notin answered /\ approvals[id] = "pending" /\ r.decision # "malformed"
  BY <1>4 DEF Answerable
<1>7. ~responses[c].ok
  BY <1>3 DEF ResponsesInv
<1>8. Asked' = Asked /\ Projecting' = Projecting /\ Current' = Current
  BY <1>1 DEF Asked, Projecting, Current
<1>9. /\ answered \subseteq answered' /\ answered' \subseteq answered \cup {id}
      /\ ok => id \in answered'
      /\ \A i \in CallIds : approvals'[i] \in {approvals[i], "none"}
  BY <1>1, <1>3 DEF ApprovalsType
<1>10. ApprovalsType'
  BY <1>1, <1>3, <1>5 DEF ApprovalsType
<1>11. AsksInv'
  BY <1>1, <1>8, <1>9 DEF AsksInv
<1>12. ProjectionInv'
  <2>1. Projecting \subseteq CallIds
    BY ElementOfSeq DEF Projecting, ApprovalsType
  <2> QED
    BY <1>1, <1>8, <1>9, <2>1 DEF ProjectionInv
<1>13. ResponsesInv'
  <2>1. \A d \in Responders :
          responses'[d].ok =>
            /\ responses'[d].id \in answered'
            /\ responses'[d].steps \in {<<>>, <<"broker">>}
            /\ responses'[d].decision # "malformed"
    <3>1. ASSUME NEW d \in Responders, responses'[d].ok, d # c
          PROVE  /\ responses'[d].id \in answered'
                 /\ responses'[d].steps \in {<<>>, <<"broker">>}
                 /\ responses'[d].decision # "malformed"
      BY <1>5, <1>9, <3>1 DEF ResponsesInv
    <3>2. ASSUME r.ok
          PROVE  /\ r.id \in answered'
                 /\ r.steps \in {<<>>, <<"broker">>}
                 /\ r.decision # "malformed"
      BY <1>4, <1>6, <1>9, <3>2
    <3> QED
      BY <1>5, <3>1, <3>2
  <2>2. \A d \in Responders : responses'[d].steps = <<"broker">> => responses'[d].ok
    BY <1>4, <1>5 DEF ResponsesInv
  <2>3. \A d \in Responders : responses'[d].steps # <<>> => responses'[d].id \in CallIds
    BY <1>3, <1>4, <1>5 DEF ResponsesInv
  <2>4. \A d \in Responders : d # c /\ responses[d].ok /\ ok => responses[d].id # id
    BY <1>6 DEF ResponsesInv
  <2>5. \A d, e \in Responders :
          responses'[d].ok /\ responses'[e].ok /\ responses'[d].id = responses'[e].id => d = e
    <3>1. \A d \in Responders : d # c => (responses'[d].ok <=> responses[d].ok)
                                        /\ responses'[d].id = responses[d].id
      BY <1>5
    <3>2. responses'[c].ok => ok
      BY <1>4, <1>5
    <3>3. responses'[c].id = id
      BY <1>4, <1>5
    <3>4. \A d \in Responders : d # c /\ responses'[d].ok /\ responses'[c].ok
                                => responses'[d].id # responses'[c].id
      BY <2>4, <3>1, <3>2, <3>3
    <3>5. \A d, e \in Responders :
            d # c /\ e # c /\ responses'[d].ok /\ responses'[e].ok
            /\ responses'[d].id = responses'[e].id => d = e
      BY <3>1 DEF ResponsesInv
    <3> QED
      BY <3>4, <3>5
  <2> QED
    BY <2>1, <2>2, <2>3, <2>5 DEF ResponsesInv
<1>14. DecisionInv'
  <2>1. \A n \in DOMAIN asks, d \in Responders : DecidedBy(n, d) => DecidedBy(n, d)'
    BY <1>1, <1>5, <1>7 DEF DecidedBy
  <2> QED
    BY <1>1, <2>1 DEF DecisionInv
<1>15. ClosedInv'
  <2>1. closed \subseteq CallIds
    BY DEF ApprovalsType
  <2> QED
    BY <1>1, <1>6, <1>8, <1>9, <2>1 DEF ClosedInv
<1> QED
  BY <1>10, <1>11, <1>12, <1>13, <1>14, <1>15

\* TellBroker: the decision goes to the question the id belongs to, which no other
\* client decided, for there is no other that was told yes.
LEMMA TellBrokerKeeps ==
  ASSUME ApprovalsInv, NEW c \in Responders, TellBroker(c)
  PROVE  ApprovalsInv'
<1> USE DEF ApprovalsInv
<1> PICK id : id = responses[c].id
  OBVIOUS
<1> PICK n : n = senders[id]
  OBVIOUS
<1> PICK r : r = [responses[c] EXCEPT !.steps = Tail(@)]
  OBVIOUS
<1>1. /\ Step(c, "broker") /\ senders' = [senders EXCEPT ![id] = 0]
      /\ responses' = [responses EXCEPT ![c].steps = Tail(@)]
      /\ UNCHANGED <<projecting, approvals, answered, cancelState, closed>>
  BY DEF TellBroker
<1>2. responses' = [responses EXCEPT ![c] = r]
  BY <1>1 DEF ApprovalsType
<1>3. /\ responses[c] \in Response /\ responses[c].steps = <<"broker">>
      /\ responses[c].ok /\ id \in CallIds /\ id \in answered
      /\ responses[c].decision \in Decisions
  <2>1. responses[c] \in Response
    BY DEF ApprovalsType
  <2>2. responses[c].steps = <<"broker">>
    BY <1>1, <2>1 DEF Step, Response, StepsLeft
  <2> QED
    BY <2>1, <2>2 DEF ResponsesInv, Response
<1>4. /\ r.id = id /\ r.ok /\ r.decision = responses[c].decision /\ r.steps = <<>>
      /\ r \in Response
  <2>1. /\ r.id = id /\ r.ok /\ r.decision = responses[c].decision
        /\ r.steps = Tail(<<"broker">>)
    BY <1>3 DEF Response
  <2>2. Tail(<<"broker">>) = <<>>
    OBVIOUS
  <2> QED
    BY <1>3, <2>1, <2>2 DEF Response, StepsLeft
<1>5. /\ responses' \in [Responders -> Response] /\ responses'[c] = r
      /\ \A d \in Responders : d # c => responses'[d] = responses[d]
  BY <1>2, <1>4 DEF ApprovalsType
<1>6. /\ senders' \in [CallIds -> Nat]
      /\ \A i \in CallIds : senders'[i] # 0 => senders'[i] = senders[i]
  BY <1>1, <1>3 DEF ApprovalsType
<1>7. Projecting' = Projecting
  BY <1>1 DEF Projecting
<1>8. ResponsesInv'
  BY <1>1, <1>3, <1>4, <1>5 DEF ResponsesInv
<1>9. ProjectionInv' /\ ClosedInv'
  BY <1>1, <1>7 DEF ProjectionInv, ClosedInv
<1>10. \A m \in DOMAIN asks, d \in Responders :
         DecidedBy(m, d) => /\ d # c /\ responses'[d] = responses[d]
                            /\ asks[m].id # id
  BY <1>3, <1>5 DEF DecidedBy, ResponsesInv
<1>11. CASE asks' = asks
  <2>1. Asked' = Asked /\ Current' = Current
    BY <1>11 DEF Asked, Current
  <2>2. ApprovalsType'
    BY <1>1, <1>5, <1>6, <1>11 DEF ApprovalsType
  <2>3. AsksInv'
    BY <1>1, <1>6, <1>7, <1>11, <2>1 DEF AsksInv
  <2>4. DecisionInv'
    BY <1>10, <1>11 DEF DecisionInv, DecidedBy
  <2> QED
    BY <1>8, <1>9, <2>2, <2>3, <2>4
<1>12. CASE asks' # asks
  <2>1. /\ n # 0 /\ n = Current
        /\ asks' = [asks EXCEPT ![n].phase = "decided", ![n].decision = responses[c].decision]
    BY <1>12 DEF TellBroker
  <2>2. asks \in Seq(Question) /\ n \in DOMAIN asks /\ asks[n] \in Question /\ asks[n].id = id
    <3>1. asks \in Seq(Question)
      BY DEF ApprovalsType
    <3>2. n \in DOMAIN asks /\ asks[n].id = id
      BY <1>3, <2>1 DEF AsksInv
    <3> QED
      BY <3>1, <3>2, ElementOfSeq, LenProperties
  <2> PICK q : q = [asks[n] EXCEPT !.phase = "decided", !.decision = responses[c].decision]
    OBVIOUS
  <2>3. /\ q \in Question /\ q.id = id /\ q.phase = "decided"
        /\ q.decision = responses[c].decision
    BY <1>3, <2>2 DEF Question, AskPhase
  <2>4. asks' = [asks EXCEPT ![n] = q]
    BY <2>1, <2>2
  <2>5. /\ asks' \in Seq(Question) /\ DOMAIN asks' = DOMAIN asks /\ Len(asks') = Current
        /\ asks'[n] = q /\ \A m \in DOMAIN asks : m # n => asks'[m] = asks[m]
        /\ \A m \in DOMAIN asks : asks'[m].id = asks[m].id
    <3>1. asks # <<>>
      BY <2>2
    <3>2. asks' = [asks EXCEPT ![Current] = q] /\ q.id = asks[Current].id
      BY <2>1, <2>2, <2>3, <2>4
    <3>3. /\ asks' \in Seq(Question) /\ DOMAIN asks' = DOMAIN asks /\ Len(asks') = Current
          /\ asks'[Current] = q /\ \A m \in DOMAIN asks : m # Current => asks'[m] = asks[m]
          /\ \A m \in DOMAIN asks : asks'[m].id = asks[m].id
      BY <2>3, <3>1, <3>2, MovesOn
    <3> QED
      BY <2>1, <3>3
  <2>6. Asked' = Asked /\ Current' = Current
    BY <2>5 DEF Asked, Current
  <2>7. ApprovalsType'
    BY <1>1, <1>5, <1>6, <2>5 DEF ApprovalsType
  <2>8. AsksInv'
    BY <1>1, <1>6, <1>7, <2>1, <2>5, <2>6 DEF AsksInv
  <2>9. DecidedBy(n, c)'
    BY <1>4, <1>5, <2>3, <2>5 DEF DecidedBy
  <2>10. \A m \in DOMAIN asks : m # n /\ asks[m].phase = "decided" => asks[m].id # id
    BY <1>10 DEF DecisionInv
  <2>11. \A m \in DOMAIN asks, d \in Responders :
           m # n /\ DecidedBy(m, d) => DecidedBy(m, d)'
    BY <1>10, <2>5 DEF DecidedBy
  <2>12. DecisionInv'
    <3>1. ASSUME NEW m \in DOMAIN asks', asks'[m].phase = "decided"
          PROVE  \E d \in Responders : DecidedBy(m, d)'
      BY <2>5, <2>9, <2>11, <3>1 DEF DecisionInv
    <3>2. ASSUME NEW m \in DOMAIN asks', asks'[m].phase = "decided",
                 NEW k \in DOMAIN asks', asks'[k].id = asks'[m].id, asks'[k].phase = "decided"
          PROVE  k = m
      BY <2>2, <2>5, <2>10, <3>2 DEF DecisionInv
    <3> QED
      BY <3>1, <3>2 DEF DecisionInv
  <2> QED
    BY <1>8, <1>9, <2>7, <2>8, <2>12
<1> QED
  BY <1>11, <1>12

LEMMA ApprovalsStutter ==
  ASSUME ApprovalsInv, UNCHANGED approvalVars
  PROVE  ApprovalsInv'
<1>1. UNCHANGED <<asks, projecting, approvals, answered, senders, responses, cancelState, closed>>
  BY DEF approvalVars
<1>2. Asked' = Asked /\ Projecting' = Projecting /\ Current' = Current
  BY <1>1 DEF Asked, Projecting, Current
<1>3. ApprovalsType' /\ AsksInv'
  BY <1>1, <1>2 DEF ApprovalsInv, ApprovalsType, AsksInv
<1>4. ProjectionInv' /\ ClosedInv'
  BY <1>1, <1>2 DEF ApprovalsInv, ProjectionInv, ClosedInv
<1>5. ResponsesInv' /\ DecisionInv'
  BY <1>1 DEF ApprovalsInv, ResponsesInv, DecisionInv, DecidedBy
<1> QED
  BY <1>3, <1>4, <1>5 DEF ApprovalsInv

\* The executor acts on a decision only if the client that gave it was told so, one
\* answer decides one question, and what a cancellation closed is never answered
\* (respond_to_approval of control/host/runtime_backed.rs, cancel_run of control/host.rs).
THEOREM ApprovalsAgree == ApprovalsSpec => []AnswersAgree
<1>1. ApprovalsInv /\ [ApprovalsNext]_approvalVars => ApprovalsInv'
  BY AskKeeps, AskMoves, ProjectKeeps, CancelKeeps, RespondKeeps, AskControlKeeps,
     TellBrokerKeeps, ApprovalsStutter DEF ApprovalsNext
<1>2. ApprovalsInv => AnswersAgree
  BY DEF ApprovalsInv, AnswersAgree, DecisionIsAnswer, DecisionInv, DecidedBy,
         CancelledStaysOpen, ClosedInv
<1> QED
  BY InitApprovalsInv, <1>1, <1>2, PTL DEF ApprovalsSpec

-----------------------------------------------------------------------------
(* SubmitMessage: the inductive invariant. *)

SubmitPc == {"idle", "enqueue", "accepted", "refused", "done"}
SubmitState == [pc : SubmitPc, key : Keys \cup {NoKey}, payload : Payloads \cup {NoMessage},
                epoch : Nat, ok : BOOLEAN]
SubmitType ==
  /\ host \in SubmitHosts
  /\ queue \in QueueState
  /\ epoch \in Nat
  /\ answers \in [Keys -> KeyAnswer \cup {NotCached}]
  /\ submits \in [MessageIds -> SubmitState]
  /\ taken \in Seq(QueuedSessionMessage)
  /\ \A i \in MessageIds : submits[i].pc # "idle" => submits[i].payload \in Payloads

UnderWay(i) == submits[i].pc \in {"enqueue", "accepted", "refused"}

\* The runtime-backed host: a key under way is claimed by its submit, and the claim
\* of a key that a queue accepted is its submit's, which is past the queue.
ClaimsInv ==
  host = "runtime" =>
    /\ \A i \in MessageIds : UnderWay(i) /\ submits[i].key # NoKey =>
         answers[submits[i].key] # NotCached /\ answers[submits[i].key].id = i
    /\ \A n \in DOMAIN taken : taken[n].key # NoKey =>
         /\ answers[taken[n].key] # NotCached /\ answers[taken[n].key].id = taken[n].id
         /\ submits[taken[n].id].pc \in {"accepted", "done"}

\* The in-memory host: whatever remembers a message was told that it is queued.
WasTaken(key, payload) ==
  \E n \in DOMAIN taken : taken[n].key = key /\ taken[n].payload = payload

Queued(i) ==
  \E n \in DOMAIN taken :
    /\ taken[n].payload = submits[i].payload /\ taken[n].key = submits[i].key
    /\ submits[i].key = NoKey => taken[n].id = i

RemembersInv ==
  host = "memory" =>
    /\ \A i \in MessageIds : submits[i].pc = "accepted" \/ submits[i].ok => Queued(i)
    /\ \A k \in Keys : answers[k] # NotCached => WasTaken(k, answers[k].payload)
    /\ \A k \in Keys : queue.idempotent_messages[k] # NoMessage =>
         WasTaken(k, queue.idempotent_messages[k].payload)

SubmitInv == SubmitType /\ ClaimsInv /\ KeyQueuedOnce /\ RemembersInv

-----------------------------------------------------------------------------
(* SubmitMessage: every step keeps the invariant. *)

LEMMA InitSubmitInv ==
  ASSUME SubmitInit PROVE SubmitInv
<1> USE DEF SubmitInit
<1>1. DOMAIN taken = {} /\ taken \in Seq(QueuedSessionMessage)
  BY EmptySeq
<1>2. queue \in QueueState /\ \A k \in Keys : queue.idempotent_messages[k] = NoMessage
  BY NewQueueType DEF NewQueue
<1>3. submits \in [MessageIds -> SubmitState] /\ \A i \in MessageIds : submits[i] = NoSubmit
  BY DEF NoSubmit, SubmitState, SubmitPc
<1>4. SubmitType
  BY <1>1, <1>2, <1>3 DEF SubmitType, NoSubmit
<1>5. ClaimsInv
  BY <1>1, <1>3 DEF ClaimsInv, UnderWay, NoSubmit
<1>6. RemembersInv
  BY <1>1, <1>2, <1>3 DEF RemembersInv, NoSubmit
<1> QED
  BY <1>1, <1>4, <1>5, <1>6 DEF SubmitInv, KeyQueuedOnce

\* A submit moves on, and the queue forgets or keeps keys, but nothing is taken.
LEMMA NothingTaken ==
  ASSUME SubmitInv, SubmitType', host' = host, taken' = taken,
         \A k \in Keys : \/ queue'.idempotent_messages[k] = NoMessage
                         \/ queue'.idempotent_messages[k] = queue.idempotent_messages[k],
         \A k \in Keys : \/ answers'[k] = answers[k]
                         \/ answers'[k] = NotCached
                         \/ host = "runtime"
                         \/ WasTaken(k, answers'[k].payload),
         \A i \in MessageIds : \/ submits'[i] = submits[i]
                               \/ submits'[i].pc # "accepted" /\ ~submits'[i].ok
                               \/ host = "runtime"
                               \/ Queued(i)',
         ClaimsInv'
  PROVE  SubmitInv'
<1>1. \A k, payload : WasTaken(k, payload)' <=> WasTaken(k, payload)
  BY DEF WasTaken
<1>2. \A i \in MessageIds : submits'[i] = submits[i] => (Queued(i)' <=> Queued(i))
  BY DEF Queued
<1>3. KeyQueuedOnce'
  BY DEF SubmitInv, KeyQueuedOnce
<1>4. RemembersInv'
  <2> SUFFICES ASSUME host = "memory" PROVE RemembersInv'
    BY DEF RemembersInv
  <2>1. ASSUME NEW i \in MessageIds, submits'[i].pc = "accepted" \/ submits'[i].ok
        PROVE  Queued(i)'
    BY <1>2, <2>1 DEF SubmitInv, RemembersInv
  <2>2. ASSUME NEW k \in Keys, answers'[k] # NotCached
        PROVE  WasTaken(k, answers[k].payload)'
    <3>1. WasTaken(k, answers'[k].payload)
      BY <2>2 DEF SubmitInv, RemembersInv
    <3> QED
      BY <3>1 DEF WasTaken
  <2>3. ASSUME NEW k \in Keys, queue'.idempotent_messages[k] # NoMessage
        PROVE  WasTaken(k, queue.idempotent_messages[k].payload)'
    <3>1. WasTaken(k, queue'.idempotent_messages[k].payload)
      BY <2>3 DEF SubmitInv, RemembersInv
    <3> QED
      BY <3>1 DEF WasTaken
  <2> QED
    BY <2>1, <2>2, <2>3 DEF RemembersInv
<1> QED
  BY <1>3, <1>4 DEF SubmitInv

\* The first critical section: the runtime-backed host claims a key that nobody has.
LEMMA SubmitKeeps ==
  ASSUME SubmitInv, NEW i \in MessageIds, NEW key \in Keys \cup {NoKey},
         NEW payload \in Payloads, Submit(i, key, payload)
  PROVE  SubmitInv'
<1>1. /\ submits[i].pc = "idle"
      /\ UNCHANGED <<host, status, queue, epoch, begun, taken>>
  BY DEF Submit
<1>2. SubmitType
  BY DEF SubmitInv
<1>3. CASE /\ \E ok \in BOOLEAN :
                /\ Answers(i, key, payload, ok)
                /\ ok => key # NoKey /\ answers[key] # NotCached /\ answers[key].payload = payload
           /\ UNCHANGED answers
  <2> PICK ok \in BOOLEAN :
        /\ Answers(i, key, payload, ok)
        /\ ok => key # NoKey /\ answers[key] # NotCached /\ answers[key].payload = payload
    BY <1>3
  <2> PICK s : s = [pc |-> "done", key |-> key, payload |-> payload, epoch |-> epoch, ok |-> ok]
    OBVIOUS
  <2>1. /\ s \in SubmitState /\ s.pc = "done" /\ s.key = key /\ s.payload = payload /\ s.ok = ok
        /\ submits' = [submits EXCEPT ![i] = s]
    BY <1>2 DEF Answers, SubmitState, SubmitPc, SubmitType
  <2>2. /\ submits' \in [MessageIds -> SubmitState] /\ submits'[i] = s
        /\ \A j \in MessageIds : j # i => submits'[j] = submits[j]
    BY <1>2, <2>1 DEF SubmitType
  <2>3. SubmitType'
    BY <1>1, <1>2, <1>3, <2>1, <2>2 DEF SubmitType
  <2>4. ClaimsInv'
    BY <1>1, <1>3, <2>1, <2>2 DEF SubmitInv, SubmitType, ClaimsInv, UnderWay
  <2>5. ok /\ host = "memory" => Queued(i)'
    <3>1. ok /\ host = "memory" => WasTaken(key, payload)
      BY DEF SubmitInv, RemembersInv
    <3> QED
      BY <1>1, <2>1, <2>2, <3>1 DEF WasTaken, Queued
  <2> QED
    BY <1>1, <1>2, <1>3, <2>1, <2>2, <2>3, <2>4, <2>5, NothingTaken DEF SubmitType, SubmitHosts
<1>4. CASE /\ key = NoKey \/ answers[key] = NotCached
           /\ submits' = [submits EXCEPT ![i] = [pc |-> "enqueue", key |-> key,
                            payload |-> payload, epoch |-> epoch, ok |-> FALSE]]
           /\ answers' = IF host = "runtime" THEN Claimed(answers, i, key, payload) ELSE answers
  <2> PICK s : s = [pc |-> "enqueue", key |-> key, payload |-> payload, epoch |-> epoch,
                    ok |-> FALSE]
    OBVIOUS
  <2>1. /\ s \in SubmitState /\ s.pc = "enqueue" /\ s.key = key /\ s.payload = payload /\ ~s.ok
        /\ submits' = [submits EXCEPT ![i] = s]
    BY <1>2, <1>4 DEF SubmitState, SubmitPc, SubmitType
  <2>2. /\ submits' \in [MessageIds -> SubmitState] /\ submits'[i] = s
        /\ \A j \in MessageIds : j # i => submits'[j] = submits[j]
    BY <1>2, <2>1 DEF SubmitType
  <2> PICK given : given = [payload |-> payload, id |-> i]
    OBVIOUS
  <2>3. given \in KeyAnswer /\ given.id = i
    BY DEF KeyAnswer
  <2>4. answers' = answers \/ (key # NoKey /\ answers' = [answers EXCEPT ![key] = given])
    BY <1>4 DEF Claimed
  <2>5. /\ answers' \in [Keys -> KeyAnswer \cup {NotCached}]
        /\ \A k \in Keys : k # key => answers'[k] = answers[k]
        /\ host = "memory" => answers' = answers
        /\ host = "runtime" /\ key # NoKey => answers'[key] = given
    <3>1. host = "memory" => answers' = answers
      BY <1>4
    <3>2. host = "runtime" /\ key # NoKey => answers' = [answers EXCEPT ![key] = given]
      BY <1>4 DEF Claimed
    <3> QED
      BY <1>2, <2>3, <2>4, <3>1, <3>2 DEF SubmitType
  <2>6. SubmitType'
    BY <1>1, <1>2, <2>1, <2>2, <2>5 DEF SubmitType
  <2>7. ClaimsInv'
    <3> SUFFICES ASSUME host = "runtime" PROVE ClaimsInv'
      BY <1>1 DEF ClaimsInv
    <3>1. \A n \in DOMAIN taken : taken[n] \in QueuedSessionMessage
      BY <1>2, ElementOfSeq, LenProperties DEF SubmitType
    <3>2. \A n \in DOMAIN taken : taken[n].key # NoKey => taken[n].key # key /\ taken[n].id # i
      BY <1>1, <1>4 DEF SubmitInv, ClaimsInv
    <3>3. ASSUME NEW n \in DOMAIN taken, taken[n].key # NoKey
          PROVE  /\ answers'[taken[n].key] # NotCached
                 /\ answers'[taken[n].key].id = taken[n].id
                 /\ submits'[taken[n].id].pc \in {"accepted", "done"}
      <4>1. taken[n].key \in Keys /\ taken[n].id \in MessageIds
        BY <3>1, <3>3 DEF QueuedSessionMessage
      <4>2. answers'[taken[n].key] = answers[taken[n].key]
        BY <2>5, <3>2, <3>3, <4>1
      <4>3. submits'[taken[n].id] = submits[taken[n].id]
        BY <2>2, <3>2, <3>3, <4>1
      <4> QED
        BY <3>3, <4>2, <4>3 DEF SubmitInv, ClaimsInv
    <3>4. ASSUME NEW j \in MessageIds, UnderWay(j)', submits'[j].key # NoKey
          PROVE  answers'[submits'[j].key] # NotCached /\ answers'[submits'[j].key].id = j
      <4>1. CASE j = i
        <5>1. submits'[j].key = key /\ key \in Keys /\ answers'[key] = given
          BY <2>1, <2>2, <2>5, <3>4, <4>1
        <5>2. given # NotCached
          BY <2>3, SubmitMessageAssumption
        <5> QED
          BY <2>3, <4>1, <5>1, <5>2
      <4>2. CASE j # i
        <5>1. /\ submits'[j] = submits[j] /\ UnderWay(j) /\ submits[j].key \in Keys
          BY <1>2, <2>2, <3>4, <4>2 DEF UnderWay, SubmitType, SubmitState
        <5>2. /\ answers[submits[j].key] # NotCached /\ answers[submits[j].key].id = j
          BY <3>4, <5>1 DEF SubmitInv, ClaimsInv
        <5>3. submits[j].key # key
          BY <1>4, <3>4, <5>1, <5>2
        <5> QED
          BY <2>5, <5>1, <5>2, <5>3
      <4> QED
        BY <4>1, <4>2
    <3> QED
      BY <1>1, <3>3, <3>4 DEF ClaimsInv
  <2> QED
    BY <1>1, <1>2, <2>1, <2>2, <2>5, <2>6, <2>7, NothingTaken DEF SubmitType, SubmitHosts
<1> QED
  <2>1. \/ /\ Answers(i, key, payload,
                   /\ key # NoKey /\ answers[key] # NotCached
                   /\ host = "memory" \/ status = "Running"
                   /\ key # NoKey /\ answers[key] # NotCached /\ answers[key].payload = payload)
           /\ UNCHANGED answers
        \/ /\ key = NoKey \/ answers[key] = NotCached
           /\ submits' = [submits EXCEPT ![i] = [pc |-> "enqueue", key |-> key,
                            payload |-> payload, epoch |-> epoch, ok |-> FALSE]]
           /\ answers' = IF host = "runtime" THEN Claimed(answers, i, key, payload) ELSE answers
    BY DEF Submit
  <2> QED
    BY <1>3, <1>4, <2>1

\* The message of a submit under way.
LEMMA MessageType ==
  ASSUME SubmitType, NEW i \in MessageIds, UnderWay(i)
  PROVE  /\ Message(i) \in QueuedSessionMessage /\ Message(i).id = i
         /\ Message(i).key = submits[i].key /\ Message(i).payload = submits[i].payload
         /\ submits[i] \in SubmitState
<1>1. /\ submits[i] \in SubmitState /\ submits[i].payload \in Payloads
  BY DEF SubmitType, UnderWay
<1> QED
  BY <1>1 DEF Message, QueuedSessionMessage, SubmitState

\* The queue decides.
LEMMA EnqueueKeeps ==
  ASSUME SubmitInv, NEW i \in MessageIds, Enqueue(i)
  PROVE  SubmitInv'
<1> PICK m : m = Message(i)
  OBVIOUS
<1> PICK stale \in BOOLEAN : stale = (host = "runtime" /\ submits[i].epoch # epoch)
  OBVIOUS
<1> PICK ack : ack = IF stale THEN "SessionNotActive" ELSE EnqueueAck(queue, m)
  OBVIOUS
<1>1. /\ submits[i].pc = "enqueue"
      /\ queue' = IF stale THEN queue ELSE AfterEnqueue(queue, m)
      /\ taken' = IF ack = "Queued" THEN Append(taken, m) ELSE taken
      /\ submits' = [submits EXCEPT ![i].pc = IF Acknowledges(ack) THEN "accepted" ELSE "refused"]
      /\ UNCHANGED <<host, status, epoch, begun, answers>>
  BY DEF Enqueue
<1>2. /\ SubmitType /\ UnderWay(i) /\ queue \in QueueState /\ taken \in Seq(QueuedSessionMessage)
      /\ answers \in [Keys -> KeyAnswer \cup {NotCached}]
  BY <1>1 DEF SubmitInv, SubmitType, UnderWay
<1>3. /\ m \in QueuedSessionMessage /\ m.id = i /\ m.key = submits[i].key
      /\ m.payload = submits[i].payload /\ submits[i] \in SubmitState
  BY <1>2, MessageType
<1> PICK s : s = [submits[i] EXCEPT !.pc = IF Acknowledges(ack) THEN "accepted" ELSE "refused"]
  OBVIOUS
<1>4. /\ s \in SubmitState /\ s.key = m.key /\ s.payload = m.payload /\ s.ok = submits[i].ok
      /\ s.pc = IF Acknowledges(ack) THEN "accepted" ELSE "refused"
  BY <1>3 DEF SubmitState, SubmitPc
<1>5. submits' = [submits EXCEPT ![i] = s]
  BY <1>1
<1>6. /\ submits' \in [MessageIds -> SubmitState] /\ submits'[i] = s
      /\ \A j \in MessageIds : j # i => submits'[j] = submits[j]
  BY <1>2, <1>4, <1>5 DEF SubmitType
<1>7. /\ AfterEnqueue(queue, m) \in QueueState
      /\ EnqueueAck(queue, m) # "Queued" => AfterEnqueue(queue, m) = queue
      /\ EnqueueAck(queue, m) = "Queued" =>
           AfterEnqueue(queue, m).idempotent_messages = Remember(queue.idempotent_messages, m)
      /\ EnqueueAck(queue, m) = "Duplicate" => KeyKnown(queue, m) /\ SamePayload(queue, m)
  BY <1>2, <1>3, EnqueueCases
<1>8. SubmitType'
  <2>1. queue' \in QueueState
    BY <1>1, <1>2, <1>7
  <2>2. taken' \in Seq(QueuedSessionMessage)
    BY <1>1, <1>2, <1>3, Appended
  <2>3. \A j \in MessageIds : submits'[j].pc # "idle" => submits'[j].payload \in Payloads
    BY <1>2, <1>3, <1>4, <1>6 DEF SubmitType, QueuedSessionMessage
  <2> QED
    BY <1>1, <1>2, <1>6, <2>1, <2>2, <2>3 DEF SubmitType
<1>9. host = "runtime" => \A n \in DOMAIN taken : taken[n].key # NoKey =>
         /\ taken[n].id # i /\ taken[n].key # m.key
         /\ taken[n].id \in MessageIds /\ taken[n].key \in Keys
  <2> SUFFICES ASSUME host = "runtime", NEW n \in DOMAIN taken, taken[n].key # NoKey
               PROVE  /\ taken[n].id # i /\ taken[n].key # m.key
                      /\ taken[n].id \in MessageIds /\ taken[n].key \in Keys
    OBVIOUS
  <2>1. taken[n] \in QueuedSessionMessage
    BY <1>2, ElementOfSeq, LenProperties
  <2>2. taken[n].id # i
    BY <1>1 DEF SubmitInv, ClaimsInv
  <2>3. taken[n].key # m.key
    BY <1>2, <1>3, <2>2 DEF SubmitInv, ClaimsInv
  <2> QED
    BY <2>1, <2>2, <2>3 DEF QueuedSessionMessage
<1>10. host = "runtime" => \A j \in MessageIds : UnderWay(j)' /\ submits'[j].key # NoKey =>
         answers'[submits'[j].key] # NotCached /\ answers'[submits'[j].key].id = j
  <2>1. \A j \in MessageIds : UnderWay(j)' => UnderWay(j) /\ submits'[j].key = submits[j].key
    BY <1>2, <1>3, <1>4, <1>6 DEF UnderWay
  <2> QED
    BY <1>1, <2>1 DEF SubmitInv, ClaimsInv
<1>11. host = "runtime" => \A n \in DOMAIN taken : taken[n].key # NoKey =>
         /\ answers'[taken[n].key] # NotCached /\ answers'[taken[n].key].id = taken[n].id
         /\ submits'[taken[n].id].pc \in {"accepted", "done"}
  BY <1>1, <1>6, <1>9 DEF SubmitInv, ClaimsInv
<1>12. CASE ack # "Queued"
  <2>1. queue' = queue /\ taken' = taken
    BY <1>1, <1>7, <1>12
  <2>2. ClaimsInv'
    BY <1>1, <1>10, <1>11, <2>1 DEF ClaimsInv
  <2>3. s.pc = "accepted" /\ host = "memory" => Queued(i)'
    <3> SUFFICES ASSUME s.pc = "accepted", host = "memory" PROVE Queued(i)'
      OBVIOUS
    <3>1. ack = "Duplicate" /\ ~stale
      BY <1>4, <1>12 DEF Acknowledges
    <3>2. m.key \in Keys /\ m.key # NoKey /\ queue.idempotent_messages[m.key] # NoMessage
          /\ queue.idempotent_messages[m.key].payload = m.payload
      BY <1>3, <1>7, <3>1 DEF KeyKnown, SamePayload, QueuedSessionMessage
    <3>3. WasTaken(m.key, m.payload)
      BY <3>2 DEF SubmitInv, RemembersInv
    <3> QED
      BY <1>4, <1>6, <2>1, <3>2, <3>3 DEF WasTaken, Queued
  <2>4. submits[i].ok /\ host = "memory" => Queued(i)'
    BY <1>3, <1>4, <1>6, <2>1 DEF SubmitInv, RemembersInv, Queued
  <2>5. \A j \in MessageIds : \/ submits'[j] = submits[j]
                              \/ submits'[j].pc # "accepted" /\ ~submits'[j].ok
                              \/ host = "runtime"
                              \/ Queued(j)'
    BY <1>2, <1>4, <1>6, <2>3, <2>4 DEF SubmitType, SubmitHosts
  <2> QED
    BY <1>1, <1>8, <2>1, <2>2, <2>5, NothingTaken
<1>13. CASE ack = "Queued"
  <2>1. /\ EnqueueAck(queue, m) = "Queued" /\ queue' = AfterEnqueue(queue, m)
        /\ taken' = Append(taken, m) /\ s.pc = "accepted"
    BY <1>1, <1>4, <1>13 DEF Acknowledges
  <2>2. /\ DOMAIN taken' = DOMAIN taken \cup {Len(taken) + 1}
        /\ \A n \in DOMAIN taken : taken'[n] = taken[n]
        /\ taken'[Len(taken) + 1] = m
    BY <1>2, <1>3, <2>1, Appended
  <2>3. ClaimsInv'
    <3> SUFFICES ASSUME host = "runtime", NEW n \in DOMAIN taken', taken'[n].key # NoKey
                 PROVE  /\ answers'[taken'[n].key] # NotCached
                        /\ answers'[taken'[n].key].id = taken'[n].id
                        /\ submits'[taken'[n].id].pc \in {"accepted", "done"}
      BY <1>1, <1>10 DEF ClaimsInv
    <3>1. CASE n \in DOMAIN taken
      BY <1>11, <2>2, <3>1
    <3>2. CASE n = Len(taken) + 1
      BY <1>1, <1>2, <1>3, <1>6, <2>1, <2>2, <3>2 DEF SubmitInv, ClaimsInv
    <3> QED
      BY <2>2, <3>1, <3>2
  <2>4. KeyQueuedOnce'
    BY <1>1, <1>9, <2>2 DEF SubmitInv, KeyQueuedOnce
  <2>5. RemembersInv'
    <3> SUFFICES ASSUME host = "memory" PROVE RemembersInv'
      BY <1>1 DEF RemembersInv
    <3>1. \A key, payload : WasTaken(key, payload) => WasTaken(key, payload)'
      BY <2>2 DEF WasTaken
    <3>2. WasTaken(m.key, m.payload)'
      BY <2>2 DEF WasTaken
    <3>3. Queued(i)'
      BY <1>3, <1>4, <1>6, <2>2 DEF Queued
    <3>4. \A j \in MessageIds : j # i /\ Queued(j) => Queued(j)'
      BY <1>6, <2>2 DEF Queued
    <3>5. ASSUME NEW k \in Keys, answers'[k] # NotCached
          PROVE  WasTaken(k, answers[k].payload)'
      <4>1. WasTaken(k, answers[k].payload) /\ answers' = answers
        BY <1>1, <3>5 DEF SubmitInv, RemembersInv
      <4> QED
        BY <2>2, <4>1 DEF WasTaken
    <3>6. ASSUME NEW k \in Keys, queue'.idempotent_messages[k] # NoMessage
          PROVE  WasTaken(k, queue.idempotent_messages[k].payload)'
      <4>1. queue'.idempotent_messages = Remember(queue.idempotent_messages, m)
        BY <1>7, <2>1
      <4>2. CASE k = m.key
        <5>1. queue'.idempotent_messages[k] = m
          BY <1>2, <1>3, <4>1, <4>2, SteeringQueueAssumption DEF Remember, QueueState
        <5> QED
          BY <2>2, <4>2, <5>1 DEF WasTaken
      <4>3. CASE k # m.key
        <5>1. queue'.idempotent_messages[k] = queue.idempotent_messages[k]
          BY <1>2, <4>1, <4>3 DEF Remember, QueueState
        <5>2. WasTaken(k, queue.idempotent_messages[k].payload)
          BY <3>6, <5>1 DEF SubmitInv, RemembersInv
        <5> QED
          BY <2>2, <5>1, <5>2 DEF WasTaken
      <4> QED
        BY <4>2, <4>3
    <3>7. \A j \in MessageIds : submits'[j].pc = "accepted" \/ submits'[j].ok => Queued(j)'
      BY <1>6, <3>3, <3>4 DEF SubmitInv, RemembersInv
    <3> QED
      BY <3>5, <3>6, <3>7 DEF RemembersInv
  <2> QED
    BY <1>8, <2>3, <2>4, <2>5 DEF SubmitInv
<1> QED
  BY <1>12, <1>13

\* The answer: only a refused submit withdraws a claim, and only its own.
LEMMA AnswerKeeps ==
  ASSUME SubmitInv, NEW i \in MessageIds, Answer(i)
  PROVE  SubmitInv'
<1> PICK m : m = Message(i)
  OBVIOUS
<1> PICK ok \in BOOLEAN : ok = (submits[i].pc = "accepted")
  OBVIOUS
<1> PICK s : s = [pc |-> "done", key |-> m.key, payload |-> m.payload, epoch |-> epoch, ok |-> ok]
  OBVIOUS
<1>1. /\ submits[i].pc \in {"accepted", "refused"}
      /\ submits' = [submits EXCEPT ![i] = s]
      /\ UNCHANGED <<host, status, queue, epoch, begun, taken>>
  BY DEF Answer, Answers
<1>2. /\ SubmitType /\ UnderWay(i) /\ answers \in [Keys -> KeyAnswer \cup {NotCached}]
      /\ host \in {"memory", "runtime"}
  BY <1>1 DEF SubmitInv, SubmitType, UnderWay, SubmitHosts
<1>3. /\ m \in QueuedSessionMessage /\ m.id = i /\ m.key = submits[i].key
      /\ m.payload = submits[i].payload /\ m.payload \in Payloads
  BY <1>2, MessageType DEF QueuedSessionMessage
<1>4. /\ s \in SubmitState /\ s.key = m.key /\ s.payload = m.payload /\ s.ok = ok /\ s.pc = "done"
  BY <1>2, <1>3 DEF SubmitState, SubmitPc, SubmitType, QueuedSessionMessage
<1>5. /\ submits' \in [MessageIds -> SubmitState] /\ submits'[i] = s
      /\ \A j \in MessageIds : j # i => submits'[j] = submits[j]
  BY <1>1, <1>2, <1>4 DEF SubmitType
<1> PICK given : given = [payload |-> m.payload, id |-> i]
  OBVIOUS
<1>6. given \in KeyAnswer /\ given.payload = m.payload
  BY <1>3 DEF KeyAnswer
<1>7. /\ host = "memory" => \/ answers' = answers
                            \/ ok /\ m.key # NoKey /\ answers' = [answers EXCEPT ![m.key] = given]
      /\ host = "runtime" => \/ answers' = answers
                             \/ ~ok /\ m.key # NoKey /\ answers' = [answers EXCEPT ![m.key] = NotCached]
  <2>1. CASE host = "memory" /\ submits[i].pc = "accepted"
    BY <2>1 DEF Answer, Claimed
  <2>2. CASE host = "runtime" /\ submits[i].pc = "refused" /\ m.key # NoKey
    BY <2>2 DEF Answer
  <2>3. CASE ~(host = "memory" /\ submits[i].pc = "accepted")
             /\ ~(host = "runtime" /\ submits[i].pc = "refused" /\ m.key # NoKey)
    BY <2>3 DEF Answer
  <2> QED
    BY <2>1, <2>2, <2>3
<1>8. /\ answers' \in [Keys -> KeyAnswer \cup {NotCached}]
      /\ \A k \in Keys : k # m.key => answers'[k] = answers[k]
      /\ m.key \in Keys \cup {NoKey}
  BY <1>2, <1>3, <1>6, <1>7 DEF QueuedSessionMessage
<1>9. SubmitType'
  <2>1. \A j \in MessageIds : submits'[j].pc # "idle" => submits'[j].payload \in Payloads
    BY <1>2, <1>3, <1>4, <1>5 DEF SubmitType
  <2> QED
    BY <1>1, <1>2, <1>5, <1>8, <2>1 DEF SubmitType
<1>10. ok /\ host = "memory" => Queued(i) /\ Queued(i)'
  <2>1. ok /\ host = "memory" => Queued(i)
    BY DEF SubmitInv, RemembersInv
  <2> QED
    BY <1>1, <1>3, <1>4, <1>5, <2>1 DEF Queued
<1>11. ClaimsInv'
  <2> SUFFICES ASSUME host = "runtime" PROVE ClaimsInv'
    BY <1>1 DEF ClaimsInv
  <2>1. ASSUME NEW n \in DOMAIN taken, taken[n].key # NoKey
        PROVE  /\ answers'[taken[n].key] # NotCached /\ answers'[taken[n].key].id = taken[n].id
               /\ submits'[taken[n].id].pc \in {"accepted", "done"}
    <3>1. taken[n] \in QueuedSessionMessage
      BY <1>2, ElementOfSeq, LenProperties DEF SubmitType
    <3>2. /\ taken[n].key \in Keys /\ taken[n].id \in MessageIds
          /\ answers[taken[n].key] # NotCached /\ answers[taken[n].key].id = taken[n].id
          /\ submits[taken[n].id].pc \in {"accepted", "done"}
      BY <2>1, <3>1 DEF SubmitInv, ClaimsInv, QueuedSessionMessage
    <3>3. submits'[taken[n].id].pc \in {"accepted", "done"}
      BY <1>4, <1>5, <3>2
    <3>4. taken[n].key = m.key => taken[n].id = i
      BY <1>2, <1>3, <2>1, <3>2 DEF SubmitInv, ClaimsInv
    <3>5. taken[n].key = m.key => answers' = answers
      BY <1>1, <1>7, <3>2, <3>4
    <3> QED
      BY <1>8, <3>2, <3>3, <3>5
  <2>2. ASSUME NEW j \in MessageIds, UnderWay(j)', submits'[j].key # NoKey
        PROVE  answers'[submits'[j].key] # NotCached /\ answers'[submits'[j].key].id = j
    <3>1. j # i
      BY <1>4, <1>5, <2>2 DEF UnderWay
    <3>2. /\ submits'[j] = submits[j] /\ UnderWay(j) /\ submits[j].key \in Keys
      BY <1>2, <1>5, <2>2, <3>1 DEF UnderWay, SubmitType, SubmitState
    <3>3. answers[submits[j].key] # NotCached /\ answers[submits[j].key].id = j
      BY <2>2, <3>2 DEF SubmitInv, ClaimsInv
    <3>4. submits[j].key # m.key
      BY <1>2, <1>3, <2>2, <3>1, <3>2, <3>3 DEF SubmitInv, ClaimsInv
    <3> QED
      BY <1>8, <3>2, <3>3, <3>4
  <2> QED
    BY <1>1, <2>1, <2>2 DEF ClaimsInv
<1>12. \A k \in Keys : \/ answers'[k] = answers[k]
                       \/ answers'[k] = NotCached
                       \/ host = "runtime"
                       \/ WasTaken(k, answers'[k].payload)
  <2> SUFFICES ASSUME NEW k \in Keys, k = m.key, host = "memory", ok,
                      answers' = [answers EXCEPT ![m.key] = given]
               PROVE  WasTaken(k, answers'[k].payload)
    BY <1>2, <1>7, <1>8
  <2>1. answers'[k].payload = m.payload
    BY <1>2, <1>6
  <2> QED
    BY <1>3, <1>10, <2>1 DEF Queued, WasTaken
<1>13. \A j \in MessageIds : \/ submits'[j] = submits[j]
                             \/ submits'[j].pc # "accepted" /\ ~submits'[j].ok
                             \/ host = "runtime"
                             \/ Queued(j)'
  BY <1>2, <1>4, <1>5, <1>10
<1> QED
  BY <1>1, <1>9, <1>11, <1>12, <1>13, NothingTaken

\* The run: it may forget keys, and takes nothing.
LEMMA RunOnSubmitKeeps ==
  ASSUME SubmitInv,
         \/ DrainQueue \/ CompleteQueue \/ CompleteRun \/ CancelSubmits \/ CancelQueue
         \/ ResumeRun \/ OpenQueue \/ UNCHANGED submitVars
  PROVE  SubmitInv'
<1>1. UNCHANGED <<host, answers, submits, taken>>
  BY DEF DrainQueue, CompleteQueue, CompleteRun, CancelSubmits, CancelQueue, ResumeRun,
         OpenQueue, submitVars
<1>2. SubmitType
  BY DEF SubmitInv
<1>3. queue \in QueueState /\ epoch \in Nat
  BY <1>2 DEF SubmitType
<1>4. /\ queue' \in QueueState /\ epoch' \in Nat
      /\ \A k \in Keys : \/ queue'.idempotent_messages[k] = NoMessage
                         \/ queue'.idempotent_messages[k] = queue.idempotent_messages[k]
  <2>1. CASE queue' = queue /\ epoch' = epoch
    BY <1>3, <2>1
  <2>2. CASE queue' = AfterDrain(queue) /\ epoch' = epoch
    BY <1>3, <2>2, DrainCases
  <2>3. CASE queue' = AfterLifecycle(queue, "Completed") /\ epoch' = epoch
    BY <1>3, <2>3, LifecycleCases DEF QueueLifecycle
  <2>4. CASE queue' = AfterLifecycle(queue, "Active") /\ epoch' = epoch + 1
    BY <1>3, <2>4, LifecycleCases DEF QueueLifecycle
  <2>5. CASE queue' = NewQueue /\ epoch' = epoch + 1
    BY <1>3, <2>5, NewQueueType DEF NewQueue
  <2> QED
    BY <2>1, <2>2, <2>3, <2>4, <2>5
       DEF DrainQueue, CompleteQueue, CompleteRun, CancelSubmits, CancelQueue, ResumeRun,
           OpenQueue, submitVars
<1>5. SubmitType'
  BY <1>1, <1>2, <1>4 DEF SubmitType
<1>6. ClaimsInv'
  BY <1>1 DEF SubmitInv, ClaimsInv, UnderWay
<1> QED
  BY <1>1, <1>4, <1>5, <1>6, NothingTaken

\* A key stands for one queued message in all the runs of a session, though queues
\* forget theirs and refused submits withdraw their claims; and in memory what was
\* acknowledged was queued (submit_message of both hosts).
THEOREM SubmitsHonoured == SubmitSpec => []SubmitsAreHonoured
<1>1. SubmitInv /\ [SubmitNext]_submitVars => SubmitInv'
  BY SubmitKeeps, EnqueueKeeps, AnswerKeeps, RunOnSubmitKeeps DEF SubmitNext
<1>2. SubmitInv => SubmitsAreHonoured
  <2> SUFFICES ASSUME SubmitInv PROVE SubmitsAreHonoured
    OBVIOUS
  <2>1. AcknowledgedWasQueued
    BY DEF SubmitInv, RemembersInv, Queued, AcknowledgedWasQueued
  <2> QED
    BY <2>1 DEF SubmitInv, SubmitsAreHonoured
<1> QED
  BY InitSubmitInv, <1>1, <1>2, PTL DEF SubmitSpec

-----------------------------------------------------------------------------
(* Subsequences: a set of places has one enumeration in order, so that what a *)
(* filter leaves of a sequence can be cut, shifted and continued.             *)

\* Ranks are numbers, and they follow the order of the places.
LEMMA RankType ==
  ASSUME NEW I \in SUBSET Nat, IsFiniteSet(I), NEW i \in I
  PROVE  RankIn(I, i) \in 1..Cardinality(I)
<1> DEFINE below == {j \in I : j <= i}
<1>1. IsFiniteSet(below) /\ Cardinality(below) <= Cardinality(I)
  BY FS_Subset
<1>2. Cardinality(below) \in Nat /\ Cardinality(I) \in Nat
  BY <1>1, FS_CardinalityType
<1>3. i \in below
  OBVIOUS
<1>4. Cardinality(below) # 0
  BY <1>1, <1>3, FS_EmptySet
<1> QED
  BY <1>1, <1>2, <1>4 DEF RankIn

LEMMA RankGrows ==
  ASSUME NEW I \in SUBSET Nat, IsFiniteSet(I), NEW i \in I, NEW j \in I, i < j
  PROVE  RankIn(I, i) < RankIn(I, j)
<1> DEFINE small == {k \in I : k <= i}
           large == {k \in I : k <= j}
<1>1. IsFiniteSet(large)
  <2>1. large \in SUBSET I
    OBVIOUS
  <2> QED
    BY <2>1, FS_Subset
<1>2. small \in SUBSET large
  <2>1. ASSUME NEW k \in I, k <= i PROVE k <= j
    <3>1. k \in Nat /\ i \in Nat /\ j \in Nat
      OBVIOUS
    <3> QED
      BY <2>1, <3>1
  <2> QED
    BY <2>1
<1>3. j \in large /\ j \notin small
  OBVIOUS
<1>4. /\ Cardinality(small) <= Cardinality(large)
      /\ Cardinality(large) = Cardinality(small) => large = small
  BY <1>1, <1>2, FS_Subset
<1>5. RankIn(I, i) = Cardinality(small) /\ RankIn(I, j) = Cardinality(large)
  BY DEF RankIn
<1>6. RankIn(I, i) \in Nat /\ RankIn(I, j) \in Nat
  BY RankType
<1>7. RankIn(I, i) <= RankIn(I, j) /\ RankIn(I, i) # RankIn(I, j)
  BY <1>3, <1>4, <1>5
<1> QED
  BY <1>6, <1>7

\* Every rank has its place.
LEMMA PlacesAreRanked ==
  ASSUME NEW I \in SUBSET Nat, IsFiniteSet(I)
  PROVE  /\ Cardinality(I) \in Nat
         /\ \A k \in 1..Cardinality(I) : NthOf(I, k) \in I /\ RankIn(I, NthOf(I, k)) = k
         /\ \A i \in I : NthOf(I, RankIn(I, i)) = i
         /\ \A k, l \in 1..Cardinality(I) : k < l => NthOf(I, k) < NthOf(I, l)
<1> DEFINE n == Cardinality(I)
           f == [i \in I |-> RankIn(I, i)]
<1>1. n \in Nat
  BY FS_CardinalityType
<1>2. \A i \in I : RankIn(I, i) \in 1..n
  BY RankType
<1>3. \A i, j \in I : RankIn(I, i) = RankIn(I, j) => i = j
  <2> SUFFICES ASSUME NEW i \in I, NEW j \in I, RankIn(I, i) = RankIn(I, j), i # j
               PROVE  FALSE
    OBVIOUS
  <2>1. i < j \/ j < i
    OBVIOUS
  <2>2. RankIn(I, i) \in Nat
    BY <1>2
  <2>3. CASE i < j
    BY <2>2, <2>3, RankGrows
  <2>4. CASE j < i
    BY <2>2, <2>4, RankGrows
  <2> QED
    BY <2>1, <2>3, <2>4
<1>4. f \in Injection(I, 1..n)
  BY <1>2, <1>3, Zenon DEF Injection, IsInjective
<1>5. IsFiniteSet(1..n) /\ Cardinality(1..n) = n
  BY <1>1, FS_Interval
<1>6. f \in Surjection(I, 1..n)
  BY <1>4, <1>5, FS_Injection
<1>7. \A k \in 1..n : \E i \in I : RankIn(I, i) = k
  BY <1>6 DEF Surjection
<1>8. \A k \in 1..n : NthOf(I, k) \in I /\ RankIn(I, NthOf(I, k)) = k
  BY <1>7 DEF NthOf
<1>9. \A i \in I : NthOf(I, RankIn(I, i)) = i
  BY <1>2, <1>3, <1>8
<1>10. ASSUME NEW k \in 1..n, NEW l \in 1..n, k < l
       PROVE  NthOf(I, k) < NthOf(I, l)
  <2> DEFINE a == NthOf(I, k)
             b == NthOf(I, l)
  <2>1. a \in I /\ b \in I /\ RankIn(I, a) = k /\ RankIn(I, b) = l
    BY <1>8
  <2> HIDE DEF a, b
  <2>2. a # b /\ a \in Nat /\ b \in Nat
    BY <1>10, <2>1
  <2>3. b < a => l < k
    BY <2>1, RankGrows
  <2>4. a < b \/ b < a
    BY <2>1, <2>2
  <2>5. a < b
    BY <1>10, <2>3, <2>4
  <2> QED
    BY <2>5 DEF a, b
<1> QED
  BY <1>1, <1>8, <1>9, <1>10

\* A set of places has one enumeration in order.
Enumerates(f, n, I) ==
  /\ f \in [1..n -> I]
  /\ \A i \in I : \E k \in 1..n : f[k] = i
  /\ \A k, l \in 1..n : k < l => f[k] < f[l]

LEMMA OneEnumeration ==
  ASSUME NEW I \in SUBSET Nat, NEW n \in Nat, NEW f, Enumerates(f, n, I)
  PROVE  /\ IsFiniteSet(I)
         /\ Cardinality(I) = n
         /\ \A k \in 1..n : NthOf(I, k) = f[k]
<1>1. \A k, l \in 1..n : f[k] = f[l] => k = l
  <2> SUFFICES ASSUME NEW k \in 1..n, NEW l \in 1..n, f[k] = f[l], k # l
               PROVE  FALSE
    OBVIOUS
  <2>1. f[k] \in Nat
    BY DEF Enumerates
  <2>2. k < l \/ l < k
    OBVIOUS
  <2>3. f[k] < f[l] \/ f[l] < f[k]
    BY <2>2 DEF Enumerates
  <2> QED
    BY <2>1, <2>3
<1>2. f \in Surjection(1..n, I)
  BY Zenon DEF Enumerates, Surjection
<1>3. f \in Bijection(1..n, I)
  BY <1>1, <1>2, Zenon DEF Bijection, Injection, Surjection, IsInjective
<1>4. IsFiniteSet(I)
  BY <1>2, FS_Interval, FS_Surjection
<1>5. Cardinality(I) = n
  BY <1>3, FS_CountingElements DEF ExistsBijection
<1>6. ASSUME NEW k \in 1..n PROVE RankIn(I, f[k]) = k
  <2> DEFINE below == {j \in I : j <= f[k]}
             g == [x \in 1..k |-> f[x]]
  <2>1. \A x \in 1..n : f[x] \in Nat /\ f[x] \in I
    BY DEF Enumerates
  <2>2. \A x \in 1..k : x \in 1..n /\ f[x] \in below
    <3> SUFFICES ASSUME NEW x \in 1..k PROVE x \in 1..n /\ f[x] \in below
      OBVIOUS
    <3>1. x \in 1..n /\ (x = k \/ x < k)
      OBVIOUS
    <3>2. f[x] = f[k] \/ f[x] < f[k]
      BY <3>1 DEF Enumerates
    <3> QED
      BY <2>1, <3>1, <3>2
  <2>3. \A j \in below : \E x \in 1..k : f[x] = j
    <3> SUFFICES ASSUME NEW j \in below PROVE \E x \in 1..k : f[x] = j
      OBVIOUS
    <3>1. PICK x \in 1..n : f[x] = j
      BY DEF Enumerates
    <3>2. ~(k < x)
      <4>1. k < x => f[k] < f[x]
        BY DEF Enumerates
      <4>2. f[x] <= f[k]
        BY <3>1
      <4> QED
        BY <2>1, <4>1, <4>2
    <3>3. x \in 1..k
      BY <3>2
    <3> QED
      BY <3>1, <3>3
  <2>4. \A x, y \in 1..k : f[x] = f[y] => x = y
    BY <1>1, <2>2
  <2>5. g \in [1..k -> below]
    BY <2>2
  <2> HIDE DEF below
  <2>6. g \in Bijection(1..k, below)
    BY <2>3, <2>4, <2>5, Zenon DEF Bijection, Injection, Surjection, IsInjective
  <2>7. Cardinality(below) = k
    BY <2>6, FS_CountingElements DEF ExistsBijection
  <2> QED
    BY <2>7 DEF RankIn, below
<1>7. ASSUME NEW k \in 1..n PROVE NthOf(I, k) = f[k]
  <2>1. f[k] \in I /\ RankIn(I, f[k]) = k
    BY <1>6 DEF Enumerates
  <2>2. NthOf(I, RankIn(I, f[k])) = f[k]
    BY <1>4, <2>1, PlacesAreRanked
  <2> QED
    BY <2>1, <2>2
<1> QED
  BY <1>4, <1>5, <1>7

LEMMA EnumerationOfPlaces ==
  ASSUME NEW I \in SUBSET Nat, IsFiniteSet(I)
  PROVE  Enumerates([k \in 1..Cardinality(I) |-> NthOf(I, k)], Cardinality(I), I)
<1> DEFINE n == Cardinality(I)
           f == [k \in 1..n |-> NthOf(I, k)]
<1>1. /\ n \in Nat
      /\ \A k \in 1..n : NthOf(I, k) \in I /\ RankIn(I, NthOf(I, k)) = k
      /\ \A i \in I : NthOf(I, RankIn(I, i)) = i
      /\ \A k, l \in 1..n : k < l => NthOf(I, k) < NthOf(I, l)
  BY PlacesAreRanked
<1>2. \A i \in I : RankIn(I, i) \in 1..n
  BY RankType
<1> HIDE DEF n
<1>3. f \in [1..n -> I]
  BY <1>1
<1>4. \A i \in I : \E k \in 1..n : f[k] = i
  BY <1>1, <1>2
<1>5. \A k, l \in 1..n : k < l => f[k] < f[l]
  BY <1>1
<1>6. Enumerates(f, n, I)
  BY <1>3, <1>4, <1>5 DEF Enumerates
<1> QED
  BY <1>6 DEF n

\* A subsequence is a sequence; its elements are those at the places.
LEMMA SubsequenceType ==
  ASSUME NEW S, NEW I \in SUBSET Nat, IsFiniteSet(I), NEW s, \A i \in I : s[i] \in S
  PROVE  /\ Subsequence(s, I) \in Seq(S)
         /\ Len(Subsequence(s, I)) = Cardinality(I)
         /\ Cardinality(I) \in Nat
         /\ \A k \in 1..Cardinality(I) :
              NthOf(I, k) \in I /\ Subsequence(s, I)[k] = s[NthOf(I, k)]
<1> DEFINE n == Cardinality(I)
<1>1. n \in Nat /\ \A k \in 1..n : NthOf(I, k) \in I
  BY PlacesAreRanked
<1> HIDE DEF n
<1>2. Subsequence(s, I) = [k \in 1..n |-> s[NthOf(I, k)]]
  BY DEF Subsequence, n
<1>3. \A k \in 1..n : s[NthOf(I, k)] \in S
  BY <1>1
<1>4. Subsequence(s, I) \in Seq(S) /\ Len(Subsequence(s, I)) = n
  BY <1>1, <1>2, <1>3, SMTT(20)
<1> QED
  BY <1>1, <1>2, <1>4 DEF n

\* Places of two sequences that correspond in order, with equal elements.
LEMMA SubsequenceByEnumeration ==
  ASSUME NEW I \in SUBSET Nat, NEW n \in Nat, NEW f, Enumerates(f, n, I), NEW s
  PROVE  Subsequence(s, I) = [k \in 1..n |-> s[f[k]]]
BY OneEnumeration DEF Subsequence

LEMMA SubsequenceShift ==
  ASSUME NEW I \in SUBSET Nat, IsFiniteSet(I), NEW d \in Nat, NEW s, NEW t,
         \A i \in I : t[d + i] = s[i]
  PROVE  Subsequence(t, {d + i : i \in I}) = Subsequence(s, I)
<1> DEFINE n == Cardinality(I)
           K == {d + i : i \in I}
           g == [k \in 1..n |-> NthOf(I, k)]
           f == [k \in 1..n |-> d + NthOf(I, k)]
<1>1. n \in Nat
  BY FS_CardinalityType
<1>2. Enumerates(g, n, I)
  BY EnumerationOfPlaces
<1>3. \A k \in 1..n : NthOf(I, k) \in I /\ NthOf(I, k) \in Nat
  BY PlacesAreRanked
<1>4. K \in SUBSET Nat
  OBVIOUS
<1> HIDE DEF n
<1>5. f \in [1..n -> K]
  BY <1>3
<1>6. ASSUME NEW j \in K PROVE \E k \in 1..n : f[k] = j
  <2>1. PICK i \in I : j = d + i
    OBVIOUS
  <2>2. PICK k \in 1..n : g[k] = i
    BY <1>2 DEF Enumerates
  <2> QED
    BY <2>1, <2>2
<1>7. ASSUME NEW k \in 1..n, NEW l \in 1..n, k < l PROVE f[k] < f[l]
  <2>1. g[k] < g[l]
    BY <1>2, <1>7 DEF Enumerates
  <2>2. NthOf(I, k) \in Nat /\ NthOf(I, l) \in Nat
    BY <1>3
  <2> QED
    BY <2>1, <2>2
<1>8. Enumerates(f, n, K)
  BY <1>5, <1>6, <1>7 DEF Enumerates
<1>9. Subsequence(t, K) = [k \in 1..n |-> t[f[k]]]
  <2> HIDE DEF f, K
  <2>1. K \in SUBSET Nat /\ n \in Nat /\ Enumerates(f, n, K)
    BY <1>1, <1>4, <1>8
  <2>2. Cardinality(K) = n /\ \A k \in 1..n : NthOf(K, k) = f[k]
    BY <2>1, OneEnumeration
  <2> QED
    BY <2>2 DEF Subsequence
<1>10. Subsequence(s, I) = [k \in 1..n |-> s[NthOf(I, k)]]
  BY DEF Subsequence, n
<1>11. \A k \in 1..n : t[f[k]] = s[NthOf(I, k)]
  BY <1>3
<1> QED
  BY <1>9, <1>10, <1>11

\* Sequences that agree at the places have the same subsequence.
LEMMA SubsequenceFrame ==
  ASSUME NEW I \in SUBSET Nat, IsFiniteSet(I), NEW s, NEW t, \A i \in I : t[i] = s[i]
  PROVE  Subsequence(t, I) = Subsequence(s, I)
<1>1. \A k \in 1..Cardinality(I) : NthOf(I, k) \in I
  BY PlacesAreRanked
<1> QED
  BY <1>1 DEF Subsequence

LEMMA SubsequenceOfNothing ==
  ASSUME NEW s
  PROVE  Subsequence(s, {}) = <<>>
BY FS_EmptySet DEF Subsequence

\* The first m elements of a subsequence.
LEMMA SubsequencePrefix ==
  ASSUME NEW I \in SUBSET Nat, IsFiniteSet(I), NEW s, NEW S, \A i \in I : s[i] \in S,
         NEW m \in 0..Cardinality(I)
  PROVE  SubSeq(Subsequence(s, I), 1, m) = Subsequence(s, {i \in I : RankIn(I, i) <= m})
<1> DEFINE n == Cardinality(I)
           K == {i \in I : RankIn(I, i) <= m}
           f == [k \in 1..m |-> NthOf(I, k)]
<1>1. /\ n \in Nat
      /\ \A k \in 1..n : NthOf(I, k) \in I /\ RankIn(I, NthOf(I, k)) = k
      /\ \A i \in I : NthOf(I, RankIn(I, i)) = i
      /\ \A k, l \in 1..n : k < l => NthOf(I, k) < NthOf(I, l)
  BY PlacesAreRanked
<1>2. \A i \in I : RankIn(I, i) \in 1..n
  BY RankType
<1>3. K \in SUBSET Nat
  OBVIOUS
<1>4. Subsequence(s, I) \in Seq(S) /\ Len(Subsequence(s, I)) = n
  BY SubsequenceType
<1>5. Subsequence(s, I) = [k \in 1..n |-> s[NthOf(I, k)]]
  BY DEF Subsequence
<1>6. m \in Nat /\ m <= n
  BY <1>1
<1> HIDE DEF n
<1>7. \A k \in 1..m : k \in 1..n
  BY <1>1, <1>6
<1>8. f \in [1..m -> K]
  BY <1>1, <1>7
<1>9. ASSUME NEW i \in K PROVE \E k \in 1..m : f[k] = i
  <2>1. RankIn(I, i) \in 1..m
    BY <1>2, <1>6
  <2> QED
    BY <1>1, <2>1
<1>10. \A k, l \in 1..m : k < l => f[k] < f[l]
  BY <1>1, <1>7
<1>11. Enumerates(f, m, K)
  BY <1>8, <1>9, <1>10 DEF Enumerates
<1>12. Subsequence(s, K) = [k \in 1..m |-> s[f[k]]]
  <2> HIDE DEF f, K
  <2> QED
    BY <1>3, <1>6, <1>11, SubsequenceByEnumeration
<1>13. Subsequence(s, K) = [k \in 1..m |-> s[NthOf(I, k)]]
  BY <1>12
<1>14. SubSeq(Subsequence(s, I), 1, m) = [k \in 1..m |-> Subsequence(s, I)[k]]
  BY <1>4, <1>6, <1>1
<1> QED
  BY <1>5, <1>7, <1>13, <1>14

LEMMA ConcatIsFunction ==
  ASSUME NEW S, NEW s \in Seq(S), NEW t \in Seq(S)
  PROVE  s \o t = [k \in 1..Len(s) + Len(t) |-> IF k <= Len(s) THEN s[k] ELSE t[k - Len(s)]]
<1>1. /\ s \o t \in Seq(S)
      /\ Len(s \o t) = Len(s) + Len(t)
      /\ \A i \in 1..Len(s) + Len(t) : (s \o t)[i] = IF i <= Len(s) THEN s[i] ELSE t[i - Len(s)]
  BY ConcatProperties
<1> DEFINE u == s \o t
<1>2. u \in Seq(S) /\ Len(u) = Len(s) + Len(t)
  BY <1>1
<1> HIDE DEF u
<1>3. u = [k \in 1..Len(u) |-> u[k]]
  BY <1>2
<1>4. u = [k \in 1..Len(s) + Len(t) |-> u[k]]
  BY <1>2, <1>3
<1>5. \A k \in 1..Len(s) + Len(t) : u[k] = IF k <= Len(s) THEN s[k] ELSE t[k - Len(s)]
  BY <1>1 DEF u
<1>6. u = [k \in 1..Len(s) + Len(t) |-> IF k <= Len(s) THEN s[k] ELSE t[k - Len(s)]]
  BY <1>4, <1>5
<1> QED
  BY <1>6 DEF u

\* Places that come before others.
LEMMA SubsequenceConcat ==
  ASSUME NEW J \in SUBSET Nat, IsFiniteSet(J), NEW K \in SUBSET Nat, IsFiniteSet(K),
         NEW s, NEW S, \A i \in J \cup K : s[i] \in S,
         \A j \in J, k \in K : j < k
  PROVE  Subsequence(s, J \cup K) = Subsequence(s, J) \o Subsequence(s, K)
<1> DEFINE m == Cardinality(J)
           n == Cardinality(K)
           f == [k \in 1..m + n |-> IF k <= m THEN NthOf(J, k) ELSE NthOf(K, k - m)]
<1>1. /\ m \in Nat
      /\ \A k \in 1..m : NthOf(J, k) \in J /\ RankIn(J, NthOf(J, k)) = k
      /\ \A i \in J : NthOf(J, RankIn(J, i)) = i
      /\ \A k, l \in 1..m : k < l => NthOf(J, k) < NthOf(J, l)
  BY PlacesAreRanked
<1>2. /\ n \in Nat
      /\ \A k \in 1..n : NthOf(K, k) \in K /\ RankIn(K, NthOf(K, k)) = k
      /\ \A i \in K : NthOf(K, RankIn(K, i)) = i
      /\ \A k, l \in 1..n : k < l => NthOf(K, k) < NthOf(K, l)
  BY PlacesAreRanked
<1>3. (\A i \in J : RankIn(J, i) \in 1..m) /\ (\A i \in K : RankIn(K, i) \in 1..n)
  BY RankType
<1>4. /\ Subsequence(s, J) \in Seq(S) /\ Len(Subsequence(s, J)) = m
      /\ Subsequence(s, K) \in Seq(S) /\ Len(Subsequence(s, K)) = n
  BY SubsequenceType
<1>5. /\ Subsequence(s, J) = [k \in 1..m |-> s[NthOf(J, k)]]
      /\ Subsequence(s, K) = [k \in 1..n |-> s[NthOf(K, k)]]
  BY DEF Subsequence
<1> HIDE DEF m, n
<1>6. \A k \in 1..m + n : (k <= m /\ k \in 1..m) \/ (~(k <= m) /\ k - m \in 1..n)
  BY <1>1, <1>2
<1>7. f \in [1..m + n -> J \cup K]
  BY <1>1, <1>2, <1>6
<1>8. ASSUME NEW i \in J \cup K PROVE \E k \in 1..m + n : f[k] = i
  <2>1. CASE i \in J
    <3>1. RankIn(J, i) \in 1..m + n /\ RankIn(J, i) <= m
      BY <1>1, <1>2, <1>3, <2>1
    <3> QED
      BY <1>1, <2>1, <3>1
  <2>2. CASE i \in K
    <3> DEFINE r == RankIn(K, i)
    <3>1. r \in 1..n
      BY <1>3, <2>2
    <3>2. NthOf(K, r) = i
      BY <1>2, <2>2
    <3> HIDE DEF r
    <3>3. m + r \in 1..m + n /\ ~(m + r <= m) /\ (m + r) - m = r
      BY <1>1, <1>2, <3>1
    <3>4. f[m + r] = i
      BY <3>2, <3>3
    <3> QED
      BY <3>3, <3>4
  <2> QED
    BY <2>1, <2>2
<1>9. ASSUME NEW k \in 1..m + n, NEW l \in 1..m + n, k < l PROVE f[k] < f[l]
  <2>1. CASE l <= m
    <3>1. k \in 1..m /\ l \in 1..m /\ k <= m
      BY <1>1, <1>9, <2>1
    <3> QED
      BY <1>1, <1>9, <2>1, <3>1
  <2>2. CASE k <= m /\ ~(l <= m)
    <3>1. f[k] = NthOf(J, k) /\ f[l] = NthOf(K, l - m)
      BY <2>2
    <3>2. NthOf(J, k) \in J /\ NthOf(K, l - m) \in K
      BY <1>1, <1>2, <1>6, <2>2
    <3> QED
      BY <3>1, <3>2
  <2>3. CASE ~(k <= m)
    <3>1. k - m \in 1..n /\ l - m \in 1..n /\ k - m < l - m /\ ~(l <= m)
      BY <1>1, <1>2, <1>9, <2>3
    <3>2. NthOf(K, k - m) < NthOf(K, l - m)
      BY <1>2, <3>1
    <3> QED
      BY <2>3, <3>1, <3>2
  <2> QED
    BY <1>1, <2>1, <2>2, <2>3
<1>10. Enumerates(f, m + n, J \cup K)
  BY <1>7, <1>8, <1>9 DEF Enumerates
<1>11. Subsequence(s, J \cup K) = [k \in 1..m + n |-> s[f[k]]]
  <2> HIDE DEF f
  <2> DEFINE L == J \cup K
  <2>1. m + n \in Nat /\ L \in SUBSET Nat /\ Enumerates(f, m + n, L)
    BY <1>1, <1>2, <1>10
  <2> HIDE DEF L
  <2>2. Subsequence(s, L) = [k \in 1..m + n |-> s[f[k]]]
    BY <2>1, SubsequenceByEnumeration
  <2> QED
    BY <2>2 DEF L
<1>12. Subsequence(s, J) \o Subsequence(s, K)
         = [k \in 1..m + n |-> IF k <= m THEN Subsequence(s, J)[k] ELSE Subsequence(s, K)[k - m]]
  <2> DEFINE a == Subsequence(s, J)
             b == Subsequence(s, K)
  <2>1. a \in Seq(S) /\ Len(a) = m /\ b \in Seq(S) /\ Len(b) = n
    BY <1>4
  <2> HIDE DEF a, b
  <2>2. a \o b = [k \in 1..Len(a) + Len(b) |-> IF k <= Len(a) THEN a[k] ELSE b[k - Len(a)]]
    BY <2>1, ConcatIsFunction
  <2>3. a \o b = [k \in 1..m + n |-> IF k <= m THEN a[k] ELSE b[k - m]]
    BY <2>1, <2>2
  <2> QED
    BY <2>3 DEF a, b
<1>13. ASSUME NEW k \in 1..m + n
       PROVE  s[f[k]] = IF k <= m THEN Subsequence(s, J)[k] ELSE Subsequence(s, K)[k - m]
  BY <1>5, <1>6
<1> QED
  BY <1>11, <1>12, <1>13

-----------------------------------------------------------------------------
(* The event log: what a client that follows its cursor has been sent.      *)

LogType ==
  /\ log \in Seq(LogEvent) /\ published \in Seq(LogEvent) /\ received \in Seq(LogEvent)
  /\ wanted \subseteq EventKinds /\ torn \in BOOLEAN
  /\ cursor # NoCursor => cursor \in Nat

\* Numbers are given without a gap; the log is the end of what was published.
Consecutive(s) == \A i, j \in DOMAIN s : s[i].sequence + j = s[j].sequence + i
IsTail(s, t) == Len(s) <= Len(t) /\ \A i \in DOMAIN s : s[i] = t[(Len(t) - Len(s)) + i]

DuePlaces(s, c, w) == {i \in DOMAIN s : s[i].sequence < c /\ s[i].kind \in w}

\* A client with cursor c that asks for w was sent r of what was published.
Followed(l, p, c, w, r) ==
  /\ Consecutive(p) /\ IsTail(l, p)
  /\ l = <<>> => p = <<>>
  /\ c <= NextSequence(l)
  /\ r = Subsequence(p, DuePlaces(p, c, w))

LogInv ==
  /\ LogType
  /\ Consecutive(log)
  /\ cursor = NoCursor => received = <<>> /\ torn = FALSE
  /\ cursor # NoCursor /\ ~torn => Followed(log, published, cursor, wanted, received)

LEMMA DuePlacesType ==
  ASSUME NEW p \in Seq(LogEvent), NEW c, NEW w
  PROVE  /\ DuePlaces(p, c, w) \in SUBSET Nat
         /\ IsFiniteSet(DuePlaces(p, c, w))
         /\ \A i \in DuePlaces(p, c, w) : i \in DOMAIN p /\ p[i] \in LogEvent
<1>1. DuePlaces(p, c, w) \in SUBSET (1..Len(p))
  BY DEF DuePlaces
<1>2. IsFiniteSet(1..Len(p))
  BY FS_Interval
<1>3. IsFiniteSet(DuePlaces(p, c, w))
  BY <1>1, <1>2, FS_Subset
<1> QED
  BY <1>1, <1>3

LEMMA EventNumbers ==
  ASSUME NEW s \in Seq(LogEvent)
  PROVE  \A i \in DOMAIN s : s[i].sequence \in Nat
<1> SUFFICES ASSUME NEW i \in DOMAIN s PROVE s[i].sequence \in Nat
  OBVIOUS
<1>1. s[i] \in LogEvent
  OBVIOUS
<1> QED
  BY <1>1 DEF LogEvent

LEMMA NextNumber ==
  ASSUME NEW s \in Seq(LogEvent), Consecutive(s)
  PROVE  /\ NextSequence(s) \in Nat
         /\ \A i \in DOMAIN s : /\ s[i].sequence \in Nat
                                /\ s[i].sequence + Len(s) + 1 = NextSequence(s) + i
                                /\ s[i].sequence < NextSequence(s)
<1>1. \A i \in DOMAIN s : s[i].sequence \in Nat
  BY EventNumbers
<1>2. CASE s = <<>>
  BY <1>2 DEF NextSequence
<1>3. CASE s # <<>>
  <2>1. Len(s) \in DOMAIN s /\ Len(s) \in Nat /\ DOMAIN s = 1..Len(s)
    BY <1>3
  <2>2. NextSequence(s) = s[Len(s)].sequence + 1
    BY <1>3 DEF NextSequence, Last
  <2>3. \A i \in DOMAIN s : s[i].sequence + Len(s) = s[Len(s)].sequence + i
    BY <2>1 DEF Consecutive
  <2>4. ASSUME NEW i \in DOMAIN s
        PROVE  /\ s[i].sequence + Len(s) + 1 = NextSequence(s) + i
               /\ s[i].sequence < NextSequence(s)
    <3>1. /\ i \in Nat /\ i <= Len(s) /\ s[i].sequence \in Nat /\ s[Len(s)].sequence \in Nat
          /\ s[i].sequence + Len(s) = s[Len(s)].sequence + i
      BY <1>1, <2>1, <2>3
    <3> QED
      BY ONLY <2>1, <2>2, <3>1
  <2> QED
    BY <1>1, <2>1, <2>2, <2>4
<1> QED
  BY <1>2, <1>3

LEMMA TailIsConsecutive ==
  ASSUME NEW s \in Seq(LogEvent), NEW t \in Seq(LogEvent), Consecutive(t), IsTail(s, t)
  PROVE  Consecutive(s)
<1> SUFFICES ASSUME NEW i \in DOMAIN s, NEW j \in DOMAIN s
             PROVE  s[i].sequence + j = s[j].sequence + i
  BY DEF Consecutive
<1> DEFINE d == Len(t) - Len(s)
<1>1. d \in Nat /\ d + i \in DOMAIN t /\ d + j \in DOMAIN t /\ i \in Nat /\ j \in Nat
  BY DEF IsTail
<1>2. s[i] = t[d + i] /\ s[j] = t[d + j]
  BY DEF IsTail
<1> HIDE DEF d
<1>3. t[d + i].sequence + (d + j) = t[d + j].sequence + (d + i)
  BY <1>1 DEF Consecutive
<1>4. t[d + i].sequence \in Nat /\ t[d + j].sequence \in Nat
  BY <1>1, EventNumbers
<1>5. t[d + i].sequence + j = t[d + j].sequence + i
  <2> DEFINE same(m, n, k) == \A a, b \in Nat : a + (k + n) = b + (k + m) => a + n = b + m
  <2>1. same(i, j, d)
    <3>1. \A m, n, k \in Nat : same(m, n, k)
      BY ONLY TRUE
    <3> HIDE DEF same
    <3> QED
      BY <1>1, <3>1
  <2> QED
    BY <1>3, <1>4, <2>1, Zenon
<1> QED
  BY <1>2, <1>5

LEMMA TailIsNumberedAlike ==
  ASSUME NEW s \in Seq(LogEvent), NEW t \in Seq(LogEvent), IsTail(s, t), s = <<>> => t = <<>>
  PROVE  NextSequence(s) = NextSequence(t)
<1>1. CASE s = <<>>
  BY <1>1
<1>2. CASE s # <<>>
  <2>1. Len(s) \in DOMAIN s /\ t # <<>> /\ Len(s) \in Nat /\ Len(t) \in Nat
    BY <1>2 DEF IsTail
  <2>2. s[Len(s)] = t[Len(t)]
    BY <2>1 DEF IsTail
  <2> QED
    BY <1>2, <2>1, <2>2 DEF NextSequence, Last
<1> QED
  BY <1>1, <1>2

LEMMA AppendIsConsecutive ==
  ASSUME NEW s \in Seq(LogEvent), Consecutive(s),
         NEW e \in LogEvent, e.sequence = NextSequence(s)
  PROVE  Consecutive(Append(s, e))
<1> DEFINE t == Append(s, e)
<1> SUFFICES ASSUME NEW i \in DOMAIN t, NEW j \in DOMAIN t
             PROVE  t[i].sequence + j = t[j].sequence + i
  BY DEF Consecutive
<1>1. Len(s) \in Nat /\ DOMAIN s = 1..Len(s) /\ DOMAIN t = 1..Len(s) + 1
  OBVIOUS
<1>2. \A k \in DOMAIN t : (k \in DOMAIN s /\ t[k] = s[k]) \/ (k = Len(s) + 1 /\ t[k] = e)
  OBVIOUS
<1> HIDE DEF t
<1>3. ASSUME NEW k \in DOMAIN s
      PROVE  s[k].sequence \in Nat /\ s[k].sequence + (Len(s) + 1) = e.sequence + k
  <2>1. s[k].sequence + Len(s) + 1 = NextSequence(s) + k /\ s[k].sequence \in Nat
    BY NextNumber
  <2> QED
    BY <1>1, <2>1
<1>4. e.sequence \in Nat
  BY DEF LogEvent
<1>5. CASE i \in DOMAIN s /\ j \in DOMAIN s /\ t[i] = s[i] /\ t[j] = s[j]
  BY <1>5 DEF Consecutive
<1>6. CASE i \in DOMAIN s /\ t[i] = s[i] /\ j = Len(s) + 1 /\ t[j] = e
  BY <1>3, <1>6
<1>7. CASE j \in DOMAIN s /\ t[j] = s[j] /\ i = Len(s) + 1 /\ t[i] = e
  BY <1>3, <1>7
<1>8. CASE i = Len(s) + 1 /\ t[i] = e /\ j = Len(s) + 1 /\ t[j] = e
  BY <1>8
<1> QED
  BY <1>2, <1>5, <1>6, <1>7, <1>8

LEMMA KeptIsTail ==
  ASSUME NEW s \in Seq(LogEvent), s # <<>>
  PROVE  Kept(s) \in Seq(LogEvent) /\ IsTail(Kept(s), s) /\ Kept(s) # <<>>
<1> DEFINE d == IF Len(s) > Retention THEN Len(s) - Retention ELSE 0
           t == SubSeq(s, 1 + d, Len(s))
<1>1. Retention \in Nat /\ Retention > 0 /\ Len(s) \in Nat /\ Len(s) > 0
  BY EventLogAssumption
<1>2. d \in Nat /\ d < Len(s)
  BY <1>1
<1>3. Kept(s) = t
  BY DEF Kept
<1> HIDE DEF d
<1>4. \A i \in (1 + d)..Len(s) : s[i] \in LogEvent
  BY <1>2
<1>5. /\ t \in Seq(LogEvent)
      /\ Len(t) = IF 1 + d <= Len(s) THEN Len(s) - (1 + d) + 1 ELSE 0
      /\ \A i \in 1..Len(s) - (1 + d) + 1 : t[i] = s[(1 + d) + i - 1]
  BY <1>1, <1>2, <1>4, SubSeqProperties
<1> HIDE DEF t
<1>6. Len(t) = Len(s) - d
  BY <1>1, <1>2, <1>5
<1>7. ASSUME NEW i \in 1..Len(t) PROVE t[i] = s[(Len(s) - Len(t)) + i]
  <2>1. i \in 1..Len(s) - (1 + d) + 1 /\ (1 + d) + i - 1 = (Len(s) - Len(t)) + i
    BY <1>1, <1>2, <1>6
  <2>2. t[i] = s[(1 + d) + i - 1]
    BY <1>5, <2>1
  <2> QED
    BY <2>1, <2>2
<1>8. IsTail(t, s) /\ t # <<>>
  BY <1>1, <1>2, <1>5, <1>6, <1>7 DEF IsTail
<1> QED
  BY <1>3, <1>5, <1>8 DEF t

LEMMA AppendKeepsTail ==
  ASSUME NEW s \in Seq(LogEvent), NEW t \in Seq(LogEvent), IsTail(s, t), NEW e \in LogEvent
  PROVE  IsTail(Append(s, e), Append(t, e))
<1>1. Len(s) \in Nat /\ Len(t) \in Nat /\ Len(s) <= Len(t)
  BY DEF IsTail
<1>2. Len(Append(s, e)) = Len(s) + 1 /\ Len(Append(t, e)) = Len(t) + 1
  OBVIOUS
<1>3. ASSUME NEW i \in 1..Len(s) + 1
      PROVE  Append(s, e)[i] = Append(t, e)[(Len(t) - Len(s)) + i]
  <2>1. CASE i \in 1..Len(s)
    <3>1. s[i] = t[(Len(t) - Len(s)) + i] /\ (Len(t) - Len(s)) + i \in 1..Len(t)
      BY <1>1, <2>1 DEF IsTail
    <3> QED
      BY <2>1, <3>1
  <2>2. CASE i = Len(s) + 1
    <3>1. (Len(t) - Len(s)) + i = Len(t) + 1
      BY <1>1, <2>2
    <3>2. Append(s, e)[Len(s) + 1] = e /\ Append(t, e)[Len(t) + 1] = e
      OBVIOUS
    <3> QED
      BY <2>2, <3>1, <3>2
  <2> QED
    BY <1>1, <2>1, <2>2
<1>4. DOMAIN Append(s, e) = 1..Len(s) + 1
  OBVIOUS
<1> DEFINE a == Append(s, e)
           b == Append(t, e)
<1>5. Len(b) - Len(a) = Len(t) - Len(s) /\ Len(a) <= Len(b)
  BY <1>1, <1>2
<1>6. \A i \in DOMAIN a : a[i] = b[(Len(t) - Len(s)) + i]
  BY <1>3, <1>4
<1> HIDE DEF a, b
<1>7. IsTail(a, b)
  BY <1>5, <1>6 DEF IsTail
<1> QED
  BY <1>7 DEF a, b

LEMMA TailOfTail ==
  ASSUME NEW s \in Seq(LogEvent), NEW t \in Seq(LogEvent), NEW u \in Seq(LogEvent),
         IsTail(s, t), IsTail(t, u)
  PROVE  IsTail(s, u)
<1>1. Len(s) \in Nat /\ Len(t) \in Nat /\ Len(u) \in Nat /\ Len(s) <= Len(t) /\ Len(t) <= Len(u)
  BY DEF IsTail
<1>2. ASSUME NEW i \in DOMAIN s PROVE s[i] = u[(Len(u) - Len(s)) + i]
  <2> DEFINE j == (Len(t) - Len(s)) + i
  <2>1. s[i] = t[j] /\ j \in DOMAIN t
    BY <1>1 DEF IsTail
  <2>2. t[j] = u[(Len(u) - Len(t)) + j]
    BY <2>1 DEF IsTail
  <2>3. (Len(u) - Len(t)) + j = (Len(u) - Len(s)) + i
    BY <1>1
  <2> QED
    BY <2>1, <2>2, <2>3
<1> QED
  BY <1>1, <1>2 DEF IsTail

\* push_event, for a client that follows the log.
LEMMA PushFollows ==
  ASSUME NEW l \in Seq(LogEvent), NEW p \in Seq(LogEvent), NEW c \in Nat, NEW w, NEW r,
         Followed(l, p, c, w, r),
         NEW e \in LogEvent, e.sequence = NextSequence(l)
  PROVE  Followed(Kept(Append(l, e)), Append(p, e), c, w, r)
<1> DEFINE l2 == Kept(Append(l, e))
           p2 == Append(p, e)
           J == DuePlaces(p, c, w)
<1>1. /\ Consecutive(p) /\ IsTail(l, p) /\ (l = <<>> => p = <<>>)
      /\ c <= NextSequence(l) /\ r = Subsequence(p, J)
  BY DEF Followed
<1>2. Append(l, e) \in Seq(LogEvent) /\ Append(l, e) # <<>> /\ p2 \in Seq(LogEvent)
  OBVIOUS
<1>3. l2 \in Seq(LogEvent) /\ IsTail(l2, Append(l, e)) /\ l2 # <<>>
  BY <1>2, KeptIsTail
<1>4. IsTail(Append(l, e), p2)
  BY <1>1, AppendKeepsTail
<1>5. NextSequence(p) = e.sequence
  BY <1>1, TailIsNumberedAlike
<1>6. Consecutive(p2)
  BY <1>1, <1>5, AppendIsConsecutive
<1> HIDE DEF l2
<1>7. IsTail(l2, p2)
  <2> HIDE DEF p2
  <2> QED
    BY <1>2, <1>3, <1>4, TailOfTail
<1>8. NextSequence(l2) = NextSequence(p2)
  <2> HIDE DEF p2
  <2> QED
    BY <1>2, <1>3, <1>7, TailIsNumberedAlike
<1>9. NextSequence(p2) = e.sequence + 1
  BY DEF NextSequence, Last
<1>10. e.sequence \in Nat
  BY DEF LogEvent
<1>11. c <= NextSequence(l2)
  BY <1>1, <1>8, <1>9, <1>10
<1>12. DuePlaces(p2, c, w) = J
  <2>1. DOMAIN p2 = 1..Len(p) + 1 /\ DOMAIN p = 1..Len(p) /\ Len(p) \in Nat
    OBVIOUS
  <2>2. p2[Len(p) + 1] = e
    OBVIOUS
  <2>3. ~(p2[Len(p) + 1].sequence < c)
    BY <1>1, <1>10, <2>2
  <2>4. \A i \in DOMAIN p : i \in DOMAIN p2 /\ p2[i] = p[i]
    OBVIOUS
  <2> HIDE DEF p2
  <2>5. \A i \in DOMAIN p2 : i \in DOMAIN p \/ i = Len(p) + 1
    BY <2>1
  <2> QED
    BY <2>3, <2>4, <2>5, Zenon DEF DuePlaces
<1>13. Subsequence(p2, J) = Subsequence(p, J)
  <2>1. J \in SUBSET Nat /\ IsFiniteSet(J) /\ \A i \in J : i \in DOMAIN p
    BY DuePlacesType
  <2>2. \A i \in DOMAIN p : p2[i] = p[i]
    OBVIOUS
  <2>3. \A i \in J : p2[i] = p[i]
    BY <2>1, <2>2
  <2> HIDE DEF p2, J
  <2> QED
    BY <2>1, <2>3, SubsequenceFrame
<1>14. Followed(l2, p2, c, w, r)
  <2> HIDE DEF p2, J
  <2> QED
    BY <1>1, <1>3, <1>6, <1>7, <1>11, <1>12, <1>13 DEF Followed
<1> QED
  BY <1>14 DEF l2

\* A client that begins, or that was told of a gap, at the oldest event.
OldestOf(l) == IF l = <<>> THEN 0 ELSE Head(l).sequence

LEMMA OldestIsFirst ==
  ASSUME NEW l \in Seq(LogEvent), Consecutive(l)
  PROVE  /\ OldestOf(l) \in Nat
         /\ OldestOf(l) <= NextSequence(l)
         /\ \A i \in DOMAIN l : l[i].sequence + 1 = OldestOf(l) + i
<1>1. CASE l = <<>>
  BY <1>1 DEF OldestOf, NextSequence
<1>2. CASE l # <<>>
  <2>1. 1 \in DOMAIN l /\ Head(l) = l[1] /\ OldestOf(l) = l[1].sequence
    BY <1>2 DEF OldestOf
  <2>2. l[1].sequence \in Nat /\ l[1].sequence < NextSequence(l) /\ NextSequence(l) \in Nat
    BY <2>1, NextNumber
  <2>3. \A i \in DOMAIN l : l[i].sequence + 1 = l[1].sequence + i
    BY <2>1 DEF Consecutive
  <2> QED
    BY <2>1, <2>2, <2>3
<1> QED
  BY <1>1, <1>2

LEMMA StartFollows ==
  ASSUME NEW l \in Seq(LogEvent), Consecutive(l), NEW w
  PROVE  Followed(l, l, OldestOf(l), w, <<>>)
<1>1. /\ OldestOf(l) \in Nat /\ OldestOf(l) <= NextSequence(l)
      /\ \A i \in DOMAIN l : l[i].sequence + 1 = OldestOf(l) + i
  BY OldestIsFirst
<1>2. IsTail(l, l)
  BY DEF IsTail
<1>3. ASSUME NEW i \in DOMAIN l PROVE ~(l[i].sequence < OldestOf(l))
  <2>1. i \in Nat /\ i >= 1 /\ l[i].sequence \in Nat
    BY EventNumbers
  <2>2. l[i].sequence + 1 = OldestOf(l) + i
    BY <1>1
  <2> QED
    BY <1>1, <2>1, <2>2
<1>4. DuePlaces(l, OldestOf(l), w) = {}
  BY <1>3 DEF DuePlaces
<1>5. Subsequence(l, {}) = <<>>
  BY SubsequenceOfNothing
<1> QED
  BY <1>1, <1>2, <1>4, <1>5 DEF Followed

\* poll_events, for a client that was not told of a gap: a batch is the first of
\* the events it wants that it was not sent yet.
FitPlaces(l, c, w) == {i \in DOMAIN l : l[i].sequence >= c /\ l[i].kind \in w}
Batch(l, c, w) ==
  LET f == Subsequence(l, FitPlaces(l, c, w))
  IN SubSeq(f, 1, IF Len(f) < Limit THEN Len(f) ELSE Limit)
CursorAfter(events, c) == IF events = <<>> THEN c ELSE Last(events).sequence + 1

LEMMA FitPlacesType ==
  ASSUME NEW l \in Seq(LogEvent), NEW c, NEW w
  PROVE  /\ FitPlaces(l, c, w) \in SUBSET Nat
         /\ IsFiniteSet(FitPlaces(l, c, w))
         /\ \A i \in FitPlaces(l, c, w) : i \in DOMAIN l /\ l[i] \in LogEvent
<1>1. FitPlaces(l, c, w) \in SUBSET (1..Len(l))
  BY DEF FitPlaces
<1>2. IsFiniteSet(1..Len(l))
  BY FS_Interval
<1>3. IsFiniteSet(FitPlaces(l, c, w))
  BY <1>1, <1>2, FS_Subset
<1> QED
  BY <1>1, <1>3

\* What a batch is: the elements at the wanted places up to some place.
LEMMA BatchIsSubsequence ==
  ASSUME NEW l \in Seq(LogEvent), NEW c \in Nat, NEW w
  PROVE  /\ Batch(l, c, w) \in Seq(LogEvent)
         /\ Batch(l, c, w) # <<>> =>
              \E q \in FitPlaces(l, c, w) :
                /\ Last(Batch(l, c, w)) = l[q]
                /\ Batch(l, c, w) = Subsequence(l, {i \in FitPlaces(l, c, w) : i <= q})
<1> DEFINE F == FitPlaces(l, c, w)
           f == Subsequence(l, F)
           m == IF Len(f) < Limit THEN Len(f) ELSE Limit
           b == SubSeq(f, 1, m)
<1>1. F \in SUBSET Nat /\ IsFiniteSet(F) /\ \A i \in F : i \in DOMAIN l /\ l[i] \in LogEvent
  BY FitPlacesType
<1>2. Batch(l, c, w) = b
  BY DEF Batch
<1> HIDE DEF F
<1>3. /\ f \in Seq(LogEvent) /\ Len(f) = Cardinality(F) /\ Cardinality(F) \in Nat
      /\ \A k \in 1..Cardinality(F) : NthOf(F, k) \in F /\ f[k] = l[NthOf(F, k)]
  BY <1>1, SubsequenceType
<1>4. Limit \in Nat
  BY EventLogAssumption
<1> HIDE DEF f
<1>5. m \in 0..Cardinality(F) /\ m \in Nat /\ m <= Len(f)
  BY <1>3, <1>4
<1> HIDE DEF m
<1>6. b \in Seq(LogEvent) /\ Len(b) = m /\ \A i \in 1..m : b[i] = f[i]
  BY <1>3, <1>5
<1>7. ASSUME b # <<>>
      PROVE  \E q \in F : Last(b) = l[q] /\ b = Subsequence(l, {i \in F : i <= q})
  <2> DEFINE q == NthOf(F, m)
  <2>1. m \in 1..m /\ m \in 1..Cardinality(F)
    BY <1>5, <1>6, <1>7
  <2>2. q \in F /\ RankIn(F, q) = m
    BY <1>1, <2>1, PlacesAreRanked
  <2>3. Last(b) = l[q]
    BY <1>3, <1>6, <2>1 DEF Last
  <2>4. b = Subsequence(l, {i \in F : RankIn(F, i) <= m})
    BY <1>1, <1>5, SubsequencePrefix DEF f
  <2> HIDE DEF q
  <2>5. ASSUME NEW i \in F PROVE RankIn(F, i) <= m <=> i <= q
    <3>1. i \in Nat /\ q \in Nat /\ RankIn(F, i) \in Nat
      BY <1>1, <2>2, RankType
    <3>2. i < q => RankIn(F, i) < m
      BY <1>1, <2>2, RankGrows
    <3>3. q < i => m < RankIn(F, i)
      BY <1>1, <2>2, RankGrows
    <3>4. i = q => RankIn(F, i) = m
      BY <2>2
    <3> QED
      BY <1>5, <3>1, <3>2, <3>3, <3>4
  <2>6. {i \in F : RankIn(F, i) <= m} = {i \in F : i <= q}
    BY <2>5
  <2> QED
    BY <2>2, <2>3, <2>4, <2>6
<1> HIDE DEF b
<1> QED
  BY <1>2, <1>6, <1>7 DEF F

LEMMA PollFollows ==
  ASSUME NEW l \in Seq(LogEvent), NEW p \in Seq(LogEvent), NEW c \in Nat, NEW w,
         NEW r \in Seq(LogEvent), Consecutive(l), Followed(l, p, c, w, r), OldestOf(l) <= c
  PROVE  /\ CursorAfter(Batch(l, c, w), c) \in Nat
         /\ Followed(l, p, CursorAfter(Batch(l, c, w), c), w, r \o Batch(l, c, w))
<1> DEFINE b == Batch(l, c, w)
           F == FitPlaces(l, c, w)
           J == DuePlaces(p, c, w)
           d == Len(p) - Len(l)
<1>1. b \in Seq(LogEvent)
  BY BatchIsSubsequence
<1>2. /\ Consecutive(p) /\ IsTail(l, p) /\ (l = <<>> => p = <<>>)
      /\ c <= NextSequence(l) /\ r = Subsequence(p, J)
  BY DEF Followed
<1>3. CASE b = <<>>
  <2>1. r \o b = r
    BY <1>3
  <2> HIDE DEF b
  <2>2. CursorAfter(b, c) = c
    BY <1>3 DEF CursorAfter
  <2> QED
    BY <2>1, <2>2 DEF b
<1>4. CASE b # <<>>
  <2>1. PICK q \in F : Last(b) = l[q] /\ b = Subsequence(l, {i \in F : i <= q})
    BY <1>4, BatchIsSubsequence
  <2> DEFINE c2 == l[q].sequence + 1
             G == {i \in F : i <= q}
             K == {d + i : i \in G}
  <2>2. CursorAfter(b, c) = c2
    <3> HIDE DEF b
    <3> QED
      BY <1>4, <2>1 DEF CursorAfter
  <2>3. q \in DOMAIN l /\ l[q].sequence \in Nat /\ c <= l[q].sequence
    BY EventNumbers DEF FitPlaces
  <2>4. l[q].sequence < NextSequence(l) /\ NextSequence(l) \in Nat
    BY <2>3, NextNumber
  <2>5. c2 \in Nat /\ c2 <= NextSequence(l)
    BY <2>3, <2>4
  <2>6. /\ Len(l) \in Nat /\ Len(p) \in Nat /\ d \in Nat
        /\ \A i \in DOMAIN l : i \in Nat /\ d + i \in DOMAIN p /\ l[i] = p[d + i]
    BY <1>2 DEF IsTail
  <2>7. \A i \in DOMAIN p : i \in Nat /\ p[i].sequence \in Nat
    BY EventNumbers
  <2>8. \A i \in DOMAIN p : i > d => i - d \in DOMAIN l /\ d + (i - d) = i
    BY <2>6
  <2> HIDE DEF d
  <2>9. \A i, j \in DOMAIN p : i <= j <=> p[i].sequence <= p[j].sequence
    <3> SUFFICES ASSUME NEW i \in DOMAIN p, NEW j \in DOMAIN p
                 PROVE  i <= j <=> p[i].sequence <= p[j].sequence
      OBVIOUS
    <3>1. p[i].sequence + j = p[j].sequence + i
      BY <1>2 DEF Consecutive
    <3>2. i \in Nat /\ j \in Nat /\ p[i].sequence \in Nat /\ p[j].sequence \in Nat
      BY <2>7
    <3> QED
      BY <3>1, <3>2
  <2>10. DuePlaces(p, c2, w) = J \cup K
    <3>1. ASSUME NEW a \in DuePlaces(p, c2, w), a \notin J PROVE a \in K
      <4>1. /\ a \in DOMAIN p /\ p[a].sequence < c2 /\ p[a].kind \in w
            /\ ~(p[a].sequence < c)
        BY <3>1 DEF DuePlaces
      <4>2. a \in Nat /\ p[a].sequence \in Nat /\ p[a].sequence >= c
        BY <2>7, <4>1
      <4>3. a > d
        <5> SUFFICES ASSUME ~(a > d) PROVE FALSE
          OBVIOUS
        <5>1. 1 \in DOMAIN l
          BY <2>3
        <5>2. l[1].sequence + 1 = OldestOf(l) + 1 /\ OldestOf(l) \in Nat
          BY <5>1, OldestIsFirst
        <5>3. l[1] = p[d + 1] /\ d + 1 \in DOMAIN p /\ p[d + 1].sequence \in Nat
          BY <2>6, <2>7, <5>1
        <5>4. p[d + 1].sequence <= c
          BY <5>2, <5>3
        <5>5. ~(d + 1 <= a)
          BY <2>6, <4>2
        <5>6. ~(p[d + 1].sequence <= p[a].sequence)
          BY <2>9, <4>1, <5>3, <5>5
        <5> QED
          BY <4>2, <5>3, <5>4, <5>6
      <4>4. a - d \in DOMAIN l /\ d + (a - d) = a /\ l[a - d] = p[a]
        BY <2>6, <2>8, <4>1, <4>3
      <4>5. a - d \in F
        BY <4>1, <4>2, <4>4 DEF FitPlaces
      <4>6. p[a].sequence <= p[d + q].sequence
        BY <2>3, <2>6, <4>1, <4>2
      <4>7. a <= d + q
        BY <2>3, <2>6, <2>9, <4>1, <4>6
      <4>8. a - d <= q
        BY <2>3, <2>6, <4>2, <4>7
      <4>9. a - d \in G
        BY <4>5, <4>8
      <4> QED
        BY <4>4, <4>9
    <3>2. ASSUME NEW a \in J PROVE a \in DuePlaces(p, c2, w)
      <4>1. a \in DOMAIN p /\ p[a].sequence < c /\ p[a].kind \in w
        BY DEF DuePlaces
      <4>2. p[a].sequence \in Nat
        BY <2>7, <4>1
      <4>3. p[a].sequence < c2
        BY <2>3, <4>1, <4>2
      <4> QED
        BY <4>1, <4>3 DEF DuePlaces
    <3>3. ASSUME NEW i \in G PROVE d + i \in DuePlaces(p, c2, w)
      <4>1. i \in DOMAIN l /\ l[i].kind \in w /\ i <= q
        BY DEF FitPlaces
      <4>2. d + i \in DOMAIN p /\ l[i] = p[d + i] /\ d + q \in DOMAIN p /\ l[q] = p[d + q]
        BY <2>3, <2>6, <4>1
      <4>3. d + i <= d + q
        BY <2>3, <2>6, <4>1
      <4>4. p[d + i].sequence <= p[d + q].sequence
        BY <2>9, <4>2, <4>3
      <4>5. p[d + i].sequence \in Nat
        BY <2>7, <4>2
      <4>6. p[d + i].sequence < c2
        BY <2>3, <4>2, <4>4, <4>5
      <4> QED
        BY <4>1, <4>2, <4>6 DEF DuePlaces
    <3> QED
      BY <3>1, <3>2, <3>3
  <2>11. G \in SUBSET Nat /\ IsFiniteSet(G) /\ \A i \in G : i \in DOMAIN l
    <3>1. F \in SUBSET Nat /\ IsFiniteSet(F) /\ \A i \in F : i \in DOMAIN l
      BY FitPlacesType
    <3> HIDE DEF F
    <3>2. G \in SUBSET F
      OBVIOUS
    <3>3. IsFiniteSet(G)
      BY <3>1, <3>2, FS_Subset
    <3> QED
      BY <3>1, <3>3
  <2>12. Subsequence(p, K) = b
    <3>1. \A i \in G : p[d + i] = l[i]
      BY <2>6, <2>11
    <3> HIDE DEF G, b
    <3>2. Subsequence(p, {d + i : i \in G}) = Subsequence(l, G)
      BY <2>6, <2>11, <3>1, SubsequenceShift
    <3>3. b = Subsequence(l, G)
      BY <2>1 DEF G
    <3> QED
      BY <3>2, <3>3
  <2>13. /\ J \in SUBSET Nat /\ IsFiniteSet(J) /\ \A i \in J : i \in DOMAIN p /\ p[i] \in LogEvent
         /\ DuePlaces(p, c2, w) \in SUBSET Nat /\ IsFiniteSet(DuePlaces(p, c2, w))
         /\ \A i \in DuePlaces(p, c2, w) : p[i] \in LogEvent
    BY DuePlacesType
  <2>14. K \in SUBSET DuePlaces(p, c2, w)
    BY <2>10
  <2>15. K \in SUBSET Nat /\ IsFiniteSet(K)
    BY <2>13, <2>14, FS_Subset
  <2>16. ASSUME NEW j \in J, NEW k \in K PROVE j < k
    <3>1. PICK i \in G : k = d + i
      OBVIOUS
    <3>2. i \in DOMAIN l /\ l[i].sequence >= c
      BY DEF FitPlaces
    <3>3. k \in DOMAIN p /\ p[k].sequence >= c
      BY <2>6, <3>1, <3>2
    <3>4. j \in DOMAIN p /\ p[j].sequence < c
      BY DEF DuePlaces
    <3>5. ~(p[k].sequence <= p[j].sequence)
      BY <2>7, <3>3, <3>4
    <3>6. ~(k <= j)
      BY <2>9, <3>3, <3>4, <3>5
    <3> QED
      BY <2>7, <3>3, <3>4, <3>6
  <2>17. Subsequence(p, J \cup K) = Subsequence(p, J) \o Subsequence(p, K)
    <3>1. \A i \in J \cup K : p[i] \in LogEvent
      BY <2>10, <2>13
    <3> HIDE DEF J, K
    <3> QED
      BY <2>13, <2>15, <2>16, <3>1, SubsequenceConcat
  <2>18. r \o b = Subsequence(p, DuePlaces(p, c2, w))
    <3> HIDE DEF J, K, b, c2
    <3> QED
      BY <1>2, <2>10, <2>12, <2>17
  <2>19. Followed(l, p, c2, w, r \o b)
    <3> HIDE DEF b, c2
    <3> QED
      BY <1>2, <2>5, <2>18 DEF Followed
  <2> HIDE DEF b, c2
  <2>20. CursorAfter(b, c) \in Nat /\ Followed(l, p, CursorAfter(b, c), w, r \o b)
    BY <2>2, <2>5, <2>19
  <2> QED
    BY <2>20 DEF b
<1> QED
  BY <1>3, <1>4

LEMMA EventLogStarts == EventLogInit => LogInv
<1> SUFFICES ASSUME EventLogInit PROVE LogInv
  OBVIOUS
<1>1. LogType
  <2>1. <<>> \in Seq(LogEvent) /\ FALSE \in BOOLEAN
    OBVIOUS
  <2> QED
    BY <2>1, Zenon DEF EventLogInit, LogType
<1>2. Consecutive(log)
  BY DEF EventLogInit, Consecutive
<1> QED
  BY <1>1, <1>2 DEF EventLogInit, LogInv

LEMMA PushInv ==
  ASSUME LogInv, NEW kind \in EventKinds, Push(kind)
  PROVE  LogInv'
<1> DEFINE event == [sequence |-> NextSequence(log), kind |-> kind]
<1>1. /\ log' = Kept(Append(log, event)) /\ published' = Append(published, event)
      /\ cursor' = cursor /\ wanted' = wanted /\ received' = received /\ torn' = torn
  BY DEF Push
<1>2. LogType /\ Consecutive(log)
  BY DEF LogInv
<1>3. log \in Seq(LogEvent) /\ published \in Seq(LogEvent)
  BY <1>2 DEF LogType
<1>4. NextSequence(log) \in Nat
  BY <1>2, <1>3, NextNumber
<1>5. event \in LogEvent /\ event.sequence = NextSequence(log)
  BY <1>4 DEF LogEvent
<1> HIDE DEF event
<1>6. Append(log, event) \in Seq(LogEvent) /\ Append(log, event) # <<>>
      /\ Append(published, event) \in Seq(LogEvent)
  BY <1>3, <1>5
<1>7. Consecutive(Append(log, event))
  BY <1>2, <1>3, <1>5, AppendIsConsecutive
<1>8. log' \in Seq(LogEvent) /\ IsTail(log', Append(log, event))
  BY <1>1, <1>6, KeptIsTail
<1>9. Consecutive(log')
  BY <1>6, <1>7, <1>8, TailIsConsecutive
<1>10. LogType'
  BY <1>1, <1>2, <1>6, <1>8 DEF LogType
<1>11. ASSUME cursor # NoCursor, ~torn PROVE Followed(log', published', cursor, wanted, received)
  <2>1. Followed(log, published, cursor, wanted, received) /\ cursor \in Nat
    BY <1>2, <1>11 DEF LogInv, LogType
  <2>2. Followed(Kept(Append(log, event)), Append(published, event), cursor, wanted, received)
    BY <1>3, <1>5, <2>1, PushFollows
  <2> QED
    BY <1>1, <2>2
<1>12. cursor = NoCursor => received = <<>> /\ torn = FALSE
  BY DEF LogInv
<1>13. cursor' # NoCursor /\ ~torn' => Followed(log', published', cursor', wanted', received')
  BY <1>1, <1>11
<1>14. cursor' = NoCursor => received' = <<>> /\ torn' = FALSE
  BY <1>1, <1>12
<1>15. Consecutive(log)'
  BY <1>9 DEF Consecutive
<1>16. Followed(log, published, cursor, wanted, received)'
         <=> Followed(log', published', cursor', wanted', received')
  OBVIOUS
<1> QED
  BY <1>10, <1>13, <1>14, <1>15, <1>16 DEF LogInv

LEMMA PollInv ==
  ASSUME LogInv, Poll
  PROVE  LogInv'
<1> DEFINE c == IF cursor = NoCursor THEN OldestOf(log) ELSE cursor
           p == IF cursor = NoCursor THEN log ELSE published
           b == Batch(log, c, wanted)
<1>1. From = c /\ Oldest = OldestOf(log)
  BY DEF From, Oldest, OldestOf
<1>2. Selected(log) = b
  BY <1>1 DEF Selected, Batch, FitPlaces
<1>3. /\ received' = received \o Selected(log)
      /\ cursor' = IF Selected(log) = <<>> THEN From ELSE Last(Selected(log)).sequence + 1
      /\ published' = p
      /\ log' = log /\ wanted' = wanted /\ torn' = torn
      /\ ~(From < Oldest)
  BY DEF Poll, Lagged
<1>4. LogType /\ Consecutive(log)
  BY DEF LogInv
<1>5. /\ log \in Seq(LogEvent) /\ published \in Seq(LogEvent) /\ received \in Seq(LogEvent)
  BY <1>4 DEF LogType
<1>6. OldestOf(log) \in Nat
  BY <1>4, <1>5, OldestIsFirst
<1>7. c \in Nat /\ OldestOf(log) <= c
  BY <1>1, <1>3, <1>4, <1>6 DEF LogType
<1>8. b \in Seq(LogEvent)
  <2> HIDE DEF c
  <2> QED
    BY <1>5, <1>7, BatchIsSubsequence
<1>9. cursor' = CursorAfter(b, c) /\ received' = received \o b
  <2> HIDE DEF b, c
  <2> QED
    BY <1>1, <1>2, <1>3 DEF CursorAfter
<1>10. CursorAfter(b, c) \in Nat
  <2>1. CASE b = <<>>
    BY <1>7, <2>1 DEF CursorAfter
  <2>2. CASE b # <<>>
    <3> HIDE DEF b, c
    <3>1. Len(b) \in DOMAIN b
      BY <1>8, <2>2
    <3>2. b[Len(b)].sequence \in Nat
      BY <1>8, <3>1, EventNumbers
    <3> QED
      BY <2>2, <3>2 DEF CursorAfter, Last
  <2> QED
    BY <2>1, <2>2
<1>11. ASSUME ~torn PROVE Followed(log, p, c, wanted, received)
  <2>1. CASE cursor = NoCursor
    <3>1. received = <<>> /\ c = OldestOf(log) /\ p = log
      BY <2>1 DEF LogInv
    <3> HIDE DEF c, p
    <3>2. Followed(log, log, OldestOf(log), wanted, <<>>)
      BY <1>4, <1>5, StartFollows
    <3> QED
      BY <3>1, <3>2
  <2>2. CASE cursor # NoCursor
    BY <1>11, <2>2 DEF LogInv
  <2> QED
    BY <2>1, <2>2
<1>12. p \in Seq(LogEvent)
  BY <1>5
<1> HIDE DEF p, c
<1>13. ASSUME ~torn PROVE Followed(log, p, CursorAfter(b, c), wanted, received \o b)
  BY <1>4, <1>5, <1>7, <1>11, <1>12, <1>13, PollFollows
<1> HIDE DEF b
<1>14. received' \in Seq(LogEvent)
  <2>1. received \o b \in Seq(LogEvent)
    BY <1>5, <1>8, ConcatProperties
  <2> QED
    BY <1>9, <2>1
<1>15. cursor' \in Nat /\ cursor' # NoCursor
  BY <1>9, <1>10, EventLogAssumption
<1>16. LogType'
  BY <1>3, <1>4, <1>12, <1>14, <1>15 DEF LogType
<1>17. Consecutive(log)'
  BY <1>3, <1>4 DEF Consecutive
<1>18. ASSUME ~torn' PROVE Followed(log, published, cursor, wanted, received)'
  <2>1. Followed(log, p, CursorAfter(b, c), wanted, received \o b)
    BY <1>3, <1>13, <1>18
  <2>2. Followed(log', published', cursor', wanted', received')
    BY <1>3, <1>9, <2>1
  <2> QED
    BY <2>2
<1> QED
  BY <1>15, <1>16, <1>17, <1>18 DEF LogInv

LEMMA RestartedInv ==
  ASSUME LogInv, Restarted
  PROVE  LogInv'
<1>1. /\ cursor' = Oldest /\ received' = <<>> /\ published' = log /\ torn' = FALSE
      /\ log' = log /\ wanted' = wanted
  BY DEF Restarted
<1>2. Oldest = OldestOf(log)
  BY DEF Oldest, OldestOf
<1>3. LogType /\ Consecutive(log)
  BY DEF LogInv
<1>4. log \in Seq(LogEvent)
  BY <1>3 DEF LogType
<1>5. cursor' \in Nat /\ cursor' # NoCursor
  BY <1>1, <1>2, <1>3, <1>4, OldestIsFirst, EventLogAssumption
<1>6. LogType'
  <2>1. <<>> \in Seq(LogEvent) /\ FALSE \in BOOLEAN
    OBVIOUS
  <2> QED
    BY <1>1, <1>3, <1>5, <2>1, Zenon DEF LogType
<1>7. Consecutive(log)'
  BY <1>1, <1>3 DEF Consecutive
<1>8. Followed(log, log, OldestOf(log), wanted, <<>>)
  BY <1>3, <1>4, StartFollows
<1>9. Followed(log', published', cursor', wanted', received')
  BY <1>1, <1>2, <1>8
<1>10. Followed(log, published, cursor, wanted, received)'
  BY <1>9
<1> QED
  BY <1>5, <1>6, <1>7, <1>10 DEF LogInv

LEMMA RollbackInv ==
  ASSUME LogInv, Rollback
  PROVE  LogInv'
<1>1. /\ log' = <<>> /\ torn' = (cursor # NoCursor)
      /\ published' = IF cursor = NoCursor THEN <<>> ELSE published
      /\ cursor' = cursor /\ wanted' = wanted /\ received' = received
  BY DEF Rollback
<1>2. LogType /\ (cursor = NoCursor => received = <<>> /\ torn = FALSE)
  BY DEF LogInv
<1>3. LogType'
  BY <1>1, <1>2 DEF LogType
<1>4. Consecutive(log)'
  BY <1>1 DEF Consecutive
<1> QED
  BY <1>1, <1>2, <1>3, <1>4 DEF LogInv

\* The inductive invariant of the event log.
THEOREM EventLogIsInductive == EventLogSpec => []LogInv
<1>1. LogInv /\ [EventLogNext]_eventLogVars => LogInv'
  <2> SUFFICES ASSUME LogInv, [EventLogNext]_eventLogVars PROVE LogInv'
    OBVIOUS
  <2>1. CASE \E kind \in EventKinds : Push(kind)
    BY <2>1, PushInv
  <2>2. CASE Poll
    BY <2>2, PollInv
  <2>3. CASE PollLagged
    BY <2>3, RestartedInv DEF PollLagged
  <2>4. CASE PollExpired
    BY <2>4, RestartedInv DEF PollExpired
  <2>5. CASE Rollback
    BY <2>5, RollbackInv
  <2>6. CASE UNCHANGED eventLogVars
    <3>1. /\ log' = log /\ cursor' = cursor /\ wanted' = wanted
          /\ received' = received /\ published' = published /\ torn' = torn
      BY <2>6 DEF eventLogVars
    <3>2. LogType' /\ Consecutive(log)'
      BY <3>1 DEF LogInv, LogType, Consecutive
    <3>3. Followed(log, published, cursor, wanted, received)
            => Followed(log', published', cursor', wanted', received')
      BY <3>1
    <3> QED
      BY <3>1, <3>2, <3>3 DEF LogInv
  <2> QED
    BY <2>1, <2>2, <2>3, <2>4, <2>5, <2>6 DEF EventLogNext
<1> QED
  BY <1>1, EventLogStarts, PTL DEF EventLogSpec

\* A client that follows its cursor misses nothing (poll_events, push_event): for
\* every retention, limit and set of kinds, and however pushes, polls, expiries and
\* rollbacks interleave.
THEOREM NothingIsSkipped == EventLogSpec => []NothingSkipped
<1>1. LogInv => NothingSkipped
  BY DEF LogInv, NothingSkipped, Followed, DuePlaces
<1> QED
  BY <1>1, EventLogIsInductive, PTL

-----------------------------------------------------------------------------
(* ModelStream: the calls of a committed turn are the calls the model made.  *)

StreamCall == [id : CallNames, size : Nat, sent : Nat]
ProposedCall == [id : CallNames, input : Seq(Nat \X Nat)]

StreamType ==
  /\ format \in Formats /\ messageEnd \in {"open", "whole", "cut"}
  /\ answer \in {"streaming", "committed", "failed"}
  /\ message \in Seq(StreamCall)
  /\ callOfKey \in Seq(CallNames) /\ Len(callOfKey) = Len(message)
  /\ callOrder \in Seq(CallNames)
  /\ proposals \in Seq(ProposedCall)

\* The fragments of call b of a message m, all of them and those sent; the call is
\* pending once the accumulator has heard of it.
WholeInput(m, b) == [k \in 1..m[b].size |-> <<b, k>>]
SentInput(m, b) == [k \in 1..m[b].sent |-> <<b, k>>]
Pends(m, f, b) == f = "responses" => m[b].sent > 0

DistinctIds(m) == \A b, d \in DOMAIN m : m[b].id = m[d].id => b = d

\* The provider keeps to its sizes and the adapter to its keys.
WireInv(m, f, end, keys) ==
  /\ DistinctIds(m)
  /\ \A b \in DOMAIN m :
       /\ m[b].sent <= m[b].size /\ keys[b] = m[b].id
       /\ f = "responses" => m[b].size > 0
       /\ end = "whole" => m[b].sent = m[b].size

\* pending_tool_calls holds what was sent of every pending call.
InputsInv(m, f, ins) ==
  /\ \A i \in DOMAIN ins : \E b \in DOMAIN m : m[b].id = i /\ Pends(m, f, b)
  /\ \A b \in DOMAIN m :
       Pends(m, f, b) => m[b].id \in DOMAIN ins /\ ins[m[b].id] = SentInput(m, b)

\* tool_call_order names every pending call once.
OrderInv(order, ins) ==
  /\ \A m, n \in DOMAIN order : order[m] = order[n] => m = n
  /\ \A n \in DOMAIN order : order[n] \in DOMAIN ins
  /\ \A i \in DOMAIN ins : \E n \in DOMAIN order : order[n] = i

\* Only whole calls are proposed while the message streams, each id once.
WholeProposals(m, props) ==
  \A p \in DOMAIN props : \E b \in DOMAIN m :
    m[b].sent = m[b].size /\ props[p] = Proposal(m[b].id, WholeInput(m, b))
OneProposalEach(props) == \A p, q \in DOMAIN props : props[p].id = props[q].id => p = q

StreamInv ==
  /\ StreamType
  /\ WireInv(message, format, messageEnd, callOfKey)
  /\ InputsInv(message, format, inputs)
  /\ OrderInv(callOrder, inputs)
  /\ answer # "committed" => WholeProposals(message, proposals)
  /\ OneProposalEach(proposals)
  /\ answer = "committed" => CallsAreTheModels

LEMMA StreamCallFields ==
  ASSUME NEW m \in Seq(StreamCall)
  PROVE  \A b \in DOMAIN m : m[b].id \in CallNames /\ m[b].size \in Nat /\ m[b].sent \in Nat
<1> SUFFICES ASSUME NEW b \in DOMAIN m
             PROVE  m[b].id \in CallNames /\ m[b].size \in Nat /\ m[b].sent \in Nat
  OBVIOUS
<1>1. m[b] \in StreamCall
  OBVIOUS
<1> QED
  BY <1>1 DEF StreamCall

LEMMA SentInputType ==
  ASSUME NEW m \in Seq(StreamCall), NEW b \in DOMAIN m
  PROVE  /\ SentInput(m, b) \in Seq(Nat \X Nat) /\ Len(SentInput(m, b)) = m[b].sent
         /\ WholeInput(m, b) \in Seq(Nat \X Nat) /\ Len(WholeInput(m, b)) = m[b].size
<1>1. m[b].size \in Nat /\ m[b].sent \in Nat /\ b \in Nat
  BY StreamCallFields
<1>2. \A n \in Nat : /\ [k \in 1..n |-> <<b, k>>] \in Seq(Nat \X Nat)
                     /\ Len([k \in 1..n |-> <<b, k>>]) = n
  BY <1>1
<1> QED
  BY <1>1, <1>2 DEF SentInput, WholeInput

\* Fragments of two calls differ.
LEMMA InputsDiffer ==
  ASSUME NEW m \in Seq(StreamCall), NEW m2 \in Seq(StreamCall), NEW b \in DOMAIN m2,
         NEW d \in DOMAIN m, SentInput(m2, b) = WholeInput(m, d), SentInput(m2, b) # <<>>
  PROVE  d = b /\ m2[b].sent = m[d].size
<1>1. /\ SentInput(m2, b) \in Seq(Nat \X Nat) /\ Len(SentInput(m2, b)) = m2[b].sent
      /\ Len(WholeInput(m, d)) = m[d].size
  BY SentInputType
<1>2. m2[b].sent = m[d].size /\ m2[b].sent \in Nat
  BY <1>1
<1>3. m2[b].sent # 0
  BY <1>1
<1>4. 1 \in 1..m2[b].sent /\ 1 \in 1..m[d].size
  BY <1>2, <1>3
<1>5. SentInput(m2, b)[1] = <<b, 1>> /\ WholeInput(m, d)[1] = <<d, 1>>
  BY <1>4 DEF SentInput, WholeInput
<1> QED
  BY <1>2, <1>5

(***************************************************************************)
(* TurnAccumulator::push for a fragment of call b.                         *)
(***************************************************************************)
Grown(ins, id, input) == [i \in DOMAIN ins \cup {id} |-> IF i = id THEN input ELSE ins[i]]
KnownOf(ins, id) == IF id \in DOMAIN ins THEN ins[id] ELSE <<>>

\* m2 is m after an event about call b.
Grows(m, m2, b) ==
  /\ b \in DOMAIN m2
  /\ \A d \in DOMAIN m2 : d # b => d \in DOMAIN m /\ m2[d] = m[d]
  /\ \A d \in DOMAIN m : d \in DOMAIN m2 /\ m2[d].id = m[d].id /\ m2[d].size = m[d].size
  /\ b \in DOMAIN m => m[b].sent # m[b].size

LEMMA GrownInputs ==
  ASSUME NEW m \in Seq(StreamCall), NEW m2 \in Seq(StreamCall), NEW b, NEW f, NEW ins, NEW input,
         Grows(m, m2, b), DistinctIds(m2), Pends(m2, f, b), input = SentInput(m2, b),
         InputsInv(m, f, ins)
  PROVE  InputsInv(m2, f, Grown(ins, m2[b].id, input))
<1> DEFINE id == m2[b].id
           ins2 == Grown(ins, id, input)
<1>1. DOMAIN ins2 = DOMAIN ins \cup {id} /\ ins2[id] = input
      /\ \A i \in DOMAIN ins : i # id => ins2[i] = ins[i]
  BY DEF Grown
<1> HIDE DEF ins2
<1>2. ASSUME NEW i \in DOMAIN ins2
      PROVE  \E d \in DOMAIN m2 : m2[d].id = i /\ Pends(m2, f, d)
  <2>1. CASE i = id
    BY <2>1 DEF Grows
  <2>2. CASE i # id
    <3>1. PICK d \in DOMAIN m : m[d].id = i /\ Pends(m, f, d)
      BY <1>1, <2>2 DEF InputsInv
    <3>2. d \in DOMAIN m2 /\ m2[d].id = i
      BY <3>1 DEF Grows
    <3>3. d # b
      BY <2>2, <3>2
    <3>4. m2[d] = m[d]
      BY <3>2, <3>3 DEF Grows
    <3>5. Pends(m2, f, d)
      BY <3>1, <3>4 DEF Pends
    <3> QED
      BY <3>2, <3>5
  <2> QED
    BY <2>1, <2>2
<1>3. ASSUME NEW d \in DOMAIN m2, Pends(m2, f, d)
      PROVE  m2[d].id \in DOMAIN ins2 /\ ins2[m2[d].id] = SentInput(m2, d)
  <2>1. CASE d = b
    BY <1>1, <2>1
  <2>2. CASE d # b
    <3>1. d \in DOMAIN m /\ m2[d] = m[d]
      BY <2>2 DEF Grows
    <3>2. Pends(m, f, d)
      BY <1>3, <3>1 DEF Pends
    <3>3. m[d].id \in DOMAIN ins /\ ins[m[d].id] = SentInput(m, d)
      BY <3>1, <3>2 DEF InputsInv
    <3>4. m2[d].id # id
      BY <2>2 DEF DistinctIds, Grows
    <3>5. SentInput(m, d) = SentInput(m2, d)
      BY <3>1 DEF SentInput
    <3> QED
      BY <1>1, <3>1, <3>3, <3>4, <3>5
  <2> QED
    BY <2>1, <2>2
<1>4. InputsInv(m2, f, ins2)
  BY <1>2, <1>3, Zenon DEF InputsInv
<1> QED
  BY <1>4 DEF ins2

LEMMA GrownOrder ==
  ASSUME NEW order \in Seq(CallNames), NEW ins, OrderInv(order, ins), NEW id \in CallNames, NEW input,
         NEW order2, order2 = IF id \in DOMAIN ins THEN order ELSE Append(order, id)
  PROVE  order2 \in Seq(CallNames) /\ OrderInv(order2, Grown(ins, id, input))
<1> DEFINE ins2 == Grown(ins, id, input)
<1>1. DOMAIN ins2 = DOMAIN ins \cup {id}
  BY DEF Grown
<1> HIDE DEF ins2
<1>2. CASE id \in DOMAIN ins
  <2>1. DOMAIN ins2 = DOMAIN ins /\ order2 = order
    BY <1>1, <1>2
  <2>2. OrderInv(order2, ins2)
    BY <2>1 DEF OrderInv
  <2> QED
    BY <2>1, <2>2 DEF ins2
<1>3. CASE id \notin DOMAIN ins
  <2>1. /\ order2 = Append(order, id) /\ order2 \in Seq(CallNames)
        /\ Len(order) \in Nat /\ DOMAIN order = 1..Len(order)
        /\ DOMAIN order2 = 1..Len(order) + 1
        /\ order2[Len(order) + 1] = id
        /\ \A n \in DOMAIN order : order2[n] = order[n]
    BY <1>3
  <2>2. \A n \in DOMAIN order2 : n \in DOMAIN order \/ n = Len(order) + 1
    BY <2>1
  <2>3. \A n \in DOMAIN order : n \in DOMAIN order2 /\ order2[n] # id
    BY <1>3, <2>1 DEF OrderInv
  <2>4. Len(order) + 1 \in DOMAIN order2
    BY <2>1
  <2>5. \A m, n \in DOMAIN order2 : order2[m] = order2[n] => m = n
    BY <2>1, <2>2, <2>3 DEF OrderInv
  <2>6. \A n \in DOMAIN order2 : order2[n] \in DOMAIN ins2
    BY <1>1, <2>1, <2>2 DEF OrderInv
  <2>7. \A i \in DOMAIN ins2 : \E n \in DOMAIN order2 : order2[n] = i
    BY <1>1, <2>1, <2>3, <2>4 DEF OrderInv
  <2>8. OrderInv(order2, ins2)
    BY <2>5, <2>6, <2>7, Zenon DEF OrderInv
  <2> QED
    BY <2>1, <2>8 DEF ins2
<1> QED
  BY <1>2, <1>3

WholeIn(m, input) == input # <<>> /\ \E d \in DOMAIN m : input = WholeInput(m, d)
GrownBy(m, props, id, input) ==
  IF WholeIn(m, input) /\ \A p \in DOMAIN props : props[p].id # id
    THEN Append(props, Proposal(id, input)) ELSE props

LEMMA GrownProposals ==
  ASSUME NEW m \in Seq(StreamCall), NEW m2 \in Seq(StreamCall), NEW b, NEW input,
         Grows(m, m2, b), input = SentInput(m2, b),
         NEW props \in Seq(ProposedCall), WholeProposals(m, props), OneProposalEach(props),
         NEW props2, props2 = GrownBy(m, props, m2[b].id, input)
  PROVE  props2 \in Seq(ProposedCall) /\ WholeProposals(m2, props2) /\ OneProposalEach(props2)
<1>1. ASSUME NEW d \in DOMAIN m, m[d].sent = m[d].size
      PROVE  d \in DOMAIN m2 /\ m2[d].sent = m2[d].size
             /\ Proposal(m[d].id, WholeInput(m, d)) = Proposal(m2[d].id, WholeInput(m2, d))
  <2>1. d # b /\ d \in DOMAIN m2
    BY <1>1 DEF Grows
  <2>2. m2[d] = m[d]
    BY <2>1 DEF Grows
  <2> QED
    BY <1>1, <2>1, <2>2 DEF WholeInput
<1>2. WholeProposals(m2, props)
  <2> SUFFICES ASSUME NEW p \in DOMAIN props
               PROVE  \E d \in DOMAIN m2 : m2[d].sent = m2[d].size
                        /\ props[p] = Proposal(m2[d].id, WholeInput(m2, d))
    BY DEF WholeProposals
  <2>1. PICK d \in DOMAIN m : m[d].sent = m[d].size /\ props[p] = Proposal(m[d].id, WholeInput(m, d))
    BY DEF WholeProposals
  <2> QED
    BY <1>1, <2>1
<1> DEFINE new == Proposal(m2[b].id, input)
<1>3. b \in DOMAIN m2 /\ m2[b].id \in CallNames
  BY StreamCallFields DEF Grows
<1>4. CASE WholeIn(m, input) /\ \A p \in DOMAIN props : props[p].id # m2[b].id
  <2>1. PICK d \in DOMAIN m : input = WholeInput(m, d)
    BY <1>4 DEF WholeIn
  <2>2. d = b /\ m2[b].sent = m[d].size
    <3>1. SentInput(m2, b) = WholeInput(m, d) /\ SentInput(m2, b) # <<>>
      BY <1>4, <2>1 DEF WholeIn
    <3> QED
      BY <1>3, <3>1, InputsDiffer
  <2>3. m2[b].size = m[b].size /\ m2[b].sent = m2[b].size
    BY <2>2 DEF Grows
  <2>4. input = WholeInput(m2, b)
    BY <2>3 DEF SentInput, WholeInput
  <2>5. new \in ProposedCall
    BY <1>3, SentInputType DEF ProposedCall, Proposal
  <2> DEFINE n == Len(props) + 1
  <2>6. new = Proposal(m2[b].id, WholeInput(m2, b)) /\ new.id = m2[b].id
    BY <2>4 DEF Proposal
  <2> HIDE DEF new
  <2>7. /\ props2 = Append(props, new) /\ props2 \in Seq(ProposedCall)
        /\ Len(props) \in Nat /\ DOMAIN props = 1..Len(props)
        /\ DOMAIN props2 = 1..n
        /\ props2[n] = new
        /\ \A p \in DOMAIN props : props2[p] = props[p]
    BY <1>4, <2>5 DEF new, GrownBy
  <2>8. (\A p \in DOMAIN props2 : p \in DOMAIN props \/ p = n)
        /\ (\A p \in DOMAIN props : p # n)
    BY <2>7
  <2> HIDE DEF n
  <2>9. WholeProposals(m2, props2)
    BY <1>2, <1>3, <2>3, <2>6, <2>7, <2>8 DEF WholeProposals
  <2>10. OneProposalEach(props2)
    BY <1>4, <2>6, <2>7, <2>8 DEF OneProposalEach
  <2> QED
    BY <2>7, <2>9, <2>10
<1>5. CASE ~(WholeIn(m, input) /\ \A p \in DOMAIN props : props[p].id # m2[b].id)
  <2>1. props2 = props
    BY <1>5 DEF GrownBy
  <2> QED
    BY <1>2, <2>1
<1> QED
  BY <1>4, <1>5

LEMMA ProposedAreTheModels ==
  ASSUME StreamInv, answer # "committed"
  PROVE  CallsAreTheModels
<1>1. \A p \in DOMAIN proposals : \E b \in DOMAIN message :
        proposals[p] = Proposal(message[b].id, Fragments(b))
  BY DEF StreamInv, WholeProposals, WholeInput, Fragments
<1>2. \A p, q \in DOMAIN proposals : proposals[p].id = proposals[q].id => p = q
  BY DEF StreamInv, OneProposalEach
<1> QED
  BY <1>1, <1>2 DEF CallsAreTheModels

LEMMA ParsesWhole ==
  ASSUME NEW input
  PROVE  Parses(input) <=> WholeIn(message, input)
BY DEF Parses, Fragments, WholeInput, WholeIn

(***************************************************************************)
(* Accumulate, in a step that changes the message for call b.              *)
(***************************************************************************)
LEMMA AccumulateInv ==
  ASSUME StreamInv, answer # "committed", NEW b, NEW id, NEW fragment, Accumulate(id, fragment),
         message' \in Seq(StreamCall), Grows(message, message', b), DistinctIds(message'),
         Pends(message', format, b), id = message'[b].id,
         KnownOf(inputs, id) \o fragment = SentInput(message', b)
  PROVE  /\ InputsInv(message', format, inputs')
         /\ callOrder' \in Seq(CallNames) /\ OrderInv(callOrder', inputs')
         /\ proposals' \in Seq(ProposedCall)
         /\ WholeProposals(message', proposals') /\ OneProposalEach(proposals')
<1> DEFINE input == KnownOf(inputs, id) \o fragment
<1>1. /\ inputs' = Grown(inputs, id, input)
      /\ callOrder' = IF id \in DOMAIN inputs THEN callOrder ELSE Append(callOrder, id)
      /\ proposals' = IF Parses(input) /\ \A p \in DOMAIN proposals : proposals[p].id # id
                        THEN Append(proposals, Proposal(id, input)) ELSE proposals
  BY Zenon DEF Accumulate, Grown, KnownOf
<1>2. /\ message \in Seq(StreamCall) /\ callOrder \in Seq(CallNames)
      /\ proposals \in Seq(ProposedCall)
      /\ InputsInv(message, format, inputs) /\ OrderInv(callOrder, inputs)
      /\ WholeProposals(message, proposals) /\ OneProposalEach(proposals)
  BY DEF StreamInv, StreamType
<1>3. Parses(input) <=> WholeIn(message, input)
  BY ParsesWhole
<1>5. input = SentInput(message', b)
  OBVIOUS
<1> HIDE DEF input
<1>6. id \in CallNames
  BY StreamCallFields DEF Grows
<1>7. InputsInv(message', format, Grown(inputs, message'[b].id, input))
  <2> DEFINE m2 == message'
  <2>1. m2 \in Seq(StreamCall) /\ Grows(message, m2, b) /\ DistinctIds(m2)
        /\ Pends(m2, format, b) /\ input = SentInput(m2, b)
    BY <1>5
  <2> HIDE DEF m2
  <2>2. InputsInv(m2, format, Grown(inputs, m2[b].id, input))
    BY <1>2, <2>1, GrownInputs
  <2> QED
    BY <2>2 DEF m2
<1>8. callOrder' \in Seq(CallNames) /\ OrderInv(callOrder', Grown(inputs, id, input))
  <2> DEFINE o2 == callOrder'
  <2>1. o2 = IF id \in DOMAIN inputs THEN callOrder ELSE Append(callOrder, id)
    BY <1>1
  <2> HIDE DEF o2
  <2>2. o2 \in Seq(CallNames) /\ OrderInv(o2, Grown(inputs, id, input))
    BY <1>2, <1>6, <2>1, GrownOrder
  <2> QED
    BY <2>2 DEF o2
<1>9. proposals' \in Seq(ProposedCall) /\ WholeProposals(message', proposals')
      /\ OneProposalEach(proposals')
  <2> DEFINE m2 == message'
             p2 == proposals'
  <2>1. m2 \in Seq(StreamCall) /\ Grows(message, m2, b) /\ input = SentInput(m2, b)
    BY <1>5
  <2>2. p2 = GrownBy(message, proposals, m2[b].id, input)
    BY <1>1, <1>3 DEF GrownBy
  <2> HIDE DEF m2, p2
  <2>3. p2 \in Seq(ProposedCall) /\ WholeProposals(m2, p2) /\ OneProposalEach(p2)
    BY <1>2, <2>1, <2>2, GrownProposals
  <2> QED
    BY <2>3 DEF m2, p2
<1> QED
  BY <1>1, <1>7, <1>8, <1>9

\* What the agent sees next is whole while no turn is committed.
LEMMA StreamInvIntro ==
  ASSUME StreamType, WireInv(message, format, messageEnd, callOfKey),
         InputsInv(message, format, inputs), OrderInv(callOrder, inputs),
         WholeProposals(message, proposals), OneProposalEach(proposals), answer # "committed"
  PROVE  StreamInv
BY DEF StreamInv

LEMMA StreamStarts == StreamInit => StreamInv
<1> SUFFICES ASSUME StreamInit PROVE StreamInv
  OBVIOUS
<1>1. StreamType
  BY DEF StreamInit, StreamType
<1>2. DOMAIN message = {} /\ DOMAIN inputs = {} /\ DOMAIN callOrder = {} /\ DOMAIN proposals = {}
  BY DEF StreamInit
<1>3. WireInv(message, format, messageEnd, callOfKey) /\ InputsInv(message, format, inputs)
  BY <1>2 DEF WireInv, DistinctIds, InputsInv
<1>4. OrderInv(callOrder, inputs) /\ WholeProposals(message, proposals) /\ OneProposalEach(proposals)
  BY <1>2 DEF OrderInv, WholeProposals, OneProposalEach
<1> QED
  BY <1>1, <1>3, <1>4, StreamInvIntro DEF StreamInit

LEMMA CallBeginsInv ==
  ASSUME StreamInv, NEW id \in CallNames, NEW size \in Nat, CallBegins(id, size)
  PROVE  StreamInv'
<1> DEFINE call == [id |-> id, size |-> size, sent |-> 0]
           b == Len(message) + 1
<1>1. /\ answer = "streaming" /\ messageEnd = "open"
      /\ \A d \in DOMAIN message : message[d].id # id
      /\ format = "responses" => size > 0
      /\ message' = Append(message, call) /\ callOfKey' = Append(callOfKey, id)
      /\ format' = format /\ messageEnd' = messageEnd /\ answer' = answer
  BY DEF CallBegins
<1>2. StreamType /\ WireInv(message, format, messageEnd, callOfKey)
      /\ InputsInv(message, format, inputs) /\ OrderInv(callOrder, inputs)
      /\ WholeProposals(message, proposals) /\ OneProposalEach(proposals)
  BY <1>1 DEF StreamInv
<1>3. call \in StreamCall
  BY DEF StreamCall
<1>4. /\ message \in Seq(StreamCall) /\ callOfKey \in Seq(CallNames)
      /\ Len(callOfKey) = Len(message) /\ Len(message) \in Nat
      /\ DOMAIN message = 1..Len(message)
  BY <1>2 DEF StreamType
<1> HIDE DEF call
<1>5. /\ message' \in Seq(StreamCall) /\ DOMAIN message' = 1..b /\ message'[b] = call
      /\ \A d \in DOMAIN message : message'[d] = message[d]
      /\ callOfKey' \in Seq(CallNames) /\ Len(callOfKey') = Len(message')
      /\ callOfKey'[b] = id
      /\ \A d \in DOMAIN message : callOfKey'[d] = callOfKey[d]
  BY <1>1, <1>3, <1>4
<1>6. /\ \A d \in DOMAIN message' : d \in DOMAIN message \/ d = b
      /\ \A d \in DOMAIN message : d \in DOMAIN message' /\ d # b
      /\ b \in DOMAIN message'
  BY <1>4, <1>5
<1>7. call.id = id /\ call.size = size /\ call.sent = 0
  BY DEF call
<1> HIDE DEF b
<1>8. DistinctIds(message')
  BY <1>1, <1>2, <1>5, <1>6, <1>7 DEF WireInv, DistinctIds
<1>9. WireInv(message', format, messageEnd, callOfKey')
  <2>1. ASSUME NEW d \in DOMAIN message'
        PROVE  /\ message'[d].sent <= message'[d].size /\ callOfKey'[d] = message'[d].id
               /\ format = "responses" => message'[d].size > 0
    <3>1. CASE d \in DOMAIN message
      BY <1>2, <1>5, <3>1 DEF WireInv
    <3>2. CASE d = b
      BY <1>1, <1>5, <1>7, <3>2
    <3> QED
      BY <1>6, <3>1, <3>2
  <2> QED
    BY <1>1, <1>8, <2>1 DEF WireInv
<1>10. Grows(message, message', b)
  BY <1>5, <1>6 DEF Grows
<1>11. id \notin DOMAIN inputs
  BY <1>1, <1>2 DEF InputsInv
<1>12. /\ InputsInv(message', format, inputs')
       /\ callOrder' \in Seq(CallNames) /\ OrderInv(callOrder', inputs')
       /\ proposals' \in Seq(ProposedCall)
       /\ WholeProposals(message', proposals') /\ OneProposalEach(proposals')
  <2>1. CASE format = "responses"
    <3>1. inputs' = inputs /\ callOrder' = callOrder /\ proposals' = proposals
      BY <2>1 DEF CallBegins
    <3>2. \A d \in DOMAIN message' : Pends(message', format, d) => d \in DOMAIN message
      BY <1>5, <1>6, <1>7, <2>1 DEF Pends
    <3>3. InputsInv(message', format, inputs)
      <4>1. ASSUME NEW i \in DOMAIN inputs
            PROVE  \E d \in DOMAIN message' : message'[d].id = i /\ Pends(message', format, d)
        <5>1. PICK d \in DOMAIN message : message[d].id = i /\ Pends(message, format, d)
          BY <1>2 DEF InputsInv
        <5>2. message'[d] = message[d] /\ d \in DOMAIN message'
          BY <1>5, <1>6
        <5> QED
          BY <5>1, <5>2 DEF Pends
      <4>2. ASSUME NEW d \in DOMAIN message', Pends(message', format, d)
            PROVE  message'[d].id \in DOMAIN inputs /\ inputs[message'[d].id] = SentInput(message', d)
        <5>1. d \in DOMAIN message /\ message'[d] = message[d]
          BY <1>5, <3>2, <4>2
        <5>2. Pends(message, format, d) /\ SentInput(message', d) = SentInput(message, d)
          BY <4>2, <5>1 DEF Pends, SentInput
        <5>3. message[d].id \in DOMAIN inputs /\ inputs[message[d].id] = SentInput(message, d)
          BY <1>2, <5>1, <5>2 DEF InputsInv
        <5> QED
          BY <5>1, <5>2, <5>3
      <4> QED
        BY <4>1, <4>2 DEF InputsInv
    <3>4. WholeProposals(message', proposals)
      <4> SUFFICES ASSUME NEW p \in DOMAIN proposals
                   PROVE  \E d \in DOMAIN message' : message'[d].sent = message'[d].size
                            /\ proposals[p] = Proposal(message'[d].id, WholeInput(message', d))
        BY DEF WholeProposals
      <4>1. PICK d \in DOMAIN message : message[d].sent = message[d].size
                            /\ proposals[p] = Proposal(message[d].id, WholeInput(message, d))
        BY <1>2 DEF WholeProposals
      <4>2. message'[d] = message[d] /\ d \in DOMAIN message'
        BY <1>5, <1>6
      <4>3. WholeInput(message', d) = WholeInput(message, d)
        BY <4>2 DEF WholeInput
      <4> QED
        BY <4>1, <4>2, <4>3
    <3> QED
      BY <1>2, <3>1, <3>3, <3>4 DEF StreamType
  <2>2. CASE format # "responses"
    <3>1. Accumulate(id, <<>>)
      BY <2>2 DEF CallBegins
    <3>2. Pends(message', format, b)
      BY <2>2 DEF Pends
    <3>3. SentInput(message', b) = <<>>
      BY <1>5, <1>7 DEF SentInput
    <3>4. KnownOf(inputs, id) \o <<>> = <<>>
      BY <1>11 DEF KnownOf
    <3>5. id = message'[b].id
      BY <1>5, <1>7
    <3> QED
      BY <1>1, <1>5, <1>8, <1>10, <3>1, <3>2, <3>3, <3>4, <3>5, AccumulateInv
  <2> QED
    BY <2>1, <2>2
<1>13. StreamType'
  BY <1>1, <1>2, <1>5, <1>12 DEF StreamType
<1>14. /\ WireInv(message, format, messageEnd, callOfKey)'
       /\ InputsInv(message, format, inputs)' /\ OrderInv(callOrder, inputs)'
       /\ WholeProposals(message, proposals)' /\ OneProposalEach(proposals)'
       /\ answer' # "committed"
  BY <1>1, <1>9, <1>12
<1> QED
  BY <1>13, <1>14 DEF StreamInv

LEMMA FragmentArrivesInv ==
  ASSUME StreamInv, NEW b \in DOMAIN message, FragmentArrives(b)
  PROVE  StreamInv'
<1> DEFINE id == message[b].id
           n == message[b].sent + 1
<1>1. /\ answer = "streaming" /\ messageEnd = "open"
      /\ message[b].sent < message[b].size
      /\ message' = [message EXCEPT ![b].sent = @ + 1]
      /\ Accumulate(CallOf(b), <<<<b, n>>>>)
      /\ format' = format /\ messageEnd' = messageEnd /\ callOfKey' = callOfKey
      /\ answer' = answer
  BY DEF FragmentArrives
<1>2. StreamType /\ WireInv(message, format, messageEnd, callOfKey)
      /\ InputsInv(message, format, inputs)
  BY DEF StreamInv
<1>3. message \in Seq(StreamCall) /\ message[b] \in StreamCall
  BY <1>2 DEF StreamType
<1>4. id \in CallNames /\ message[b].size \in Nat /\ message[b].sent \in Nat /\ b \in Nat
  BY <1>3 DEF StreamCall
<1>5. CallOf(b) = id
  BY <1>2 DEF CallOf, WireInv
<1>6. /\ DOMAIN message' = DOMAIN message /\ Len(message') = Len(message)
      /\ \A d \in DOMAIN message : d # b => message'[d] = message[d]
      /\ message'[b] = [message[b] EXCEPT !.sent = @ + 1]
  BY <1>1, <1>3
<1>7. message'[b] \in StreamCall /\ message'[b].id = id /\ message'[b].sent = n
      /\ message'[b].size = message[b].size
  <2>1. ASSUME NEW c \in StreamCall
        PROVE  /\ [c EXCEPT !.sent = @ + 1] \in StreamCall
               /\ [c EXCEPT !.sent = @ + 1].id = c.id
               /\ [c EXCEPT !.sent = @ + 1].sent = c.sent + 1
               /\ [c EXCEPT !.sent = @ + 1].size = c.size
    BY DEF StreamCall
  <2> QED
    BY <1>3, <1>6, <2>1
<1>8. message' \in Seq(StreamCall)
  <2>1. ASSUME NEW m \in Seq(StreamCall), NEW d \in DOMAIN m, NEW c \in StreamCall
        PROVE  [m EXCEPT ![d] = c] \in Seq(StreamCall)
    OBVIOUS
  <2>2. message' = [message EXCEPT ![b] = message'[b]]
    BY <1>1, <1>6
  <2> DEFINE c == message'[b]
  <2>3. c \in StreamCall
    BY <1>7
  <2> HIDE DEF c
  <2>4. [message EXCEPT ![b] = c] \in Seq(StreamCall)
    BY <1>3, <2>1, <2>3
  <2> QED
    BY <2>2, <2>4 DEF c
<1>9. \A d \in DOMAIN message : message'[d].id = message[d].id /\ message'[d].size = message[d].size
  BY <1>6, <1>7
<1>10. DistinctIds(message')
  BY <1>2, <1>6, <1>9 DEF WireInv, DistinctIds
<1>11. WireInv(message', format, messageEnd, callOfKey)
  <2>1. n <= message[b].size
    BY <1>1, <1>4
  <2>2. \A d \in DOMAIN message : message'[d].sent <= message'[d].size
    BY <1>2, <1>6, <1>7, <2>1 DEF WireInv
  <2> QED
    BY <1>1, <1>2, <1>6, <1>9, <1>10, <2>2 DEF WireInv
<1>12. Grows(message, message', b)
  <2>1. message[b].sent # message[b].size
    BY <1>1, <1>4
  <2> QED
    BY <1>6, <1>9, <2>1 DEF Grows
<1>13. Pends(message', format, b)
  <2>1. n > 0
    BY <1>4
  <2> QED
    BY <1>7, <2>1 DEF Pends
<1>14. KnownOf(inputs, id) = SentInput(message, b)
  <2>1. CASE Pends(message, format, b)
    BY <1>2, <2>1 DEF InputsInv, KnownOf
  <2>2. CASE ~Pends(message, format, b)
    <3>1. message[b].sent = 0
      BY <1>4, <2>2 DEF Pends
    <3>2. id \notin DOMAIN inputs
      <4> SUFFICES ASSUME id \in DOMAIN inputs PROVE FALSE
        OBVIOUS
      <4>1. PICK d \in DOMAIN message : message[d].id = id /\ Pends(message, format, d)
        BY <1>2 DEF InputsInv
      <4>2. d = b
        BY <1>2, <4>1 DEF WireInv, DistinctIds
      <4> QED
        BY <2>2, <4>1, <4>2
    <3> QED
      BY <3>1, <3>2 DEF KnownOf, SentInput
  <2> QED
    BY <2>1, <2>2
<1>15. SentInput(message, b) \o <<<<b, n>>>> = SentInput(message', b)
  <2>1. SentInput(message, b) = [k \in 1..message[b].sent |-> <<b, k>>]
    BY DEF SentInput
  <2>2. SentInput(message', b) = [k \in 1..message[b].sent + 1 |-> <<b, k>>]
    BY <1>7 DEF SentInput
  <2> DEFINE f(m) == [k \in 1..m |-> <<b, k>>]
  <2>3. ASSUME NEW m \in Nat PROVE f(m) \o <<<<b, m + 1>>>> = f(m + 1)
    <3>1. f(m) \in Seq({<<b, k>> : k \in 1..m + 1}) /\ Len(f(m)) = m
      OBVIOUS
    <3>2. <<<<b, m + 1>>>> \in Seq({<<b, k>> : k \in 1..m + 1}) /\ Len(<<<<b, m + 1>>>>) = 1
          /\ <<<<b, m + 1>>>>[1] = <<b, m + 1>>
      OBVIOUS
    <3>3. f(m) \o <<<<b, m + 1>>>>
            = [k \in 1..m + 1 |-> IF k <= m THEN f(m)[k] ELSE <<<<b, m + 1>>>>[k - m]]
      <4> DEFINE s == f(m)
                 t == <<<<b, m + 1>>>>
      <4>1. s \in Seq({<<b, k>> : k \in 1..m + 1}) /\ t \in Seq({<<b, k>> : k \in 1..m + 1})
            /\ Len(s) = m /\ Len(t) = 1
        BY <3>1, <3>2
      <4> HIDE DEF s, t
      <4>2. s \o t = [k \in 1..Len(s) + Len(t) |-> IF k <= Len(s) THEN s[k] ELSE t[k - Len(s)]]
        BY <4>1, ConcatIsFunction
      <4>3. s \o t = [k \in 1..m + 1 |-> IF k <= m THEN s[k] ELSE t[k - m]]
        BY <4>1, <4>2
      <4> QED
        BY <4>3 DEF s, t
    <3>4. ASSUME NEW k \in 1..m + 1
          PROVE  (IF k <= m THEN f(m)[k] ELSE <<<<b, m + 1>>>>[k - m]) = <<b, k>>
      <4>1. CASE k <= m
        BY <4>1
      <4>2. CASE ~(k <= m)
        <5>1. k = m + 1 /\ k - m = 1
          BY <4>2
        <5> QED
          BY <3>2, <4>2, <5>1
      <4> QED
        BY <4>1, <4>2
    <3>5. f(m + 1) = [k \in 1..m + 1 |-> <<b, k>>]
      OBVIOUS
    <3> QED
      BY <3>3, <3>4, <3>5
  <2>4. f(message[b].sent) \o <<<<b, message[b].sent + 1>>>> = f(message[b].sent + 1)
    BY <1>4, <2>3
  <2> QED
    BY <2>1, <2>2, <2>4
<1> HIDE DEF id, n
<1>16. /\ InputsInv(message', format, inputs')
       /\ callOrder' \in Seq(CallNames) /\ OrderInv(callOrder', inputs')
       /\ proposals' \in Seq(ProposedCall)
       /\ WholeProposals(message', proposals') /\ OneProposalEach(proposals')
  <2>1. Accumulate(id, <<<<b, n>>>>)
    BY <1>1, <1>5
  <2>2. KnownOf(inputs, id) \o <<<<b, n>>>> = SentInput(message', b)
    BY <1>14, <1>15
  <2>3. id = message'[b].id
    BY <1>7
  <2> QED
    BY <1>1, <1>8, <1>10, <1>12, <1>13, <2>1, <2>2, <2>3, AccumulateInv
<1>17. StreamType'
  BY <1>1, <1>2, <1>6, <1>8, <1>16 DEF StreamType
<1>18. /\ WireInv(message, format, messageEnd, callOfKey)'
       /\ InputsInv(message, format, inputs)' /\ OrderInv(callOrder, inputs)'
       /\ WholeProposals(message, proposals)' /\ OneProposalEach(proposals)'
       /\ answer' # "committed"
  BY <1>1, <1>11, <1>16
<1> QED
  BY <1>17, <1>18 DEF StreamInv

LEMMA MessageEndsInv ==
  ASSUME StreamInv, NEW how \in {"whole", "cut"}, MessageEnds(how)
  PROVE  StreamInv'
<1>1. /\ answer = "streaming"
      /\ how = "whole" => \A b \in DOMAIN message : message[b].sent = message[b].size
      /\ messageEnd' = how
      /\ format' = format /\ message' = message /\ callOfKey' = callOfKey /\ inputs' = inputs
      /\ callOrder' = callOrder /\ proposals' = proposals /\ answer' = answer
  BY DEF MessageEnds
<1>2. StreamType /\ WireInv(message, format, messageEnd, callOfKey)
      /\ InputsInv(message, format, inputs) /\ OrderInv(callOrder, inputs)
      /\ WholeProposals(message, proposals) /\ OneProposalEach(proposals)
  BY <1>1 DEF StreamInv
<1>3. WireInv(message, format, how, callOfKey)
  BY <1>1, <1>2 DEF WireInv
<1>4. StreamType'
  BY <1>1, <1>2 DEF StreamType
<1>5. /\ WireInv(message, format, messageEnd, callOfKey)'
      /\ InputsInv(message, format, inputs)' /\ OrderInv(callOrder, inputs)'
      /\ WholeProposals(message, proposals)' /\ OneProposalEach(proposals)'
      /\ answer' # "committed"
  BY <1>1, <1>2, <1>3
<1> QED
  BY <1>4, <1>5 DEF StreamInv

LEMMA StreamFailsInv ==
  ASSUME StreamInv, StreamFails
  PROVE  StreamInv'
<1>1. /\ answer = "streaming" /\ answer' = "failed" /\ messageEnd' = messageEnd
      /\ format' = format /\ message' = message /\ callOfKey' = callOfKey /\ inputs' = inputs
      /\ callOrder' = callOrder /\ proposals' = proposals
  BY DEF StreamFails
<1>2. StreamType /\ WireInv(message, format, messageEnd, callOfKey)
      /\ InputsInv(message, format, inputs) /\ OrderInv(callOrder, inputs)
      /\ WholeProposals(message, proposals) /\ OneProposalEach(proposals)
  BY <1>1 DEF StreamInv
<1>3. StreamType'
  BY <1>1, <1>2 DEF StreamType
<1>4. /\ WireInv(message, format, messageEnd, callOfKey)'
      /\ InputsInv(message, format, inputs)' /\ OrderInv(callOrder, inputs)'
      /\ WholeProposals(message, proposals)' /\ OneProposalEach(proposals)'
      /\ answer' # "committed"
  BY <1>1, <1>2
<1> QED
  BY <1>3, <1>4 DEF StreamInv

\* What a subsequence holds: the elements at the places, each place once.
LEMMA SubsequenceElements ==
  ASSUME NEW S, NEW I \in SUBSET Nat, IsFiniteSet(I), NEW s, \A i \in I : s[i] \in S
  PROVE  /\ \A k \in DOMAIN Subsequence(s, I) :
              NthOf(I, k) \in I /\ Subsequence(s, I)[k] = s[NthOf(I, k)]
         /\ \A i \in I : \E k \in DOMAIN Subsequence(s, I) : Subsequence(s, I)[k] = s[i]
         /\ \A k, l \in DOMAIN Subsequence(s, I) : NthOf(I, k) = NthOf(I, l) => k = l
<1> DEFINE n == Cardinality(I)
<1>1. DOMAIN Subsequence(s, I) = 1..n
  BY DEF Subsequence
<1>2. /\ \A k \in 1..n : NthOf(I, k) \in I /\ RankIn(I, NthOf(I, k)) = k
      /\ \A i \in I : NthOf(I, RankIn(I, i)) = i
  BY PlacesAreRanked
<1>3. \A i \in I : RankIn(I, i) \in 1..n
  BY RankType
<1>4. \A k \in 1..n : Subsequence(s, I)[k] = s[NthOf(I, k)]
  BY DEF Subsequence
<1> HIDE DEF n
<1>5. \A i \in I : \E k \in 1..n : Subsequence(s, I)[k] = s[i]
  BY <1>2, <1>3, <1>4
<1>6. \A k, l \in 1..n : NthOf(I, k) = NthOf(I, l) => k = l
  BY <1>2
<1> QED
  BY <1>1, <1>2, <1>4, <1>5, <1>6

\* The calls that finish returns, and what run_turn still has to propose.
FinishedCalls(order, ins) == [n \in DOMAIN order |-> Proposal(order[n], ins[order[n]])]
LatePlaces(calls, props) ==
  {n \in DOMAIN calls : \A p \in DOMAIN props : props[p].id # calls[n].id}

LEMMA FinishedCallsType ==
  ASSUME StreamInv
  PROVE  /\ FinishedCalls(callOrder, inputs) \in Seq(ProposedCall)
         /\ Len(FinishedCalls(callOrder, inputs)) = Len(callOrder)
         /\ \A n \in DOMAIN callOrder :
              /\ FinishedCalls(callOrder, inputs)[n].id = callOrder[n]
              /\ FinishedCalls(callOrder, inputs)[n].input = inputs[callOrder[n]]
              /\ \E b \in DOMAIN message :
                   /\ Pends(message, format, b)
                   /\ FinishedCalls(callOrder, inputs)[n] = Proposal(message[b].id, SentInput(message, b))
<1> DEFINE calls == FinishedCalls(callOrder, inputs)
<1>1. /\ callOrder \in Seq(CallNames) /\ OrderInv(callOrder, inputs)
      /\ InputsInv(message, format, inputs) /\ message \in Seq(StreamCall)
  BY DEF StreamInv, StreamType
<1>2. calls = [n \in 1..Len(callOrder) |-> Proposal(callOrder[n], inputs[callOrder[n]])]
      /\ DOMAIN callOrder = 1..Len(callOrder) /\ Len(callOrder) \in Nat
  BY <1>1 DEF FinishedCalls
<1>3. ASSUME NEW n \in DOMAIN callOrder
      PROVE  /\ calls[n] \in ProposedCall /\ calls[n].id = callOrder[n]
             /\ calls[n].input = inputs[callOrder[n]]
             /\ \E b \in DOMAIN message :
                  Pends(message, format, b) /\ calls[n] = Proposal(message[b].id, SentInput(message, b))
  <2>1. calls[n] = Proposal(callOrder[n], inputs[callOrder[n]])
    BY <1>2
  <2>2. PICK b \in DOMAIN message : message[b].id = callOrder[n] /\ Pends(message, format, b)
    BY <1>1 DEF OrderInv, InputsInv
  <2>3. inputs[callOrder[n]] = SentInput(message, b)
    BY <1>1, <2>2 DEF InputsInv
  <2>4. SentInput(message, b) \in Seq(Nat \X Nat)
    BY <1>1, SentInputType
  <2>5. callOrder[n] \in CallNames
    BY <1>1
  <2>6. calls[n].id = callOrder[n] /\ calls[n].input = inputs[callOrder[n]]
    BY <2>1 DEF Proposal
  <2>7. calls[n] \in ProposedCall
    BY <2>1, <2>3, <2>4, <2>5 DEF Proposal, ProposedCall
  <2> QED
    BY <2>1, <2>2, <2>3, <2>6, <2>7
<1>4. calls \in Seq(ProposedCall) /\ Len(calls) = Len(callOrder)
  <2> DEFINE g(n) == Proposal(callOrder[n], inputs[callOrder[n]])
  <2>1. \A n \in 1..Len(callOrder) : g(n) \in ProposedCall
    BY <1>2, <1>3
  <2>2. calls = [n \in 1..Len(callOrder) |-> g(n)]
    BY <1>2
  <2> HIDE DEF g, calls
  <2> QED
    BY <1>2, <2>1, <2>2
<1> QED
  BY <1>3, <1>4

LEMMA TurnFinishesInv ==
  ASSUME StreamInv, TurnFinishes
  PROVE  StreamInv'
<1> DEFINE calls == FinishedCalls(callOrder, inputs)
           late == LatePlaces(calls, proposals)
           rest == Subsequence(calls, late)
<1>1. /\ answer = "streaming" /\ messageEnd # "open"
      /\ format' = format /\ message' = message /\ messageEnd' = messageEnd
      /\ callOfKey' = callOfKey /\ inputs' = inputs /\ callOrder' = callOrder
  BY DEF TurnFinishes
<1>2. StreamType /\ WireInv(message, format, messageEnd, callOfKey)
      /\ InputsInv(message, format, inputs) /\ OrderInv(callOrder, inputs)
      /\ WholeProposals(message, proposals) /\ OneProposalEach(proposals)
  BY <1>1 DEF StreamInv
<1>3. CASE \A id \in DOMAIN inputs : Acceptable(inputs[id])
  <2>1. answer' = "committed" /\ turnCalls' = calls /\ proposals' = proposals \o rest
    BY <1>3 DEF TurnFinishes, FinishedCalls, LatePlaces
  <2>2. /\ calls \in Seq(ProposedCall) /\ Len(calls) = Len(callOrder)
        /\ \A n \in DOMAIN callOrder :
             /\ calls[n].id = callOrder[n] /\ calls[n].input = inputs[callOrder[n]]
             /\ \E b \in DOMAIN message :
                  Pends(message, format, b) /\ calls[n] = Proposal(message[b].id, SentInput(message, b))
    BY FinishedCallsType
  <2>3. message \in Seq(StreamCall) /\ callOrder \in Seq(CallNames) /\ proposals \in Seq(ProposedCall)
    BY <1>2 DEF StreamType
  <2> HIDE DEF calls
  <2>4. DOMAIN calls = DOMAIN callOrder /\ DOMAIN calls = 1..Len(calls) /\ Len(calls) \in Nat
    BY <2>2, <2>3
  <2>5. \A m, n \in DOMAIN calls : calls[m].id = calls[n].id => m = n
    BY <1>2, <2>2, <2>4 DEF OrderInv
  \* Every call of the turn is the model's.
  <2>6. ASSUME NEW n \in DOMAIN calls
        PROVE  \E b \in DOMAIN message :
                 /\ calls[n].id = message[b].id
                 /\ \/ calls[n] = Proposal(message[b].id, Fragments(b))
                    \/ calls[n] = Proposal(message[b].id, <<>>) /\ messageEnd # "whole"
    <3>1. PICK b \in DOMAIN message :
            Pends(message, format, b) /\ calls[n] = Proposal(message[b].id, SentInput(message, b))
      BY <2>2, <2>4
    <3>2. calls[n].id = message[b].id /\ calls[n].input = SentInput(message, b)
      BY <3>1 DEF Proposal
    <3>3. callOrder[n] \in DOMAIN inputs
      BY <1>2, <2>4 DEF OrderInv
    <3>4. Acceptable(calls[n].input)
      BY <1>3, <2>2, <2>4, <3>3
    <3>5. SentInput(message, b) = <<>> \/ WholeIn(message, SentInput(message, b))
      BY <3>2, <3>4, ParsesWhole DEF Acceptable
    <3>6. CASE messageEnd = "whole"
      <4>1. message[b].sent = message[b].size
        BY <1>2, <3>6 DEF WireInv
      <4>2. SentInput(message, b) = Fragments(b)
        BY <4>1 DEF SentInput, Fragments
      <4> QED
        BY <3>1, <3>2, <4>2
    <3>7. CASE messageEnd # "whole" /\ SentInput(message, b) = <<>>
      BY <3>1, <3>2, <3>7
    <3>8. CASE SentInput(message, b) # <<>>
      <4>1. PICK d \in DOMAIN message : SentInput(message, b) = WholeInput(message, d)
        BY <3>5, <3>8 DEF WholeIn
      <4>2. d = b
        BY <2>3, <3>8, <4>1, InputsDiffer
      <4>3. SentInput(message, b) = Fragments(b)
        BY <4>1, <4>2 DEF WholeInput, Fragments
      <4> QED
        BY <3>1, <3>2, <4>3
    <3> QED
      BY <3>6, <3>7, <3>8
  \* A whole message has all its calls in the turn.
  <2>7. ASSUME messageEnd = "whole", NEW b \in DOMAIN message
        PROVE  \E n \in DOMAIN calls : calls[n] = Proposal(message[b].id, Fragments(b))
    <3>1. message[b].sent = message[b].size /\ (format = "responses" => message[b].size > 0)
      BY <1>2, <2>7 DEF WireInv
    <3>2. Pends(message, format, b)
      BY <3>1 DEF Pends
    <3>3. message[b].id \in DOMAIN inputs
      BY <1>2, <3>2 DEF InputsInv
    <3>4. PICK n \in DOMAIN callOrder : callOrder[n] = message[b].id
      BY <1>2, <3>3 DEF OrderInv
    <3>5. n \in DOMAIN calls /\ calls[n].id = message[b].id
      BY <2>2, <2>4, <3>4
    <3>6. PICK d \in DOMAIN message :
            /\ calls[n].id = message[d].id
            /\ calls[n] = Proposal(message[d].id, Fragments(d))
      BY <2>6, <2>7, <3>5
    <3>7. d = b
      BY <1>2, <3>5, <3>6 DEF WireInv, DistinctIds
    <3> QED
      BY <3>5, <3>6, <3>7
  \* What was proposed early is in the turn.
  <2>8. ASSUME NEW p \in DOMAIN proposals
        PROVE  \E n \in DOMAIN calls : calls[n] = proposals[p]
    <3>1. PICK b \in DOMAIN message : message[b].sent = message[b].size
                    /\ proposals[p] = Proposal(message[b].id, WholeInput(message, b))
      BY <1>2 DEF WholeProposals
    <3>2. format = "responses" => message[b].size > 0
      BY <1>2 DEF WireInv
    <3>3. Pends(message, format, b)
      BY <3>1, <3>2 DEF Pends
    <3>4. message[b].id \in DOMAIN inputs
      BY <1>2, <3>3 DEF InputsInv
    <3>5. PICK n \in DOMAIN callOrder : callOrder[n] = message[b].id
      BY <1>2, <3>4 DEF OrderInv
    <3>6. PICK d \in DOMAIN message : calls[n] = Proposal(message[d].id, SentInput(message, d))
      BY <2>2, <3>5
    <3>7. message[d].id = message[b].id
      BY <2>2, <3>5, <3>6 DEF Proposal
    <3>8. d = b
      BY <1>2, <3>7 DEF WireInv, DistinctIds
    <3>9. SentInput(message, b) = WholeInput(message, b)
      BY <3>1 DEF SentInput, WholeInput
    <3> QED
      BY <2>4, <3>1, <3>5, <3>6, <3>8, <3>9
  \* What is proposed late.
  <2>9. late \in SUBSET Nat /\ IsFiniteSet(late) /\ late \in SUBSET DOMAIN calls
        /\ \A i \in late : calls[i] \in ProposedCall
    <3>1. late \in SUBSET (1..Len(calls))
      BY <2>4 DEF LatePlaces
    <3>2. IsFiniteSet(late)
      <4>1. IsFiniteSet(1..Len(calls))
        BY <2>4, FS_Interval
      <4> QED
        BY <3>1, <4>1, FS_Subset
    <3> QED
      BY <2>2, <2>4, <3>1, <3>2
  <2>10. rest \in Seq(ProposedCall)
    <3> HIDE DEF late
    <3> QED
      BY <2>9, SubsequenceType
  <2>11. /\ \A k \in DOMAIN rest : NthOf(late, k) \in late /\ rest[k] = calls[NthOf(late, k)]
         /\ \A i \in late : \E k \in DOMAIN rest : rest[k] = calls[i]
         /\ \A k, l \in DOMAIN rest : NthOf(late, k) = NthOf(late, l) => k = l
    <3> HIDE DEF late
    <3> QED
      BY <2>9, SubsequenceElements
  <2>12. \A i \in late, p \in DOMAIN proposals : proposals[p].id # calls[i].id
    BY DEF LatePlaces
  <2>13. \A n \in DOMAIN calls : n \in late \/ \E p \in DOMAIN proposals : proposals[p].id = calls[n].id
    BY DEF LatePlaces
  <2> HIDE DEF rest, late
  <2> DEFINE props2 == proposals \o rest
             k0 == Len(proposals)
  <2>14. /\ props2 \in Seq(ProposedCall)
         /\ \A p \in DOMAIN proposals : p \in DOMAIN props2 /\ props2[p] = proposals[p]
         /\ \A k \in DOMAIN rest : k0 + k \in DOMAIN props2 /\ props2[k0 + k] = rest[k]
         /\ \A p \in DOMAIN props2 : \/ p \in DOMAIN proposals
                                     \/ p - k0 \in DOMAIN rest /\ k0 + (p - k0) = p
    <3>1. /\ props2 \in Seq(ProposedCall) /\ Len(props2) = k0 + Len(rest)
          /\ \A i \in 1..k0 + Len(rest) :
               props2[i] = IF i <= k0 THEN proposals[i] ELSE rest[i - k0]
      BY <2>3, <2>10, ConcatProperties
    <3>2. k0 \in Nat /\ Len(rest) \in Nat /\ DOMAIN proposals = 1..k0 /\ DOMAIN rest = 1..Len(rest)
          /\ DOMAIN props2 = 1..k0 + Len(rest)
      BY <2>3, <2>10, <3>1
    <3> HIDE DEF props2, k0
    <3>3. \A p \in DOMAIN proposals : p \in DOMAIN props2 /\ props2[p] = proposals[p]
      BY <3>1, <3>2
    <3>4. ASSUME NEW k \in DOMAIN rest
          PROVE  k0 + k \in DOMAIN props2 /\ props2[k0 + k] = rest[k]
      <4>1. k0 + k \in 1..k0 + Len(rest) /\ ~(k0 + k <= k0) /\ (k0 + k) - k0 = k
        BY <3>2
      <4> QED
        BY <3>1, <3>2, <4>1
    <3>5. ASSUME NEW p \in DOMAIN props2
          PROVE  p \in DOMAIN proposals \/ (p - k0 \in DOMAIN rest /\ k0 + (p - k0) = p)
      BY <3>2
    <3> QED
      BY <3>1, <3>3, <3>4, <3>5
  <2> HIDE DEF props2, k0
  <2>15. ASSUME NEW p \in DOMAIN props2 PROVE \E n \in DOMAIN calls : props2[p] = calls[n]
    <3>1. CASE p \in DOMAIN proposals
      BY <2>8, <2>14, <3>1
    <3>2. CASE p - k0 \in DOMAIN rest /\ k0 + (p - k0) = p
      <4>1. props2[p] = rest[p - k0]
        BY <2>14, <3>2
      <4> QED
        BY <2>9, <2>11, <3>2, <4>1
    <3> QED
      BY <2>14, <3>1, <3>2
  <2>16. ASSUME NEW n \in DOMAIN calls PROVE \E p \in DOMAIN props2 : props2[p] = calls[n]
    <3>1. CASE n \in late
      <4>1. PICK k \in DOMAIN rest : rest[k] = calls[n]
        BY <2>11, <3>1
      <4> QED
        BY <2>14, <4>1
    <3>2. CASE n \notin late
      <4>1. PICK p \in DOMAIN proposals : proposals[p].id = calls[n].id
        BY <2>13, <3>2
      <4>2. PICK n2 \in DOMAIN calls : calls[n2] = proposals[p]
        BY <2>8
      <4>3. n2 = n
        BY <2>5, <4>1, <4>2
      <4> QED
        BY <2>14, <4>2, <4>3
    <3> QED
      BY <3>1, <3>2
  <2>17. ASSUME NEW p \in DOMAIN props2, NEW q \in DOMAIN props2, props2[p].id = props2[q].id
         PROVE  p = q
    <3>1. ASSUME NEW u \in DOMAIN props2, NEW v \in DOMAIN props2,
                 u \in DOMAIN proposals, v - k0 \in DOMAIN rest, k0 + (v - k0) = v
          PROVE  props2[u].id # props2[v].id
      <4>1. props2[u] = proposals[u] /\ props2[v] = rest[v - k0]
        BY <2>14, <3>1
      <4>2. NthOf(late, v - k0) \in late /\ rest[v - k0] = calls[NthOf(late, v - k0)]
        BY <2>11, <3>1
      <4> QED
        BY <2>12, <3>1, <4>1, <4>2
    <3>2. CASE p \in DOMAIN proposals /\ q \in DOMAIN proposals
      BY <1>2, <2>14, <2>17, <3>2 DEF OneProposalEach
    <3>3. CASE /\ p - k0 \in DOMAIN rest /\ k0 + (p - k0) = p
               /\ q - k0 \in DOMAIN rest /\ k0 + (q - k0) = q
      <4> DEFINE i == p - k0
                 j == q - k0
      <4>1. props2[p] = rest[i] /\ props2[q] = rest[j]
        BY <2>14, <3>3
      <4>2. /\ NthOf(late, i) \in late /\ rest[i] = calls[NthOf(late, i)]
            /\ NthOf(late, j) \in late /\ rest[j] = calls[NthOf(late, j)]
        BY <2>11, <3>3
      <4>3. NthOf(late, i) = NthOf(late, j)
        BY <2>5, <2>9, <2>17, <4>1, <4>2
      <4>4. i = j
        BY <2>11, <3>3, <4>3
      <4> QED
        BY <3>3, <4>4
    <3> QED
      BY <2>14, <2>17, <3>1, <3>2, <3>3
  <2> DEFINE Elements(s) == {s[n] : n \in DOMAIN s}
             made == {Proposal(message[b].id, Fragments(b)) : b \in DOMAIN message}
             empty == {Proposal(message[b].id, <<>>) : b \in DOMAIN message}
  <2>18. Cardinality(Elements(calls)) = Len(calls)
    <3>1. \A m, n \in 1..Len(calls) : calls[m] = calls[n] => m = n
      BY <2>4, <2>5
    <3>2. calls \in [1..Len(calls) -> Elements(calls)]
      BY <2>2, <2>4
    <3>3. \A x \in Elements(calls) : \E n \in 1..Len(calls) : calls[n] = x
      BY <2>4
    <3> DEFINE T == Elements(calls)
    <3> HIDE DEF T
    <3>4. calls \in Bijection(1..Len(calls), T)
      BY <3>1, <3>2, <3>3, Zenon DEF Bijection, Injection, Surjection, IsInjective, T
    <3>5. Cardinality(T) = Len(calls)
      BY <2>4, <3>4, FS_CountingElements DEF ExistsBijection
    <3> QED
      BY <3>5 DEF T
  <2>19. messageEnd = "whole" => Elements(calls) = made
    BY <2>4, <2>6, <2>7
  <2>20. messageEnd = "cut" => Elements(calls) \subseteq made \cup empty
    BY <2>6
  <2>21. Elements(props2) = Elements(calls)
    BY <2>15, <2>16
  <2>22. CallsAreTheModels'
    <3>1. /\ proposals' = props2 /\ turnCalls' = calls /\ answer' = "committed"
          /\ message' = message /\ messageEnd' = messageEnd
      BY <1>1, <2>1 DEF props2
    <3>2. {Proposal(message[b].id, Fragments(b)) : b \in DOMAIN message}' = made
      BY <3>1 DEF Fragments
    <3>3. {Proposal(message[b].id, <<>>) : b \in DOMAIN message}' = empty
      BY <3>1
    <3>4. Elements(proposals') = Elements(turnCalls')
          /\ Cardinality(Elements(turnCalls')) = Len(turnCalls')
          /\ (messageEnd' = "whole" => Elements(turnCalls') = made)
          /\ (messageEnd' = "cut" => Elements(turnCalls') \subseteq made \cup empty)
      BY <2>18, <2>19, <2>20, <2>21, <3>1
    <3>5. \A p, q \in DOMAIN proposals' : proposals'[p].id = proposals'[q].id => p = q
      BY <2>17, <3>1
    <3> HIDE DEF made, empty
    <3> QED
      BY <3>1, <3>2, <3>3, <3>4, <3>5 DEF CallsAreTheModels
  <2>23. StreamType'
    BY <1>1, <1>2, <2>1, <2>14 DEF StreamType, props2
  <2>24. /\ WireInv(message, format, messageEnd, callOfKey)'
         /\ InputsInv(message, format, inputs)' /\ OrderInv(callOrder, inputs)'
         /\ OneProposalEach(proposals)'
         /\ answer' = "committed"
    <3>1. OneProposalEach(props2)
      BY <2>17 DEF OneProposalEach
    <3>2. proposals' = props2
      BY <2>1 DEF props2
    <3> QED
      BY <1>1, <1>2, <2>1, <3>1, <3>2
  <2> QED
    BY <2>22, <2>23, <2>24 DEF StreamInv
<1>4. CASE ~(\A id \in DOMAIN inputs : Acceptable(inputs[id]))
  <2>1. answer' = "failed" /\ proposals' = proposals
    BY <1>4 DEF TurnFinishes
  <2>2. StreamType'
    BY <1>1, <1>2, <2>1 DEF StreamType
  <2>3. /\ WireInv(message, format, messageEnd, callOfKey)'
        /\ InputsInv(message, format, inputs)' /\ OrderInv(callOrder, inputs)'
        /\ WholeProposals(message, proposals)' /\ OneProposalEach(proposals)'
        /\ answer' # "committed"
    BY <1>1, <1>2, <2>1
  <2> QED
    BY <2>2, <2>3 DEF StreamInv
<1> QED
  BY <1>3, <1>4

\* The inductive invariant of a model's answer.
THEOREM StreamIsInductive == ModelStreamSpec => []StreamInv
<1>1. StreamInv /\ [StreamNext]_streamVars => StreamInv'
  <2> SUFFICES ASSUME StreamInv, [StreamNext]_streamVars PROVE StreamInv'
    OBVIOUS
  <2>1. CASE \E id \in CallNames, size \in 0..MaxFragments : CallBegins(id, size)
    <3>1. PICK id \in CallNames, size \in 0..MaxFragments : CallBegins(id, size)
      BY <2>1
    <3>2. size \in Nat
      BY ModelStreamAssumption
    <3> QED
      BY <3>1, <3>2, CallBeginsInv
  <2>2. CASE \E b \in DOMAIN message : FragmentArrives(b)
    BY <2>2, FragmentArrivesInv
  <2>3. CASE \E how \in {"whole", "cut"} : MessageEnds(how)
    BY <2>3, MessageEndsInv
  <2>4. CASE StreamFails
    BY <2>4, StreamFailsInv
  <2>5. CASE TurnFinishes
    BY <2>5, TurnFinishesInv
  <2>6. CASE UNCHANGED streamVars
    <3>1. /\ format' = format /\ message' = message /\ messageEnd' = messageEnd
          /\ callOfKey' = callOfKey /\ inputs' = inputs /\ callOrder' = callOrder
          /\ proposals' = proposals /\ answer' = answer /\ turnCalls' = turnCalls
      BY <2>6 DEF streamVars
    <3>2. StreamType'
      BY <3>1 DEF StreamInv, StreamType
    <3>3. CallsAreTheModels => CallsAreTheModels'
      <4> DEFINE made == {Proposal(message[b].id, Fragments(b)) : b \in DOMAIN message}
                 empty == {Proposal(message[b].id, <<>>) : b \in DOMAIN message}
      <4>1. {Proposal(message[b].id, Fragments(b)) : b \in DOMAIN message}' = made
        BY <3>1 DEF Fragments
      <4>2. {Proposal(message[b].id, <<>>) : b \in DOMAIN message}' = empty
        BY <3>1
      <4> HIDE DEF made, empty
      <4>3. {proposals[n] : n \in DOMAIN proposals}' = {proposals[n] : n \in DOMAIN proposals}
            /\ {turnCalls[n] : n \in DOMAIN turnCalls}' = {turnCalls[n] : n \in DOMAIN turnCalls}
        BY <3>1
      <4> QED
        BY <3>1, <4>1, <4>2, <4>3 DEF CallsAreTheModels, made, empty
    <3> QED
      BY <3>1, <3>2, <3>3 DEF StreamInv
  <2> QED
    BY <2>1, <2>2, <2>3, <2>4, <2>5, <2>6 DEF StreamNext
<1> QED
  BY <1>1, StreamStarts, PTL DEF ModelStreamSpec

\* The calls the agent acts on are the calls the model made, whatever the adapter,
\* the number of calls and fragments, and the order in which the fragments arrive
\* (TurnAccumulator::push and finish, run_turn).
THEOREM CallsAreFaithful == ModelStreamSpec => []CallsAreTheModels
<1>1. StreamInv => CallsAreTheModels
  BY ProposedAreTheModels DEF StreamInv
<1> QED
  BY <1>1, StreamIsInductive, PTL
=============================================================================
