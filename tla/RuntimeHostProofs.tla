------------------------- MODULE RuntimeHostProofs -------------------------
(***************************************************************************)
(* Proofs about the runtime-backed control host for every set of sessions  *)
(* and keys and every bound: which prompts execute, what inspection,       *)
(* polling and run.json tell of a run, and which history a session has.    *)
(***************************************************************************)
EXTENDS RuntimeHost, TLAPS, SequenceTheorems, WellFoundedInduction

-----------------------------------------------------------------------------
(* What the operations of the control state change. *)

\* Only session s, run r and their events may differ, and the keys.
Touches(c, d, s, r) ==
  /\ d \in HostState
  /\ \A t \in Sessions : t # s => d.sessions[t] = c.sessions[t] /\ d.events[t] = c.events[t]
  /\ \A q \in RunIds : q # r => d.run_status[q] = c.run_status[q]

\* A key is kept, forgotten or taken for an answer about s and r.
KeysFor(c, d, s, r) ==
  \A k \in RequestKeys :
    \/ d.idempotency[k] \in {c.idempotency[k], NoEntry}
    \/ /\ d.idempotency[k].response = [session |-> s, run |-> r]
       /\ d.idempotency[k].request.session = s
       /\ d.idempotency[k].request.op = "resume" => d.idempotency[k].request.run = r

\* start and branch: a new session with a new run.
Opens(c, d, s, r) ==
  /\ Touches(c, d, s, r) /\ KeysFor(c, d, s, r)
  /\ r = c.next_id /\ d.next_id = r + 1
  /\ d.sessions[s] = [runs |-> {r}, active |-> r]
  /\ d.run_status[r] = "Running"

\* resume: a run of the session runs again.
Reopens(c, d, s, r) ==
  /\ Touches(c, d, s, r) /\ KeysFor(c, d, s, r)
  /\ d.next_id = c.next_id
  /\ \E runs \in SUBSET RunIds :
       /\ d.sessions[s] = [runs |-> runs, active |-> r]
       /\ r \in runs /\ \A q \in runs : q = r \/ Owns(c, s, q)
  /\ d.run_status[r] = "Running"
  /\ d.events[s] = c.events[s]

\* The end of a run is written and announced.
Ends(c, d, s, r, kind) ==
  /\ Touches(c, d, s, r)
  /\ d.next_id = c.next_id /\ d.idempotency = c.idempotency
  /\ d.sessions[s] = IF Known(c, s) THEN [runs |-> c.sessions[s].runs, active |-> NoRun]
                     ELSE NoSession
  /\ d.run_status[r] \in {Ended(kind), "Unknown"}
  /\ d.events[s] = Append(c.events[s], [kind |-> kind, run |-> r])

RollsBack(c, d, s, r) ==
  /\ Touches(c, d, s, r)
  /\ d.next_id = c.next_id
  /\ \A k \in RequestKeys : d.idempotency[k] \in {c.idempotency[k], NoEntry}
  /\ d.sessions[s] = NoSession /\ d.run_status[r] = "Unknown" /\ d.events[s] = <<>>

LEMMA HostFields ==
  ASSUME NEW c \in HostState
  PROVE  /\ c.sessions \in [Sessions -> SessionState \cup {NoSession}]
         /\ c.run_status \in [RunIds -> RunStatus]
         /\ c.idempotency \in [RequestKeys -> Entry \cup {NoEntry}]
         /\ c.events \in [Sessions -> Seq(Event)]
         /\ c.next_id \in 1..(MaxId + 1)
BY DEF HostState

\* The parts the operations are made of.
LEMMA WithSessionFields ==
  ASSUME NEW c \in HostState, NEW s \in Sessions, NEW runs \in SUBSET RunIds,
         NEW active \in RunIds \cup {NoRun}, NEW d, d = WithSession(c, s, runs, active)
  PROVE  /\ d \in HostState
         /\ d.sessions[s] = [runs |-> runs, active |-> active]
         /\ \A t \in Sessions : t # s => d.sessions[t] = c.sessions[t]
         /\ d.run_status = c.run_status /\ d.idempotency = c.idempotency
         /\ d.events = c.events /\ d.next_id = c.next_id
<1>1. [runs |-> runs, active |-> active] \in SessionState
  BY DEF SessionState
<1>2. [c.sessions EXCEPT ![s] = [runs |-> runs, active |-> active]]
        \in [Sessions -> SessionState \cup {NoSession}]
  BY <1>1, HostFields
<1>3. d = [c EXCEPT !.sessions = [c.sessions EXCEPT ![s] = [runs |-> runs, active |-> active]]]
  BY DEF WithSession
<1> QED
  BY <1>2, <1>3 DEF HostState

LEMMA WithStatusFields ==
  ASSUME NEW c \in HostState, NEW r \in RunIds, NEW status \in RunStatus,
         NEW d, d = WithStatus(c, r, status)
  PROVE  /\ d \in HostState
         /\ d.run_status[r] = status
         /\ \A q \in RunIds : q # r => d.run_status[q] = c.run_status[q]
         /\ d.sessions = c.sessions /\ d.idempotency = c.idempotency
         /\ d.events = c.events /\ d.next_id = c.next_id
BY DEF WithStatus, HostState

LEMMA RememberFields ==
  ASSUME NEW c \in HostState, NEW key \in RequestKeys \cup {NoRequestKey},
         NEW s \in Sessions, NEW r \in RunIds, NEW request \in Request,
         request.session = s, request.op = "resume" => request.run = r,
         NEW d, d = RememberEntry(c, key, request, [session |-> s, run |-> r])
  PROVE  /\ d \in HostState /\ KeysFor(c, d, s, r)
         /\ d.sessions = c.sessions /\ d.events = c.events
         /\ d.run_status = c.run_status /\ d.next_id = c.next_id
<1>1. CASE key = NoRequestKey
  BY <1>1 DEF RememberEntry, KeysFor
<1>2. CASE key # NoRequestKey
  <2> DEFINE entry == [request |-> request, response |-> [session |-> s, run |-> r]]
  <2>1. /\ entry \in Entry /\ entry.request = request
        /\ entry.response = [session |-> s, run |-> r]
    BY DEF Entry, Response
  <2>2. d = [c EXCEPT !.idempotency = [c.idempotency EXCEPT ![key] = entry]]
    BY <1>2 DEF RememberEntry
  <2> HIDE DEF entry
  <2>3. [c.idempotency EXCEPT ![key] = entry] \in [RequestKeys -> Entry \cup {NoEntry}]
    BY <2>1, HostFields
  <2>4. /\ d \in HostState /\ d.idempotency = [c.idempotency EXCEPT ![key] = entry]
        /\ d.sessions = c.sessions /\ d.events = c.events
        /\ d.run_status = c.run_status /\ d.next_id = c.next_id
    BY <2>2, <2>3 DEF HostState
  <2>5. \A k \in RequestKeys : d.idempotency[k] = c.idempotency[k] \/ d.idempotency[k] = entry
    BY <2>4, HostFields
  <2> QED
    BY <2>1, <2>4, <2>5 DEF KeysFor
<1> QED
  BY <1>1, <1>2

\* An entry without its active run.
LEMMA WithoutActiveFields ==
  ASSUME NEW c \in HostState, NEW s \in Sessions, NEW d, d = WithoutActive(c, s)
  PROVE  /\ d \in HostState
         /\ \A t \in Sessions : t # s => d.sessions[t] = c.sessions[t]
         /\ d.sessions[s] = IF Known(c, s) THEN [runs |-> c.sessions[s].runs, active |-> NoRun]
                            ELSE NoSession
         /\ d.run_status = c.run_status /\ d.idempotency = c.idempotency
         /\ d.events = c.events /\ d.next_id = c.next_id
<1>1. CASE Known(c, s)
  <2>1. c.sessions[s].runs \in SUBSET RunIds
    BY <1>1, HostFields DEF Known, SessionState
  <2>2. d = WithSession(c, s, c.sessions[s].runs, NoRun)
    BY <1>1 DEF WithoutActive
  <2>3. /\ d \in HostState
        /\ d.sessions[s] = [runs |-> c.sessions[s].runs, active |-> NoRun]
        /\ \A t \in Sessions : t # s => d.sessions[t] = c.sessions[t]
        /\ d.run_status = c.run_status /\ d.idempotency = c.idempotency
        /\ d.events = c.events /\ d.next_id = c.next_id
    BY <2>1, <2>2, WithSessionFields
  <2> QED
    BY <1>1, <2>3, HostFields
<1>2. CASE ~Known(c, s)
  BY <1>2 DEF WithoutActive, Known
<1> QED
  BY <1>1, <1>2

\* The operations of the control state.
LEMMA OpenedFields ==
  ASSUME NEW c \in HostState, NEW s \in Sessions, c.next_id <= MaxId, NEW d, d = Opened(c, s)
  PROVE  /\ d \in HostState /\ c.next_id \in RunIds
         /\ d.sessions[s] = [runs |-> {c.next_id}, active |-> c.next_id]
         /\ \A t \in Sessions : t # s => d.sessions[t] = c.sessions[t]
         /\ d.run_status[c.next_id] = "Running"
         /\ \A q \in RunIds : q # c.next_id => d.run_status[q] = c.run_status[q]
         /\ d.idempotency = c.idempotency /\ d.events = c.events
         /\ d.next_id = c.next_id + 1
<1>1. c.next_id \in RunIds /\ c.next_id + 1 \in 1..(MaxId + 1)
  BY HostFields, ControlStateAssumption DEF RunIds
<1> PICK sessions : sessions = [c.sessions EXCEPT ![s] = [runs |-> {c.next_id}, active |-> c.next_id]]
  OBVIOUS
<1> PICK statuses : statuses = [c.run_status EXCEPT ![c.next_id] = "Running"]
  OBVIOUS
<1>2. [runs |-> {c.next_id}, active |-> c.next_id] \in SessionState
  BY <1>1 DEF SessionState
<1>3. /\ sessions \in [Sessions -> SessionState \cup {NoSession}]
      /\ sessions[s] = [runs |-> {c.next_id}, active |-> c.next_id]
      /\ \A t \in Sessions : t # s => sessions[t] = c.sessions[t]
  BY <1>2, HostFields
<1>4. /\ statuses \in [RunIds -> RunStatus] /\ statuses[c.next_id] = "Running"
      /\ \A q \in RunIds : q # c.next_id => statuses[q] = c.run_status[q]
  BY <1>1, HostFields DEF RunStatus
<1>5. d = [c EXCEPT !.next_id = c.next_id + 1, !.sessions = sessions, !.run_status = statuses]
  BY DEF Opened, WithStatus, WithSession, HostState
<1>6. c \in HostState
  OBVIOUS
<1>7. /\ d \in HostState /\ d.sessions = sessions /\ d.run_status = statuses
      /\ d.idempotency = c.idempotency /\ d.events = c.events /\ d.next_id = c.next_id + 1
  BY <1>1, <1>3, <1>4, <1>5, <1>6 DEF HostState
<1> QED
  BY <1>1, <1>3, <1>4, <1>7

LEMMA BranchedOpens ==
  ASSUME NEW c \in HostState, NEW s \in Sessions, c.next_id <= MaxId,
         NEW key \in RequestKeys \cup {NoRequestKey}, NEW request \in Request,
         request.session = s, request.op # "resume",
         NEW d, d = Branched(c, s, key, request)
  PROVE  Opens(c, d, s, c.next_id) /\ d.events[s] = c.events[s]
<1> PICK r : r = c.next_id
  OBVIOUS
<1> PICK e : e = Opened(c, s)
  OBVIOUS
<1>1. /\ e \in HostState /\ r \in RunIds
      /\ e.sessions[s] = [runs |-> {r}, active |-> r]
      /\ \A t \in Sessions : t # s => e.sessions[t] = c.sessions[t]
      /\ e.run_status[r] = "Running"
      /\ \A q \in RunIds : q # r => e.run_status[q] = c.run_status[q]
      /\ e.idempotency = c.idempotency /\ e.events = c.events /\ e.next_id = r + 1
  BY OpenedFields
<1>2. d = RememberEntry(e, key, request, [session |-> s, run |-> r])
  BY DEF Branched
<1>3. /\ d \in HostState /\ KeysFor(e, d, s, r) /\ d.sessions = e.sessions
      /\ d.events = e.events /\ d.run_status = e.run_status /\ d.next_id = e.next_id
  BY <1>1, <1>2, RememberFields
<1>4. KeysFor(c, d, s, r)
  BY <1>1, <1>3 DEF KeysFor
<1>5. Touches(c, d, s, r)
  BY <1>1, <1>3, HostFields DEF Touches
<1> QED
  BY <1>1, <1>3, <1>4, <1>5, HostFields DEF Opens

LEMMA StartedOpens ==
  ASSUME NEW c \in HostState, NEW s \in Sessions, c.next_id <= MaxId,
         NEW key \in RequestKeys \cup {NoRequestKey}, NEW request \in Request,
         request.session = s, request.op # "resume",
         NEW d, d = Started(c, s, key, request)
  PROVE  /\ Opens(c, d, s, c.next_id)
         /\ d.events[s] = Append(c.events[s], [kind |-> "SessionStarted", run |-> c.next_id])
<1> PICK r : r = c.next_id
  OBVIOUS
<1> PICK e : e = Opened(c, s)
  OBVIOUS
<1>1. /\ e \in HostState /\ r \in RunIds
      /\ e.sessions[s] = [runs |-> {r}, active |-> r]
      /\ \A t \in Sessions : t # s => e.sessions[t] = c.sessions[t]
      /\ e.run_status[r] = "Running"
      /\ \A q \in RunIds : q # r => e.run_status[q] = c.run_status[q]
      /\ e.idempotency = c.idempotency /\ e.events = c.events /\ e.next_id = r + 1
  BY OpenedFields
<1> PICK f : f = PushEvent(e, s, r, "SessionStarted")
  OBVIOUS
<1>2. /\ f \in HostState
      /\ f.events[s] = Append(e.events[s], [kind |-> "SessionStarted", run |-> r])
      /\ \A t \in Sessions : t # s => f.events[t] = e.events[t]
      /\ f.sessions = e.sessions /\ f.idempotency = e.idempotency
      /\ f.run_status = e.run_status /\ f.next_id = e.next_id
  <2> PICK event : event = [kind |-> "SessionStarted", run |-> r]
    OBVIOUS
  <2> PICK events : events = [e.events EXCEPT ![s] = Append(e.events[s], event)]
    OBVIOUS
  <2>1. event \in Event
    BY <1>1 DEF Event
  <2>2. /\ events \in [Sessions -> Seq(Event)] /\ events[s] = Append(e.events[s], event)
        /\ \A t \in Sessions : t # s => events[t] = e.events[t]
    <3>1. e.events \in [Sessions -> Seq(Event)] /\ e.events[s] \in Seq(Event)
      BY <1>1, HostFields
    <3>2. Append(e.events[s], event) \in Seq(Event)
      BY <2>1, <3>1
    <3> QED
      BY <3>1, <3>2
  <2>3. f = [e EXCEPT !.events = events]
    BY DEF PushEvent
  <2>4. e \in HostState
    BY <1>1
  <2>5. /\ f \in HostState /\ f.events = events
        /\ f.sessions = e.sessions /\ f.idempotency = e.idempotency
        /\ f.run_status = e.run_status /\ f.next_id = e.next_id
    BY <2>2, <2>3, <2>4 DEF HostState
  <2> QED
    BY <2>2, <2>5
<1>3. /\ d \in HostState /\ KeysFor(f, d, s, r) /\ d.sessions = f.sessions
      /\ d.events = f.events /\ d.run_status = f.run_status /\ d.next_id = f.next_id
  <2>1. d = RememberEntry(f, key, request, [session |-> s, run |-> r])
    BY DEF Started
  <2>2. f \in HostState /\ r \in RunIds
    BY <1>1, <1>2
  <2> QED
    BY <2>1, <2>2, RememberFields
<1>4. KeysFor(c, d, s, r)
  BY <1>1, <1>2, <1>3 DEF KeysFor
<1>5. Touches(c, d, s, r)
  BY <1>1, <1>2, <1>3 DEF Touches
<1> QED
  BY <1>1, <1>2, <1>3, <1>4, <1>5 DEF Opens

LEMMA SeededFields ==
  ASSUME NEW c \in HostState, NEW s \in Sessions, NEW r \in RunIds, NEW d, d = Seeded(c, s, r)
  PROVE  /\ d \in HostState
         /\ d.sessions[s] = [runs |-> {r}, active |-> NoRun]
         /\ \A t \in Sessions : t # s => d.sessions[t] = c.sessions[t]
         /\ d.run_status[r] = "Completed"
         /\ \A q \in RunIds : q # r => d.run_status[q] = c.run_status[q]
         /\ d.idempotency = c.idempotency /\ d.events = c.events /\ d.next_id = c.next_id
<1> PICK sessions : sessions = [c.sessions EXCEPT ![s] = [runs |-> {r}, active |-> NoRun]]
  OBVIOUS
<1> PICK statuses : statuses = [c.run_status EXCEPT ![r] = "Completed"]
  OBVIOUS
<1>2. [runs |-> {r}, active |-> NoRun] \in SessionState
  BY DEF SessionState
<1>3. /\ sessions \in [Sessions -> SessionState \cup {NoSession}]
      /\ sessions[s] = [runs |-> {r}, active |-> NoRun]
      /\ \A t \in Sessions : t # s => sessions[t] = c.sessions[t]
  BY <1>2, HostFields
<1>4. /\ statuses \in [RunIds -> RunStatus] /\ statuses[r] = "Completed"
      /\ \A q \in RunIds : q # r => statuses[q] = c.run_status[q]
  BY HostFields DEF RunStatus
<1>5. d = [c EXCEPT !.sessions = sessions, !.run_status = statuses]
  BY DEF Seeded, WithStatus, WithSession, HostState
<1>6. c \in HostState
  OBVIOUS
<1>7. /\ d \in HostState /\ d.sessions = sessions /\ d.run_status = statuses
      /\ d.idempotency = c.idempotency /\ d.events = c.events /\ d.next_id = c.next_id
  BY <1>3, <1>4, <1>5, <1>6 DEF HostState
<1> QED
  BY <1>3, <1>4, <1>7

\* resume, for a session that is known or seeded.
LEMMA ResumedReopens ==
  ASSUME NEW c \in HostState, NEW s \in Sessions, NEW r \in RunIds, CanResume(c, s, r),
         NEW key \in RequestKeys \cup {NoRequestKey}, NEW request \in Request,
         request.session = s, request.run = r,
         NEW d, d = Resumed(c, s, r, key, request)
  PROVE  Reopens(c, d, s, r)
<1> PICK runs : runs = c.sessions[s].runs
  OBVIOUS
<1>1. runs \in SUBSET RunIds /\ r \in runs /\ Known(c, s)
  BY HostFields DEF CanResume, Owns, Known, SessionState
<1> PICK f : f = WithStatus(WithSession(c, s, runs, r), r, "Running")
  OBVIOUS
<1> PICK sessions : sessions = [c.sessions EXCEPT ![s] = [runs |-> runs, active |-> r]]
  OBVIOUS
<1> PICK statuses : statuses = [c.run_status EXCEPT ![r] = "Running"]
  OBVIOUS
<1>2. /\ sessions \in [Sessions -> SessionState \cup {NoSession}]
      /\ sessions[s] = [runs |-> runs, active |-> r]
      /\ \A t \in Sessions : t # s => sessions[t] = c.sessions[t]
  <2>1. [runs |-> runs, active |-> r] \in SessionState
    BY <1>1 DEF SessionState
  <2> QED
    BY <2>1, HostFields
<1>3. /\ statuses \in [RunIds -> RunStatus] /\ statuses[r] = "Running"
      /\ \A q \in RunIds : q # r => statuses[q] = c.run_status[q]
  BY HostFields DEF RunStatus
<1>4. /\ f \in HostState /\ f.sessions = sessions /\ f.run_status = statuses
      /\ f.idempotency = c.idempotency /\ f.events = c.events /\ f.next_id = c.next_id
  <2>1. f = [c EXCEPT !.sessions = sessions, !.run_status = statuses]
    BY DEF WithStatus, WithSession, HostState
  <2>2. /\ sessions \in [Sessions -> SessionState \cup {NoSession}]
        /\ statuses \in [RunIds -> RunStatus]
    BY <1>2, <1>3
  <2>3. c \in HostState
    OBVIOUS
  <2>4. f \in HostState
    BY ONLY <2>1, <2>2, <2>3 DEF HostState
  <2>5. /\ f.sessions = sessions /\ f.run_status = statuses
        /\ f.idempotency = c.idempotency /\ f.events = c.events /\ f.next_id = c.next_id
    BY ONLY <2>1, <2>3 DEF HostState
  <2> QED
    BY <2>4, <2>5
<1>5. /\ d \in HostState /\ KeysFor(f, d, s, r) /\ d.sessions = f.sessions
      /\ d.events = f.events /\ d.run_status = f.run_status /\ d.next_id = f.next_id
  <2>1. d = RememberEntry(f, key, request, [session |-> s, run |-> r])
    BY DEF Resumed
  <2> QED
    BY <1>4, <2>1, RememberFields
<1>6. KeysFor(c, d, s, r)
  BY <1>4, <1>5 DEF KeysFor
<1>7. Touches(c, d, s, r)
  BY <1>2, <1>3, <1>4, <1>5 DEF Touches
<1>8. \A q \in runs : q = r \/ Owns(c, s, q)
  BY <1>1 DEF Owns
<1> QED
  BY <1>1, <1>2, <1>3, <1>4, <1>5, <1>6, <1>7, <1>8 DEF Reopens

\* A status is written, the session has no active run, and an event tells it.
LEMMA EndedEnds ==
  ASSUME NEW c \in HostState, NEW s \in Sessions, NEW r \in RunIds,
         NEW kind \in {"RunCompleted", "RunFailed", "RunCancelled"},
         NEW e \in HostState, NEW d, d = PushEvent(WithoutActive(e, s), s, r, kind),
         \/ e = WithStatus(c, r, Ended(kind))
         \/ e = c /\ Status(c, r) = "Unknown"
  PROVE  Ends(c, d, s, r, kind)
<1>1. Ended(kind) \in RunStatus
  BY DEF Ended, RunStatus
<1>2. /\ e.sessions = c.sessions /\ e.idempotency = c.idempotency
      /\ e.events = c.events /\ e.next_id = c.next_id
      /\ \A q \in RunIds : q # r => e.run_status[q] = c.run_status[q]
      /\ e.run_status[r] \in {Ended(kind), "Unknown"}
  <2>1. CASE e = WithStatus(c, r, Ended(kind))
    <3>1. /\ e.run_status[r] = Ended(kind)
          /\ \A q \in RunIds : q # r => e.run_status[q] = c.run_status[q]
          /\ e.sessions = c.sessions /\ e.idempotency = c.idempotency
          /\ e.events = c.events /\ e.next_id = c.next_id
      BY <1>1, <2>1, WithStatusFields
    <3> QED
      BY <3>1, HostFields
  <2>2. CASE e = c /\ Status(c, r) = "Unknown"
    BY <2>2 DEF Status
  <2> QED
    BY <2>1, <2>2
<1> PICK f : f = WithoutActive(e, s)
  OBVIOUS
<1>3. /\ f \in HostState
      /\ \A t \in Sessions : t # s => f.sessions[t] = e.sessions[t]
      /\ f.sessions[s] = IF Known(e, s) THEN [runs |-> e.sessions[s].runs, active |-> NoRun]
                         ELSE NoSession
      /\ f.run_status = e.run_status /\ f.idempotency = e.idempotency
      /\ f.events = e.events /\ f.next_id = e.next_id
  BY WithoutActiveFields
<1>4. /\ d \in HostState
      /\ d.events[s] = Append(f.events[s], [kind |-> kind, run |-> r])
      /\ \A t \in Sessions : t # s => d.events[t] = f.events[t]
      /\ d.sessions = f.sessions /\ d.idempotency = f.idempotency
      /\ d.run_status = f.run_status /\ d.next_id = f.next_id
  <2> PICK event : event = [kind |-> kind, run |-> r]
    OBVIOUS
  <2> PICK events : events = [f.events EXCEPT ![s] = Append(f.events[s], event)]
    OBVIOUS
  <2>1. event \in Event
    BY <1>3 DEF Event
  <2>2. /\ events \in [Sessions -> Seq(Event)] /\ events[s] = Append(f.events[s], event)
        /\ \A t \in Sessions : t # s => events[t] = f.events[t]
    <3>1. f.events \in [Sessions -> Seq(Event)] /\ f.events[s] \in Seq(Event)
      BY <1>3, HostFields
    <3>2. Append(f.events[s], event) \in Seq(Event)
      BY <2>1, <3>1
    <3> QED
      BY <3>1, <3>2
  <2>3. d = [f EXCEPT !.events = events]
    BY DEF PushEvent
  <2>4. f \in HostState
    BY <1>3
  <2>5. /\ d \in HostState /\ d.events = events
        /\ d.sessions = f.sessions /\ d.idempotency = f.idempotency
        /\ d.run_status = f.run_status /\ d.next_id = f.next_id
    BY <2>2, <2>3, <2>4 DEF HostState
  <2> QED
    BY <2>2, <2>5
<1>5. Known(e, s) <=> Known(c, s)
  BY <1>2 DEF Known
<1>6. /\ d.events[s] = Append(c.events[s], [kind |-> kind, run |-> r])
      /\ \A t \in Sessions : t # s => d.events[t] = c.events[t]
  BY <1>2, <1>3, <1>4, HostFields
<1>7. Touches(c, d, s, r)
  BY <1>2, <1>3, <1>4, <1>6 DEF Touches
<1> QED
  BY <1>2, <1>3, <1>4, <1>5, <1>6, <1>7 DEF Ends

LEMMA RolledBackFields ==
  ASSUME NEW c \in HostState, NEW s \in Sessions, NEW r \in RunIds,
         NEW key \in RequestKeys \cup {NoRequestKey}, NEW d, d = RolledBack(c, s, r, key)
  PROVE  RollsBack(c, d, s, r) /\ (key \in RequestKeys => d.idempotency[key] = NoEntry)
<1> PICK keys : keys = IF key = NoRequestKey THEN c.idempotency
                       ELSE [c.idempotency EXCEPT ![key] = NoEntry]
  OBVIOUS
<1> PICK sessions : sessions = [c.sessions EXCEPT ![s] = NoSession]
  OBVIOUS
<1> PICK status : status = [c.run_status EXCEPT ![r] = "Unknown"]
  OBVIOUS
<1> PICK events : events = [c.events EXCEPT ![s] = <<>>]
  OBVIOUS
<1>1. /\ keys \in [RequestKeys -> Entry \cup {NoEntry}]
      /\ \A k \in RequestKeys : keys[k] \in {c.idempotency[k], NoEntry}
      /\ key \in RequestKeys => keys[key] = NoEntry
  BY HostFields, ControlStateAssumption
<1>2. /\ sessions \in [Sessions -> SessionState \cup {NoSession}] /\ sessions[s] = NoSession
      /\ \A t \in Sessions : t # s => sessions[t] = c.sessions[t]
  BY HostFields
<1>3. /\ status \in [RunIds -> RunStatus] /\ status[r] = "Unknown"
      /\ \A q \in RunIds : q # r => status[q] = c.run_status[q]
  BY HostFields DEF RunStatus
<1>4. /\ events \in [Sessions -> Seq(Event)] /\ events[s] = <<>>
      /\ \A t \in Sessions : t # s => events[t] = c.events[t]
  BY HostFields, EmptySeq
<1>5. d = [c EXCEPT !.sessions = sessions, !.run_status = status, !.events = events,
                    !.idempotency = keys]
  BY DEF RolledBack
<1>6. c \in HostState
  OBVIOUS
<1>7. d \in HostState /\ d.sessions = sessions /\ d.run_status = status /\ d.events = events
      /\ d.idempotency = keys /\ d.next_id = c.next_id
  BY <1>1, <1>2, <1>3, <1>4, <1>5, <1>6 DEF HostState
<1> QED
  BY <1>1, <1>2, <1>3, <1>4, <1>7 DEF RollsBack, Touches

\* A status for resume: a session that is not built yet, with the run to resume.
Seeds(c, d, s, r) ==
  /\ Touches(c, d, s, r)
  /\ d.next_id = c.next_id /\ d.idempotency = c.idempotency /\ d.events = c.events
  /\ d.sessions[s] = [runs |-> {r}, active |-> NoRun] /\ d.run_status[r] = "Completed"

LEMMA SeededSeeds ==
  ASSUME NEW c \in HostState, NEW s \in Sessions, NEW r \in RunIds, NEW d, d = Seeded(c, s, r)
  PROVE  Seeds(c, d, s, r)
<1>1. /\ d \in HostState
      /\ d.sessions[s] = [runs |-> {r}, active |-> NoRun]
      /\ \A t \in Sessions : t # s => d.sessions[t] = c.sessions[t]
      /\ d.run_status[r] = "Completed"
      /\ \A q \in RunIds : q # r => d.run_status[q] = c.run_status[q]
      /\ d.idempotency = c.idempotency /\ d.events = c.events /\ d.next_id = c.next_id
  BY SeededFields
<1> QED
  BY <1>1 DEF Seeds, Touches

-----------------------------------------------------------------------------
(* What the calls change. *)

LEMMA StartEffects ==
  ASSUME control \in HostState, NEW s \in Sessions, NEW key \in RequestKeys \cup {NoRequestKey},
         StartSession(s, key)
  PROVE  \E r \in RunIds :
           /\ setup = NoSetup
           /\ setup' = IF current[s] # NoObject THEN NoSetup
                       ELSE Calling("start", "build", s, r, key, s, r)
           /\ \/ /\ control' = control /\ Cached(control, key)
                 /\ control.idempotency[key].request.session = s
                 /\ control.idempotency[key].response.run = r
              \/ /\ r = control.next_id /\ Opens(control, control', s, r) /\ ~Known(control, s)
                 /\ control'.events[s] =
                      Append(control.events[s], [kind |-> "SessionStarted", run |-> r])
<1> DEFINE request == [op |-> "start", session |-> s, run |-> NoRun]
<1>1. request \in Request /\ request.session = s /\ request.op # "resume"
  BY DEF Request
<1>2. CASE Replays(control, key, request)
  <2> DEFINE r == control.idempotency[key].response.run
  <2>1. key \in RequestKeys /\ control.idempotency[key] \in Entry
    BY <1>2, HostFields DEF Replays, Cached
  <2>2. r \in RunIds
    BY <2>1 DEF Entry, Response
  <2> QED
    BY <1>1, <1>2, <2>2 DEF StartSession, Replays
<1>3. CASE ~Replays(control, key, request)
  <2>1. /\ control.next_id <= MaxId /\ ~Known(control, s)
        /\ control' = Started(control, s, key, request)
    BY <1>3 DEF StartSession
  <2> HIDE DEF request
  <2>2. /\ Opens(control, control', s, control.next_id)
        /\ control'.events[s] =
             Append(control.events[s], [kind |-> "SessionStarted", run |-> control.next_id])
    BY <1>1, <2>1, StartedOpens
  <2>3. control.next_id \in RunIds
    BY <2>1, HostFields, ControlStateAssumption DEF RunIds
  <2> QED
    BY <1>3, <2>1, <2>2, <2>3 DEF StartSession, request
<1> QED
  BY <1>2, <1>3

LEMMA BranchEffects ==
  ASSUME control \in HostState, NEW s \in Sessions, NEW key \in RequestKeys \cup {NoRequestKey},
         NEW parent \in Sessions, NEW from \in RunIds, BranchSession(parent, from, s, key)
  PROVE  \E r \in RunIds :
           /\ setup = NoSetup
           /\ setup' = IF current[s] # NoObject THEN NoSetup
                       ELSE Calling("branch", "source", s, r, key, parent, from)
           /\ \/ /\ control' = control /\ Cached(control, key)
                 /\ control.idempotency[key].request.session = s
                 /\ control.idempotency[key].response.run = r
              \/ /\ r = control.next_id /\ Opens(control, control', s, r) /\ ~Known(control, s)
                 /\ control'.events[s] = control.events[s]
<1> DEFINE request == [op |-> "branch", session |-> s, run |-> from]
<1>1. request \in Request /\ request.session = s /\ request.op # "resume"
  BY DEF Request
<1>2. CASE Replays(control, key, request)
  <2> DEFINE r == control.idempotency[key].response.run
  <2>1. key \in RequestKeys /\ control.idempotency[key] \in Entry
    BY <1>2, HostFields DEF Replays, Cached
  <2>2. r \in RunIds
    BY <2>1 DEF Entry, Response
  <2> QED
    BY <1>1, <1>2, <2>2 DEF BranchSession, Replays
<1>3. CASE ~Replays(control, key, request)
  <2>1. /\ control.next_id <= MaxId /\ ~Known(control, s)
        /\ control' = Branched(control, s, key, request)
    BY <1>3 DEF BranchSession
  <2> HIDE DEF request
  <2>2. Opens(control, control', s, control.next_id) /\ control'.events[s] = control.events[s]
    BY <1>1, <2>1, BranchedOpens
  <2>3. control.next_id \in RunIds
    BY <2>1, HostFields, ControlStateAssumption DEF RunIds
  <2> QED
    BY <1>3, <2>1, <2>2, <2>3 DEF BranchSession, request
<1> QED
  BY <1>2, <1>3

\* resume: accepted (seeded first, then run again, or replayed) or rolled back.
LEMMA ResumeEffects ==
  ASSUME control \in HostState, NEW s \in Sessions, NEW r \in RunIds,
         NEW key \in RequestKeys \cup {NoRequestKey}, ResumeSession(s, r, key)
  PROVE  /\ setup = NoSetup
         /\ \/ /\ setup' = Calling("resume", "source", s, r, key, s, r)
               /\ \/ /\ Cached(control, key)
                     /\ control.idempotency[key].request = [op |-> "resume", session |-> s, run |-> r]
                     /\ \/ current[s] # NoObject /\ control' = control
                        \/ current[s] = NoObject /\ Seeds(control, control', s, r)
                  \/ /\ Reopens(control, control', s, r)
                     /\ key # NoRequestKey => \A k \in RequestKeys \ {key} :
                          control'.idempotency[k] = control.idempotency[k]
                     /\ key = NoRequestKey => control'.idempotency = control.idempotency
            \/ /\ setup' = setup /\ current[s] = NoObject
               /\ RollsBack(control, control', s, r)
<1> DEFINE request == [op |-> "resume", session |-> s, run |-> r]
<1> PICK seeded : seeded = IF current[s] # NoObject THEN control ELSE Seeded(control, s, r)
  OBVIOUS
<1>1. request \in Request /\ request.session = s /\ request.run = r
  BY DEF Request
<1>2. seeded \in HostState /\ seeded.idempotency = control.idempotency
  <2>1. CASE current[s] # NoObject
    BY <2>1
  <2>2. CASE current[s] = NoObject
    <3>1. seeded = Seeded(control, s, r)
      BY <2>2
    <3>2. Seeds(control, seeded, s, r)
      BY <3>1, SeededSeeds
    <3> QED
      BY <3>2 DEF Seeds, Touches
  <2> QED
    BY <2>1, <2>2
<1>3. \/ seeded = control /\ current[s] # NoObject
      \/ Seeds(control, seeded, s, r) /\ current[s] = NoObject
  BY SeededSeeds
<1> HIDE DEF request
<1>4. CASE /\ ~Conflicts(seeded, key, request)
           /\ Replays(seeded, key, request)
           /\ control' = seeded
           /\ setup' = Calling("resume", "source", s, r, key, s, r) /\ setup = NoSetup
  <2>1. Cached(control, key) /\ control.idempotency[key].request = request
    BY <1>2, <1>4 DEF Replays, Cached
  <2> QED
    BY <1>3, <1>4, <2>1 DEF request
<1>5. CASE /\ CanResume(seeded, s, r)
           /\ control' = Resumed(seeded, s, r, key, request)
           /\ setup' = Calling("resume", "source", s, r, key, s, r) /\ setup = NoSetup
  <2>1. Reopens(seeded, control', s, r)
    BY <1>1, <1>2, <1>5, ResumedReopens
  <2>2. Reopens(control, control', s, r)
    <3>1. PICK runs \in SUBSET RunIds :
            /\ control'.sessions[s] = [runs |-> runs, active |-> r]
            /\ r \in runs /\ \A q \in runs : q = r \/ Owns(seeded, s, q)
      BY <2>1 DEF Reopens
    <3>2. \A q \in runs : q = r \/ Owns(control, s, q)
      BY <1>3, <3>1 DEF Seeds, Owns
    <3>3. Touches(control, control', s, r)
      BY <1>3, <2>1 DEF Reopens, Seeds, Touches
    <3>4. KeysFor(control, control', s, r)
      BY <1>2, <2>1 DEF Reopens, KeysFor
    <3> QED
      BY <1>3, <2>1, <3>1, <3>2, <3>3, <3>4 DEF Reopens, Seeds
  <2>3. /\ key # NoRequestKey => \A k \in RequestKeys \ {key} :
             control'.idempotency[k] = control.idempotency[k]
        /\ key = NoRequestKey => control'.idempotency = control.idempotency
    BY <1>2, <1>5, HostFields DEF Resumed, RememberEntry, WithStatus, WithSession, HostState
  <2> QED
    BY <1>5, <2>2, <2>3
<1>6. CASE /\ current[s] = NoObject
           /\ control' = RolledBack(seeded, s, r, key)
           /\ setup' = setup /\ setup = NoSetup
  <2>1. RollsBack(seeded, control', s, r)
    BY <1>2, <1>6, RolledBackFields
  <2>2. RollsBack(control, control', s, r)
    BY <1>2, <1>3, <2>1 DEF RollsBack, Touches, Seeds
  <2> QED
    BY <1>6, <2>2
<1> QED
  BY <1>4, <1>5, <1>6 DEF ResumeSession, request

\* The end of an execution or a cancelled run: written and announced, or nothing.
LEMMA EndEffects ==
  ASSUME NEW c \in HostState, NEW s \in Sessions, NEW r \in RunIds
  PROVE  /\ \/ RunCompleted(c, s, r) = c
            \/ Ends(c, RunCompleted(c, s, r), s, r, "RunCompleted")
         /\ Ends(c, RunFailed(c, s, r), s, r, "RunFailed")
         /\ \/ CancelMarked(c, s, r) = c
            \/ Ends(c, CancelMarked(c, s, r), s, r, "RunCancelled")
<1>1. ASSUME NEW status \in RunStatus PROVE WithStatus(c, r, status) \in HostState
  BY <1>1, WithStatusFields
<1>2. {"Completed", "Failed", "Cancelled"} \subseteq RunStatus
  BY DEF RunStatus
<1>3. ASSUME Known(c, s), Status(c, r) # "Unknown"
      PROVE  Ends(c, RunCompleted(c, s, r), s, r, "RunCompleted")
  <2> PICK e : e = WithStatus(c, r, "Completed")
    OBVIOUS
  <2>1. e \in HostState /\ e = WithStatus(c, r, Ended("RunCompleted"))
    BY <1>1, <1>2 DEF Ended
  <2>2. RunCompleted(c, s, r) = PushEvent(WithoutActive(e, s), s, r, "RunCompleted")
    BY <1>3 DEF RunCompleted
  <2> QED
    BY <2>1, <2>2, EndedEnds
<1>4. Ends(c, RunFailed(c, s, r), s, r, "RunFailed")
  <2> PICK e : e = IF Status(c, r) # "Unknown" THEN WithStatus(c, r, "Failed") ELSE c
    OBVIOUS
  <2>1. /\ e \in HostState
        /\ \/ e = WithStatus(c, r, Ended("RunFailed"))
           \/ e = c /\ Status(c, r) = "Unknown"
    BY <1>1, <1>2 DEF Ended
  <2>2. RunFailed(c, s, r) = PushEvent(WithoutActive(e, s), s, r, "RunFailed")
    BY DEF RunFailed
  <2> QED
    BY <2>1, <2>2, EndedEnds
<1>5. ASSUME Status(c, r) = "Running"
      PROVE  Ends(c, CancelMarked(c, s, r), s, r, "RunCancelled")
  <2> PICK e : e = WithStatus(c, r, "Cancelled")
    OBVIOUS
  <2>1. e \in HostState /\ e = WithStatus(c, r, Ended("RunCancelled"))
    BY <1>1, <1>2 DEF Ended
  <2>2. CancelMarked(c, s, r) = PushEvent(WithoutActive(e, s), s, r, "RunCancelled")
    BY <1>5 DEF CancelMarked
  <2> QED
    BY <2>1, <2>2, EndedEnds
<1> QED
  BY <1>3, <1>4, <1>5 DEF RunCompleted, CancelMarked

-----------------------------------------------------------------------------
(* Types. *)

Conversation == Seq(Prompts)
ObjectState == [history : Conversation, dir : Nat]
DirState == [run : RunIds, session : Sessions, history : Conversation,
             state : {"Running", "Completed", "Failed", "Interrupted"}]
TaskState == [pc : {"admitted", "running", "returned", "deciding", "reporting"},
              session : Sessions, run : RunIds, object : Nat \ {0},
              result : {"none", "ok", "failed"}]
SetupState == [op : {"start", "resume", "branch"}, pc : {"source", "build"},
               session : Sessions, run : RunIds, key : RequestKeys \cup {NoRequestKey},
               parent : Sessions, from : RunIds, history : Conversation]

HostType ==
  /\ control \in HostState
  /\ objects \in Seq(ObjectState)
  /\ current \in [Sessions -> Nat]
  /\ cancellations \in [RunIds -> Prompts \cup {NoPrompt}]
  /\ signalled \in SUBSET Prompts
  /\ tasks \in [Prompts -> TaskState \cup {Idle}]
  /\ cancelling \in SUBSET (Sessions \X RunIds)
  /\ setup \in SetupState \cup {NoSetup}
  /\ dirs \in Seq(DirState)
  /\ prompts \in 0..MaxPrompts
  /\ restarts \in Nat
  /\ executed \in [Sessions -> Conversation]

\* The retained sessions and the directories that are referred to exist.
Referred ==
  /\ \A s \in Sessions : current[s] \in 0..Len(objects)
  /\ \A i \in DOMAIN objects : objects[i].dir \in 0..Len(dirs)
  /\ \A p \in Prompts : tasks[p] # Idle => tasks[p].object \in 1..Len(objects)

-----------------------------------------------------------------------------
(* The oldest directory of a run exists when it has one. *)

LEMMA LeastIndex ==
  ASSUME NEW S, S \subseteq Nat, S # {}
  PROVE  \E i \in S : \A j \in S : i <= j
<1>1. IsWellFoundedOn(OpToRel(<, Nat), Nat)
  BY NatLessThanWellFounded
<1>2. PICK i \in S : \A j \in S : <<j, i>> \notin OpToRel(<, Nat)
  BY <1>1, WFMin
<1>3. \A j \in S : ~ (j < i)
  BY <1>2 DEF OpToRel
<1> QED
  BY <1>3

LEMMA OldestDirectory ==
  ASSUME NEW r, dirs \in Seq(DirState), RunDirs(r) # {}
  PROVE  FindRunDir(r) \in RunDirs(r)
<1>1. RunDirs(r) \subseteq Nat
  BY LenProperties DEF RunDirs
<1>2. \E i \in RunDirs(r) : \A j \in RunDirs(r) : i <= j
  BY <1>1, LeastIndex
<1> QED
  BY <1>2 DEF FindRunDir

LEMMA GreatestIndex ==
  ASSUME NEW S, NEW n \in Nat, S \subseteq 1..n, S # {}
  PROVE  \E i \in S : \A j \in S : j <= i
<1> PICK T : T = {n - i : i \in S}
  OBVIOUS
<1>1. T \subseteq Nat /\ T # {}
  <2>1. \A i \in S : n - i \in Nat
    OBVIOUS
  <2>2. PICK i : i \in S
    OBVIOUS
  <2>3. n - i \in T
    BY <2>2
  <2> QED
    BY <2>1, <2>3
<1>2. PICK k \in T : \A j \in T : k <= j
  BY <1>1, LeastIndex
<1>3. PICK i \in S : k = n - i
  OBVIOUS
<1>4. \A j \in S : j <= i
  BY <1>2, <1>3
<1> QED
  BY <1>4

LEMMA NewestDirectory ==
  ASSUME NEW r, dirs \in Seq(DirState), RunDirs(r) # {}
  PROVE  TracePath(r) \in RunDirs(r) /\ \A j \in RunDirs(r) : j <= TracePath(r)
<1>1. RunDirs(r) \subseteq 1..Len(dirs) /\ Len(dirs) \in Nat
  BY LenProperties DEF RunDirs
<1>2. \E i \in RunDirs(r) : \A j \in RunDirs(r) : j <= i
  BY <1>1, GreatestIndex
<1> QED
  BY <1>2 DEF TracePath

\* Only the state in the newest run.json of a run is written.
LEMMA FinalizedDirs ==
  ASSUME dirs \in Seq(DirState), NEW r \in RunIds,
         NEW state \in {"Running", "Completed", "Failed", "Interrupted"}
  PROVE  /\ Finalized(r, state) \in Seq(DirState)
         /\ Len(Finalized(r, state)) = Len(dirs)
         /\ \A i \in 1..Len(dirs) :
              /\ Finalized(r, state)[i].run = dirs[i].run
              /\ Finalized(r, state)[i].session = dirs[i].session
              /\ Finalized(r, state)[i].history = dirs[i].history
              /\ Finalized(r, state)[i].state = IF dirs[i].run = r /\ i = TracePath(r) THEN state
                                                ELSE dirs[i].state
<1>1. CASE RunDirs(r) = {}
  BY <1>1, LenProperties DEF Finalized, RunDirs
<1>2. CASE RunDirs(r) # {}
  <2> PICK n : n = TracePath(r)
    OBVIOUS
  <2> PICK d : d = [dirs[n] EXCEPT !.state = state]
    OBVIOUS
  <2>1. n \in 1..Len(dirs) /\ dirs[n].run = r
    BY <1>2, NewestDirectory, LenProperties DEF RunDirs
  <2>2. dirs[n] \in DirState
    BY <2>1, ElementOfSeq
  <2>3. /\ d \in DirState /\ d.run = dirs[n].run /\ d.session = dirs[n].session
        /\ d.history = dirs[n].history /\ d.state = state
    BY <2>2 DEF DirState
  <2>4. Finalized(r, state) = [dirs EXCEPT ![n] = d]
    BY <1>2 DEF Finalized
  <2>5. /\ Finalized(r, state) \in Seq(DirState) /\ Len(Finalized(r, state)) = Len(dirs)
        /\ \A i \in 1..Len(dirs) : Finalized(r, state)[i] = IF i = n THEN d ELSE dirs[i]
    BY <2>1, <2>3, <2>4, ExceptSeq
  <2> QED
    BY <2>1, <2>3, <2>5
<1> QED
  BY <1>1, <1>2

LEMMA WithNewDirDirs ==
  ASSUME dirs \in Seq(DirState), setup \in SetupState
  PROVE  /\ WithNewDir \in Seq(DirState)
         /\ Len(WithNewDir) = IF Tracing THEN Len(dirs) + 1 ELSE Len(dirs)
         /\ \A i \in 1..Len(dirs) : WithNewDir[i] = dirs[i]
         /\ Tracing => WithNewDir[Len(dirs) + 1] = NewDir
<1>1. NewDir \in DirState
  <2>1. <<>> \in Conversation
    BY DEF Conversation
  <2> QED
    BY <2>1 DEF NewDir, DirState, SetupState
<1> QED
  BY <1>1, AppendProperties, LenProperties DEF WithNewDir

\* A task that is somewhere has a shape.
LEMMA TaskShape ==
  ASSUME HostType, NEW p \in Prompts,
         NEW pc \in {"admitted", "running", "returned", "deciding", "reporting"}, AtTask(p, pc)
  PROVE  tasks[p] \in TaskState /\ tasks[p] # Idle
BY DEF HostType, AtTask, Idle

LEMMA ExceptDirs ==
  ASSUME NEW ds \in Seq(DirState), NEW i \in 1..Len(ds), NEW e \in DirState,
         NEW new, new = [ds EXCEPT ![i] = e]
  PROVE  /\ new \in Seq(DirState) /\ Len(new) = Len(ds)
         /\ \A j \in 1..Len(ds) : new[j] = IF j = i THEN e ELSE ds[j]
BY ExceptSeq

\* A prompt that starts to execute extends the retained session and its directory.
LEMMA ExecuteEffects ==
  ASSUME HostType, Referred, NEW p \in Prompts, Execute(p)
  PROVE  LET o == tasks[p].object
             extended == Append(objects[o].history, p)
         IN /\ o \in 1..Len(objects) /\ extended \in Conversation
            /\ objects' \in Seq(ObjectState) /\ Len(objects') = Len(objects)
            /\ \A i \in 1..Len(objects) :
                 /\ objects'[i].dir = objects[i].dir
                 /\ objects'[i].history = IF i = o THEN extended ELSE objects[i].history
            /\ dirs' \in Seq(DirState) /\ Len(dirs') = Len(dirs)
            /\ \A i \in 1..Len(dirs) :
                 /\ dirs'[i].run = dirs[i].run /\ dirs'[i].session = dirs[i].session
                 /\ dirs'[i].state = dirs[i].state
                 /\ dirs'[i].history = IF i = objects[o].dir THEN extended ELSE dirs[i].history
<1> PICK o : o = tasks[p].object
  OBVIOUS
<1> PICK extended : extended = Append(objects[o].history, p)
  OBVIOUS
<1> PICK dir : dir = objects[o].dir
  OBVIOUS
<1>1. o \in 1..Len(objects) /\ objects \in Seq(ObjectState) /\ dirs \in Seq(DirState)
  BY TaskShape DEF Execute, Referred, HostType
<1>2. objects[o] \in ObjectState
  BY <1>1, ElementOfSeq
<1>3. extended \in Conversation
  <2>1. objects[o].history \in Seq(Prompts)
    BY <1>2 DEF ObjectState, Conversation
  <2> QED
    BY <2>1 DEF Conversation
<1>4. /\ objects' \in Seq(ObjectState) /\ Len(objects') = Len(objects)
      /\ \A i \in 1..Len(objects) :
           /\ objects'[i].dir = objects[i].dir
           /\ objects'[i].history = IF i = o THEN extended ELSE objects[i].history
  <2> PICK e : e = [objects[o] EXCEPT !.history = extended]
    OBVIOUS
  <2>1. e \in ObjectState /\ e.dir = objects[o].dir /\ e.history = extended
    BY <1>2, <1>3 DEF ObjectState
  <2>2. objects' = [objects EXCEPT ![o] = e]
    BY DEF Execute
  <2>3. /\ objects' \in Seq(ObjectState) /\ Len(objects') = Len(objects)
        /\ \A i \in 1..Len(objects) : objects'[i] = IF i = o THEN e ELSE objects[i]
    BY <1>1, <2>1, <2>2, ExceptSeq, SMTT(30)
  <2> QED
    BY <2>1, <2>3
<1>5. /\ dirs' \in Seq(DirState) /\ Len(dirs') = Len(dirs)
      /\ \A i \in 1..Len(dirs) :
           /\ dirs'[i].run = dirs[i].run /\ dirs'[i].session = dirs[i].session
           /\ dirs'[i].state = dirs[i].state
           /\ dirs'[i].history = IF i = dir THEN extended ELSE dirs[i].history
  <2>0. dir \in 0..Len(dirs)
    BY <1>1, LenProperties DEF Referred
  <2>1. CASE dir = NoDir
    <3>1. dirs' = dirs
      BY <2>1 DEF Execute
    <3>2. \A i \in 1..Len(dirs) : i # dir
      BY <2>1 DEF NoDir
    <3> QED
      BY <1>1, <3>1, <3>2
  <2>2. CASE dir # NoDir
    <3>0. PICK e : e = [dirs[dir] EXCEPT !.history = extended]
      OBVIOUS
    <3>1. dir \in 1..Len(dirs)
      BY <1>1, <2>0, <2>2, LenProperties DEF NoDir
    <3>2. dirs[dir] \in DirState
      BY <1>1, <3>1, ElementOfSeq
    <3>3. /\ e \in DirState /\ e.run = dirs[dir].run /\ e.session = dirs[dir].session
          /\ e.state = dirs[dir].state /\ e.history = extended
      BY <1>3, <3>0, <3>2 DEF DirState
    <3>4. dirs' = [dirs EXCEPT ![dir] = e]
      BY <2>2, <3>0 DEF Execute
    <3>5. /\ dirs' \in Seq(DirState) /\ Len(dirs') = Len(dirs)
          /\ \A i \in 1..Len(dirs) : dirs'[i] = IF i = dir THEN e ELSE dirs[i]
      <4>1. dirs \in Seq(DirState) /\ e \in DirState
        BY <1>1, <3>3
      <4> QED
        BY <3>1, <3>4, <4>1, ExceptDirs
    <3>6. ASSUME NEW i \in 1..Len(dirs)
          PROVE  /\ dirs'[i].run = dirs[i].run /\ dirs'[i].session = dirs[i].session
                 /\ dirs'[i].state = dirs[i].state
                 /\ dirs'[i].history = IF i = dir THEN extended ELSE dirs[i].history
      <4>1. CASE i = dir
        BY <3>3, <3>5, <4>1
      <4>2. CASE i # dir
        BY <3>5, <4>2
      <4> QED
        BY <4>1, <4>2
    <3> QED
      BY <3>5, <3>6
  <2> QED
    BY <2>1, <2>2
<1> QED
  BY <1>1, <1>3, <1>4, <1>5

\* The conversation a call takes for the new session.
LEMMA SourceType ==
  ASSUME HostType, Referred, TakeSource
  PROVE  \E history \in Conversation :
           /\ setup' = [setup EXCEPT !.pc = "build", !.history = history]
           /\ setup \in SetupState
           /\ \/ Retained /\ history = objects[current[setup.parent]].history
              \/ ~Retained /\ RunDirs(setup.from) # {}
                 /\ history = dirs[FindRunDir(setup.from)].history
<1>1. setup \in SetupState
  BY DEF TakeSource, HostType
<1>2. CASE Retained
  <2> DEFINE o == current[setup.parent]
  <2>1. setup.parent \in Sessions
    BY <1>1 DEF SetupState
  <2>2. o \in 1..Len(objects) /\ objects \in Seq(ObjectState)
    BY <1>2, <2>1, LenProperties DEF Retained, Referred, HostType, NoObject
  <2>3. objects[o] \in ObjectState
    BY <2>2, ElementOfSeq
  <2> QED
    BY <1>1, <1>2, <2>3 DEF TakeSource, ObjectState
<1>3. CASE ~Retained
  <2>1. RunDirs(setup.from) # {} /\ setup' = [setup EXCEPT !.pc = "build",
                                             !.history = dirs[FindRunDir(setup.from)].history]
    BY <1>3 DEF TakeSource
  <2>2. FindRunDir(setup.from) \in 1..Len(dirs) /\ dirs \in Seq(DirState)
    BY <2>1, OldestDirectory, LenProperties DEF HostType, RunDirs
  <2>3. dirs[FindRunDir(setup.from)] \in DirState
    BY <2>2, ElementOfSeq
  <2> QED
    BY <1>1, <1>3, <2>1, <2>3 DEF DirState
<1> QED
  BY <1>2, <1>3

\* The steps of one task leave the others alone and keep what its prompt is about.
Moved(p, pc) ==
  /\ tasks' \in [Prompts -> TaskState \cup {Idle}]
  /\ tasks'[p] \in TaskState /\ tasks'[p].pc = pc
  /\ tasks'[p].session = tasks[p].session /\ tasks'[p].run = tasks[p].run
  /\ tasks'[p].object = tasks[p].object
  /\ \A q \in Prompts : q # p => tasks'[q] = tasks[q]

LEMMA MovedTask ==
  ASSUME HostType, NEW p \in Prompts,
         NEW old \in {"admitted", "running", "returned", "deciding", "reporting"}, AtTask(p, old),
         NEW pc \in {"admitted", "running", "returned", "deciding", "reporting"}
  PROVE  /\ MoveTask(p, pc) => Moved(p, pc) /\ tasks'[p].result = tasks[p].result
         /\ RunReturns(p) => Moved(p, "returned")
         /\ EndTask(p) => /\ tasks' \in [Prompts -> TaskState \cup {Idle}]
                          /\ tasks'[p] = Idle /\ \A q \in Prompts : q # p => tasks'[q] = tasks[q]
<1>1. tasks[p] \in TaskState /\ tasks \in [Prompts -> TaskState \cup {Idle}]
  BY TaskShape DEF HostType
<1>2. ASSUME MoveTask(p, pc) PROVE Moved(p, pc) /\ tasks'[p].result = tasks[p].result
  <2> PICK t : t = [tasks[p] EXCEPT !.pc = pc]
    OBVIOUS
  <2>1. /\ t \in TaskState /\ t.pc = pc /\ t.session = tasks[p].session /\ t.run = tasks[p].run
        /\ t.object = tasks[p].object /\ t.result = tasks[p].result
    BY <1>1 DEF TaskState
  <2>2. tasks' = [tasks EXCEPT ![p] = t]
    BY <1>2 DEF MoveTask
  <2> QED
    BY <1>1, <2>1, <2>2 DEF Moved
<1>3. ASSUME RunReturns(p) PROVE Moved(p, "returned")
  <2>1. PICK result \in {"ok", "failed"} :
          tasks' = [tasks EXCEPT ![p] = [@ EXCEPT !.pc = "returned", !.result = result]]
    BY <1>3 DEF RunReturns
  <2> PICK t : t = [tasks[p] EXCEPT !.pc = "returned", !.result = result]
    OBVIOUS
  <2>2. /\ t \in TaskState /\ t.pc = "returned" /\ t.session = tasks[p].session
        /\ t.run = tasks[p].run /\ t.object = tasks[p].object
    BY <1>1 DEF TaskState
  <2>3. tasks' = [tasks EXCEPT ![p] = t]
    BY <2>1
  <2> QED
    BY <1>1, <2>2, <2>3 DEF Moved
<1>4. ASSUME EndTask(p)
      PROVE  /\ tasks' \in [Prompts -> TaskState \cup {Idle}]
             /\ tasks'[p] = Idle /\ \A q \in Prompts : q # p => tasks'[q] = tasks[q]
  BY <1>1, <1>4 DEF EndTask
<1> QED
  BY <1>2, <1>3, <1>4

LEMMA AdmittedTask ==
  ASSUME HostType, Referred, NEW s \in Sessions, NEW r \in RunIds,
         NEW key \in RequestKeys \cup {NoRequestKey}, Admit(s, r, key)
  PROVE  /\ prompts' = prompts + 1 /\ prompts' \in Prompts
         /\ tasks' \in [Prompts -> TaskState \cup {Idle}]
         /\ tasks'[prompts'] \in TaskState /\ tasks'[prompts'] = Task(s, r, current[s])
         /\ current[s] \in 1..Len(objects)
         /\ \A q \in Prompts : q # prompts' => tasks'[q] = tasks[q]
         /\ cancellations' = [cancellations EXCEPT ![r] = prompts']
         /\ Active(control, s, r)
<1> PICK t : t = Task(s, r, current[s])
  OBVIOUS
<1>1. prompts' = prompts + 1 /\ prompts' \in Prompts
  BY RuntimeHostAssumption DEF Admit, HostType, Prompts
<1>2. current[s] \in 1..Len(objects) /\ Len(objects) \in Nat
  BY LenProperties DEF Admit, Referred, HostType, NoObject
<1>3. t \in TaskState
  BY <1>2 DEF Task, TaskState
<1>4. tasks' = [tasks EXCEPT ![prompts'] = t]
  BY DEF Admit
<1> QED
  BY <1>1, <1>2, <1>3, <1>4 DEF Admit, HostType

LEMMA InitType ==
  ASSUME Init
  PROVE  HostType /\ Referred
<1>1. control \in HostState
  <2>1. /\ [s \in Sessions |-> NoSession] \in [Sessions -> SessionState \cup {NoSession}]
        /\ [r \in RunIds |-> "Unknown"] \in [RunIds -> RunStatus]
        /\ [k \in RequestKeys |-> NoEntry] \in [RequestKeys -> Entry \cup {NoEntry}]
        /\ 1 \in 1..(MaxId + 1)
    BY ControlStateAssumption DEF RunStatus
  <2>2. [s \in Sessions |-> <<>>] \in [Sessions -> Seq(Event)]
    BY EmptySeq
  <2> QED
    BY <2>1, <2>2 DEF Init, NewControl, HostState
<1>2. /\ objects \in Seq(ObjectState) /\ dirs \in Seq(DirState) /\ Len(objects) = 0
      /\ executed \in [Sessions -> Conversation]
  BY EmptySeq DEF Init, Conversation
<1>3. /\ current \in [Sessions -> Nat] /\ \A s \in Sessions : current[s] = 0
      /\ cancellations \in [RunIds -> Prompts \cup {NoPrompt}]
      /\ tasks \in [Prompts -> TaskState \cup {Idle}] /\ \A p \in Prompts : tasks[p] = Idle
  BY DEF Init, NoObject
<1>4. HostType
  BY <1>1, <1>2, <1>3, RuntimeHostAssumption DEF Init, HostType
<1> QED
  BY <1>2, <1>3, <1>4, LenProperties DEF Referred, HostType

\* What a call leaves in setup has a shape.
LEMMA CallingType ==
  ASSUME NEW op \in {"start", "resume", "branch"}, NEW pc \in {"source", "build"},
         NEW s \in Sessions, NEW r \in RunIds, NEW key \in RequestKeys \cup {NoRequestKey},
         NEW parent \in Sessions, NEW from \in RunIds
  PROVE  /\ Calling(op, pc, s, r, key, parent, from) \in SetupState
         /\ Calling(op, pc, s, r, key, parent, from) # NoSetup
<1>1. <<>> \in Conversation
  BY DEF Conversation
<1> QED
  BY <1>1 DEF Calling, SetupState, NoSetup

LEMMA TypeStep ==
  ASSUME HostType, Referred, [Next]_vars
  PROVE  HostType' /\ Referred'
<1>1. ASSUME NEW s \in Sessions, NEW key \in RequestKeys \cup {NoRequestKey}, StartSession(s, key)
      PROVE  HostType' /\ Referred'
  <2>1. control' \in HostState /\ setup' \in SetupState \cup {NoSetup}
    <3>1. PICK r \in RunIds :
            /\ setup' = IF current[s] # NoObject THEN NoSetup
                        ELSE Calling("start", "build", s, r, key, s, r)
            /\ control' = control \/ Opens(control, control', s, r)
      BY <1>1, StartEffects DEF HostType
    <3>2. Calling("start", "build", s, r, key, s, r) \in SetupState
      BY CallingType
    <3> QED
      BY <3>1, <3>2 DEF HostType, Opens, Touches
  <2> QED
    BY <1>1, <2>1 DEF StartSession, HostType, Referred
<1>2. ASSUME NEW s \in Sessions, NEW r \in RunIds, NEW key \in RequestKeys \cup {NoRequestKey},
             ResumeSession(s, r, key)
      PROVE  HostType' /\ Referred'
  <2>1. control' \in HostState /\ setup' \in SetupState \cup {NoSetup}
    <3>1. /\ setup' = Calling("resume", "source", s, r, key, s, r) \/ setup' = setup
          /\ \/ control' = control \/ Seeds(control, control', s, r)
             \/ Reopens(control, control', s, r) \/ RollsBack(control, control', s, r)
      BY <1>2, ResumeEffects DEF HostType
    <3>2. Calling("resume", "source", s, r, key, s, r) \in SetupState
      BY CallingType
    <3> QED
      BY <3>1, <3>2 DEF HostType, Reopens, Seeds, RollsBack, Touches
  <2> QED
    BY <1>2, <2>1 DEF ResumeSession, HostType, Referred
<1>3. ASSUME NEW s \in Sessions, NEW r \in RunIds, NEW key \in RequestKeys \cup {NoRequestKey},
             NEW parent \in Sessions, BranchSession(parent, r, s, key)
      PROVE  HostType' /\ Referred'
  <2>1. control' \in HostState /\ setup' \in SetupState \cup {NoSetup}
    <3>1. PICK new \in RunIds :
            /\ setup' = IF current[s] # NoObject THEN NoSetup
                        ELSE Calling("branch", "source", s, new, key, parent, r)
            /\ control' = control \/ Opens(control, control', s, new)
      BY <1>3, BranchEffects DEF HostType
    <3>2. Calling("branch", "source", s, new, key, parent, r) \in SetupState
      BY CallingType
    <3> QED
      BY <3>1, <3>2 DEF HostType, Opens, Touches
  <2> QED
    BY <1>3, <2>1 DEF BranchSession, HostType, Referred
<1>4. ASSUME NEW s \in Sessions, NEW r \in RunIds, NEW key \in RequestKeys \cup {NoRequestKey},
             Admit(s, r, key)
      PROVE  HostType' /\ Referred'
  <2>1. /\ prompts' \in Prompts /\ tasks' \in [Prompts -> TaskState \cup {Idle}]
        /\ tasks'[prompts'] = Task(s, r, current[s]) /\ current[s] \in 1..Len(objects)
        /\ \A q \in Prompts : q # prompts' => tasks'[q] = tasks[q]
        /\ cancellations' = [cancellations EXCEPT ![r] = prompts']
    BY <1>4, AdmittedTask
  <2>2. prompts' \in 0..MaxPrompts
    BY <2>1 DEF Prompts
  <2>3. cancellations' \in [RunIds -> Prompts \cup {NoPrompt}]
    BY <2>1 DEF HostType
  <2>4. \A q \in Prompts : tasks'[q] # Idle => tasks'[q].object \in 1..Len(objects)
    BY <2>1 DEF Task, Referred
  <2>5. UNCHANGED <<control, objects, current, signalled, cancelling, setup, dirs,
                    restarts, executed>>
    BY <1>4 DEF Admit
  <2>6. HostType'
    BY <2>1, <2>2, <2>3, <2>5 DEF HostType
  <2> QED
    BY <2>4, <2>5, <2>6 DEF Referred
<1>5. ASSUME NEW s \in Sessions, NEW r \in RunIds, CancelRun(s, r)
      PROVE  HostType' /\ Referred'
  <2>1. cancellations[r] \in Prompts \cup {NoPrompt}
    BY DEF HostType
  <2>2. signalled' \in SUBSET Prompts /\ cancelling' \in SUBSET (Sessions \X RunIds)
    BY <1>5, <2>1 DEF CancelRun, HostType
  <2> QED
    BY <1>5, <2>2 DEF CancelRun, HostType, Referred
<1>6. ASSUME TakeSource PROVE HostType' /\ Referred'
  <2>1. setup' \in SetupState
    BY <1>6, SourceType DEF SetupState
  <2> QED
    BY <1>6, <2>1 DEF TakeSource, HostType, Referred
<1>7. ASSUME SourceFails PROVE HostType' /\ Referred'
  <2>1. /\ setup \in SetupState /\ setup.session \in Sessions /\ setup.run \in RunIds
        /\ setup.key \in RequestKeys \cup {NoRequestKey} /\ control \in HostState
    BY <1>7 DEF SourceFails, HostType, SetupState
  <2>2. RollsBack(control, RolledBack(control, setup.session, setup.run, setup.key),
                  setup.session, setup.run)
    BY <2>1, RolledBackFields
  <2>3. control' \in HostState
    BY <1>7, <2>1, <2>2 DEF SourceFails, RollsBack, Touches
  <2> QED
    BY <1>7, <2>3 DEF SourceFails, HostType, Referred
<1>8. ASSUME FinishSetup PROVE HostType' /\ Referred'
  <2> PICK new : new = [history |-> setup.history, dir |-> IF Tracing THEN Len(dirs) + 1 ELSE NoDir]
    OBVIOUS
  <2>1. /\ setup \in SetupState /\ dirs \in Seq(DirState) /\ objects \in Seq(ObjectState)
        /\ Len(dirs) \in Nat /\ Len(objects) \in Nat
        /\ setup.session \in Sessions /\ setup.history \in Conversation
    BY <1>8, LenProperties DEF FinishSetup, HostType, SetupState
  <2>2. /\ dirs' \in Seq(DirState)
        /\ Len(dirs') = IF Tracing THEN Len(dirs) + 1 ELSE Len(dirs)
    BY <1>8, <2>1, WithNewDirDirs DEF FinishSetup
  <2>3. new \in ObjectState /\ new.dir \in 0..Len(dirs')
    BY <2>1, <2>2 DEF ObjectState, NoDir
  <2>4. /\ objects' \in Seq(ObjectState) /\ Len(objects') = Len(objects) + 1
        /\ \A i \in 1..Len(objects) : objects'[i] = objects[i]
        /\ objects'[Len(objects) + 1] = new
    <3>1. objects' = Append(objects, new)
      BY <1>8 DEF FinishSetup
    <3> QED
      BY <2>1, <2>3, <3>1, AppendProperties
  <2>5. /\ current' \in [Sessions -> Nat]
        /\ \A s \in Sessions : current'[s] \in {current[s], Len(objects) + 1}
    BY <1>8, <2>1 DEF FinishSetup, HostType
  <2>6. executed' \in [Sessions -> Conversation]
    BY <1>8, <2>1 DEF FinishSetup, HostType
  <2>7. UNCHANGED <<control, cancellations, signalled, tasks, cancelling, prompts, restarts>>
        /\ setup' = NoSetup
    BY <1>8 DEF FinishSetup
  <2>8. HostType'
    BY <2>2, <2>4, <2>5, <2>6, <2>7 DEF HostType
  <2>9. \A s \in Sessions : current'[s] \in 0..Len(objects')
    <3>1. ASSUME NEW s \in Sessions PROVE current'[s] \in 0..(Len(objects) + 1)
      <4>1. current[s] \in 0..Len(objects)
        BY DEF Referred
      <4> QED
        BY <2>1, <2>5, <4>1
    <3> QED
      BY <2>4, <3>1
  <2>10. \A i \in DOMAIN objects' : objects'[i].dir \in 0..Len(dirs')
    <3>1. DOMAIN objects' = 1..(Len(objects) + 1) /\ DOMAIN objects = 1..Len(objects)
      BY <2>1, <2>4, LenProperties
    <3>2. \A i \in 1..Len(objects) : objects[i].dir \in 0..Len(dirs')
      BY <2>1, <2>2, <3>1, SMTT(30) DEF Referred
    <3> QED
      BY <2>1, <2>3, <2>4, <3>1, <3>2
  <2>11. \A p \in Prompts : tasks'[p] # Idle => tasks'[p].object \in 1..Len(objects')
    BY <2>1, <2>4, <2>7 DEF Referred
  <2> QED
    BY <2>8, <2>9, <2>10, <2>11 DEF Referred
<1>9. ASSUME BuildFails PROVE HostType' /\ Referred'
  <2>1. /\ setup \in SetupState /\ setup.session \in Sessions /\ setup.run \in RunIds
        /\ setup.key \in RequestKeys \cup {NoRequestKey} /\ control \in HostState
        /\ dirs \in Seq(DirState) /\ Len(dirs) \in Nat
    BY <1>9, LenProperties DEF BuildFails, HostType, SetupState
  <2>2. RollsBack(control, control', setup.session, setup.run)
    BY <1>9, <2>1, RolledBackFields DEF BuildFails
  <2>3. dirs' \in Seq(DirState) /\ Len(dirs') \in Nat /\ Len(dirs') >= Len(dirs)
    BY <1>9, <2>1, WithNewDirDirs DEF BuildFails
  <2>4. HostType'
    <3>1. /\ control' \in HostState /\ setup' = NoSetup
          /\ UNCHANGED <<objects, current, cancellations, signalled, tasks, cancelling,
                         prompts, restarts, executed>>
      BY <1>9, <2>2 DEF BuildFails, RollsBack, Touches
    <3> QED
      BY <2>3, <3>1 DEF HostType
  <2>5. \A i \in DOMAIN objects : objects[i].dir \in 0..Len(dirs')
    BY <2>1, <2>3 DEF Referred
  <2> QED
    BY <1>9, <2>4, <2>5 DEF BuildFails, Referred
<1>10. ASSUME NEW p \in Prompts, Execute(p) PROVE HostType' /\ Referred'
  <2>1. /\ tasks[p].object \in 1..Len(objects)
        /\ Append(objects[tasks[p].object].history, p) \in Conversation
        /\ objects' \in Seq(ObjectState) /\ Len(objects') = Len(objects)
        /\ \A i \in 1..Len(objects) : objects'[i].dir = objects[i].dir
        /\ dirs' \in Seq(DirState) /\ Len(dirs') = Len(dirs)
    BY <1>10, ExecuteEffects
  <2>2. Moved(p, "running")
    BY <1>10, MovedTask DEF Execute
  <2>3. executed' \in [Sessions -> Conversation]
    <3>1. tasks[p].session \in Sessions
      BY <1>10, TaskShape DEF Execute, TaskState
    <3>2. executed[tasks[p].session] \in Seq(Prompts)
      BY <3>1 DEF HostType, Conversation
    <3>3. Append(executed[tasks[p].session], p) \in Conversation
      BY <3>2 DEF Conversation
    <3> QED
      BY <1>10, <3>1, <3>3 DEF Execute, HostType
  <2>4. UNCHANGED <<control, current, cancellations, signalled, cancelling, setup, prompts, restarts>>
    BY <1>10 DEF Execute
  <2>5. HostType'
    BY <2>1, <2>2, <2>3, <2>4 DEF HostType, Moved
  <2>6. \A q \in Prompts : tasks'[q] # Idle => tasks'[q].object \in 1..Len(objects')
    BY <2>1, <2>2 DEF Moved, Referred
  <2>7. \A i \in DOMAIN objects' : objects'[i].dir \in 0..Len(dirs')
    <3>1. DOMAIN objects' = 1..Len(objects) /\ DOMAIN objects = 1..Len(objects)
      BY <2>1, LenProperties DEF HostType
    <3> QED
      BY <2>1, <3>1 DEF Referred
  <2> QED
    BY <2>1, <2>4, <2>5, <2>6, <2>7 DEF Referred
<1>11. ASSUME NEW p \in Prompts, RunReturns(p) PROVE HostType' /\ Referred'
  <2>1. Moved(p, "returned") /\ tasks[p] # Idle
    BY <1>11, MovedTask, TaskShape DEF RunReturns
  <2>2. \A q \in Prompts : tasks'[q] # Idle => tasks'[q].object \in 1..Len(objects)
    BY <2>1 DEF Moved, Referred
  <2> QED
    BY <1>11, <2>1, <2>2 DEF RunReturns, HostType, Referred, Moved
<1>12. ASSUME NEW p \in Prompts, ForgetToken(p) PROVE HostType' /\ Referred'
  <2>1. Moved(p, "deciding") /\ tasks[p] # Idle
    BY <1>12, MovedTask, TaskShape DEF ForgetToken
  <2>2. \A q \in Prompts : tasks'[q] # Idle => tasks'[q].object \in 1..Len(objects)
    BY <2>1 DEF Moved, Referred
  <2>3. cancellations' \in [RunIds -> Prompts \cup {NoPrompt}]
    BY <1>12 DEF ForgetToken, HostType
  <2> QED
    BY <1>12, <2>1, <2>2, <2>3 DEF ForgetToken, HostType, Referred, Moved
<1>13. ASSUME NEW p \in Prompts, Decide(p) PROVE HostType' /\ Referred'
  <2>1. tasks[p] \in TaskState /\ tasks[p] # Idle /\ AtTask(p, "deciding")
    BY <1>13, TaskShape DEF Decide
  <2>2. tasks' \in [Prompts -> TaskState \cup {Idle}]
    BY <1>13, <2>1, MovedTask DEF Decide, Moved
  <2>3. \A q \in Prompts : tasks'[q] # Idle => tasks'[q].object \in 1..Len(objects)
    BY <1>13, <2>1, MovedTask DEF Decide, Moved, Referred
  <2>4. Verdict(p) \in {"Running", "Completed", "Failed", "Interrupted"} /\ tasks[p].run \in RunIds
    BY <2>1 DEF Verdict, Outcome, TaskState
  <2>5. dirs' \in Seq(DirState) /\ Len(dirs') = Len(dirs)
    BY <1>13, <2>4, FinalizedDirs DEF Decide, HostType
  <2> QED
    BY <1>13, <2>2, <2>3, <2>5 DEF Decide, HostType, Referred
<1>14. ASSUME NEW p \in Prompts, Report(p) PROVE HostType' /\ Referred'
  <2>1. tasks[p] \in TaskState /\ AtTask(p, "reporting")
    BY <1>14, TaskShape DEF Report
  <2>2. /\ tasks' \in [Prompts -> TaskState \cup {Idle}]
        /\ \A q \in Prompts : q # p => tasks'[q] = tasks[q]
        /\ tasks'[p] = Idle
    BY <1>14, <2>1, MovedTask DEF Report
  <2>3. control' \in HostState
    BY <1>14, <2>1, EndEffects DEF Report, HostType, TaskState, Ends, Touches
  <2> QED
    BY <1>14, <2>2, <2>3 DEF Report, HostType, Referred
<1>15. ASSUME NEW s \in Sessions, NEW r \in RunIds, MarkCancelled(s, r) PROVE HostType' /\ Referred'
  <2>1. control' \in HostState
    BY <1>15, EndEffects DEF MarkCancelled, HostType, Ends, Touches
  <2>2. cancelling' \in SUBSET (Sessions \X RunIds)
    BY <1>15 DEF MarkCancelled, HostType
  <2> QED
    BY <1>15, <2>1, <2>2 DEF MarkCancelled, HostType, Referred
<1>16. ASSUME Restart PROVE HostType' /\ Referred'
  <2>1. control' \in HostState
    <3>1. /\ [s \in Sessions |-> NoSession] \in [Sessions -> SessionState \cup {NoSession}]
          /\ [r \in RunIds |-> "Unknown"] \in [RunIds -> RunStatus]
          /\ [k \in RequestKeys |-> NoEntry] \in [RequestKeys -> Entry \cup {NoEntry}]
          /\ 1 \in 1..(MaxId + 1)
      BY ControlStateAssumption DEF RunStatus
    <3>2. [s \in Sessions |-> <<>>] \in [Sessions -> Seq(Event)]
      BY EmptySeq
    <3> QED
      BY <1>16, <3>1, <3>2 DEF Restart, NewControl, HostState
  <2>2. objects' \in Seq(ObjectState) /\ Len(objects') = 0 /\ DOMAIN objects' = {}
    BY <1>16, EmptySeq, LenProperties DEF Restart
  <2>3. /\ current' \in [Sessions -> Nat] /\ \A s \in Sessions : current'[s] = 0
        /\ cancellations' \in [RunIds -> Prompts \cup {NoPrompt}]
        /\ tasks' \in [Prompts -> TaskState \cup {Idle}] /\ \A p \in Prompts : tasks'[p] = Idle
    BY <1>16 DEF Restart, NoObject
  <2>4. HostType'
    BY <1>16, <2>1, <2>2, <2>3 DEF Restart, HostType
  <2> QED
    BY <2>2, <2>3, <2>4 DEF Referred
<1>17. ASSUME UNCHANGED vars PROVE HostType' /\ Referred'
  <2>1. UNCHANGED <<control, objects, current, cancellations, signalled, tasks, cancelling,
                    setup, dirs, prompts, restarts, executed>>
    BY <1>17 DEF vars, memory
  <2> QED
    BY <2>1 DEF HostType, Referred
<1> QED
  BY <1>1, <1>2, <1>3, <1>4, <1>5, <1>6, <1>7, <1>8, <1>9, <1>10, <1>11, <1>12, <1>13, <1>14,
     <1>15, <1>16, <1>17
     DEF Next, Start, Resume, Branch, Continue, Cancel, ContinueSession, TaskStep

-----------------------------------------------------------------------------
(* Which prompts execute. *)

HasToken(p) == tasks[p].pc \in {"admitted", "running", "returned"}

\* The token kept for a run is that of the one prompt which runs or is about to: a
\* second prompt is not admitted before the token goes, so a cancel that finds a
\* token finds it before the prompt decides what to report.
TokensAgree ==
  /\ \A p \in Prompts : HasToken(p) => cancellations[tasks[p].run] = p
  /\ \A r \in RunIds : cancellations[r] # NoPrompt =>
       HasToken(cancellations[r]) /\ tasks[cancellations[r]].run = r
  /\ \A p \in Prompts : p > prompts => tasks[p] = Idle
  /\ \A p \in signalled : ~AtTask(p, "reporting")

\* A retained session is locked by one prompt.
OneAtATime ==
  \A p, q \in Prompts :
    AtTask(p, "running") /\ AtTask(q, "running") /\ tasks[p].object = tasks[q].object => p = q

ExecutionInv == HostType /\ Referred /\ TokensAgree /\ OneAtATime

LEMMA TokensStep ==
  ASSUME ExecutionInv, [Next]_vars
  PROVE  TokensAgree' /\ OneAtATime'
<1> USE DEF ExecutionInv
<1>0. ASSUME UNCHANGED <<cancellations, signalled, tasks, prompts>>
      PROVE  TokensAgree' /\ OneAtATime'
  BY <1>0 DEF TokensAgree, OneAtATime, HasToken, AtTask
<1>1. ASSUME NEW s \in Sessions, NEW r \in RunIds, NEW key \in RequestKeys \cup {NoRequestKey},
             ContinueSession(s, r, key)
      PROVE  TokensAgree' /\ OneAtATime'
  <2>1. /\ prompts' = prompts + 1 /\ prompts' \in Prompts
        /\ tasks'[prompts'] = Task(s, r, current[s])
        /\ \A q \in Prompts : q # prompts' => tasks'[q] = tasks[q]
        /\ cancellations' = [cancellations EXCEPT ![r] = prompts'] /\ cancellations[r] = NoPrompt
        /\ signalled' = signalled
    BY <1>1, AdmittedTask DEF ContinueSession, Admit
  <2>2. prompts \in Nat /\ cancellations \in [RunIds -> Prompts \cup {NoPrompt}]
        /\ tasks \in [Prompts -> TaskState \cup {Idle}] /\ signalled \in SUBSET Prompts
    BY DEF HostType
  <2>3. tasks[prompts'] = Idle
    BY <2>1, <2>2 DEF TokensAgree, Prompts
  <2>4. /\ tasks'[prompts'].pc = "admitted" /\ tasks'[prompts'].run = r
        /\ Idle.pc = "idle" /\ NoPrompt \notin Prompts
    BY <2>1 DEF Task, Idle, NoPrompt, Prompts
  <2>5. \A p \in Prompts : HasToken(p)' => (cancellations[tasks[p].run] = p)'
    <3>1. ASSUME NEW p \in Prompts, HasToken(p)', p # prompts' PROVE (cancellations[tasks[p].run] = p)'
      <4>1. HasToken(p) /\ tasks'[p] = tasks[p]
        BY <2>1, <3>1 DEF HasToken
      <4>2. tasks[p] \in TaskState
        BY <2>2, <2>4, <4>1 DEF HasToken
      <4>3. tasks[p].run \in RunIds /\ cancellations[tasks[p].run] = p
        BY <4>1, <4>2 DEF TokensAgree, TaskState
      <4>4. tasks[p].run # r
        BY <2>1, <2>4, <4>3
      <4> QED
        BY <2>1, <2>2, <4>1, <4>3, <4>4
    <3> QED
      BY <2>1, <2>2, <2>4, <3>1
  <2>6. (\A q \in RunIds : cancellations[q] # NoPrompt =>
          HasToken(cancellations[q]) /\ tasks[cancellations[q]].run = q)'
    <3>1. ASSUME NEW q \in RunIds, q # r, cancellations'[q] # NoPrompt
          PROVE  (HasToken(cancellations[q]) /\ tasks[cancellations[q]].run = q)'
      <4>1. /\ cancellations'[q] = cancellations[q] /\ cancellations[q] \in Prompts
            /\ HasToken(cancellations[q]) /\ tasks[cancellations[q]].run = q
        BY <2>1, <2>2, <3>1 DEF TokensAgree
      <4>2. cancellations[q] # prompts'
        BY <2>3, <2>4, <4>1 DEF HasToken
      <4> QED
        BY <2>1, <4>1, <4>2 DEF HasToken
    <3> QED
      BY <2>1, <2>2, <2>4, <3>1 DEF HasToken
  <2>7. \A p \in Prompts : p > prompts' => tasks'[p] = Idle
    BY <2>1, <2>2 DEF TokensAgree, Prompts
  <2>8. \A p \in signalled' : ~AtTask(p, "reporting")'
    BY <2>1, <2>2, <2>4 DEF TokensAgree, AtTask
  <2>9. TokensAgree'
    BY <2>5, <2>6, <2>7, <2>8 DEF TokensAgree
  <2>10. OneAtATime'
    BY <2>1, <2>4 DEF OneAtATime, AtTask
  <2> QED
    BY <2>9, <2>10
<1>2. ASSUME NEW s \in Sessions, NEW r \in RunIds, CancelRun(s, r)
      PROVE  TokensAgree' /\ OneAtATime'
  <2>1. \A p \in signalled' : p \in signalled \/ (p = cancellations[r] /\ p # NoPrompt)
    BY <1>2 DEF CancelRun
  <2>2. \A p \in signalled' : ~AtTask(p, "reporting")
    BY <2>1 DEF TokensAgree, HasToken, AtTask
  <2>3. UNCHANGED <<cancellations, tasks, prompts>>
    BY <1>2 DEF CancelRun
  <2> QED
    BY <2>2, <2>3 DEF TokensAgree, OneAtATime, HasToken, AtTask
\* A task moves on: while it keeps its token, only the move to running needs care.
<1>3. ASSUME NEW p \in Prompts, NEW pc \in {"running", "returned"}, Moved(p, pc), HasToken(p),
             pc = "running" => ~Locked(tasks[p].object),
             UNCHANGED <<cancellations, signalled, prompts>>
      PROVE  TokensAgree' /\ OneAtATime'
  <2>1. /\ \A q \in Prompts : HasToken(q)' <=> HasToken(q)
        /\ \A q \in Prompts : tasks'[q].run = tasks[q].run /\ tasks'[q].object = tasks[q].object
        /\ \A q \in Prompts : AtTask(q, "reporting")' => AtTask(q, "reporting")
        /\ \A q \in Prompts : tasks[q] = Idle => tasks'[q] = Idle
    BY <1>3 DEF Moved, HasToken, AtTask, Idle
  <2>2. cancellations \in [RunIds -> Prompts \cup {NoPrompt}] /\ signalled \in SUBSET Prompts
    BY DEF HostType
  <2>3. TokensAgree'
    BY <1>3, <2>1, <2>2 DEF TokensAgree
  <2>4. OneAtATime'
    <3>1. CASE pc = "returned"
      BY <1>3, <2>1, <3>1 DEF OneAtATime, AtTask, Moved
    <3>2. CASE pc = "running"
      <4>1. \A q \in Prompts : ~(AtTask(q, "running") /\ tasks[q].object = tasks[p].object)
        BY <1>3, <3>2 DEF Locked, AtTask
      <4>2. \A q \in Prompts : q # p => (AtTask(q, "running")' <=> AtTask(q, "running"))
        BY <1>3 DEF AtTask, Moved
      <4> QED
        BY <2>1, <4>1, <4>2 DEF OneAtATime
    <3> QED
      BY <3>1, <3>2
  <2> QED
    BY <2>3, <2>4
<1>4. ASSUME NEW p \in Prompts, Execute(p) PROVE TokensAgree' /\ OneAtATime'
  <2>1. Moved(p, "running") /\ HasToken(p)
    BY <1>4, MovedTask DEF Execute, HasToken, AtTask
  <2> QED
    BY <1>3, <1>4, <2>1 DEF Execute
<1>5. ASSUME NEW p \in Prompts, RunReturns(p) PROVE TokensAgree' /\ OneAtATime'
  <2>1. Moved(p, "returned") /\ HasToken(p)
    BY <1>5, MovedTask DEF RunReturns, HasToken, AtTask
  <2> QED
    BY <1>3, <1>5, <2>1 DEF RunReturns
<1>6. ASSUME NEW p \in Prompts, ForgetToken(p) PROVE TokensAgree' /\ OneAtATime'
  <2>1. /\ Moved(p, "deciding") /\ tasks[p].pc = "returned" /\ tasks[p] \in TaskState
        /\ cancellations' = [cancellations EXCEPT ![tasks[p].run] = NoPrompt]
        /\ UNCHANGED <<signalled, prompts>>
    BY <1>6, MovedTask, TaskShape DEF ForgetToken, AtTask
  <2>2. cancellations \in [RunIds -> Prompts \cup {NoPrompt}] /\ tasks[p].run \in RunIds
    BY <2>1 DEF HostType, TaskState
  <2>3. cancellations[tasks[p].run] = p
    BY <2>1 DEF TokensAgree, HasToken
  <2>4. \A q \in Prompts : HasToken(q)' => (cancellations[tasks[q].run] = q)'
    <3>1. ASSUME NEW q \in Prompts, HasToken(q)' PROVE (cancellations[tasks[q].run] = q)'
      <4>1. q # p /\ HasToken(q) /\ tasks'[q] = tasks[q]
        BY <2>1, <3>1 DEF HasToken, Moved
      <4>2. cancellations[tasks[q].run] = q
        BY <4>1 DEF TokensAgree
      <4>3. tasks[q] \in TaskState
        BY <4>1 DEF HasToken, HostType, Idle
      <4> QED
        BY <2>1, <2>2, <2>3, <4>1, <4>2, <4>3 DEF TaskState
    <3> QED
      BY <3>1
  <2>5. (\A r \in RunIds : cancellations[r] # NoPrompt =>
          HasToken(cancellations[r]) /\ tasks[cancellations[r]].run = r)'
    <3>1. ASSUME NEW r \in RunIds, cancellations'[r] # NoPrompt
          PROVE  (HasToken(cancellations[r]) /\ tasks[cancellations[r]].run = r)'
      <4>1. cancellations'[r] = cancellations[r] /\ r # tasks[p].run /\ cancellations[r] \in Prompts
        BY <2>1, <2>2, <3>1
      <4>2. HasToken(cancellations[r]) /\ tasks[cancellations[r]].run = r
        BY <3>1, <4>1 DEF TokensAgree
      <4>3. cancellations[r] # p
        BY <4>1, <4>2
      <4> QED
        BY <2>1, <4>1, <4>2, <4>3 DEF Moved, HasToken
    <3> QED
      BY <3>1
  <2>6. \A q \in Prompts : AtTask(q, "reporting")' => AtTask(q, "reporting")
    BY <2>1 DEF Moved, AtTask
  <2>7. \A q \in Prompts : q > prompts => tasks'[q] = Idle
    BY <2>1 DEF TokensAgree, Moved, Idle
  <2>8. \A q \in signalled : ~AtTask(q, "reporting")'
    BY <2>6 DEF TokensAgree, HostType
  <2>9. TokensAgree'
    BY <2>1, <2>4, <2>5, <2>7, <2>8 DEF TokensAgree
  <2>10. OneAtATime'
    BY <2>1 DEF OneAtATime, Moved, AtTask
  <2> QED
    BY <2>9, <2>10
\* Past its token a task is signalled before it decides or not at all.
<1>7. ASSUME NEW p \in Prompts, ~HasToken(p),
             \A q \in Prompts : q # p => tasks'[q] = tasks[q],
             \/ tasks'[p] = Idle
             \/ Moved(p, "reporting") /\ p \notin signalled /\ tasks[p] # Idle,
             UNCHANGED <<cancellations, signalled, prompts>>
      PROVE  TokensAgree' /\ OneAtATime'
  <2>1. ~HasToken(p)' /\ ~AtTask(p, "running")'
    BY <1>7 DEF HasToken, AtTask, Moved, Idle
  <2>2. cancellations \in [RunIds -> Prompts \cup {NoPrompt}] /\ signalled \in SUBSET Prompts
    BY DEF HostType
  <2>3. \A q \in Prompts : HasToken(q)' => HasToken(q) /\ tasks'[q] = tasks[q]
    BY <1>7, <2>1 DEF HasToken
  <2>4. \A r \in RunIds : cancellations[r] # NoPrompt => cancellations[r] \in Prompts \ {p}
    BY <1>7, <2>2 DEF TokensAgree
  <2>5. (\A r \in RunIds : cancellations[r] # NoPrompt =>
          HasToken(cancellations[r]) /\ tasks[cancellations[r]].run = r)'
    BY <1>7, <2>4 DEF TokensAgree, HasToken
  <2>6. \A q \in signalled : ~AtTask(q, "reporting")'
    BY <1>7, <2>2 DEF TokensAgree, AtTask, Idle
  <2>7. \A q \in Prompts : q > prompts => tasks'[q] = Idle
    BY <1>7 DEF TokensAgree
  <2>8. TokensAgree'
    BY <1>7, <2>3, <2>5, <2>6, <2>7 DEF TokensAgree
  <2>9. OneAtATime'
    BY <1>7, <2>1 DEF OneAtATime, AtTask
  <2> QED
    BY <2>8, <2>9
<1>8. ASSUME NEW p \in Prompts, Decide(p) PROVE TokensAgree' /\ OneAtATime'
  <2>1. AtTask(p, "deciding") /\ ~HasToken(p) /\ tasks[p] # Idle
    BY <1>8 DEF Decide, AtTask, HasToken, Idle
  <2>2. CASE Verdict(p) = "Interrupted"
    BY <1>7, <1>8, <2>1, <2>2, MovedTask DEF Decide
  <2>3. CASE Verdict(p) # "Interrupted"
    <3>1. Moved(p, "reporting") /\ p \notin signalled
      BY <1>8, <2>1, <2>3, MovedTask DEF Decide, Verdict
    <3> QED
      BY <1>7, <1>8, <2>1, <3>1 DEF Decide, Moved
  <2> QED
    BY <2>2, <2>3
<1>9. ASSUME NEW p \in Prompts, Report(p) PROVE TokensAgree' /\ OneAtATime'
  <2>1. AtTask(p, "reporting") /\ ~HasToken(p)
    BY <1>9 DEF Report, AtTask, HasToken
  <2>2. tasks'[p] = Idle /\ \A q \in Prompts : q # p => tasks'[q] = tasks[q]
    BY <1>9, <2>1, MovedTask DEF Report
  <2> QED
    BY <1>7, <1>9, <2>1, <2>2 DEF Report
<1>10. ASSUME Restart PROVE TokensAgree' /\ OneAtATime'
  <2>1. /\ \A p \in Prompts : tasks'[p] = Idle
        /\ \A r \in RunIds : cancellations'[r] = NoPrompt
        /\ signalled' = {}
    BY <1>10 DEF Restart
  <2> QED
    BY <2>1 DEF TokensAgree, OneAtATime, HasToken, AtTask, Idle
<1>11. ASSUME UNCHANGED vars PROVE TokensAgree' /\ OneAtATime'
  BY <1>0, <1>11 DEF vars, memory
\* The calls and the steps of the control state leave all this alone.
<1>12. ASSUME \/ \E s \in Sessions, key \in RequestKeys \cup {NoRequestKey} : StartSession(s, key)
              \/ \E s \in Sessions, r \in RunIds, key \in RequestKeys \cup {NoRequestKey} :
                   ResumeSession(s, r, key)
              \/ \E s \in Sessions, r \in RunIds, key \in RequestKeys \cup {NoRequestKey},
                    parent \in Sessions : BranchSession(parent, r, s, key)
              \/ TakeSource \/ SourceFails \/ FinishSetup \/ BuildFails
              \/ \E s \in Sessions, r \in RunIds : MarkCancelled(s, r)
       PROVE  TokensAgree' /\ OneAtATime'
  <2>1. UNCHANGED <<cancellations, signalled, tasks, prompts>>
    <3>1. ASSUME NEW s \in Sessions, NEW key \in RequestKeys \cup {NoRequestKey}, StartSession(s, key)
          PROVE  UNCHANGED <<cancellations, signalled, tasks, prompts>>
      BY <3>1 DEF StartSession
    <3>2. ASSUME NEW s \in Sessions, NEW r \in RunIds, NEW key \in RequestKeys \cup {NoRequestKey},
                 ResumeSession(s, r, key)
          PROVE  UNCHANGED <<cancellations, signalled, tasks, prompts>>
      BY <3>2 DEF ResumeSession
    <3>3. ASSUME NEW s \in Sessions, NEW r \in RunIds, NEW key \in RequestKeys \cup {NoRequestKey},
                 NEW parent \in Sessions, BranchSession(parent, r, s, key)
          PROVE  UNCHANGED <<cancellations, signalled, tasks, prompts>>
      BY <3>3 DEF BranchSession
    <3>4. ASSUME TakeSource \/ SourceFails \/ FinishSetup \/ BuildFails
          PROVE  UNCHANGED <<cancellations, signalled, tasks, prompts>>
      BY <3>4 DEF TakeSource, SourceFails, FinishSetup, BuildFails
    <3>5. ASSUME NEW s \in Sessions, NEW r \in RunIds, MarkCancelled(s, r)
          PROVE  UNCHANGED <<cancellations, signalled, tasks, prompts>>
      BY <3>5 DEF MarkCancelled
    <3> QED
      BY <1>12, <3>1, <3>2, <3>3, <3>4, <3>5
  <2> QED
    BY <1>0, <2>1
<1> QED
  BY <1>1, <1>1, <1>2, <1>4, <1>5, <1>6, <1>8, <1>9, <1>10, <1>11, <1>12
     DEF Next, Start, Resume, Branch, Continue, Cancel, TaskStep

LEMMA ExecutionInvariant == Spec => []ExecutionInv
<1>1. Init => ExecutionInv
  <2>1. ASSUME Init PROVE TokensAgree /\ OneAtATime
    <3>1. /\ \A p \in Prompts : tasks[p] = Idle
          /\ \A r \in RunIds : cancellations[r] = NoPrompt
          /\ signalled = {}
      BY <2>1 DEF Init
    <3> QED
      BY <3>1 DEF TokensAgree, OneAtATime, HasToken, AtTask, Idle
  <2> QED
    BY <2>1, InitType DEF ExecutionInv
<1>2. ExecutionInv /\ [Next]_vars => ExecutionInv'
  BY TypeStep, TokensStep DEF ExecutionInv
<1> QED
  BY <1>1, <1>2, PTL DEF Spec

\* No two prompts execute in one run or on one retained session at the same time, and no
\* execution whose token was signalled reports its run as ended, for any number of
\* clients, calls and process restarts.
THEOREM Exclusive == Spec => []ExecutionsAreExclusive
<1>1. ExecutionInv => ExecutionsAreExclusive
  BY DEF ExecutionInv, TokensAgree, OneAtATime, HasToken, AtTask, ExecutionsAreExclusive
<1> QED
  BY <1>1, ExecutionInvariant, PTL

-----------------------------------------------------------------------------
(* What inspection and polling tell of a run. *)

\* Within one process a run has a home, the session it was made in: whoever knows the
\* run by its id speaks of that session.
OwnersAtHome(home) ==
  \A s \in Sessions, r \in RunIds :
    Owns(control, s, r) => home[r] = s /\ r < control.next_id

KeysAtHome(home) ==
  \A k \in RequestKeys : control.idempotency[k] # NoEntry =>
    LET entry == control.idempotency[k]
    IN /\ home[entry.response.run] = entry.request.session
       /\ entry.response.run < control.next_id

TasksAtHome(home) ==
  \A p \in Prompts : tasks[p] # Idle =>
    home[tasks[p].run] = tasks[p].session /\ tasks[p].run < control.next_id

CancelsAtHome(home) ==
  \A s \in Sessions, r \in RunIds :
    <<s, r>> \in cancelling => home[r] = s /\ r < control.next_id

SetupAtHome(home) ==
  setup # NoSetup => home[setup.run] = setup.session /\ setup.run < control.next_id

DirsAtHome(home) ==
  \A i \in DOMAIN dirs :
    home[dirs[i].run] = dirs[i].session /\ dirs[i].run < control.next_id

Homes == [RunIds -> Sessions \cup {NoSession}]

AtHome(home) ==
  /\ OwnersAtHome(home) /\ KeysAtHome(home) /\ TasksAtHome(home)
  /\ CancelsAtHome(home) /\ SetupAtHome(home) /\ DirsAtHome(home)

\* A resume that a key remembers is built or being built: only then may it be replayed
\* without the control state taking the session for a new one.
ResumesAreBuilt ==
  \A k \in RequestKeys :
    control.idempotency[k] # NoEntry /\ control.idempotency[k].request.op = "resume" =>
      \/ current[control.idempotency[k].request.session] # NoObject
      \/ /\ setup # NoSetup /\ setup.op = "resume" /\ setup.key = k
         /\ setup.session = control.idempotency[k].request.session

ActiveRuns ==
  \A s \in Sessions, r \in RunIds :
    Active(control, s, r) => Owns(control, s, r) /\ Status(control, r) = "Running"

ToldInv ==
  /\ HostType /\ Referred
  /\ \E home \in Homes : AtHome(home)
  /\ ResumesAreBuilt /\ ActiveRuns /\ EventsAgree

\* The control state's part, over each kind of change.
Told(home) == OwnersAtHome(home) /\ KeysAtHome(home) /\ ActiveRuns /\ EventsAgree

LEMMA RunIdsAreNat == RunIds \subseteq Nat /\ NoRun \notin RunIds
BY ControlStateAssumption DEF RunIds

\* A new run finds a home.
LEMMA OpensTold ==
  ASSUME control \in HostState, NEW home \in Homes, Told(home), NEW s \in Sessions, NEW r \in RunIds,
         Opens(control, control', s, r)
  PROVE  \E new \in Homes :
           /\ new[r] = s /\ \A q \in RunIds : q < control.next_id => new[q] = home[q]
           /\ Told(new)' /\ control'.next_id >= control.next_id /\ r < control'.next_id
<1> PICK new : new = [home EXCEPT ![r] = s]
  OBVIOUS
<1>1. /\ new \in Homes /\ new[r] = s /\ \A q \in RunIds : q # r => new[q] = home[q]
  BY DEF Homes
<1>2. r = control.next_id /\ control'.next_id = r + 1 /\ r \in Nat
  BY RunIdsAreNat DEF Opens
<1>3. \A t \in Sessions, q \in RunIds : Owns(control', t, q) <=>
        IF t = s THEN q = r ELSE Owns(control, t, q)
  <2>1. control'.sessions[s] = [runs |-> {r}, active |-> r] /\ Known(control', s)
    <3>1. [runs |-> {r}, active |-> r] \in SessionState
      BY DEF SessionState
    <3> QED
      BY <3>1, ControlStateAssumption DEF Opens, Known
  <2> QED
    BY <2>1 DEF Opens, Touches, Owns, Known
<1>4. \A t \in Sessions, q \in RunIds : Owns(control, t, q) => q # r /\ q < r /\ q \in Nat
  BY <1>2, RunIdsAreNat DEF Told, OwnersAtHome
<1>5. OwnersAtHome(new)'
  BY <1>1, <1>2, <1>3, <1>4 DEF OwnersAtHome, Told
<1>6. KeysAtHome(new)'
  <2> SUFFICES ASSUME NEW k \in RequestKeys, control'.idempotency[k] # NoEntry
               PROVE  /\ new[control'.idempotency[k].response.run] = control'.idempotency[k].request.session
                      /\ control'.idempotency[k].response.run < r + 1
    BY <1>2 DEF KeysAtHome
  <2>1. CASE control'.idempotency[k] = control.idempotency[k]
    <3>1. control.idempotency[k].response.run \in RunIds
      BY <2>1, HostFields DEF Entry, Response
    <3>2. /\ home[control.idempotency[k].response.run] = control.idempotency[k].request.session
          /\ control.idempotency[k].response.run < r
      BY <1>2, <2>1 DEF Told, KeysAtHome
    <3> PICK q : q = control.idempotency[k].response.run
      OBVIOUS
    <3>3. q \in RunIds /\ q \in Nat /\ q < r /\ home[q] = control.idempotency[k].request.session
      BY <3>1, <3>2, RunIdsAreNat
    <3>4. new[q] = home[q] /\ q < r + 1
      BY <1>1, <1>2, <3>3
    <3> QED
      BY <2>1, <3>3, <3>4
  <2>2. CASE /\ control'.idempotency[k].response = [session |-> s, run |-> r]
             /\ control'.idempotency[k].request.session = s
    BY <1>1, <1>2, <2>2
  <2> QED
    BY <2>1, <2>2 DEF Opens, KeysFor
<1>7. ActiveRuns'
  <2> SUFFICES ASSUME NEW t \in Sessions, NEW q \in RunIds, Active(control', t, q)
               PROVE  Owns(control', t, q) /\ Status(control', q) = "Running"
    BY DEF ActiveRuns
  <2>1. CASE t = s
    BY <1>3, <2>1 DEF Active, Opens, Status
  <2>2. CASE t # s
    <3>1. Active(control, t, q)
      BY <2>2 DEF Active, Opens, Touches, Known
    <3>2. Owns(control, t, q) /\ Status(control, q) = "Running"
      BY <3>1 DEF Told, ActiveRuns
    <3> QED
      BY <1>3, <1>4, <2>2, <3>2 DEF Opens, Touches, Status
  <2> QED
    BY <2>1, <2>2
<1>8. EventsAgree'
  <2> SUFFICES ASSUME NEW t \in Sessions, NEW q \in RunIds, Owns(control', t, q),
                      Status(control', q) \in Terminal, NEW i \in DOMAIN control'.events[t],
                      LastEvent(t, q, i)'
               PROVE  Ended(control'.events[t][i].kind) = Status(control', q)
    BY DEF EventsAgree
  <2>1. t # s
    BY <1>3 DEF Opens, Status, Terminal
  <2>2. Owns(control, t, q) /\ q # r
    BY <1>3, <1>4, <2>1
  <2>3. control'.events[t] = control.events[t] /\ Status(control', q) = Status(control, q)
    BY <2>1, <2>2 DEF Opens, Touches, Status
  <2>4. LastEvent(t, q, i)
    BY <2>3 DEF LastEvent
  <2> QED
    BY <2>2, <2>3, <2>4 DEF Told, EventsAgree
<1>9. Told(new)'
  BY <1>5, <1>6, <1>7, <1>8 DEF Told
<1>10. /\ \A q \in RunIds : q < control.next_id => new[q] = home[q]
       /\ control'.next_id >= control.next_id /\ r < control'.next_id
  BY <1>1, <1>2, RunIdsAreNat
<1> QED
  BY <1>1, <1>9, <1>10

\* Keys that keep their entry, forget it, or take one about a run at home.
LEMMA KeysStayAtHome ==
  ASSUME control \in HostState, NEW home, KeysAtHome(home), NEW s \in Sessions, NEW r \in RunIds,
         KeysFor(control, control', s, r), home[r] = s, r < control.next_id,
         control'.next_id = control.next_id
  PROVE  KeysAtHome(home)'
BY DEF KeysAtHome, KeysFor

LEMMA ReopensTold ==
  ASSUME control \in HostState, NEW home, Told(home), NEW s \in Sessions, NEW r \in RunIds,
         home[r] = s, r < control.next_id, Reopens(control, control', s, r)
  PROVE  Told(home)' /\ control'.next_id = control.next_id
<1>1. PICK runs \in SUBSET RunIds :
        /\ control'.sessions[s] = [runs |-> runs, active |-> r]
        /\ r \in runs /\ \A q \in runs : q = r \/ Owns(control, s, q)
  BY DEF Reopens
<1>2. Known(control', s)
  <2>1. [runs |-> runs, active |-> r] \in SessionState
    BY DEF SessionState
  <2> QED
    BY <1>1, <2>1, ControlStateAssumption DEF Known
<1>3. \A t \in Sessions, q \in RunIds : Owns(control', t, q) =>
        Owns(control, t, q) \/ (t = s /\ q = r)
  BY <1>1 DEF Reopens, Touches, Owns, Known
<1>4. OwnersAtHome(home)'
  BY <1>3 DEF Told, OwnersAtHome, Reopens
<1>5. KeysAtHome(home)'
  BY KeysStayAtHome DEF Told, Reopens
<1>6. ActiveRuns'
  <2> SUFFICES ASSUME NEW t \in Sessions, NEW q \in RunIds, Active(control', t, q)
               PROVE  Owns(control', t, q) /\ Status(control', q) = "Running"
    BY DEF ActiveRuns
  <2>1. CASE t = s
    BY <1>1, <1>2, <2>1 DEF Active, Owns, Reopens, Status
  <2>2. CASE t # s
    <3>1. Active(control, t, q)
      BY <2>2 DEF Active, Reopens, Touches, Known
    <3>2. Owns(control, t, q) /\ Status(control, q) = "Running"
      BY <3>1 DEF Told, ActiveRuns
    <3>3. q # r
      BY <2>2, <3>2 DEF Told, OwnersAtHome
    <3> QED
      BY <2>2, <3>2, <3>3 DEF Reopens, Touches, Status, Owns, Known
  <2> QED
    BY <2>1, <2>2
<1>7. EventsAgree'
  <2> SUFFICES ASSUME NEW t \in Sessions, NEW q \in RunIds, Owns(control', t, q),
                      Status(control', q) \in Terminal, NEW i \in DOMAIN control'.events[t],
                      LastEvent(t, q, i)'
               PROVE  Ended(control'.events[t][i].kind) = Status(control', q)
    BY DEF EventsAgree
  <2>1. q # r /\ Owns(control, t, q)
    BY <1>3 DEF Reopens, Status, Terminal
  <2>2. control'.events[t] = control.events[t] /\ Status(control', q) = Status(control, q)
    BY <2>1 DEF Reopens, Touches, Status
  <2>3. LastEvent(t, q, i)
    BY <2>2 DEF LastEvent
  <2> QED
    BY <2>1, <2>2, <2>3 DEF Told, EventsAgree
<1> QED
  BY <1>4, <1>5, <1>6, <1>7 DEF Told, Reopens

LEMMA EndsTold ==
  ASSUME control \in HostState, NEW home, Told(home), NEW s \in Sessions, NEW r \in RunIds,
         home[r] = s, NEW kind \in {"RunCompleted", "RunFailed", "RunCancelled"},
         Ends(control, control', s, r, kind)
  PROVE  Told(home)' /\ control'.next_id = control.next_id
<1>1. \A t \in Sessions, q \in RunIds : Owns(control', t, q) => Owns(control, t, q)
  BY DEF Ends, Touches, Owns, Known
<1>2. OwnersAtHome(home)'
  BY <1>1 DEF Told, OwnersAtHome, Ends
<1>3. KeysAtHome(home)'
  BY DEF Told, KeysAtHome, Ends
<1>4. \A t \in Sessions, q \in RunIds : Owns(control, t, q) /\ q = r => t = s
  BY DEF Told, OwnersAtHome
<1>5. ActiveRuns'
  <2> SUFFICES ASSUME NEW t \in Sessions, NEW q \in RunIds, Active(control', t, q)
               PROVE  Owns(control', t, q) /\ Status(control', q) = "Running"
    BY DEF ActiveRuns
  <2>1. t # s
    <3>1. ASSUME t = s PROVE control'.sessions[t] = NoSession \/ control'.sessions[t].active = NoRun
      BY <3>1 DEF Ends
    <3> QED
      BY <3>1, RunIdsAreNat DEF Active, Known
  <2>2. Active(control, t, q)
    BY <2>1 DEF Active, Ends, Touches, Known
  <2>3. Owns(control, t, q) /\ Status(control, q) = "Running"
    BY <2>2 DEF Told, ActiveRuns
  <2>4. q # r
    BY <1>4, <2>1, <2>3
  <2> QED
    BY <2>1, <2>3, <2>4 DEF Ends, Touches, Status, Owns, Known
<1>6. EventsAgree'
  <2> SUFFICES ASSUME NEW t \in Sessions, NEW q \in RunIds, Owns(control', t, q),
                      Status(control', q) \in Terminal, NEW i \in DOMAIN control'.events[t],
                      LastEvent(t, q, i)'
               PROVE  Ended(control'.events[t][i].kind) = Status(control', q)
    BY DEF EventsAgree
  <2>1. Owns(control, t, q)
    BY <1>1
  <2>2. CASE t # s
    <3>1. q # r
      BY <1>4, <2>1, <2>2
    <3>2. control'.events[t] = control.events[t] /\ Status(control', q) = Status(control, q)
      BY <2>2, <3>1 DEF Ends, Touches, Status
    <3>3. LastEvent(t, q, i)
      BY <3>2 DEF LastEvent
    <3> QED
      BY <2>1, <3>2, <3>3 DEF Told, EventsAgree
  <2>3. CASE t = s
    <3> PICK old : old = control.events[s]
      OBVIOUS
    <3> PICK n : n = Len(old)
      OBVIOUS
    <3> PICK event : event = [kind |-> kind, run |-> r]
      OBVIOUS
    <3>1. /\ old \in Seq(Event) /\ event \in Event /\ event.kind = kind /\ event.run = r
      BY HostFields DEF Event
    <3>2. control'.events[s] = Append(old, event)
      BY DEF Ends
    <3>3. /\ n \in Nat /\ DOMAIN old = 1..n /\ DOMAIN control'.events[s] = 1..(n + 1)
          /\ control'.events[s][n + 1] = event
          /\ \A j \in 1..n : control'.events[s][j] = old[j]
      BY <3>1, <3>2, AppendProperties, LenProperties
    <3>4. CASE q = r
      <4>1. i = n + 1
        <5>1. i \in 1..(n + 1) /\ (n + 1) \in 1..(n + 1)
          BY <2>3, <3>3
        <5>2. \A j \in 1..(n + 1) : j > i => control'.events[s][j].run # r
          BY <2>3, <3>3, <3>4 DEF LastEvent
        <5>3. control'.events[s][n + 1].run = r
          BY <3>1, <3>3
        <5> QED
          BY ONLY <3>3, <5>1, <5>2, <5>3
      <4>2. Status(control', q) = Ended(kind)
        BY <3>4 DEF Ends, Status, Terminal
      <4> QED
        BY <2>3, <3>1, <3>3, <4>1, <4>2
    <3>5. CASE q # r
      <4>1. i \in 1..n /\ control'.events[s][i] = old[i]
        BY <2>3, <3>1, <3>3, <3>5 DEF LastEvent
      <4>2. LastEvent(s, q, i)
        BY <2>3, <3>3, <4>1 DEF LastEvent
      <4>3. Status(control', q) = Status(control, q)
        BY <3>5 DEF Ends, Touches, Status
      <4> QED
        BY <2>1, <2>3, <3>3, <4>1, <4>2, <4>3 DEF Told, EventsAgree
    <3> QED
      BY <3>4, <3>5
  <2> QED
    BY <2>2, <2>3
<1> QED
  BY <1>2, <1>3, <1>5, <1>6 DEF Told, Ends

LEMMA RollsBackTold ==
  ASSUME control \in HostState, NEW home, Told(home), NEW s \in Sessions, NEW r \in RunIds,
         home[r] = s, RollsBack(control, control', s, r)
  PROVE  Told(home)' /\ control'.next_id = control.next_id
<1>1. \A t \in Sessions, q \in RunIds : Owns(control', t, q) =>
        t # s /\ q # r /\ Owns(control, t, q)
  <2>1. \A t \in Sessions, q \in RunIds : Owns(control', t, q) => t # s /\ Owns(control, t, q)
    BY DEF RollsBack, Touches, Owns, Known
  <2> QED
    BY <2>1 DEF Told, OwnersAtHome
<1>2. OwnersAtHome(home)'
  BY <1>1 DEF Told, OwnersAtHome, RollsBack
<1>3. KeysAtHome(home)'
  BY DEF Told, KeysAtHome, RollsBack
<1>4. ActiveRuns'
  <2> SUFFICES ASSUME NEW t \in Sessions, NEW q \in RunIds, Active(control', t, q)
               PROVE  Owns(control', t, q) /\ Status(control', q) = "Running"
    BY DEF ActiveRuns
  <2>1. t # s
    BY DEF Active, Known, RollsBack
  <2>2. Active(control, t, q)
    BY <2>1 DEF Active, RollsBack, Touches, Known
  <2>3. Owns(control, t, q) /\ Status(control, q) = "Running"
    BY <2>2 DEF Told, ActiveRuns
  <2>4. q # r
    BY <2>1, <2>3 DEF Told, OwnersAtHome
  <2> QED
    BY <2>1, <2>3, <2>4 DEF RollsBack, Touches, Status, Owns, Known
<1>5. EventsAgree'
  <2> SUFFICES ASSUME NEW t \in Sessions, NEW q \in RunIds, Owns(control', t, q),
                      Status(control', q) \in Terminal, NEW i \in DOMAIN control'.events[t],
                      LastEvent(t, q, i)'
               PROVE  Ended(control'.events[t][i].kind) = Status(control', q)
    BY DEF EventsAgree
  <2>1. t # s /\ q # r /\ Owns(control, t, q)
    BY <1>1
  <2>2. control'.events[t] = control.events[t] /\ Status(control', q) = Status(control, q)
    BY <2>1 DEF RollsBack, Touches, Status
  <2>3. LastEvent(t, q, i)
    BY <2>2 DEF LastEvent
  <2> QED
    BY <2>1, <2>2, <2>3 DEF Told, EventsAgree
<1> QED
  BY <1>2, <1>3, <1>4, <1>5 DEF Told, RollsBack

\* What nobody touches stays at home while ids are only handed out.
LEMMA RestAtHome ==
  ASSUME HostType, NEW home, AtHome(home), NEW new,
         \A q \in RunIds : q < control.next_id => new[q] = home[q],
         control'.next_id >= control.next_id, control' \in HostState
  PROVE  /\ tasks' = tasks => TasksAtHome(new)'
         /\ cancelling' = cancelling => CancelsAtHome(new)'
         /\ setup' = setup => SetupAtHome(new)'
         /\ dirs' = dirs => DirsAtHome(new)'
<1>1. control.next_id \in Nat /\ control'.next_id \in Nat
  BY HostFields, ControlStateAssumption DEF HostType
<1>2. \A q \in RunIds : q < control.next_id => q < control'.next_id /\ new[q] = home[q]
  BY <1>1, RunIdsAreNat
<1>3. ASSUME tasks' = tasks PROVE TasksAtHome(new)'
  <2>1. \A p \in Prompts : tasks[p] # Idle => tasks[p].run \in RunIds
    BY DEF HostType, TaskState
  <2> QED
    BY <1>2, <1>3, <2>1 DEF AtHome, TasksAtHome
<1>4. ASSUME cancelling' = cancelling PROVE CancelsAtHome(new)'
  BY <1>2, <1>4 DEF AtHome, CancelsAtHome
<1>5. ASSUME setup' = setup PROVE SetupAtHome(new)'
  <2>1. setup # NoSetup => setup.run \in RunIds
    BY DEF HostType, SetupState
  <2> QED
    BY <1>2, <1>5, <2>1 DEF AtHome, SetupAtHome
<1>6. ASSUME dirs' = dirs PROVE DirsAtHome(new)'
  <2>1. \A i \in DOMAIN dirs : dirs[i].run \in RunIds
    <3>1. \A i \in DOMAIN dirs : dirs[i] \in DirState
      BY ElementOfSeq, LenProperties DEF HostType
    <3> QED
      BY <3>1 DEF DirState
  <2> QED
    BY <1>2, <1>6, <2>1 DEF AtHome, DirsAtHome
<1> QED
  BY <1>3, <1>4, <1>5, <1>6

\* start and branch remember no resume.
LEMMA OpenedKeys ==
  ASSUME NEW c \in HostState, NEW s \in Sessions, NEW key \in RequestKeys \cup {NoRequestKey},
         NEW request \in Request, request.op # "resume"
  PROVE  /\ \A k \in RequestKeys :
              LET e == Started(c, s, key, request).idempotency[k]
              IN e = c.idempotency[k] \/ e.request.op # "resume"
         /\ \A k \in RequestKeys :
              LET e == Branched(c, s, key, request).idempotency[k]
              IN e = c.idempotency[k] \/ e.request.op # "resume"
<1> PICK entry : entry = [request |-> request, response |-> [session |-> s, run |-> c.next_id]]
  OBVIOUS
<1>1. entry.request.op # "resume"
  OBVIOUS
<1>2. PushEvent(Opened(c, s), s, c.next_id, "SessionStarted").idempotency = c.idempotency
  BY DEF PushEvent, Opened, WithStatus, WithSession, HostState
<1>3. Opened(c, s).idempotency = c.idempotency
  BY DEF Opened, WithStatus, WithSession, HostState
<1>4. CASE key = NoRequestKey
  BY <1>2, <1>3, <1>4 DEF Started, Branched, RememberEntry
<1>5. CASE key # NoRequestKey
  <2>1. Started(c, s, key, request).idempotency = [c.idempotency EXCEPT ![key] = entry]
    BY <1>2, <1>5 DEF Started, RememberEntry, PushEvent, Opened, WithStatus, WithSession, HostState
  <2>2. Branched(c, s, key, request).idempotency = [c.idempotency EXCEPT ![key] = entry]
    BY <1>3, <1>5 DEF Branched, RememberEntry, Opened, WithStatus, WithSession, HostState
  <2> QED
    BY <1>1, <2>1, <2>2, HostFields
<1> QED
  BY <1>4, <1>5

\* A call that leaves the retained sessions alone and remembers no new resume.
LEMMA BuiltStays ==
  ASSUME ResumesAreBuilt, current' = current, setup = NoSetup,
         \A k \in RequestKeys : \/ control'.idempotency[k] \in {control.idempotency[k], NoEntry}
                               \/ control'.idempotency[k].request.op # "resume"
  PROVE  ResumesAreBuilt'
BY DEF ResumesAreBuilt

LEMMA CallingFields ==
  ASSUME NEW op \in {"start", "resume", "branch"}, NEW pc \in {"source", "build"},
         NEW s \in Sessions, NEW r \in RunIds, NEW key \in RequestKeys \cup {NoRequestKey},
         NEW parent \in Sessions, NEW from \in RunIds,
         NEW call, call = Calling(op, pc, s, r, key, parent, from)
  PROVE  /\ call # NoSetup /\ call.op = op /\ call.pc = pc /\ call.session = s /\ call.run = r
         /\ call.key = key /\ call.parent = parent /\ call.from = from /\ call.history = <<>>
BY CallingType DEF Calling

LEMMA ToldStep ==
  ASSUME MaxRestarts = 0, ToldInv, HostType', [Next]_vars
  PROVE  ToldInv'
<1> PICK home \in Homes : AtHome(home)
  BY DEF ToldInv
<1>0. /\ HostType /\ Referred /\ ResumesAreBuilt /\ Told(home) /\ control \in HostState
      /\ control' \in HostState /\ Referred'
  BY TypeStep DEF ToldInv, Told, AtHome, HostType
<1>1. ASSUME NEW new \in Homes, AtHome(new)', Told(new)', ResumesAreBuilt'
      PROVE  ToldInv'
  BY <1>0, <1>1 DEF ToldInv, Told
\* Nothing of this changes.
<1>2. ASSUME control' = control, tasks' = tasks, cancelling' = cancelling, setup' = setup,
             dirs' = dirs, current' = current
      PROVE  ToldInv'
  <2>1. /\ AtHome(home)' /\ Told(home)' /\ ResumesAreBuilt'
    BY <1>0, <1>2 DEF AtHome, Told, OwnersAtHome, KeysAtHome, TasksAtHome, CancelsAtHome,
                      SetupAtHome, DirsAtHome, ActiveRuns, EventsAgree, LastEvent, ResumesAreBuilt
  <2> QED
    BY <1>1, <2>1
\* A new session gets its run's home; a replayed one has it.
<1>3. ASSUME NEW op \in {"start", "branch"}, NEW pc \in {"source", "build"},
             NEW s \in Sessions, NEW r \in RunIds, NEW key \in RequestKeys \cup {NoRequestKey},
             NEW parent \in Sessions, NEW from \in RunIds,
             setup = NoSetup,
             setup' = IF current[s] # NoObject THEN NoSetup
                      ELSE Calling(op, pc, s, r, key, parent, from),
             \/ /\ control' = control /\ Cached(control, key)
                /\ control.idempotency[key].request.session = s
                /\ control.idempotency[key].response.run = r
             \/ Opens(control, control', s, r),
             UNCHANGED <<tasks, cancelling, dirs, current>>,
             ResumesAreBuilt'
      PROVE  ToldInv'
  <2>1. /\ setup' # NoSetup => setup'.session = s /\ setup'.run = r
    BY <1>3, CallingFields
  <2>2. CASE Opens(control, control', s, r)
    <3>1. PICK new \in Homes :
            /\ new[r] = s /\ \A q \in RunIds : q < control.next_id => new[q] = home[q]
            /\ Told(new)' /\ control'.next_id >= control.next_id /\ r < control'.next_id
      BY <1>0, <2>2, OpensTold
    <3>2. tasks' = tasks /\ cancelling' = cancelling /\ dirs' = dirs /\ ResumesAreBuilt'
      BY <1>3
    <3>3. TasksAtHome(new)' /\ CancelsAtHome(new)' /\ DirsAtHome(new)'
      BY <1>0, <3>1, <3>2, RestAtHome
    <3>4. SetupAtHome(new)'
      BY <2>1, <3>1 DEF SetupAtHome
    <3> QED
      BY <1>1, <3>1, <3>2, <3>3, <3>4 DEF AtHome, Told
  <2>3. CASE /\ control' = control /\ Cached(control, key)
             /\ control.idempotency[key].request.session = s
             /\ control.idempotency[key].response.run = r
    <3>1. home[r] = s /\ r < control.next_id
      BY <1>0, <2>3 DEF Told, KeysAtHome, Cached
    <3>2. SetupAtHome(home)'
      BY <2>1, <2>3, <3>1 DEF SetupAtHome
    <3>3. Told(home)'
      BY <1>0, <2>3 DEF Told, OwnersAtHome, KeysAtHome, ActiveRuns, EventsAgree, LastEvent
    <3>4. control'.next_id >= control.next_id
      BY <1>0, <2>3, HostFields, ControlStateAssumption
    <3>5. TasksAtHome(home)' /\ CancelsAtHome(home)' /\ DirsAtHome(home)'
      BY <1>0, <1>3, <3>4, RestAtHome
    <3> QED
      BY <1>1, <1>3, <3>2, <3>3, <3>5 DEF AtHome, Told
  <2> QED
    BY <1>3, <2>2, <2>3
\* The control state changes and no id is handed out.
<1>4. ASSUME Told(home)', control'.next_id = control.next_id,
             tasks' = tasks \/ TasksAtHome(home)',
             cancelling' = cancelling \/ CancelsAtHome(home)',
             setup' = setup \/ SetupAtHome(home)',
             dirs' = dirs \/ DirsAtHome(home)', ResumesAreBuilt'
      PROVE  ToldInv'
  <2>1. control'.next_id >= control.next_id
    BY <1>0, <1>4, HostFields, ControlStateAssumption
  <2>2. TasksAtHome(home)' /\ CancelsAtHome(home)' /\ SetupAtHome(home)' /\ DirsAtHome(home)'
    BY <1>0, <1>4, <2>1, RestAtHome
  <2> QED
    BY <1>1, <1>4, <2>2 DEF AtHome, Told
<1>5. control' = control => Told(home)'
  BY <1>0 DEF Told, OwnersAtHome, KeysAtHome, ActiveRuns, EventsAgree, LastEvent
<1>6. ASSUME NEW s \in Sessions, NEW key \in RequestKeys \cup {NoRequestKey}, StartSession(s, key)
      PROVE  ToldInv'
  <2> PICK request : request = [op |-> "start", session |-> s, run |-> NoRun]
    OBVIOUS
  <2>1. request \in Request /\ request.op # "resume"
    BY DEF Request
  <2>2. control' = control \/ control' = Started(control, s, key, request)
    BY <1>6 DEF StartSession
  <2>3. \A k \in RequestKeys : \/ control'.idempotency[k] = control.idempotency[k]
                               \/ control'.idempotency[k].request.op # "resume"
    BY <1>0, <2>1, <2>2, OpenedKeys
  <2>4. ResumesAreBuilt' /\ UNCHANGED <<tasks, cancelling, dirs, current>>
    BY <1>0, <1>6, <2>3, BuiltStays DEF StartSession
  <2>5. PICK r \in RunIds :
          /\ setup = NoSetup
          /\ setup' = IF current[s] # NoObject THEN NoSetup
                      ELSE Calling("start", "build", s, r, key, s, r)
          /\ \/ /\ control' = control /\ Cached(control, key)
                /\ control.idempotency[key].request.session = s
                /\ control.idempotency[key].response.run = r
             \/ Opens(control, control', s, r)
    BY <1>0, <1>6, StartEffects
  <2> QED
    BY <1>3, <2>4, <2>5
<1>7. ASSUME NEW s \in Sessions, NEW r \in RunIds, NEW key \in RequestKeys \cup {NoRequestKey},
             NEW parent \in Sessions, BranchSession(parent, r, s, key)
      PROVE  ToldInv'
  <2> PICK request : request = [op |-> "branch", session |-> s, run |-> r]
    OBVIOUS
  <2>1. request \in Request /\ request.op # "resume"
    BY DEF Request
  <2>2. control' = control \/ control' = Branched(control, s, key, request)
    BY <1>7 DEF BranchSession
  <2>3. \A k \in RequestKeys : \/ control'.idempotency[k] = control.idempotency[k]
                               \/ control'.idempotency[k].request.op # "resume"
    BY <1>0, <2>1, <2>2, OpenedKeys
  <2>4. ResumesAreBuilt' /\ UNCHANGED <<tasks, cancelling, dirs, current>>
    BY <1>0, <1>7, <2>3, BuiltStays DEF BranchSession
  <2> QED
    BY <1>0, <1>3, <1>7, <2>4, BranchEffects
\* A run that is resumed is remembered from its home.
<1>8. ASSUME NEW s \in Sessions, NEW r \in RunIds, NEW key \in RequestKeys \cup {NoRequestKey},
             Remembered(s, r), ResumeSession(s, r, key)
      PROVE  ToldInv'
  <2>1. home[r] = s /\ r < control.next_id
    BY <1>8 DEF Remembered, AtHome, OwnersAtHome, DirsAtHome, RunDirs
  <2>2. /\ tasks' = tasks /\ cancelling' = cancelling /\ dirs' = dirs /\ current' = current
        /\ setup = NoSetup
    BY <1>8 DEF ResumeSession
  <2>3. \/ /\ setup' = Calling("resume", "source", s, r, key, s, r)
           /\ \/ /\ Cached(control, key)
                 /\ control.idempotency[key].request = [op |-> "resume", session |-> s, run |-> r]
                 /\ \/ current[s] # NoObject /\ control' = control
                    \/ current[s] = NoObject /\ Seeds(control, control', s, r)
              \/ /\ Reopens(control, control', s, r)
                 /\ key # NoRequestKey => \A k \in RequestKeys \ {key} :
                      control'.idempotency[k] = control.idempotency[k]
                 /\ key = NoRequestKey => control'.idempotency = control.idempotency
        \/ /\ setup' = setup /\ current[s] = NoObject
           /\ RollsBack(control, control', s, r)
    BY <1>0, <1>8, ResumeEffects
  <2>4. CASE /\ setup' = Calling("resume", "source", s, r, key, s, r)
             /\ Cached(control, key)
             /\ control.idempotency[key].request = [op |-> "resume", session |-> s, run |-> r]
             /\ \/ current[s] # NoObject /\ control' = control
                \/ current[s] = NoObject /\ Seeds(control, control', s, r)
    <3>1. current[s] # NoObject
      BY <1>0, <2>2, <2>4 DEF ResumesAreBuilt, Cached
    <3>2. control' = control
      BY <2>4, <3>1
    <3>3. SetupAtHome(home)'
      BY <2>1, <2>4, <3>2, CallingFields DEF SetupAtHome
    <3>4. ResumesAreBuilt'
      BY <1>0, <2>2, <3>2 DEF ResumesAreBuilt
    <3> QED
      BY <1>4, <1>5, <2>2, <3>2, <3>3, <3>4
  <2>5. CASE /\ setup' = Calling("resume", "source", s, r, key, s, r)
             /\ Reopens(control, control', s, r)
             /\ key # NoRequestKey => \A k \in RequestKeys \ {key} :
                  control'.idempotency[k] = control.idempotency[k]
             /\ key = NoRequestKey => control'.idempotency = control.idempotency
    <3>1. Told(home)' /\ control'.next_id = control.next_id
      BY <1>0, <2>1, <2>5, ReopensTold
    <3>2. /\ setup' # NoSetup /\ setup'.op = "resume" /\ setup'.session = s /\ setup'.run = r
          /\ setup'.key = key
      BY <2>5, CallingFields
    <3>3. SetupAtHome(home)'
      BY <2>1, <3>1, <3>2 DEF SetupAtHome
    <3>4. ResumesAreBuilt'
      <4> SUFFICES ASSUME NEW k \in RequestKeys, control'.idempotency[k] # NoEntry,
                          control'.idempotency[k].request.op = "resume"
                   PROVE  \/ current'[control'.idempotency[k].request.session] # NoObject
                          \/ /\ setup' # NoSetup /\ setup'.op = "resume" /\ setup'.key = k
                             /\ setup'.session = control'.idempotency[k].request.session
        BY DEF ResumesAreBuilt
      <4>1. CASE control'.idempotency[k] = control.idempotency[k]
        BY <1>0, <2>2, <4>1 DEF ResumesAreBuilt
      <4>2. CASE control'.idempotency[k] # control.idempotency[k]
        <5>1. k = key
          BY <2>5, <4>2
        <5>2. control'.idempotency[k].request.session = s
          BY <2>5, <4>2 DEF Reopens, KeysFor
        <5> QED
          BY <3>2, <5>1, <5>2
      <4> QED
        BY <4>1, <4>2
    <3> QED
      BY <1>4, <2>2, <3>1, <3>3, <3>4
  <2>6. CASE setup' = setup /\ RollsBack(control, control', s, r)
    <3>1. Told(home)' /\ control'.next_id = control.next_id
      BY <1>0, <2>1, <2>6, RollsBackTold
    <3>2. ResumesAreBuilt'
      BY <1>0, <2>2, <2>6, BuiltStays DEF RollsBack
    <3> QED
      BY <1>4, <2>2, <2>6, <3>1, <3>2
  <2> QED
    BY <2>3, <2>4, <2>5, <2>6
<1>9. ASSUME NEW s \in Sessions, NEW r \in RunIds, NEW key \in RequestKeys \cup {NoRequestKey},
             Admit(s, r, key)
      PROVE  ToldInv'
  <2>1. /\ prompts' \in Prompts /\ tasks'[prompts'] = Task(s, r, current[s])
        /\ \A q \in Prompts : q # prompts' => tasks'[q] = tasks[q]
        /\ Active(control, s, r)
    BY <1>0, <1>9, AdmittedTask
  <2>2. UNCHANGED <<control, current, cancelling, setup, dirs>>
    BY <1>9 DEF Admit
  <2>3. home[r] = s /\ r < control.next_id
    BY <1>0, <2>1 DEF Told, ActiveRuns, OwnersAtHome
  <2>4. TasksAtHome(home)'
    BY <2>1, <2>2, <2>3 DEF TasksAtHome, AtHome, Task
  <2>5. ResumesAreBuilt'
    BY <1>0, <2>2 DEF ResumesAreBuilt
  <2> QED
    BY <1>4, <1>5, <2>2, <2>4, <2>5
<1>10. ASSUME NEW s \in Sessions, NEW r \in RunIds, CancelRun(s, r) PROVE ToldInv'
  <2>1. home[r] = s /\ r < control.next_id
    BY <1>0, <1>10 DEF CancelRun, Told, OwnersAtHome
  <2>2. UNCHANGED <<control, current, tasks, setup, dirs>>
    BY <1>10 DEF CancelRun
  <2>3. CancelsAtHome(home)'
    BY <1>10, <2>1, <2>2 DEF CancelRun, CancelsAtHome, AtHome
  <2>4. ResumesAreBuilt'
    BY <1>0, <2>2 DEF ResumesAreBuilt
  <2> QED
    BY <1>4, <1>5, <2>2, <2>3, <2>4
<1>11. ASSUME TakeSource PROVE ToldInv'
  <2>1. PICK history : setup' = [setup EXCEPT !.pc = "build", !.history = history]
    BY <1>11 DEF TakeSource
  <2>2. setup \in SetupState
    BY <1>0, <1>11 DEF TakeSource, HostType
  <2>3. /\ setup' # NoSetup => setup # NoSetup
        /\ setup'.session = setup.session /\ setup'.run = setup.run
        /\ setup'.op = setup.op /\ setup'.key = setup.key /\ setup' # NoSetup
    BY <1>11, <2>1, <2>2 DEF SetupState, NoSetup, TakeSource
  <2>4. UNCHANGED <<control, current, tasks, cancelling, dirs>>
    BY <1>11 DEF TakeSource
  <2>5. SetupAtHome(home)'
    BY <2>3, <2>4 DEF SetupAtHome, AtHome
  <2>6. ResumesAreBuilt'
    BY <1>0, <2>3, <2>4 DEF ResumesAreBuilt
  <2> QED
    BY <1>4, <1>5, <2>4, <2>5, <2>6
\* A call that fails takes its session and its key's answer with it.
<1>12. ASSUME setup # NoSetup, setup' = NoSetup, UNCHANGED <<tasks, cancelling, current>>,
              control' = RolledBack(control, setup.session, setup.run, setup.key),
              dirs' = dirs \/ DirsAtHome(home)'
       PROVE  ToldInv'
  <2>1. /\ setup.session \in Sessions /\ setup.run \in RunIds
        /\ setup.key \in RequestKeys \cup {NoRequestKey}
    BY <1>0, <1>12 DEF HostType, SetupState
  <2>2. /\ RollsBack(control, control', setup.session, setup.run)
        /\ setup.key \in RequestKeys => control'.idempotency[setup.key] = NoEntry
    BY <1>0, <1>12, <2>1, RolledBackFields
  <2>3. home[setup.run] = setup.session
    BY <1>12 DEF AtHome, SetupAtHome
  <2>4. Told(home)' /\ control'.next_id = control.next_id
    BY <1>0, <2>1, <2>2, <2>3, RollsBackTold
  <2>5. ResumesAreBuilt'
    BY <1>0, <1>12, <2>2 DEF ResumesAreBuilt, RollsBack
  <2>6. SetupAtHome(home)'
    BY <1>12 DEF SetupAtHome
  <2> QED
    BY <1>4, <1>12, <2>4, <2>5, <2>6
<1>13. ASSUME SourceFails PROVE ToldInv'
  <2>1. /\ setup # NoSetup /\ setup' = NoSetup
        /\ UNCHANGED <<tasks, cancelling, current, dirs>>
    BY <1>13 DEF SourceFails
  <2>2. CASE setup.op = "resume"
    BY <1>12, <1>13, <2>1, <2>2 DEF SourceFails
  <2>3. CASE setup.op # "resume"
    <3>1. control' = control
      BY <1>13, <2>3 DEF SourceFails
    <3>2. ResumesAreBuilt'
      BY <1>0, <2>1, <2>3, <3>1 DEF ResumesAreBuilt
    <3>3. SetupAtHome(home)'
      BY <2>1 DEF SetupAtHome
    <3> QED
      BY <1>4, <1>5, <2>1, <3>1, <3>2, <3>3
  <2> QED
    BY <2>2, <2>3
\* A directory that is made is the run's in its home.
<1>14. ASSUME setup # NoSetup, dirs' = WithNewDir, control'.next_id = control.next_id
       PROVE  DirsAtHome(home)'
  <2>1. setup \in SetupState /\ dirs \in Seq(DirState) /\ Len(dirs) \in Nat
    BY <1>0, <1>14, LenProperties DEF HostType
  <2>2. /\ dirs' \in Seq(DirState)
        /\ Len(dirs') = IF Tracing THEN Len(dirs) + 1 ELSE Len(dirs)
        /\ \A i \in 1..Len(dirs) : dirs'[i] = dirs[i]
        /\ Tracing => dirs'[Len(dirs) + 1] = NewDir
    BY <1>14, <2>1, WithNewDirDirs
  <2>3. DOMAIN dirs = 1..Len(dirs) /\ DOMAIN dirs' = 1..Len(dirs')
    BY <2>1, <2>2, LenProperties
  <2>4. NewDir.run = setup.run /\ NewDir.session = setup.session
    BY DEF NewDir
  <2>5. home[setup.run] = setup.session /\ setup.run < control.next_id
    BY <1>14 DEF AtHome, SetupAtHome
  <2>6. ASSUME NEW i \in DOMAIN dirs' PROVE (home[dirs[i].run] = dirs[i].session)' /\ dirs'[i].run < control.next_id
    <3>1. CASE i \in DOMAIN dirs
      BY <2>2, <2>3, <3>1 DEF AtHome, DirsAtHome
    <3>2. CASE i \notin DOMAIN dirs
      <4>1. Tracing /\ i = Len(dirs) + 1
        BY <2>1, <2>2, <2>3, <2>6, <3>2, RuntimeHostAssumption
      <4> QED
        BY <2>2, <2>4, <2>5, <4>1
    <3> QED
      BY <3>1, <3>2
  <2> QED
    BY <1>14, <2>6 DEF DirsAtHome
<1>15. ASSUME FinishSetup PROVE ToldInv'
  <2>1. /\ setup # NoSetup /\ setup' = NoSetup /\ dirs' = WithNewDir
        /\ UNCHANGED <<control, tasks, cancelling>>
        /\ current' = [current EXCEPT ![setup.session] = Len(objects) + 1]
    BY <1>15 DEF FinishSetup
  <2>2. DirsAtHome(home)'
    BY <1>14, <2>1
  <2>3. SetupAtHome(home)'
    BY <2>1 DEF SetupAtHome
  <2>4. ResumesAreBuilt'
    <3>1. \A s \in Sessions : current'[s] = NoObject => current[s] = NoObject /\ s # setup.session
      <4>1. Len(objects) + 1 # NoObject /\ current \in [Sessions -> Nat]
        BY <1>0, LenProperties DEF HostType, NoObject
      <4> QED
        BY <2>1, <4>1
    <3>2. \A k \in RequestKeys : control.idempotency[k] # NoEntry =>
            control.idempotency[k].request.session \in Sessions
      BY <1>0, HostFields DEF Entry, Request
    <3> QED
      BY <1>0, <2>1, <3>1, <3>2 DEF ResumesAreBuilt
  <2> QED
    BY <1>4, <1>5, <2>1, <2>2, <2>3, <2>4
<1>16. ASSUME BuildFails PROVE ToldInv'
  <2>1. /\ setup # NoSetup /\ setup' = NoSetup /\ UNCHANGED <<tasks, cancelling, current>>
        /\ control' = RolledBack(control, setup.session, setup.run, setup.key)
        /\ dirs' = dirs \/ dirs' = WithNewDir
    BY <1>16 DEF BuildFails
  <2>2. control'.next_id = control.next_id
    BY <1>0, <2>1 DEF RolledBack, HostState
  <2> QED
    BY <1>12, <1>14, <2>1, <2>2
\* A task keeps its session and run.
<1>17. ASSUME NEW p \in Prompts, tasks[p] # Idle,
              \A q \in Prompts : q # p => tasks'[q] = tasks[q],
              \/ tasks'[p] = Idle
              \/ tasks'[p].session = tasks[p].session /\ tasks'[p].run = tasks[p].run,
              control'.next_id = control.next_id
       PROVE  TasksAtHome(home)'
  BY <1>17 DEF TasksAtHome, AtHome
<1>18. ASSUME NEW p \in Prompts, NEW pc, Moved(p, pc), tasks[p] # Idle,
              UNCHANGED <<control, current, cancelling, setup>>,
              dirs' = dirs \/ DirsAtHome(home)'
       PROVE  ToldInv'
  <2>1. TasksAtHome(home)'
    BY <1>17, <1>18 DEF Moved
  <2>2. ResumesAreBuilt'
    BY <1>0, <1>18 DEF ResumesAreBuilt
  <2> QED
    BY <1>4, <1>5, <1>18, <2>1, <2>2
<1>19. ASSUME \A i \in DOMAIN dirs : dirs'[i].run = dirs[i].run /\ dirs'[i].session = dirs[i].session,
              DOMAIN dirs' = DOMAIN dirs, control'.next_id = control.next_id
       PROVE  DirsAtHome(home)'
  BY <1>19 DEF DirsAtHome, AtHome
<1>20. ASSUME NEW p \in Prompts, Execute(p) PROVE ToldInv'
  <2>1. Moved(p, "running") /\ tasks[p] # Idle /\ UNCHANGED <<control, current, cancelling, setup>>
    BY <1>0, <1>20, MovedTask, TaskShape DEF Execute
  <2>2. /\ dirs' \in Seq(DirState) /\ Len(dirs') = Len(dirs)
        /\ \A i \in 1..Len(dirs) : dirs'[i].run = dirs[i].run /\ dirs'[i].session = dirs[i].session
    BY <1>0, <1>20, ExecuteEffects
  <2>3. DOMAIN dirs = 1..Len(dirs) /\ DOMAIN dirs' = 1..Len(dirs)
    BY <1>0, <2>2, LenProperties DEF HostType
  <2>4. DirsAtHome(home)'
    BY <1>19, <2>1, <2>2, <2>3
  <2> QED
    BY <1>18, <2>1, <2>4
<1>21. ASSUME NEW p \in Prompts, RunReturns(p) PROVE ToldInv'
  <2>1. Moved(p, "returned") /\ tasks[p] # Idle /\ UNCHANGED <<control, current, cancelling, setup, dirs>>
    BY <1>0, <1>21, MovedTask, TaskShape DEF RunReturns
  <2> QED
    BY <1>18, <2>1
<1>22. ASSUME NEW p \in Prompts, ForgetToken(p) PROVE ToldInv'
  <2>1. Moved(p, "deciding") /\ tasks[p] # Idle /\ UNCHANGED <<control, current, cancelling, setup, dirs>>
    BY <1>0, <1>22, MovedTask, TaskShape DEF ForgetToken
  <2> QED
    BY <1>18, <2>1
<1>23. ASSUME NEW p \in Prompts, Decide(p) PROVE ToldInv'
  <2>1. /\ tasks[p] \in TaskState /\ tasks[p] # Idle /\ AtTask(p, "deciding")
        /\ UNCHANGED <<control, current, cancelling, setup>>
    BY <1>0, <1>23, TaskShape DEF Decide
  <2>2. Verdict(p) \in {"Running", "Completed", "Failed", "Interrupted"} /\ tasks[p].run \in RunIds
    BY <2>1 DEF Verdict, Outcome, TaskState
  <2>3. /\ dirs' \in Seq(DirState) /\ Len(dirs') = Len(dirs)
        /\ \A i \in 1..Len(dirs) : dirs'[i].run = dirs[i].run /\ dirs'[i].session = dirs[i].session
    BY <1>0, <1>23, <2>2, FinalizedDirs DEF Decide, HostType
  <2>4. DOMAIN dirs = 1..Len(dirs) /\ DOMAIN dirs' = 1..Len(dirs)
    BY <1>0, <2>3, LenProperties DEF HostType
  <2>5. DirsAtHome(home)'
    BY <1>19, <2>1, <2>3, <2>4
  <2>6. /\ \A q \in Prompts : q # p => tasks'[q] = tasks[q]
        /\ \/ tasks'[p] = Idle
           \/ tasks'[p].session = tasks[p].session /\ tasks'[p].run = tasks[p].run
    <3>1. CASE Verdict(p) = "Interrupted"
      BY <1>0, <1>23, <2>1, <3>1, MovedTask DEF Decide
    <3>2. CASE Verdict(p) # "Interrupted"
      BY <1>0, <1>23, <2>1, <3>2, MovedTask DEF Decide, Moved
    <3> QED
      BY <3>1, <3>2
  <2>7. TasksAtHome(home)'
    BY <1>17, <2>1, <2>6
  <2>8. ResumesAreBuilt'
    BY <1>0, <2>1 DEF ResumesAreBuilt
  <2> QED
    BY <1>4, <1>5, <2>1, <2>5, <2>7, <2>8
\* The end of a run is written where it is at home.
<1>24. ASSUME NEW s \in Sessions, NEW r \in RunIds, home[r] = s,
              \/ control' = control
              \/ \E kind \in {"RunCompleted", "RunFailed", "RunCancelled"} :
                   Ends(control, control', s, r, kind),
              UNCHANGED <<current, setup>>
       PROVE  /\ Told(home)' /\ control'.next_id = control.next_id /\ ResumesAreBuilt'
  <2>1. control'.idempotency = control.idempotency
    BY <1>24 DEF Ends
  <2>2. ResumesAreBuilt'
    BY <1>0, <1>24, <2>1 DEF ResumesAreBuilt
  <2>3. CASE control' = control
    BY <1>5, <2>2, <2>3
  <2>4. CASE \E kind \in {"RunCompleted", "RunFailed", "RunCancelled"} :
               Ends(control, control', s, r, kind)
    BY <1>0, <1>24, <2>2, <2>4, EndsTold
  <2> QED
    BY <1>24, <2>3, <2>4
<1>25. ASSUME NEW p \in Prompts, Report(p) PROVE ToldInv'
  <2>1. tasks[p] \in TaskState /\ tasks[p] # Idle /\ AtTask(p, "reporting")
    BY <1>0, <1>25, TaskShape DEF Report
  <2>2. /\ tasks[p].session \in Sessions /\ tasks[p].run \in RunIds
        /\ home[tasks[p].run] = tasks[p].session
    BY <2>1 DEF TaskState, AtHome, TasksAtHome
  <2>3. /\ tasks'[p] = Idle /\ \A q \in Prompts : q # p => tasks'[q] = tasks[q]
        /\ UNCHANGED <<current, setup, cancelling, dirs>>
    BY <1>0, <1>25, <2>1, MovedTask DEF Report
  <2>4. \/ control' = control
        \/ \E kind \in {"RunCompleted", "RunFailed", "RunCancelled"} :
             Ends(control, control', tasks[p].session, tasks[p].run, kind)
    BY <1>0, <1>25, <2>2, EndEffects DEF Report
  <2>5. Told(home)' /\ control'.next_id = control.next_id /\ ResumesAreBuilt'
    BY <1>24, <2>2, <2>3, <2>4
  <2>6. TasksAtHome(home)'
    BY <1>17, <2>1, <2>3, <2>5
  <2> QED
    BY <1>4, <2>3, <2>5, <2>6
<1>26. ASSUME NEW s \in Sessions, NEW r \in RunIds, MarkCancelled(s, r) PROVE ToldInv'
  <2>1. home[r] = s /\ UNCHANGED <<current, setup, tasks, dirs>>
    BY <1>26 DEF MarkCancelled, AtHome, CancelsAtHome
  <2>2. \/ control' = control
        \/ \E kind \in {"RunCompleted", "RunFailed", "RunCancelled"} :
             Ends(control, control', s, r, kind)
    BY <1>0, <1>26, EndEffects DEF MarkCancelled
  <2>3. Told(home)' /\ control'.next_id = control.next_id /\ ResumesAreBuilt'
    BY <1>24, <2>1, <2>2
  <2>4. CancelsAtHome(home)'
    BY <1>26, <2>3 DEF MarkCancelled, AtHome, CancelsAtHome
  <2> QED
    BY <1>4, <2>1, <2>3, <2>4
<1>27. ASSUME Restart PROVE ToldInv'
  BY <1>0, <1>27 DEF Restart, HostType
<1>28. ASSUME UNCHANGED vars PROVE ToldInv'
  <2>1. UNCHANGED <<control, current, tasks, cancelling, setup, dirs>>
    BY <1>28 DEF vars, memory
  <2> QED
    BY <1>2, <2>1
<1> QED
  BY <1>6, <1>7, <1>8, <1>9, <1>10, <1>11, <1>13, <1>15, <1>16, <1>20, <1>21, <1>22, <1>23,
     <1>25, <1>26, <1>27, <1>28
     DEF Next, Start, Resume, Branch, Continue, Cancel, ContinueSession, TaskStep

LEMMA ToldInvariant ==
  ASSUME MaxRestarts = 0
  PROVE  Spec => []ToldInv
<1>1. Init => ToldInv
  <2>1. ASSUME Init PROVE ToldInv
    <3> PICK home : home = [r \in RunIds |-> NoSession]
      OBVIOUS
    <3>1. /\ HostType /\ Referred /\ home \in Homes
      BY <2>1, InitType DEF Homes
    <3>2. /\ \A s \in Sessions, r \in RunIds : ~Owns(control, s, r) /\ ~Active(control, s, r)
          /\ \A k \in RequestKeys : control.idempotency[k] = NoEntry
          /\ \A p \in Prompts : tasks[p] = Idle
          /\ cancelling = {} /\ setup = NoSetup /\ DOMAIN dirs = {}
      <4>1. DOMAIN dirs = {}
        BY <2>1, EmptySeq DEF Init
      <4> QED
        BY <2>1, <4>1 DEF Init, NewControl, Owns, Active, Known
    <3>3. AtHome(home)
      BY <3>2 DEF AtHome, OwnersAtHome, KeysAtHome, TasksAtHome, CancelsAtHome, SetupAtHome, DirsAtHome
    <3>4. ResumesAreBuilt /\ ActiveRuns /\ EventsAgree
      BY <3>2 DEF ResumesAreBuilt, ActiveRuns, EventsAgree
    <3> QED
      BY <3>1, <3>3, <3>4 DEF ToldInv
  <2> QED
    BY <2>1
<1>2. ToldInv /\ [Next]_vars => ToldInv'
  BY ToldStep, TypeStep DEF ToldInv
<1> QED
  BY <1>1, <1>2, PTL DEF Spec

\* What inspection and polling tell of a run agrees, whatever calls, failures, cancels and
\* ends come in between: a run has one session, an active run is running, and the last
\* event about a run that has ended says how.  Of one process: ids are handed out anew
\* after a restart.
THEOREM ToldAlike ==
  ASSUME MaxRestarts = 0
  PROVE  Spec => []RunsToldAlike
<1>1. ToldInv => RunsToldAlike
  BY DEF ToldInv, AtHome, OwnersAtHome, ActiveRuns, RunsToldAlike, RunsAreOwned
<1> QED
  BY <1>1, ToldInvariant, PTL

-----------------------------------------------------------------------------
(* Which history a session has. *)

\* A client that waits has one prompt at a time in a session, on its retained session, and
\* none while the session is being set up.
TasksOnCurrent ==
  /\ \A p \in Prompts : tasks[p] # Idle =>
       /\ current[tasks[p].session] # NoObject
       /\ tasks[p].object = current[tasks[p].session]
       /\ setup # NoSetup => tasks[p].session # setup.session
  /\ \A p, q \in Prompts :
       tasks[p] # Idle /\ tasks[q] # Idle /\ tasks[p].session = tasks[q].session => p = q

\* Sessions share neither retained sessions nor the directories these write to.
SessionsApart ==
  /\ \A s, t \in Sessions : current[s] # NoObject /\ current[s] = current[t] => s = t
  /\ \A s \in Sessions : current[s] # NoObject /\ objects[current[s]].dir # NoDir =>
       dirs[objects[current[s]].dir].session = s

\* Before its first retained session a session has executed nothing, and its directories
\* hold nothing.
UnusedEmpty ==
  \A s \in Sessions : current[s] = NoObject =>
    /\ executed[s] = <<>>
    /\ \A i \in DOMAIN dirs : dirs[i].session = s => dirs[i].history = <<>>

\* A resume that has its source has the session's conversation.
SourceIsExecuted ==
  setup # NoSetup /\ setup.op = "resume" =>
    /\ setup.parent = setup.session /\ setup.from = setup.run
    /\ setup.pc = "build" => setup.history = executed[setup.session]

HistoryInv ==
  TasksOnCurrent /\ SessionsApart /\ UnusedEmpty /\ SourceIsExecuted /\ HistoryKept

\* The prompts under way are among those that were, on the same retained sessions.
TasksRemain ==
  \A p \in Prompts : tasks'[p] # Idle =>
    /\ tasks[p] # Idle
    /\ tasks'[p].session = tasks[p].session /\ tasks'[p].object = tasks[p].object

\* Neither a history nor a session changes in the directories.
DirsRemain ==
  /\ DOMAIN dirs' = DOMAIN dirs
  /\ \A i \in DOMAIN dirs : dirs'[i].session = dirs[i].session /\ dirs'[i].history = dirs[i].history

\* The directories that are referred to exist.
LEMMA DirOfCurrent ==
  ASSUME HostType, Referred, NEW s \in Sessions, current[s] # NoObject
  PROVE  /\ current[s] \in 1..Len(objects) /\ current[s] \in Nat
         /\ objects[current[s]].dir \in Nat
         /\ objects[current[s]].dir # NoDir => objects[current[s]].dir \in DOMAIN dirs
<1>1. current[s] \in 1..Len(objects) /\ DOMAIN objects = 1..Len(objects) /\ Len(objects) \in Nat
  BY LenProperties DEF HostType, Referred, NoObject
<1>2. objects[current[s]].dir \in 0..Len(dirs) /\ DOMAIN dirs = 1..Len(dirs) /\ Len(dirs) \in Nat
  BY <1>1, LenProperties DEF HostType, Referred
<1> QED
  BY <1>1, <1>2 DEF NoDir

\* Most steps touch none of this.
LEMMA HistoryFrame ==
  ASSUME HostType, Referred, HistoryInv, UNCHANGED <<current, objects, executed>>,
         TasksRemain, DirsRemain, setup' = setup \/ setup' = NoSetup
  PROVE  HistoryInv'
<1>1. TasksOnCurrent'
  BY DEF HistoryInv, TasksOnCurrent, TasksRemain
<1>2. SessionsApart'
  BY DirOfCurrent DEF HistoryInv, SessionsApart, DirsRemain
<1>3. UnusedEmpty'
  BY DEF HistoryInv, UnusedEmpty, DirsRemain
<1>4. SourceIsExecuted'
  BY DEF HistoryInv, SourceIsExecuted
<1>5. HistoryKept'
  BY DEF HistoryInv, HistoryKept
<1> QED
  BY <1>1, <1>2, <1>3, <1>4, <1>5 DEF HistoryInv

\* A call holds the session lock of a session without prompts.
LEMMA HistoryCalls ==
  ASSUME HistoryInv, NEW op \in {"start", "resume", "branch"}, NEW pc \in {"source", "build"},
         NEW s \in Sessions, NEW r \in RunIds, NEW key \in RequestKeys \cup {NoRequestKey},
         NEW parent \in Sessions, NEW from \in RunIds,
         setup' = Calling(op, pc, s, r, key, parent, from),
         op = "resume" => pc = "source" /\ parent = s /\ from = r,
         \A p \in Prompts : tasks[p] # Idle => tasks[p].session # s,
         UNCHANGED <<current, objects, executed, tasks, dirs>>
  PROVE  HistoryInv'
<1>1. /\ setup'.op = op /\ setup'.pc = pc /\ setup'.session = s /\ setup'.run = r
      /\ setup'.parent = parent /\ setup'.from = from
  BY CallingFields
<1>2. TasksOnCurrent'
  BY <1>1 DEF HistoryInv, TasksOnCurrent
<1>3. SessionsApart' /\ UnusedEmpty' /\ HistoryKept'
  BY DEF HistoryInv, SessionsApart, UnusedEmpty, HistoryKept
<1>4. SourceIsExecuted'
  BY <1>1 DEF SourceIsExecuted
<1> QED
  BY <1>2, <1>3, <1>4 DEF HistoryInv

\* What a resume takes for its source is what was executed: no run holds the retained
\* session, and without one the run's directory holds nothing.
LEMMA HistoryTaken ==
  ASSUME ToldInv, HistoryInv, TakeSource
  PROVE  HistoryInv'
<1> PICK home \in Homes : AtHome(home)
  BY DEF ToldInv
<1>0. HostType /\ Referred
  BY DEF ToldInv
<1>1. PICK history \in Conversation :
        /\ setup' = [setup EXCEPT !.pc = "build", !.history = history]
        /\ setup \in SetupState
        /\ \/ Retained /\ history = objects[current[setup.parent]].history
           \/ ~Retained /\ RunDirs(setup.from) # {}
              /\ history = dirs[FindRunDir(setup.from)].history
  BY <1>0, SourceType
<1>2. /\ setup # NoSetup /\ UNCHANGED <<current, objects, executed, tasks, dirs>>
      /\ setup'.session = setup.session /\ setup'.op = setup.op /\ setup'.parent = setup.parent
      /\ setup'.from = setup.from /\ setup'.run = setup.run /\ setup'.history = history
      /\ setup.session \in Sessions /\ setup.parent \in Sessions /\ setup.from \in RunIds
  BY <1>1 DEF TakeSource, SetupState
<1>3. TasksOnCurrent'
  BY <1>2 DEF HistoryInv, TasksOnCurrent
<1>4. SessionsApart' /\ UnusedEmpty' /\ HistoryKept'
  BY <1>2 DEF HistoryInv, SessionsApart, UnusedEmpty, HistoryKept
<1>5. ASSUME setup.op = "resume"
      PROVE  history = executed[setup.session]
  <2>1. setup.parent = setup.session /\ setup.from = setup.run
    BY <1>2, <1>5 DEF HistoryInv, SourceIsExecuted
  <2>2. CASE Retained
    BY <1>1, <1>2, <2>1, <2>2 DEF Retained, HistoryInv, HistoryKept
  <2>3. CASE ~Retained
    <3>1. current[setup.session] = NoObject
      <4>1. SUFFICES ASSUME current[setup.session] # NoObject PROVE FALSE
        OBVIOUS
      <4>2. Locked(current[setup.session])
        BY <1>5, <2>1, <2>3, <4>1 DEF Retained
      <4>3. PICK p \in Prompts : tasks[p].pc = "running" /\ tasks[p].object = current[setup.session]
        BY <4>2 DEF Locked
      <4>4. tasks[p] \in TaskState /\ tasks[p] # Idle
        BY <1>0, <4>3, TaskShape DEF AtTask
      <4>5. tasks[p].session \in Sessions
        BY <4>4 DEF TaskState
      <4>6. tasks[p].session = setup.session
        BY <1>2, <4>1, <4>3, <4>4, <4>5 DEF HistoryInv, TasksOnCurrent, SessionsApart
      <4> QED
        BY <1>2, <4>4, <4>6 DEF HistoryInv, TasksOnCurrent
    <3>2. PICK i : i = FindRunDir(setup.from)
      OBVIOUS
    <3>3. i \in DOMAIN dirs /\ dirs[i].run = setup.run
      <4>1. RunDirs(setup.from) # {} /\ dirs \in Seq(DirState)
        BY <1>0, <1>1, <2>3 DEF HostType
      <4>2. i \in RunDirs(setup.from)
        BY <3>2, <4>1, OldestDirectory
      <4> QED
        BY <2>1, <4>2 DEF RunDirs
    <3>4. dirs[i].session = setup.session
      BY <1>2, <3>3 DEF AtHome, SetupAtHome, DirsAtHome
    <3>5. executed[setup.session] = <<>> /\ dirs[i].history = <<>>
      BY <1>2, <3>1, <3>3, <3>4 DEF HistoryInv, UnusedEmpty
    <3> QED
      BY <1>1, <2>3, <3>2, <3>5
  <2> QED
    BY <2>2, <2>3
<1>6. SourceIsExecuted'
  <2>1. executed' = executed
    BY <1>2
  <2> QED
    BY <1>2, <1>5, <2>1 DEF HistoryInv, SourceIsExecuted
<1> QED
  BY <1>3, <1>4, <1>6 DEF HistoryInv

\* A directory that nothing has been written to is harmless.
LEMMA HistoryUnbuilt ==
  ASSUME HostType, Referred, HistoryInv, setup # NoSetup,
         dirs' = dirs \/ dirs' = WithNewDir, setup' = NoSetup,
         UNCHANGED <<current, objects, executed, tasks>>
  PROVE  HistoryInv'
<1>1. TasksOnCurrent' /\ SourceIsExecuted' /\ HistoryKept'
  BY DEF HistoryInv, TasksOnCurrent, SourceIsExecuted, HistoryKept
<1>2. /\ DOMAIN dirs = 1..Len(dirs) /\ Len(dirs) \in Nat
      /\ \A i \in DOMAIN dirs : i \in DOMAIN dirs' /\ dirs'[i] = dirs[i]
      /\ \A i \in DOMAIN dirs' : i \in DOMAIN dirs \/ dirs'[i].history = <<>>
  <2>1. setup \in SetupState /\ dirs \in Seq(DirState)
    BY DEF HostType
  <2>2. DOMAIN dirs = 1..Len(dirs) /\ Len(dirs) \in Nat
    BY <2>1, LenProperties
  <2>3. CASE dirs' = dirs
    BY <2>2, <2>3
  <2>4. CASE dirs' = WithNewDir
    <3>1. /\ WithNewDir \in Seq(DirState)
          /\ Len(WithNewDir) = IF Tracing THEN Len(dirs) + 1 ELSE Len(dirs)
          /\ \A i \in 1..Len(dirs) : WithNewDir[i] = dirs[i]
          /\ Tracing => WithNewDir[Len(dirs) + 1] = NewDir
      BY <2>1, WithNewDirDirs
    <3>2. DOMAIN WithNewDir = 1..Len(WithNewDir)
      BY <3>1, LenProperties
    <3>3. NewDir.history = <<>>
      BY DEF NewDir
    <3> QED
      BY <2>2, <2>4, <3>1, <3>2, <3>3
  <2> QED
    BY <2>2, <2>3, <2>4
<1>3. SessionsApart'
  BY <1>2, DirOfCurrent DEF HistoryInv, SessionsApart
<1>4. UnusedEmpty'
  BY <1>2 DEF HistoryInv, UnusedEmpty
<1> QED
  BY <1>1, <1>3, <1>4 DEF HistoryInv

\* What FinishSetup makes.
LEMMA FinishEffects ==
  ASSUME HostType, Referred, FinishSetup
  PROVE  LET n == Len(objects) + 1
             s == setup.session
         IN /\ setup \in SetupState /\ s \in Sessions /\ n \in Nat \ {NoObject}
            /\ \A t \in Sessions : current[t] # n /\ (current[t] # NoObject => current[t] \in 1..Len(objects))
            /\ \A t \in Sessions : current'[t] = IF t = s THEN n ELSE current[t]
            /\ objects'[n].history = setup.history
            /\ objects'[n].dir # NoDir => dirs'[objects'[n].dir].session = s
            /\ \A o \in 1..Len(objects) : objects'[o] = objects[o]
            /\ \A i \in DOMAIN dirs : i \in DOMAIN dirs' /\ dirs'[i] = dirs[i]
            /\ \A i \in DOMAIN dirs' : i \in DOMAIN dirs \/ dirs'[i].session = s
            /\ \A t \in Sessions : executed'[t] =
                 IF t = s /\ setup.op # "resume" THEN setup.history ELSE executed[t]
<1>1. setup \in SetupState /\ setup.session \in Sessions /\ setup.history \in Conversation
  BY DEF FinishSetup, HostType, SetupState
<1>2. /\ objects \in Seq(ObjectState) /\ dirs \in Seq(DirState) /\ Len(objects) \in Nat
      /\ Len(dirs) \in Nat /\ DOMAIN dirs = 1..Len(dirs) /\ current \in [Sessions -> Nat]
      /\ executed \in [Sessions -> Conversation]
  BY LenProperties DEF HostType
<1> PICK o : o = [history |-> setup.history, dir |-> IF Tracing THEN Len(dirs) + 1 ELSE NoDir]
  OBVIOUS
<1>3. o \in ObjectState /\ o.history = setup.history /\ o.dir = IF Tracing THEN Len(dirs) + 1 ELSE NoDir
  BY <1>1, <1>2 DEF ObjectState, NoDir
<1>4. objects' = Append(objects, o)
  BY DEF FinishSetup
<1>5. /\ objects'[Len(objects) + 1] = o /\ \A i \in 1..Len(objects) : objects'[i] = objects[i]
  BY <1>2, <1>3, <1>4, AppendProperties
<1>6. /\ WithNewDir \in Seq(DirState)
      /\ Len(WithNewDir) = IF Tracing THEN Len(dirs) + 1 ELSE Len(dirs)
      /\ \A i \in 1..Len(dirs) : WithNewDir[i] = dirs[i]
      /\ Tracing => WithNewDir[Len(dirs) + 1] = NewDir
  BY <1>1, <1>2, WithNewDirDirs
<1>7. DOMAIN WithNewDir = 1..Len(WithNewDir) /\ dirs' = WithNewDir /\ NewDir.session = setup.session
  BY <1>6, LenProperties DEF FinishSetup, NewDir
<1>8. /\ \A i \in DOMAIN dirs : i \in DOMAIN dirs' /\ dirs'[i] = dirs[i]
      /\ \A i \in DOMAIN dirs' : i \in DOMAIN dirs \/ dirs'[i].session = setup.session
      /\ o.dir # NoDir => dirs'[o.dir].session = setup.session
  BY <1>2, <1>3, <1>6, <1>7
<1>9. \A t \in Sessions : current'[t] = IF t = setup.session THEN Len(objects) + 1 ELSE current[t]
  BY <1>1, <1>2 DEF FinishSetup
<1>10. \A t \in Sessions : executed'[t] =
         IF t = setup.session /\ setup.op # "resume" THEN setup.history ELSE executed[t]
  BY <1>1, <1>2 DEF FinishSetup
<1>11. \A t \in Sessions : current[t] # Len(objects) + 1
                           /\ (current[t] # NoObject => current[t] \in 1..Len(objects))
  BY <1>2 DEF Referred, NoObject
<1>12. Len(objects) + 1 \in Nat \ {NoObject}
  BY <1>2 DEF NoObject
<1> QED
  BY <1>1, <1>3, <1>5, <1>8, <1>9, <1>10, <1>11, <1>12

LEMMA HistoryBuilt ==
  ASSUME HostType, Referred, HistoryInv, FinishSetup
  PROVE  HistoryInv'
<1> PICK n : n = Len(objects) + 1
  OBVIOUS
<1> PICK s : s = setup.session
  OBVIOUS
<1>1. /\ s \in Sessions /\ n \in Nat \ {NoObject}
      /\ \A t \in Sessions : current[t] # n /\ (current[t] # NoObject => current[t] \in 1..Len(objects))
      /\ \A t \in Sessions : current'[t] = IF t = s THEN n ELSE current[t]
      /\ objects'[n].history = setup.history
      /\ objects'[n].dir # NoDir => dirs'[objects'[n].dir].session = s
      /\ \A o \in 1..Len(objects) : objects'[o] = objects[o]
      /\ \A i \in DOMAIN dirs : i \in DOMAIN dirs' /\ dirs'[i] = dirs[i]
      /\ \A i \in DOMAIN dirs' : i \in DOMAIN dirs \/ dirs'[i].session = s
      /\ \A t \in Sessions : executed'[t] =
           IF t = s /\ setup.op # "resume" THEN setup.history ELSE executed[t]
  BY FinishEffects
<1>2. setup # NoSetup /\ setup.pc = "build" /\ setup' = NoSetup /\ tasks' = tasks
  BY DEF FinishSetup
<1>3. TasksOnCurrent'
  <2>1. ASSUME NEW p \in Prompts, tasks[p] # Idle
        PROVE  /\ tasks[p].session \in Sessions /\ tasks[p].session # s
               /\ current[tasks[p].session] # NoObject /\ tasks[p].object = current[tasks[p].session]
    <3>1. tasks[p] \in TaskState
      BY <2>1 DEF HostType
    <3> QED
      BY <1>2, <2>1, <3>1 DEF HistoryInv, TasksOnCurrent, TaskState
  <2> QED
    BY <1>1, <1>2, <2>1 DEF HistoryInv, TasksOnCurrent
<1>4. SessionsApart'
  <2>1. ASSUME NEW t \in Sessions, NEW u \in Sessions, current'[t] # NoObject, current'[t] = current'[u]
        PROVE  t = u
    BY <1>1, <2>1 DEF HistoryInv, SessionsApart
  <2>2. ASSUME NEW t \in Sessions, current'[t] # NoObject, objects'[current'[t]].dir # NoDir
        PROVE  dirs'[objects'[current'[t]].dir].session = t
    <3>1. CASE t = s
      BY <1>1, <2>2, <3>1
    <3>2. CASE t # s
      <4>1. current'[t] = current[t] /\ current[t] \in 1..Len(objects)
            /\ objects'[current[t]] = objects[current[t]]
        BY <1>1, <2>2, <3>2
      <4>2. objects[current[t]].dir \in DOMAIN dirs /\ dirs[objects[current[t]].dir].session = t
        BY <2>2, <4>1, DirOfCurrent DEF HistoryInv, SessionsApart
      <4> QED
        BY <1>1, <4>1, <4>2
    <3> QED
      BY <3>1, <3>2
  <2> QED
    BY <2>1, <2>2 DEF SessionsApart
<1>5. UnusedEmpty'
  BY <1>1 DEF HistoryInv, UnusedEmpty
<1>6. HistoryKept'
  <2> SUFFICES ASSUME NEW t \in Sessions, current'[t] # NoObject
               PROVE  objects'[current'[t]].history = executed'[t]
    BY DEF HistoryKept
  <2>1. CASE t = s
    <3>1. setup.op = "resume" => setup.history = executed[s]
      BY <1>2 DEF HistoryInv, SourceIsExecuted
    <3> QED
      BY <1>1, <2>1, <3>1
  <2>2. CASE t # s
    BY <1>1, <2>2 DEF HistoryInv, HistoryKept
  <2> QED
    BY <2>1, <2>2
<1>7. SourceIsExecuted'
  BY <1>2 DEF SourceIsExecuted
<1> QED
  BY <1>3, <1>4, <1>5, <1>6, <1>7 DEF HistoryInv

\* A prompt is admitted where none is under way.
LEMMA HistoryAdmits ==
  ASSUME HostType, Referred, HistoryInv, NEW s \in Sessions, NEW r \in RunIds,
         NEW key \in RequestKeys \cup {NoRequestKey}, Admit(s, r, key), ClientsWait, MayCall(s)
  PROVE  HistoryInv'
<1> PICK n : n = prompts + 1
  OBVIOUS
<1>1. /\ n \in Prompts /\ tasks'[n] = Task(s, r, current[s]) /\ current[s] \in 1..Len(objects)
      /\ \A q \in Prompts : q # n => tasks'[q] = tasks[q]
  BY AdmittedTask
<1>2. UNCHANGED <<current, objects, executed, dirs, setup>> /\ current[s] # NoObject
  BY DEF Admit
<1>3. tasks'[n].session = s /\ tasks'[n].object = current[s]
  BY <1>1 DEF Task
<1>4. /\ \A p \in Prompts : tasks[p] # Idle => tasks[p].session # s
      /\ setup # NoSetup => setup.session # s
  BY DEF MayCall
<1>5. TasksOnCurrent'
  <2>1. ASSUME NEW p \in Prompts, tasks'[p] # Idle
        PROVE  /\ current[tasks'[p].session] # NoObject
               /\ tasks'[p].object = current[tasks'[p].session]
               /\ setup # NoSetup => tasks'[p].session # setup.session
               /\ p # n => tasks[p] # Idle /\ tasks'[p] = tasks[p]
    BY <1>1, <1>2, <1>3, <1>4, <2>1 DEF HistoryInv, TasksOnCurrent
  <2>2. ASSUME NEW p \in Prompts, NEW q \in Prompts, tasks'[p] # Idle, tasks'[q] # Idle,
               tasks'[p].session = tasks'[q].session
        PROVE  p = q
    BY <1>3, <1>4, <2>1, <2>2 DEF HistoryInv, TasksOnCurrent
  <2> QED
    BY <1>2, <2>1, <2>2 DEF TasksOnCurrent
<1>6. SessionsApart' /\ UnusedEmpty' /\ SourceIsExecuted' /\ HistoryKept'
  BY <1>2 DEF HistoryInv, SessionsApart, UnusedEmpty, SourceIsExecuted, HistoryKept
<1> QED
  BY <1>5, <1>6 DEF HistoryInv

\* A prompt that executes extends the history of its session, in memory and on disk, and
\* no other.
LEMMA HistoryExecutes ==
  ASSUME HostType, Referred, HistoryInv, NEW p \in Prompts, Execute(p)
  PROVE  HistoryInv'
<1> PICK o : o = tasks[p].object
  OBVIOUS
<1> PICK s : s = tasks[p].session
  OBVIOUS
<1> PICK extended : extended = Append(objects[o].history, p)
  OBVIOUS
<1>1. tasks[p] # Idle /\ s \in Sessions
  BY TaskShape DEF Execute, TaskState
<1>2. o = current[s] /\ current[s] # NoObject /\ (setup # NoSetup => setup.session # s)
  BY <1>1 DEF HistoryInv, TasksOnCurrent
<1>3. /\ o \in 1..Len(objects)
      /\ \A i \in 1..Len(objects) :
           /\ objects'[i].dir = objects[i].dir
           /\ objects'[i].history = IF i = o THEN extended ELSE objects[i].history
      /\ dirs' \in Seq(DirState) /\ Len(dirs') = Len(dirs)
      /\ \A i \in 1..Len(dirs) :
           /\ dirs'[i].session = dirs[i].session
           /\ dirs'[i].history = IF i = objects[o].dir THEN extended ELSE dirs[i].history
  BY ExecuteEffects
<1>4. DOMAIN dirs = 1..Len(dirs) /\ DOMAIN dirs' = 1..Len(dirs)
  BY <1>3, LenProperties DEF HostType
<1>5. Moved(p, "running") /\ current' = current /\ setup' = setup
  BY MovedTask DEF Execute
<1>6. TasksRemain
  BY <1>1, <1>5 DEF Moved, TasksRemain
<1>7. executed'[s] = Append(executed[s], p) /\ \A t \in Sessions : t # s => executed'[t] = executed[t]
  BY <1>1 DEF Execute, HostType
<1>8. TasksOnCurrent'
  BY <1>5, <1>6 DEF HistoryInv, TasksOnCurrent, TasksRemain
<1>9. SessionsApart'
  <2>1. ASSUME NEW t \in Sessions, current[t] # NoObject, objects'[current[t]].dir # NoDir
        PROVE  dirs'[objects'[current[t]].dir].session = t
    <3>1. objects'[current[t]].dir = objects[current[t]].dir
      BY <1>3, <2>1, DirOfCurrent
    <3>2. objects[current[t]].dir \in DOMAIN dirs /\ dirs[objects[current[t]].dir].session = t
      BY <2>1, <3>1, DirOfCurrent DEF HistoryInv, SessionsApart
    <3> QED
      BY <1>3, <1>4, <3>1, <3>2
  <2> QED
    BY <1>5, <2>1 DEF HistoryInv, SessionsApart
<1>10. UnusedEmpty'
  <2> SUFFICES ASSUME NEW t \in Sessions, current[t] = NoObject
               PROVE  /\ executed'[t] = <<>>
                      /\ \A i \in DOMAIN dirs : dirs'[i].session = t => dirs'[i].history = <<>>
    BY <1>4, <1>5 DEF UnusedEmpty
  <2>1. t # s
    BY <1>2
  <2>2. ASSUME NEW i \in DOMAIN dirs, dirs[i].session = t
        PROVE  i # objects[o].dir /\ dirs[i].history = <<>>
    <3>1. objects[o].dir # NoDir => dirs[objects[o].dir].session = s
      BY <1>1, <1>2 DEF HistoryInv, SessionsApart
    <3>2. i # NoDir
      BY <1>4 DEF NoDir
    <3> QED
      BY <2>1, <2>2, <3>1, <3>2 DEF HistoryInv, UnusedEmpty
  <2> QED
    BY <1>3, <1>4, <1>7, <2>1, <2>2 DEF HistoryInv, UnusedEmpty
<1>11. SourceIsExecuted'
  <2>1. setup # NoSetup => setup.session \in Sessions
    BY DEF HostType, SetupState
  <2> QED
    BY <1>2, <1>5, <1>7, <2>1 DEF HistoryInv, SourceIsExecuted
<1>12. HistoryKept'
  <2> SUFFICES ASSUME NEW t \in Sessions, current[t] # NoObject
               PROVE  objects'[current[t]].history = executed'[t]
    BY <1>5 DEF HistoryKept
  <2>1. current[t] \in 1..Len(objects) /\ objects[current[t]].history = executed[t]
    BY DirOfCurrent DEF HistoryInv, HistoryKept
  <2>2. CASE t = s
    <3>1. objects'[current[t]].history = extended
      BY ONLY <1>2, <1>3, <2>1, <2>2
    <3>2. extended = Append(executed[s], p)
      <4>1. objects[o].history = executed[s]
        BY <1>2, <2>1, <2>2
      <4> QED
        BY ONLY extended = Append(objects[o].history, p), <4>1
    <3> QED
      BY <1>7, <2>2, <3>1, <3>2
  <2>3. CASE t # s
    <3>1. current[t] # o
      BY <1>1, <1>2, <2>3 DEF HistoryInv, SessionsApart
    <3> QED
      BY <1>3, <1>7, <2>1, <2>3, <3>1
  <2> QED
    BY <2>2, <2>3
<1> QED
  BY <1>8, <1>9, <1>10, <1>11, <1>12 DEF HistoryInv

LEMMA HistoryStep ==
  ASSUME ClientsWait, MaxRestarts = 0, ToldInv, HistoryInv, [Next]_vars
  PROVE  HistoryInv'
<1>0. HostType /\ Referred
  BY DEF ToldInv
<1>1. ASSUME UNCHANGED <<current, objects, executed, tasks, dirs>>,
             setup' = setup \/ setup' = NoSetup
      PROVE  HistoryInv'
  BY <1>0, <1>1, HistoryFrame DEF TasksRemain, DirsRemain
\* A session that is set up for the first time has no prompts.
<1>2. ASSUME NEW s \in Sessions, current[s] = NoObject
      PROVE  \A p \in Prompts : tasks[p] # Idle => tasks[p].session # s
  BY <1>2 DEF HistoryInv, TasksOnCurrent
<1>3. ASSUME NEW op \in {"start", "branch"}, NEW pc \in {"source", "build"},
             NEW s \in Sessions, NEW r \in RunIds, NEW key \in RequestKeys \cup {NoRequestKey},
             NEW parent \in Sessions, NEW from \in RunIds,
             setup' = IF current[s] # NoObject THEN NoSetup
                      ELSE Calling(op, pc, s, r, key, parent, from),
             UNCHANGED <<current, objects, executed, tasks, dirs>>
      PROVE  HistoryInv'
  <2>1. CASE current[s] # NoObject
    BY <1>1, <1>3, <2>1
  <2>2. CASE current[s] = NoObject
    BY <1>2, <1>3, <2>2, HistoryCalls
  <2> QED
    BY <2>1, <2>2
<1>4. ASSUME NEW s \in Sessions, NEW key \in RequestKeys \cup {NoRequestKey}, StartSession(s, key)
      PROVE  HistoryInv'
  <2>1. PICK r \in RunIds : setup' = IF current[s] # NoObject THEN NoSetup
                                     ELSE Calling("start", "build", s, r, key, s, r)
    BY <1>0, <1>4, StartEffects DEF HostType
  <2>2. UNCHANGED <<current, objects, executed, tasks, dirs>>
    BY <1>4 DEF StartSession
  <2> QED
    BY <1>3, <2>1, <2>2
<1>5. ASSUME NEW s \in Sessions, NEW r \in RunIds, NEW key \in RequestKeys \cup {NoRequestKey},
             NEW parent \in Sessions, BranchSession(parent, r, s, key)
      PROVE  HistoryInv'
  <2>1. PICK new \in RunIds : setup' = IF current[s] # NoObject THEN NoSetup
                                       ELSE Calling("branch", "source", s, new, key, parent, r)
    BY <1>0, <1>5, BranchEffects DEF HostType
  <2>2. UNCHANGED <<current, objects, executed, tasks, dirs>>
    BY <1>5 DEF BranchSession
  <2> QED
    BY <1>3, <2>1, <2>2
<1>6. ASSUME NEW s \in Sessions, NEW r \in RunIds, NEW key \in RequestKeys \cup {NoRequestKey},
             ResumeSession(s, r, key), MayCall(s)
      PROVE  HistoryInv'
  <2>1. UNCHANGED <<current, objects, executed, tasks, dirs>>
    BY <1>6 DEF ResumeSession
  <2>2. \/ setup' = setup
        \/ setup' = Calling("resume", "source", s, r, key, s, r)
    BY <1>0, <1>6, ResumeEffects DEF HostType
  <2>3. CASE setup' = Calling("resume", "source", s, r, key, s, r)
    <3>1. \A p \in Prompts : tasks[p] # Idle => tasks[p].session # s
      BY <1>6 DEF MayCall
    <3> QED
      BY <2>1, <2>3, <3>1, HistoryCalls
  <2> QED
    BY <1>1, <2>1, <2>2, <2>3
<1>7. ASSUME NEW s \in Sessions, NEW r \in RunIds, NEW key \in RequestKeys \cup {NoRequestKey},
             ContinueSession(s, r, key), MayCall(s)
      PROVE  HistoryInv'
  BY <1>0, <1>7, HistoryAdmits DEF ContinueSession
<1>8. CASE TakeSource
  BY <1>8, HistoryTaken
<1>9. CASE SourceFails
  BY <1>1, <1>9 DEF SourceFails
<1>10. CASE FinishSetup
  BY <1>0, <1>10, HistoryBuilt
<1>11. CASE BuildFails
  <2>1. /\ setup # NoSetup /\ setup' = NoSetup /\ UNCHANGED <<current, objects, executed, tasks>>
        /\ dirs' = dirs \/ dirs' = WithNewDir
    BY <1>11 DEF BuildFails
  <2> QED
    BY <1>0, <2>1, HistoryUnbuilt
<1>12. ASSUME NEW p \in Prompts, Execute(p) PROVE HistoryInv'
  BY <1>0, <1>12, HistoryExecutes
\* What a task does after its execution.
<1>13. ASSUME TasksRemain, DirsRemain, UNCHANGED <<current, objects, executed, setup>>
       PROVE  HistoryInv'
  BY <1>0, <1>13, HistoryFrame
<1>14. ASSUME NEW p \in Prompts, Moved(p, "returned") \/ Moved(p, "deciding") \/ Moved(p, "reporting"),
              tasks[p] # Idle
       PROVE  TasksRemain
  BY <1>14 DEF Moved, TasksRemain
<1>15. ASSUME NEW p \in Prompts, RunReturns(p) PROVE HistoryInv'
  <2>1. Moved(p, "returned") /\ tasks[p] # Idle
    BY <1>0, <1>15, MovedTask, TaskShape DEF RunReturns
  <2>2. UNCHANGED <<current, objects, executed, setup, dirs>>
    BY <1>15 DEF RunReturns
  <2> QED
    BY <1>13, <1>14, <2>1, <2>2 DEF DirsRemain
<1>16. ASSUME NEW p \in Prompts, ForgetToken(p) PROVE HistoryInv'
  <2>1. Moved(p, "deciding") /\ tasks[p] # Idle
    BY <1>0, <1>16, MovedTask, TaskShape DEF ForgetToken
  <2>2. UNCHANGED <<current, objects, executed, setup, dirs>>
    BY <1>16 DEF ForgetToken
  <2> QED
    BY <1>13, <1>14, <2>1, <2>2 DEF DirsRemain
<1>17. ASSUME NEW p \in Prompts, Decide(p) PROVE HistoryInv'
  <2>1. AtTask(p, "deciding") /\ tasks[p] \in TaskState /\ tasks[p] # Idle
    BY <1>0, <1>17, TaskShape DEF Decide
  <2>2. TasksRemain
    <3>1. EndTask(p) \/ MoveTask(p, "reporting")
      BY <1>17 DEF Decide
    <3>2. \/ tasks'[p] = Idle /\ \A q \in Prompts : q # p => tasks'[q] = tasks[q]
          \/ Moved(p, "reporting")
      BY <1>0, <2>1, <3>1, MovedTask
    <3> QED
      BY <1>14, <2>1, <3>2 DEF TasksRemain
  <2>3. DirsRemain
    <3>1. /\ tasks[p].run \in RunIds /\ dirs \in Seq(DirState)
          /\ Verdict(p) \in {"Running", "Completed", "Failed", "Interrupted"}
      BY <1>0, <2>1 DEF HostType, TaskState, Verdict, Outcome
    <3>2. dirs' = Finalized(tasks[p].run, Verdict(p))
      BY <1>17 DEF Decide
    <3>3. /\ dirs' \in Seq(DirState) /\ Len(dirs') = Len(dirs)
          /\ \A i \in 1..Len(dirs) :
               dirs'[i].session = dirs[i].session /\ dirs'[i].history = dirs[i].history
      BY <3>1, <3>2, FinalizedDirs
    <3> QED
      BY <3>1, <3>3, LenProperties DEF DirsRemain
  <2>4. UNCHANGED <<current, objects, executed, setup>>
    BY <1>17 DEF Decide
  <2> QED
    BY <1>13, <2>2, <2>3, <2>4
<1>18. ASSUME NEW p \in Prompts, Report(p) PROVE HistoryInv'
  <2>1. tasks'[p] = Idle /\ \A q \in Prompts : q # p => tasks'[q] = tasks[q]
    BY <1>0, <1>18, MovedTask DEF Report
  <2>2. UNCHANGED <<current, objects, executed, setup, dirs>>
    BY <1>18 DEF Report
  <2> QED
    BY <1>13, <2>1, <2>2 DEF TasksRemain, DirsRemain
<1>19. ASSUME NEW s \in Sessions, NEW r \in RunIds, CancelRun(s, r) \/ MarkCancelled(s, r)
       PROVE  HistoryInv'
  BY <1>1, <1>19 DEF CancelRun, MarkCancelled
<1>20. CASE Restart
  BY <1>0, <1>20 DEF Restart, HostType
<1>21. CASE UNCHANGED vars
  BY <1>1, <1>21 DEF vars, memory
<1> QED
  BY <1>4, <1>5, <1>6, <1>7, <1>8, <1>9, <1>10, <1>11, <1>12, <1>15, <1>16, <1>17, <1>18, <1>19,
     <1>20, <1>21
     DEF Next, Start, Resume, Branch, Continue, Cancel, TaskStep

LEMMA HistoryInvariant ==
  ASSUME ClientsWait, MaxRestarts = 0
  PROVE  Spec => []HistoryInv
<1>1. Init => HistoryInv
  <2>1. ASSUME Init PROVE HistoryInv
    <3>1. /\ \A s \in Sessions : current[s] = NoObject /\ executed[s] = <<>>
          /\ \A p \in Prompts : tasks[p] = Idle
          /\ setup = NoSetup /\ DOMAIN dirs = {}
      BY <2>1, EmptySeq DEF Init
    <3> QED
      BY <3>1 DEF HistoryInv, TasksOnCurrent, SessionsApart, UnusedEmpty, SourceIsExecuted, HistoryKept
  <2> QED
    BY <2>1
<1>2. ToldInv /\ HistoryInv /\ [Next]_vars => HistoryInv'
  BY HistoryStep
<1> QED
  BY <1>1, <1>2, ToldInvariant, PTL DEF Spec

\* The history of a usable session is the conversation that was executed in it, over
\* resumes, branches and failed calls, for clients that await their calls and the end of
\* what they execute.  Of one process: what a restart leaves is the oldest directory
\* (resume_session, branch_session, continue_session and execute of runtime_backed.rs).
THEOREM HistoriesAreKept ==
  ASSUME ClientsWait, MaxRestarts = 0
  PROVE  Spec => []HistoryKept
<1>1. HistoryInv => HistoryKept
  BY DEF HistoryInv
<1> QED
  BY <1>1, HistoryInvariant, PTL

-----------------------------------------------------------------------------
(* What run.json says of a run that has ended. *)

\* How a run ends that is reported.
Reported == {"Completed", "Failed"}

\* The newest run.json of a run, if it has one, says that it ended so.
Recorded(r, end) == RunDirs(r) # {} => dirs[TracePath(r)].state = end

\* A run has not ended while its session is set up or a prompt executes in it, and what a
\* task is about to report is on disk.
ManifestInv ==
  /\ \A r \in RunIds, end \in Reported : Status(control, r) = end => Recorded(r, end)
  /\ \A p \in Prompts, r \in RunIds, end \in Reported :
       AtTask(p, "reporting") /\ tasks[p].run = r /\ Outcome(p) = end => Recorded(r, end)
  /\ \A p \in Prompts : tasks[p] # Idle => Status(control, tasks[p].run) \notin Reported
  /\ setup # NoSetup => Status(control, setup.run) \notin Reported

\* No run comes to an end that is reported.
NoneEnds ==
  \A r \in RunIds :
    Status(control', r) \in Reported => Status(control', r) = Status(control, r)

\* What is about to be reported is what it was.
ReportsRemain ==
  \A p \in Prompts : tasks'[p] # Idle =>
    /\ tasks[p] # Idle /\ tasks'[p].run = tasks[p].run
    /\ AtTask(p, "reporting")' => AtTask(p, "reporting") /\ Outcome(p)' = Outcome(p)

\* The directories of a run and what their run.json say.
SameRecord(r) ==
  /\ RunDirs(r)' = RunDirs(r)
  /\ \A i \in RunDirs(r) : dirs'[i].state = dirs[i].state

LEMMA RecordStays ==
  ASSUME HostType, NEW r \in RunIds, NEW end, Recorded(r, end), SameRecord(r)
  PROVE  Recorded(r, end)'
<1>1. TracePath(r)' = TracePath(r)
  BY DEF TracePath, SameRecord
<1>2. CASE RunDirs(r) = {}
  BY <1>2 DEF Recorded, SameRecord
<1>3. CASE RunDirs(r) # {}
  <2>1. TracePath(r) \in RunDirs(r)
    BY <1>3, NewestDirectory DEF HostType
  <2> QED
    BY <1>1, <1>3, <2>1 DEF Recorded, SameRecord
<1> QED
  BY <1>2, <1>3

\* A run has one prompt under way at a time, and none while it is set up.
LEMMA RunsApart ==
  ASSUME ToldInv, HistoryInv
  PROVE  /\ \A p, q \in Prompts :
              tasks[p] # Idle /\ tasks[q] # Idle /\ tasks[p].run = tasks[q].run => p = q
         /\ \A p \in Prompts : tasks[p] # Idle /\ setup # NoSetup => tasks[p].run # setup.run
         /\ \A p \in Prompts : tasks[p] # Idle => tasks[p].run \in RunIds
         /\ setup # NoSetup => setup.run \in RunIds
<1> PICK home \in Homes : AtHome(home)
  BY DEF ToldInv
<1>1. /\ \A p \in Prompts : tasks[p] # Idle => home[tasks[p].run] = tasks[p].session
      /\ setup # NoSetup => home[setup.run] = setup.session
  BY DEF AtHome, TasksAtHome, SetupAtHome
<1>2. /\ \A p \in Prompts : tasks[p] # Idle => tasks[p].run \in RunIds
      /\ setup # NoSetup => setup.run \in RunIds
  BY DEF ToldInv, HostType, TaskState, SetupState
<1> QED
  BY <1>1, <1>2 DEF HistoryInv, TasksOnCurrent

\* Most steps end no run and write no run.json.
LEMMA ManifestFrame ==
  ASSUME ToldInv, HistoryInv, ManifestInv, NoneEnds, ReportsRemain,
         \A r \in RunIds : SameRecord(r),
         setup' # NoSetup => Status(control', setup'.run) \notin Reported
  PROVE  ManifestInv'
<1>0. HostType
  BY DEF ToldInv
<1>1. ASSUME NEW r \in RunIds, NEW end \in Reported, Status(control', r) = end
      PROVE  Recorded(r, end)'
  <2>1. Recorded(r, end)
    BY <1>1 DEF ManifestInv, NoneEnds
  <2> QED
    BY <1>0, <2>1, RecordStays
<1>2. ASSUME NEW p \in Prompts, NEW r \in RunIds, NEW end \in Reported,
             AtTask(p, "reporting")', tasks'[p].run = r, Outcome(p)' = end
      PROVE  Recorded(r, end)'
  <2>1. tasks'[p] # Idle
    BY <1>2 DEF AtTask, Idle
  <2>2. AtTask(p, "reporting") /\ tasks[p].run = r /\ Outcome(p) = end
    BY <1>2, <2>1 DEF ReportsRemain
  <2>3. Recorded(r, end)
    BY <2>2 DEF ManifestInv
  <2> QED
    BY <1>0, <2>3, RecordStays
<1>3. ASSUME NEW p \in Prompts, tasks'[p] # Idle
      PROVE  Status(control', tasks'[p].run) \notin Reported
  <2>1. tasks[p] # Idle /\ tasks'[p].run = tasks[p].run /\ tasks[p].run \in RunIds
    BY <1>3, RunsApart DEF ReportsRemain
  <2> QED
    BY <2>1 DEF ManifestInv, NoneEnds
<1> QED
  BY <1>1, <1>2, <1>3 DEF ManifestInv

\* Where directories stay, so does what run.json says.
LEMMA SameRecords ==
  ASSUME DOMAIN dirs' = DOMAIN dirs,
         \A i \in DOMAIN dirs : dirs'[i].run = dirs[i].run /\ dirs'[i].state = dirs[i].state
  PROVE  \A r \in RunIds : SameRecord(r)
BY DEF SameRecord, RunDirs

\* The control state's changes that end no run.
LEMMA StatusesStay ==
  ASSUME NEW s \in Sessions, NEW r \in RunIds,
         \/ control' = control \/ Opens(control, control', s, r) \/ Reopens(control, control', s, r)
         \/ RollsBack(control, control', s, r) \/ Ends(control, control', s, r, "RunCancelled")
  PROVE  NoneEnds
<1>1. Ended("RunCancelled") = "Cancelled"
  BY DEF Ended
<1>2. \/ control' = control
      \/ /\ \A q \in RunIds : q # r => control'.run_status[q] = control.run_status[q]
         /\ control'.run_status[r] \in {"Running", "Unknown", "Cancelled"}
  BY <1>1 DEF Opens, Reopens, RollsBack, Ends, Touches
<1> QED
  BY <1>2 DEF NoneEnds, Status, Reported

\* A new directory is of a run that has not ended and that nobody reports.
LEMMA ManifestNewDir ==
  ASSUME ToldInv, HistoryInv, ManifestInv, setup # NoSetup, setup' = NoSetup,
         dirs' = dirs \/ dirs' = WithNewDir, tasks' = tasks, NoneEnds
  PROVE  ManifestInv'
<1>0. HostType /\ setup \in SetupState /\ dirs \in Seq(DirState)
  BY DEF ToldInv, HostType
<1>1. ASSUME NEW r \in RunIds, r # setup.run
      PROVE  SameRecord(r)
  <2>1. CASE dirs' = dirs
    BY <2>1 DEF SameRecord, RunDirs
  <2>2. CASE dirs' = WithNewDir
    <3>1. /\ WithNewDir \in Seq(DirState)
          /\ Len(WithNewDir) = IF Tracing THEN Len(dirs) + 1 ELSE Len(dirs)
          /\ \A i \in 1..Len(dirs) : WithNewDir[i] = dirs[i]
          /\ Tracing => WithNewDir[Len(dirs) + 1] = NewDir
      BY <1>0, WithNewDirDirs
    <3>2. /\ DOMAIN WithNewDir = 1..Len(WithNewDir) /\ DOMAIN dirs = 1..Len(dirs)
          /\ Len(dirs) \in Nat /\ NewDir.run = setup.run
      BY <1>0, <3>1, LenProperties DEF NewDir
    <3>3. \A i \in DOMAIN WithNewDir : i \in DOMAIN dirs \/ WithNewDir[i].run = setup.run
      BY <3>1, <3>2
    <3> QED
      BY <1>1, <2>2, <3>1, <3>2, <3>3 DEF SameRecord, RunDirs
  <2> QED
    BY <2>1, <2>2
<1>2. ASSUME NEW r \in RunIds, NEW end \in Reported, Status(control', r) = end
      PROVE  Recorded(r, end)'
  <2>1. Status(control, r) = end
    BY <1>2 DEF NoneEnds
  <2>2. Recorded(r, end) /\ r # setup.run
    BY <2>1 DEF ManifestInv
  <2> QED
    BY <1>0, <1>1, <2>2, RecordStays
<1>3. ASSUME NEW p \in Prompts, NEW r \in RunIds, NEW end \in Reported,
             AtTask(p, "reporting")', tasks'[p].run = r, Outcome(p)' = end
      PROVE  Recorded(r, end)'
  <2>1. AtTask(p, "reporting") /\ tasks[p].run = r /\ Outcome(p) = end /\ tasks[p] # Idle
    BY <1>3 DEF AtTask, Outcome, Idle
  <2>2. Recorded(r, end) /\ r # setup.run
    BY <2>1, RunsApart DEF ManifestInv
  <2> QED
    BY <1>0, <1>1, <2>2, RecordStays
<1>4. ASSUME NEW p \in Prompts, tasks'[p] # Idle
      PROVE  Status(control', tasks'[p].run) \notin Reported
  BY <1>4, RunsApart DEF ManifestInv, NoneEnds
<1> QED
  BY <1>2, <1>3, <1>4 DEF ManifestInv

\* The task writes run.json before it reports.
LEMMA ManifestDecided ==
  ASSUME ToldInv, HistoryInv, ManifestInv, NEW p \in Prompts, Decide(p)
  PROVE  ManifestInv'
<1> PICK r : r = tasks[p].run
  OBVIOUS
<1> PICK state : state = Verdict(p)
  OBVIOUS
<1>0. HostType /\ dirs \in Seq(DirState)
  BY DEF ToldInv, HostType
<1>1. AtTask(p, "deciding") /\ tasks[p] \in TaskState /\ tasks[p] # Idle /\ r \in RunIds
  BY <1>0, TaskShape DEF Decide, TaskState
<1>2. state \in {"Running", "Completed", "Failed", "Interrupted"}
  BY DEF Verdict, Outcome
<1>3. control' = control /\ setup' = setup /\ dirs' = Finalized(r, state)
  BY DEF Decide
<1>4. /\ dirs' \in Seq(DirState) /\ Len(dirs') = Len(dirs)
      /\ \A i \in 1..Len(dirs) :
           /\ dirs'[i].run = dirs[i].run
           /\ dirs'[i].state = IF dirs[i].run = r /\ i = TracePath(r) THEN state ELSE dirs[i].state
  BY <1>0, <1>1, <1>2, <1>3, FinalizedDirs
<1>5. DOMAIN dirs = 1..Len(dirs) /\ DOMAIN dirs' = 1..Len(dirs)
  BY <1>0, <1>4, LenProperties
<1>6. \A q \in RunIds : q # r => SameRecord(q)
  BY <1>4, <1>5 DEF SameRecord, RunDirs
<1>7. Recorded(r, state)'
  <2>1. RunDirs(r)' = RunDirs(r)
    BY <1>4, <1>5 DEF RunDirs
  <2>2. TracePath(r)' = TracePath(r)
    BY <2>1 DEF TracePath
  <2>3. CASE RunDirs(r) = {}
    BY <2>1, <2>3 DEF Recorded
  <2>4. CASE RunDirs(r) # {}
    <3>1. TracePath(r) \in DOMAIN dirs /\ dirs[TracePath(r)].run = r
      BY <1>0, <2>4, NewestDirectory DEF RunDirs
    <3>2. dirs'[TracePath(r)].state = state
      BY <1>4, <1>5, <3>1
    <3> QED
      BY <2>2, <3>2 DEF Recorded
  <2> QED
    BY <2>3, <2>4
<1>8. /\ \A q \in Prompts : q # p => tasks'[q] = tasks[q]
      /\ \/ tasks'[p] = Idle
         \/ /\ tasks'[p].run = r /\ tasks'[p] # Idle /\ state = Outcome(p)
            /\ Outcome(p)' = Outcome(p)
  <2>1. CASE Verdict(p) = "Interrupted"
    BY <1>0, <1>1, <2>1, MovedTask DEF Decide
  <2>2. CASE Verdict(p) # "Interrupted"
    <3>1. Moved(p, "reporting") /\ tasks'[p].result = tasks[p].result
      BY <1>0, <1>1, <2>2, MovedTask DEF Decide
    <3>2. tasks'[p] # Idle
      BY <3>1 DEF Moved, Idle
    <3>3. Outcome(p)' = Outcome(p)
      BY <3>1 DEF Outcome
    <3>4. Verdict(p) = Outcome(p)
      BY <2>2 DEF Verdict
    <3> QED
      BY <3>1, <3>2, <3>3, <3>4 DEF Moved
  <2> QED
    BY <2>1, <2>2
<1>9. ASSUME NEW q \in RunIds, NEW end \in Reported, Status(control', q) = end
      PROVE  Recorded(q, end)'
  <2>1. Recorded(q, end) /\ q # r
    BY <1>1, <1>3, <1>9 DEF ManifestInv
  <2> QED
    BY <1>0, <1>6, <2>1, RecordStays
<1>10. ASSUME NEW q \in Prompts, NEW o \in RunIds, NEW end \in Reported,
              AtTask(q, "reporting")', tasks'[q].run = o, Outcome(q)' = end
       PROVE  Recorded(o, end)'
  <2>1. CASE q = p
    <3>1. tasks'[p] # Idle
      BY <1>10, <2>1 DEF AtTask, Idle
    <3> QED
      BY <1>7, <1>8, <1>10, <2>1, <3>1
  <2>2. CASE q # p
    <3>1. AtTask(q, "reporting") /\ tasks[q].run = o /\ Outcome(q) = end /\ tasks[q] # Idle
      BY <1>8, <1>10, <2>2 DEF AtTask, Outcome, Idle
    <3>2. Recorded(o, end) /\ o # r
      BY <1>1, <2>2, <3>1, RunsApart DEF ManifestInv
    <3> QED
      BY <1>0, <1>6, <3>2, RecordStays
  <2> QED
    BY <2>1, <2>2
<1>11. ASSUME NEW q \in Prompts, tasks'[q] # Idle
       PROVE  Status(control', tasks'[q].run) \notin Reported
  BY <1>1, <1>3, <1>8, <1>11 DEF ManifestInv
<1> QED
  BY <1>3, <1>9, <1>10, <1>11 DEF ManifestInv

\* What is reported has been written.
LEMMA ManifestReported ==
  ASSUME ToldInv, HistoryInv, ManifestInv, NEW p \in Prompts, Report(p)
  PROVE  ManifestInv'
<1> PICK r : r = tasks[p].run
  OBVIOUS
<1> PICK end : end = Outcome(p)
  OBVIOUS
<1>0. HostType /\ control \in HostState
  BY DEF ToldInv, HostType
<1>1. AtTask(p, "reporting") /\ tasks[p] \in TaskState /\ tasks[p] # Idle /\ r \in RunIds
      /\ tasks[p].session \in Sessions
  BY <1>0, TaskShape DEF Report, TaskState
<1>2. end \in Reported
  BY DEF Outcome, Reported
<1>3. dirs' = dirs /\ setup' = setup
  BY DEF Report
<1>4. tasks'[p] = Idle /\ \A q \in Prompts : q # p => tasks'[q] = tasks[q]
  BY <1>0, <1>1, MovedTask DEF Report
<1>5. /\ \A q \in RunIds : q # r => Status(control', q) = Status(control, q)
      /\ Status(control', r) \in {end, "Unknown", Status(control, r)}
  <2>1. CASE end = "Completed"
    <3>1. \/ control' = control
          \/ Ends(control, control', tasks[p].session, r, "RunCompleted")
      BY <1>0, <1>1, <2>1, EndEffects DEF Report
    <3>2. Ended("RunCompleted") = "Completed"
      BY DEF Ended
    <3> QED
      BY <2>1, <3>1, <3>2 DEF Ends, Touches, Status
  <2>2. CASE end = "Failed"
    <3>1. Ends(control, control', tasks[p].session, r, "RunFailed")
      BY <1>0, <1>1, <2>2, EndEffects DEF Report
    <3>2. Ended("RunFailed") = "Failed"
      BY DEF Ended
    <3> QED
      BY <2>2, <3>1, <3>2 DEF Ends, Touches, Status
  <2> QED
    BY <1>2, <2>1, <2>2 DEF Reported
<1>6. Recorded(r, end) /\ Status(control, r) \notin Reported
  BY <1>1, <1>2 DEF ManifestInv
<1>7. \A q \in RunIds : SameRecord(q)
  BY <1>3 DEF SameRecord, RunDirs
<1>8. ASSUME NEW q \in RunIds, NEW x \in Reported, Status(control', q) = x
      PROVE  Recorded(q, x)'
  <2>1. Recorded(q, x)
    <3>1. CASE q = r
      BY <1>5, <1>6, <1>8, <3>1 DEF Reported
    <3>2. CASE q # r
      BY <1>5, <1>8, <3>2 DEF ManifestInv
    <3> QED
      BY <3>1, <3>2
  <2> QED
    BY <1>0, <1>7, <2>1, RecordStays
<1>9. ASSUME NEW q \in Prompts, NEW o \in RunIds, NEW x \in Reported,
             AtTask(q, "reporting")', tasks'[q].run = o, Outcome(q)' = x
      PROVE  Recorded(o, x)'
  <2>1. q # p
    BY <1>4, <1>9 DEF AtTask, Idle
  <2>2. AtTask(q, "reporting") /\ tasks[q].run = o /\ Outcome(q) = x
    BY <1>4, <1>9, <2>1 DEF AtTask, Outcome
  <2>3. Recorded(o, x)
    BY <2>2 DEF ManifestInv
  <2> QED
    BY <1>0, <1>7, <2>3, RecordStays
<1>10. ASSUME NEW q \in Prompts, tasks'[q] # Idle
       PROVE  Status(control', tasks'[q].run) \notin Reported
  <2>1. q # p /\ tasks'[q] = tasks[q]
    BY <1>4, <1>10
  <2>2. tasks[q].run # r /\ tasks[q].run \in RunIds
    BY <1>1, <1>10, <2>1, RunsApart
  <2> QED
    BY <1>5, <1>10, <2>1, <2>2 DEF ManifestInv
<1>11. setup' # NoSetup => Status(control', setup'.run) \notin Reported
  BY <1>1, <1>3, <1>5, RunsApart DEF ManifestInv
<1> QED
  BY <1>8, <1>9, <1>10, <1>11 DEF ManifestInv

\* A prompt is admitted to a run that is running.
LEMMA ManifestAdmits ==
  ASSUME ToldInv, HistoryInv, ManifestInv, NEW s \in Sessions, NEW r \in RunIds,
         NEW key \in RequestKeys \cup {NoRequestKey}, Admit(s, r, key)
  PROVE  ManifestInv'
<1> PICK n : n = prompts + 1
  OBVIOUS
<1>0. HostType /\ Referred
  BY DEF ToldInv
<1>1. /\ n \in Prompts /\ tasks'[n] = Task(s, r, current[s]) /\ Active(control, s, r)
      /\ \A q \in Prompts : q # n => tasks'[q] = tasks[q]
  BY <1>0, AdmittedTask
<1>2. UNCHANGED <<control, dirs, setup>>
  BY DEF Admit
<1>3. tasks'[n].run = r /\ tasks'[n].pc = "admitted"
  BY <1>1 DEF Task
<1>4. Status(control, r) = "Running"
  BY <1>1 DEF ToldInv, ActiveRuns
<1>5. \A q \in RunIds : SameRecord(q)
  BY <1>2 DEF SameRecord, RunDirs
<1>6. ASSUME NEW q \in RunIds, NEW end \in Reported, Status(control', q) = end
      PROVE  Recorded(q, end)'
  BY <1>0, <1>2, <1>5, <1>6, RecordStays DEF ManifestInv
<1>7. ASSUME NEW q \in Prompts, NEW o \in RunIds, NEW end \in Reported,
             AtTask(q, "reporting")', tasks'[q].run = o, Outcome(q)' = end
      PROVE  Recorded(o, end)'
  <2>1. q # n
    BY <1>3, <1>7 DEF AtTask
  <2>2. AtTask(q, "reporting") /\ tasks[q].run = o /\ Outcome(q) = end
    BY <1>1, <1>7, <2>1 DEF AtTask, Outcome
  <2>3. Recorded(o, end)
    BY <2>2 DEF ManifestInv
  <2> QED
    BY <1>0, <1>5, <2>3, RecordStays
<1>8. ASSUME NEW q \in Prompts, tasks'[q] # Idle
      PROVE  Status(control', tasks'[q].run) \notin Reported
  <2>1. CASE q = n
    BY <1>2, <1>3, <1>4, <2>1 DEF Reported
  <2>2. CASE q # n
    BY <1>1, <1>2, <1>8, <2>2 DEF ManifestInv
  <2> QED
    BY <2>1, <2>2
<1> QED
  BY <1>2, <1>6, <1>7, <1>8 DEF ManifestInv

LEMMA ManifestStep ==
  ASSUME RequestKeys = {}, MaxRestarts = 0,
         ToldInv, HistoryInv, ManifestInv, [Next]_vars
  PROVE  ManifestInv'
<1>0. HostType /\ Referred /\ control \in HostState
  BY DEF ToldInv, HostType
<1>1. ASSUME NoneEnds, dirs' = dirs, tasks' = tasks,
             setup' # NoSetup => Status(control', setup'.run) \notin Reported
      PROVE  ManifestInv'
  <2>1. ReportsRemain
    BY <1>1 DEF ReportsRemain, AtTask, Outcome
  <2>2. \A r \in RunIds : SameRecord(r)
    BY <1>1 DEF SameRecord, RunDirs
  <2> QED
    BY <1>1, <2>1, <2>2, ManifestFrame
\* A call that the control state accepts has its run running.
<1>2. ASSUME NEW s \in Sessions, NEW r \in RunIds, NoneEnds, control'.run_status[r] = "Running",
             setup' = NoSetup \/ setup'.run = r, UNCHANGED <<dirs, tasks>>
      PROVE  ManifestInv'
  <2>1. setup' # NoSetup => Status(control', setup'.run) \notin Reported
    BY <1>2 DEF Status, Reported
  <2> QED
    BY <1>1, <1>2, <2>1
<1>3. \A key \in RequestKeys \cup {NoRequestKey} : ~Cached(control, key)
  BY DEF Cached
<1>4. ASSUME NEW s \in Sessions, NEW key \in RequestKeys \cup {NoRequestKey}, StartSession(s, key)
      PROVE  ManifestInv'
  <2>1. PICK r \in RunIds :
          /\ setup' = IF current[s] # NoObject THEN NoSetup
                      ELSE Calling("start", "build", s, r, key, s, r)
          /\ Opens(control, control', s, r)
    BY <1>0, <1>3, <1>4, StartEffects
  <2>2. setup' = NoSetup \/ setup'.run = r
    BY <2>1, CallingFields
  <2>3. NoneEnds
    BY <2>1, StatusesStay
  <2>4. UNCHANGED <<dirs, tasks>> /\ control'.run_status[r] = "Running"
    BY <1>4, <2>1 DEF StartSession, Opens
  <2> QED
    BY <1>2, <2>2, <2>3, <2>4
<1>5. ASSUME NEW s \in Sessions, NEW from \in RunIds, NEW key \in RequestKeys \cup {NoRequestKey},
             NEW parent \in Sessions, BranchSession(parent, from, s, key)
      PROVE  ManifestInv'
  <2>1. PICK r \in RunIds :
          /\ setup' = IF current[s] # NoObject THEN NoSetup
                      ELSE Calling("branch", "source", s, r, key, parent, from)
          /\ Opens(control, control', s, r)
    BY <1>0, <1>3, <1>5, BranchEffects
  <2>2. setup' = NoSetup \/ setup'.run = r
    BY <2>1, CallingFields
  <2>3. NoneEnds
    BY <2>1, StatusesStay
  <2>4. UNCHANGED <<dirs, tasks>> /\ control'.run_status[r] = "Running"
    BY <1>5, <2>1 DEF BranchSession, Opens
  <2> QED
    BY <1>2, <2>2, <2>3, <2>4
<1>6. ASSUME NEW s \in Sessions, NEW r \in RunIds, NEW key \in RequestKeys \cup {NoRequestKey},
             ResumeSession(s, r, key)
      PROVE  ManifestInv'
  <2>1. \/ /\ setup' = Calling("resume", "source", s, r, key, s, r)
           /\ Reopens(control, control', s, r)
        \/ setup' = setup /\ RollsBack(control, control', s, r)
    BY <1>0, <1>3, <1>6, ResumeEffects
  <2>2. NoneEnds
    BY <2>1, StatusesStay
  <2>3. UNCHANGED <<dirs, tasks>> /\ setup = NoSetup
    BY <1>6 DEF ResumeSession
  <2>4. CASE /\ setup' = Calling("resume", "source", s, r, key, s, r)
             /\ Reopens(control, control', s, r)
    <3>1. setup'.run = r /\ control'.run_status[r] = "Running"
      BY <2>4, CallingFields DEF Reopens
    <3> QED
      BY <1>2, <2>2, <2>3, <3>1
  <2>5. CASE setup' = setup
    BY <1>1, <2>2, <2>3, <2>5
  <2> QED
    BY <2>1, <2>4, <2>5
<1>7. ASSUME NEW s \in Sessions, NEW r \in RunIds, NEW key \in RequestKeys \cup {NoRequestKey},
             ContinueSession(s, r, key)
      PROVE  ManifestInv'
  BY <1>7, ManifestAdmits DEF ContinueSession
<1>8. CASE TakeSource
  <2>1. UNCHANGED <<control, dirs, tasks>> /\ setup # NoSetup
    BY <1>8 DEF TakeSource
  <2>2. setup'.run = setup.run
    BY <1>0, <1>8, SourceType DEF SetupState
  <2>3. NoneEnds
    BY <2>1 DEF NoneEnds
  <2> QED
    BY <1>1, <2>1, <2>2, <2>3 DEF ManifestInv
<1>9. CASE SourceFails
  <2>1. setup \in SetupState /\ setup' = NoSetup /\ UNCHANGED <<dirs, tasks>>
    BY <1>0, <1>9 DEF SourceFails, HostType
  <2>2. \/ control' = control
        \/ RollsBack(control, control', setup.session, setup.run)
    BY <1>0, <1>9, <2>1, RolledBackFields DEF SourceFails, SetupState
  <2>3. NoneEnds
    BY <2>1, <2>2, StatusesStay DEF SetupState
  <2> QED
    BY <1>1, <2>1, <2>3
<1>10. CASE FinishSetup
  <2>1. /\ setup # NoSetup /\ setup' = NoSetup /\ tasks' = tasks /\ control' = control
        /\ dirs' = WithNewDir
    BY <1>10 DEF FinishSetup
  <2>2. NoneEnds
    BY <2>1 DEF NoneEnds
  <2> QED
    BY <2>1, <2>2, ManifestNewDir
<1>11. CASE BuildFails
  <2>1. /\ setup # NoSetup /\ setup' = NoSetup /\ tasks' = tasks
        /\ dirs' = dirs \/ dirs' = WithNewDir
        /\ control' = RolledBack(control, setup.session, setup.run, setup.key)
    BY <1>11 DEF BuildFails
  <2>2. setup \in SetupState
    BY <1>0, <2>1 DEF HostType
  <2>3. RollsBack(control, control', setup.session, setup.run)
    BY <1>0, <2>1, <2>2, RolledBackFields DEF SetupState
  <2>4. NoneEnds
    BY <2>2, <2>3, StatusesStay DEF SetupState
  <2> QED
    BY <2>1, <2>4, ManifestNewDir
\* What a task does before it decides.
<1>12. ASSUME NEW p \in Prompts, NEW pc \in {"running", "returned", "deciding"}, Moved(p, pc),
              tasks[p] # Idle, control' = control, setup' = setup, \A r \in RunIds : SameRecord(r)
       PROVE  ManifestInv'
  <2>1. ReportsRemain
    BY <1>12 DEF ReportsRemain, Moved, AtTask, Outcome
  <2>2. NoneEnds
    BY <1>12 DEF NoneEnds
  <2> QED
    BY <1>12, <2>1, <2>2, ManifestFrame DEF ManifestInv
<1>13. ASSUME NEW p \in Prompts, Execute(p) PROVE ManifestInv'
  <2>1. Moved(p, "running") /\ tasks[p] # Idle
    BY <1>0, <1>13, MovedTask, TaskShape DEF Execute
  <2>2. control' = control /\ setup' = setup
    BY <1>13 DEF Execute
  <2>3. /\ dirs' \in Seq(DirState) /\ Len(dirs') = Len(dirs)
        /\ \A i \in 1..Len(dirs) : dirs'[i].run = dirs[i].run /\ dirs'[i].state = dirs[i].state
    BY <1>0, <1>13, ExecuteEffects
  <2>4. DOMAIN dirs' = 1..Len(dirs) /\ DOMAIN dirs = 1..Len(dirs)
    BY <1>0, <2>3, LenProperties DEF HostType
  <2>5. \A r \in RunIds : SameRecord(r)
    BY <2>3, <2>4, SameRecords
  <2> QED
    BY <1>12, <2>1, <2>2, <2>5
<1>14. ASSUME NEW p \in Prompts, RunReturns(p) \/ ForgetToken(p) PROVE ManifestInv'
  <2>1. Moved(p, "returned") \/ Moved(p, "deciding")
    BY <1>0, <1>14, MovedTask DEF RunReturns, ForgetToken
  <2>2. tasks[p] # Idle /\ control' = control /\ setup' = setup /\ dirs' = dirs
    BY <1>0, <1>14, TaskShape DEF RunReturns, ForgetToken
  <2>3. \A r \in RunIds : SameRecord(r)
    BY <2>2 DEF SameRecord, RunDirs
  <2> QED
    BY <1>12, <2>1, <2>2, <2>3
<1>15. ASSUME NEW p \in Prompts, Decide(p) PROVE ManifestInv'
  BY <1>15, ManifestDecided
<1>16. ASSUME NEW p \in Prompts, Report(p) PROVE ManifestInv'
  BY <1>16, ManifestReported
<1>17. ASSUME NEW s \in Sessions, NEW r \in RunIds, CancelRun(s, r) \/ MarkCancelled(s, r)
       PROVE  ManifestInv'
  <2>1. UNCHANGED <<dirs, tasks, setup>>
    BY <1>17 DEF CancelRun, MarkCancelled
  <2>2. control' = control \/ Ends(control, control', s, r, "RunCancelled")
    BY <1>0, <1>17, EndEffects DEF CancelRun, MarkCancelled
  <2>3. NoneEnds
    BY <2>2, StatusesStay
  <2>4. setup' # NoSetup => Status(control', setup'.run) \notin Reported
    BY <2>1, <2>3, RunsApart DEF ManifestInv, NoneEnds
  <2> QED
    BY <1>1, <2>1, <2>3, <2>4
<1>18. CASE Restart
  BY <1>0, <1>18 DEF Restart, HostType
<1>19. CASE UNCHANGED vars
  <2>1. UNCHANGED <<control, dirs, tasks, setup>>
    BY <1>19 DEF vars, memory
  <2>2. NoneEnds
    BY <2>1 DEF NoneEnds
  <2> QED
    BY <1>1, <2>1, <2>2 DEF ManifestInv
<1> QED
  BY <1>4, <1>5, <1>6, <1>7, <1>8, <1>9, <1>10, <1>11, <1>13, <1>14, <1>15, <1>16, <1>17,
     <1>18, <1>19
     DEF Next, Start, Resume, Branch, Continue, Cancel, TaskStep

\* The newest run.json of a run that has completed or failed says so when nothing of the run
\* is under way, for clients that await their calls and the end of what they execute and
\* use no idempotency keys.  Of one process (execute and finalize_run_manifest of
\* runtime_backed.rs).
THEOREM ManifestsAgree ==
  ASSUME ClientsWait, RequestKeys = {}, MaxRestarts = 0
  PROVE  Spec => []ManifestAgrees
<1>1. Init => ManifestInv
  <2>1. ASSUME Init PROVE ManifestInv
    <3>1. /\ \A r \in RunIds : Status(control, r) = "Unknown"
          /\ \A p \in Prompts : tasks[p] = Idle
          /\ setup = NoSetup
      BY <2>1 DEF Init, NewControl, Status
    <3> QED
      BY <3>1 DEF ManifestInv, Reported, AtTask, Idle
  <2> QED
    BY <2>1
<1>2. ToldInv /\ HistoryInv /\ ManifestInv /\ [Next]_vars => ManifestInv'
  BY ManifestStep
<1>3. ManifestInv => ManifestAgrees
  BY DEF ManifestInv, ManifestAgrees, Recorded, Reported
<1> QED
  BY <1>1, <1>2, <1>3, ToldInvariant, HistoryInvariant, PTL DEF Spec

=============================================================================
