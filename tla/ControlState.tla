----------------------------- MODULE ControlState -----------------------------
(***************************************************************************)
(* The state behind the control mutex, `HostState` of                      *)
(* crates/gestalt-runtime/src/control/host.rs: sessions, run statuses, the *)
(* idempotency cache and the lifecycle events.  Every operation below is   *)
(* one critical section, so it is a function from a control record to a    *)
(* control record.                                                         *)
(***************************************************************************)
EXTENDS Naturals, Sequences

CONSTANTS
  Sessions,    \* session ids, chosen by clients
  MaxId,       \* bound: ids next_id hands out before the counter is capped
  RequestKeys,        \* idempotency keys
  NoRequestKey,       \* idempotency_key = None
  NoSession,   \* a session id the control state does not know
  NoRun,       \* active_run = None
  NoEntry      \* a key the idempotency cache does not know

RunIds == 1..MaxId

RunStatus == {"Unknown", "Running", "Completed", "Failed", "Cancelled"}
Terminal == {"Completed", "Failed", "Cancelled"}

SessionState == [runs : SUBSET RunIds, active : RunIds \cup {NoRun}]

\* A request as the cache compares it, and the response it keeps.
Request == [op : {"start", "resume", "branch"}, session : Sessions, run : RunIds \cup {NoRun}]
Response == [session : Sessions, run : RunIds]
Entry == [request : Request, response : Response]

ASSUME ControlStateAssumption ==
  /\ MaxId \in Nat
  /\ NoRequestKey \notin RequestKeys
  /\ NoRun \notin RunIds
  /\ NoSession \notin SessionState
  /\ NoEntry \notin Entry

Event == [kind : {"SessionStarted", "RunCompleted", "RunFailed", "RunCancelled"},
          run : RunIds]

HostState ==
  [sessions : [Sessions -> SessionState \cup {NoSession}],
   run_status : [RunIds -> RunStatus],
   idempotency : [RequestKeys -> Entry \cup {NoEntry}],
   events : [Sessions -> Seq(Event)],
   next_id : 1..(MaxId + 1)]

NewControl ==
  [sessions |-> [s \in Sessions |-> NoSession],
   run_status |-> [r \in RunIds |-> "Unknown"],
   idempotency |-> [k \in RequestKeys |-> NoEntry],
   events |-> [s \in Sessions |-> <<>>],
   next_id |-> 1]

Known(c, s) == c.sessions[s] # NoSession
Status(c, r) == c.run_status[r]
Active(c, s, r) == Known(c, s) /\ c.sessions[s].active = r
Owns(c, s, r) == Known(c, s) /\ r \in c.sessions[s].runs

\* replay: the cached response of a key, unless the request differs.
Cached(c, key) == key # NoRequestKey /\ c.idempotency[key] # NoEntry
Replays(c, key, request) == Cached(c, key) /\ c.idempotency[key].request = request
Conflicts(c, key, request) == Cached(c, key) /\ c.idempotency[key].request # request

RememberEntry(c, key, request, response) ==
  IF key = NoRequestKey THEN c
  ELSE [c EXCEPT !.idempotency =
          [@ EXCEPT ![key] = [request |-> request, response |-> response]]]

PushEvent(c, s, r, kind) ==
  [c EXCEPT !.events = [@ EXCEPT ![s] = Append(c.events[s], [kind |-> kind, run |-> r])]]

\* A session's entry with an active run, and that run's status.
WithSession(c, s, runs, active) ==
  [c EXCEPT !.sessions = [@ EXCEPT ![s] = [runs |-> runs, active |-> active]]]
WithStatus(c, r, status) ==
  [c EXCEPT !.run_status = [@ EXCEPT ![r] = status]]
WithoutActive(c, s) ==
  IF Known(c, s) THEN WithSession(c, s, c.sessions[s].runs, NoRun) ELSE c

\* A new session with one run under the next id, as start and branch insert it.
Opened(c, s) ==
  LET r == c.next_id
  IN WithStatus(WithSession([c EXCEPT !.next_id = r + 1], s, {r}, r), r, "Running")

Started(c, s, key, request) ==
  RememberEntry(PushEvent(Opened(c, s), s, c.next_id, "SessionStarted"),
           key, request, [session |-> s, run |-> c.next_id])

Branched(c, s, key, request) ==
  RememberEntry(Opened(c, s), key, request, [session |-> s, run |-> c.next_id])

\* seed_session: a session and its completed run, on a client's word.
Seeded(c, s, r) == WithStatus(WithSession(c, s, {r}, NoRun), r, "Completed")

CanResume(c, s, r) ==
  Owns(c, s, r) /\ Status(c, r) = "Completed" /\ Active(c, s, NoRun)

Resumed(c, s, r, key, request) ==
  RememberEntry(WithStatus(WithSession(c, s, c.sessions[s].runs, r), r, "Running"),
           key, request, [session |-> s, run |-> r])

\* A bug: the call signals the token and leaves the status to the task.
CancelUnmarked(c, s, r) == c

\* A bug: the client that polls is not told of a cancellation.
CancelUnannounced(c, s, r) ==
  IF Status(c, r) = "Running" THEN WithoutActive(WithStatus(c, r, "Cancelled"), s) ELSE c

\* cancel_run: only a run that has not ended; the session is the request's.
CancelMarked(c, s, r) ==
  IF Status(c, r) = "Running"
  THEN PushEvent(WithoutActive(WithStatus(c, r, "Cancelled"), s), s, r, "RunCancelled")
  ELSE c

\* complete_run: nothing is asked about the status it replaces.
RunCompleted(c, s, r) ==
  IF Known(c, s) /\ Status(c, r) # "Unknown"
  THEN PushEvent(WithoutActive(WithStatus(c, r, "Completed"), s), s, r, "RunCompleted")
  ELSE c

\* The error branch of execute.
RunFailed(c, s, r) ==
  LET status == IF Status(c, r) # "Unknown" THEN WithStatus(c, r, "Failed") ELSE c
  IN PushEvent(WithoutActive(status, s), s, r, "RunFailed")

\* rollback_session: the session, its run, its events and the request's key.
RolledBack(c, s, r, key) ==
  [c EXCEPT !.sessions = [@ EXCEPT ![s] = NoSession],
            !.run_status = [@ EXCEPT ![r] = "Unknown"],
            !.events = [@ EXCEPT ![s] = <<>>],
            !.idempotency = IF key = NoRequestKey THEN @ ELSE [@ EXCEPT ![key] = NoEntry]]
=============================================================================
