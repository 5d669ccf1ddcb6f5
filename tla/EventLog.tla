------------------------------- MODULE EventLog -------------------------------
(***************************************************************************)
(* The event log of a session and a client that polls it: push_event,      *)
(* poll_events, cursors and rollback_session                               *)
(* (crates/gestalt-runtime/src/control/host.rs and host/runtime_backed.rs).*)
(***************************************************************************)
EXTENDS Subsequences, SequencesExt

CONSTANTS
  EventKinds,   \* payload kinds, as a filter names them
  Retention,    \* event_retention
  Limit,        \* the limit of a poll
  NoCursor,     \* cursor = None
  MaxEvents     \* bound: events published

ASSUME EventLogAssumption ==
  /\ Retention \in Nat \ {0} /\ Limit \in Nat \ {0} /\ MaxEvents \in Nat
  /\ NoCursor \notin Nat

LogEvent == [sequence : Nat, kind : EventKinds]

VARIABLES
  log,         \* events of the session, oldest first
  cursor,      \* the cursor the client polls with next
  wanted,      \* the kinds the client asks for
  received,    \* ghost: the events the client was sent, since it was last told of a gap
  published,   \* ghost: the events pushed since the client began or was told of a gap
  torn         \* ghost: the log was rolled back under the client's cursor

eventLogVars == <<log, cursor, wanted, received, published, torn>>

EventLogInit ==
  /\ log = <<>> /\ cursor = NoCursor
  /\ wanted \in (SUBSET EventKinds) \ {{}}
  /\ received = <<>> /\ published = <<>> /\ torn = FALSE

NextSequence(events) == IF events = <<>> THEN 0 ELSE Last(events).sequence + 1

Kept(events) ==
  SubSeq(events, 1 + (IF Len(events) > Retention THEN Len(events) - Retention ELSE 0), Len(events))

\* push_event; nobody is told what retention drops.
Push(kind) ==
  LET event == [sequence |-> NextSequence(log), kind |-> kind]
  IN /\ Len(published) < MaxEvents /\ NextSequence(log) < MaxEvents
     /\ log' = Kept(Append(log, event))
     /\ published' = Append(published, event)
     /\ UNCHANGED <<cursor, wanted, received, torn>>

Oldest == IF log = <<>> THEN 0 ELSE Head(log).sequence
From == IF cursor = NoCursor THEN Oldest ELSE cursor

\* A bug: a cursor behind the log is taken for the oldest event.
NeverLagged == FALSE

Lagged == From < Oldest

Selected(events) ==
  LET Fits(e) == e.sequence >= From /\ e.kind \in wanted
      fitting == Subsequence(events, {i \in DOMAIN events : Fits(events[i])})
  IN SubSeq(fitting, 1, IF Len(fitting) < Limit THEN Len(fitting) ELSE Limit)

\* poll_events: the cursor passes what was sent, not what was filtered out.
Poll ==
  LET events == Selected(log)
  IN /\ ~Lagged
     /\ received' = received \o events
     /\ cursor' = IF events = <<>> THEN From ELSE Last(events).sequence + 1
     /\ published' = IF cursor = NoCursor THEN log ELSE published
     /\ UNCHANGED <<log, wanted, torn>>

\* LAGGED_CURSOR and EXPIRED_CURSOR name the newest safe cursor; the client goes on
\* from there and knows that it may have missed events.
Restarted ==
  /\ cursor' = Oldest
  /\ received' = <<>> /\ published' = log /\ torn' = FALSE
  /\ UNCHANGED <<log, wanted>>

PollLagged == Lagged /\ Restarted

\* CURSOR_TTL_SECONDS are over.
PollExpired == cursor # NoCursor /\ Restarted

\* rollback_session forgets the events; their numbers are given again.
Rollback ==
  /\ log # <<>>
  /\ log' = <<>>
  /\ torn' = (cursor # NoCursor)
  /\ published' = IF cursor = NoCursor THEN <<>> ELSE published
  /\ UNCHANGED <<cursor, wanted, received>>

EventLogNext ==
  \/ \E kind \in EventKinds : Push(kind)
  \/ Poll \/ PollLagged \/ PollExpired \/ Rollback

EventLogSpec == EventLogInit /\ [][EventLogNext]_eventLogVars

-----------------------------------------------------------------------------
(* Properties. *)

\* A client that follows its cursor has been sent every event of its kinds that
\* was pushed before the cursor since it began or was told of a gap, each once and
\* in order: whatever the limit, the filter and the retention do between two polls.
NothingSkipped ==
  ~torn /\ cursor # NoCursor =>
    LET Due(e) == e.sequence < cursor /\ e.kind \in wanted
    IN received = Subsequence(published, {i \in DOMAIN published : Due(published[i])})
=============================================================================
