----------------------------- MODULE RuntimeHost -----------------------------
(***************************************************************************)
(* `RuntimeBackedControlHost`: the control state, the runtime sessions it  *)
(* owns and the tasks that execute their prompts                           *)
(* (crates/gestalt-runtime/src/control/host/runtime_backed.rs), over the   *)
(* trace directories that outlive the process.  start, resume and branch   *)
(* hold session_lock; continue, cancel and the tasks do not.               *)
(***************************************************************************)
EXTENDS ControlState

CONSTANTS
  Tracing,       \* trace_directory is Some
  ClientsWait,   \* clients await a call, and an execution's end, before the next
  MaxPrompts,    \* bound: prompts admitted over the whole behaviour
  MaxObjects,    \* bound: runtime sessions of a process, and trace directories
  MaxRestarts    \* bound: process restarts

ASSUME RuntimeHostAssumption ==
  /\ Tracing \in BOOLEAN
  /\ ClientsWait \in BOOLEAN
  /\ MaxPrompts \in Nat /\ MaxObjects \in Nat /\ MaxRestarts \in Nat

VARIABLES
  control,        \* self.control: the control state
  objects,        \* runtime sessions ever built: retained history, trace directory
  current,        \* state.sessions: the index in objects of a session, 0 if none
  cancellations,  \* state.cancellations: the prompt whose token is kept for a run
  signalled,      \* prompts whose token is cancelled
  tasks,          \* the spawned execute() of each prompt
  cancelling,     \* cancel_run calls between their token and the control state
  setup,          \* the start, resume or branch that holds session_lock
  continued,      \* state.continue_idempotency: the session and run of a key
  dirs,           \* trace directories, oldest first
  prompts,        \* number of prompts admitted; each prompt is its number
  restarts,
  executed        \* ghost: the conversation a session's executed prompts make up

memory == <<control, objects, current, cancellations, signalled, tasks,
            cancelling, setup, continued>>
vars == <<memory, dirs, prompts, restarts, executed>>

Prompts == 1..MaxPrompts
NoPrompt == 0
NoObject == 0
NoDir == 0
NoSetup == [op |-> "none"]
Idle == [pc |-> "idle"]

Task(s, r, o) == [pc |-> "admitted", session |-> s, run |-> r, object |-> o, result |-> "none"]

Init ==
  /\ control = NewControl
  /\ objects = <<>>
  /\ current = [s \in Sessions |-> NoObject]
  /\ cancellations = [r \in RunIds |-> NoPrompt]
  /\ signalled = {}
  /\ tasks = [p \in Prompts |-> Idle]
  /\ cancelling = {}
  /\ setup = NoSetup
  /\ continued = [k \in RequestKeys |-> NoEntry]
  /\ dirs = <<>>
  /\ prompts = 0
  /\ restarts = 0
  /\ executed = [s \in Sessions |-> <<>>]

-----------------------------------------------------------------------------
(* Building a runtime session, under session_lock. *)

\* The directory find_run_dir returns: the oldest one of the run.
RunDirs(r) == {i \in DOMAIN dirs : dirs[i].run = r}
FindRunDir(r) == CHOOSE i \in RunDirs(r) : \A j \in RunDirs(r) : i <= j

\* state.trace_paths: the directory made last for the run.
TracePath(r) == CHOOSE i \in RunDirs(r) : \A j \in RunDirs(r) : j <= i

\* A run holds the mutex of the retained session it executes on.
Locked(o) == \E p \in Prompts : tasks[p].pc = "running" /\ tasks[p].object = o

\* A call whose control-state part is done: `parent` is the session to copy from.
Calling(op, pc, s, r, key, parent, from) ==
  [op |-> op, pc |-> pc, session |-> s, run |-> r, key |-> key,
   parent |-> parent, from |-> from, history |-> <<>>]

\* start_session up to the control state's answer.
StartSession(s, key) ==
  LET request == [op |-> "start", session |-> s, run |-> NoRun]
      replay == Replays(control, key, request)
      r == IF replay THEN control.idempotency[key].response.run ELSE control.next_id
  IN /\ setup = NoSetup
     /\ ~Conflicts(control, key, request)
     /\ replay \/ (~Known(control, s) /\ control.next_id <= MaxId)
     /\ control' = IF replay THEN control ELSE Started(control, s, key, request)
     /\ setup' = IF current[s] # NoObject THEN NoSetup
                 ELSE Calling("start", "build", s, r, key, s, r)
     /\ UNCHANGED <<objects, current, cancellations, signalled, tasks, cancelling,
                    continued, dirs, prompts, restarts, executed>>

\* resume_session up to the control state's answer.  A session without a runtime
\* session is seeded first; a replayed key goes on to rebuild the session.
ResumeSession(s, r, key) ==
  LET request == [op |-> "resume", session |-> s, run |-> r]
      exists == current[s] # NoObject
      seeded == IF exists THEN control ELSE Seeded(control, s, r)
      replay == Replays(seeded, key, request)
      accepted == ~Conflicts(seeded, key, request) /\ (replay \/ CanResume(seeded, s, r))
  IN /\ setup = NoSetup
     /\ \/ /\ accepted
           /\ control' = IF replay THEN seeded ELSE Resumed(seeded, s, r, key, request)
           /\ setup' = Calling("resume", "source", s, r, key, s, r)
        \/ /\ ~accepted /\ ~exists
           /\ control' = RolledBack(seeded, s, r, key)
           /\ UNCHANGED setup
     /\ UNCHANGED <<objects, current, cancellations, signalled, tasks, cancelling,
                    continued, dirs, prompts, restarts, executed>>

\* branch_session up to the control state's answer.
BranchSession(parent, r, s, key) ==
  LET request == [op |-> "branch", session |-> s, run |-> r]
      replay == Replays(control, key, request)
      new == IF replay THEN control.idempotency[key].response.run ELSE control.next_id
  IN /\ setup = NoSetup
     /\ ~Conflicts(control, key, request)
     /\ replay \/ (Owns(control, parent, r) /\ ~Known(control, s) /\ control.next_id <= MaxId)
     /\ control' = IF replay THEN control ELSE Branched(control, s, key, request)
     /\ setup' = IF current[s] # NoObject THEN NoSetup
                 ELSE Calling("branch", "source", s, new, key, parent, r)
     /\ UNCHANGED <<objects, current, cancellations, signalled, tasks, cancelling,
                    continued, dirs, prompts, restarts, executed>>

\* A bug: resume does not look at the retained session.
RetainedForBranches ==
  /\ current[setup.parent] # NoObject
  /\ setup.op = "branch"
  /\ (~Tracing \/ RunDirs(setup.from) = {}) /\ Owns(control, setup.parent, setup.from)

\* Where the history of the parent is: resume looks at the retained session, if
\* no run holds it, and then for a directory; branch does it the other way round.
Retained ==
  /\ current[setup.parent] # NoObject
  /\ IF setup.op = "resume" THEN ~Locked(current[setup.parent])
     ELSE (~Tracing \/ RunDirs(setup.from) = {}) /\ Owns(control, setup.parent, setup.from)

TakeSource ==
  /\ setup # NoSetup /\ setup.pc = "source"
  /\ \E history \in
       IF Retained
       THEN IF Locked(current[setup.parent]) THEN {} ELSE {objects[current[setup.parent]].history}
       ELSE IF Tracing /\ RunDirs(setup.from) # {} THEN {dirs[FindRunDir(setup.from)].history} ELSE {} :
       setup' = [setup EXCEPT !.pc = "build", !.history = history]
  /\ UNCHANGED <<control, objects, current, cancellations, signalled, tasks,
                 cancelling, continued, dirs, prompts, restarts, executed>>

\* The parent's trace is missing or not safe to restore: resume rolls back,
\* branch leaves what it put into the control state.
SourceFails ==
  /\ setup # NoSetup /\ setup.pc = "source"
  /\ ~Retained
  /\ control' = IF setup.op = "resume"
                THEN RolledBack(control, setup.session, setup.run, setup.key)
                ELSE control
  /\ setup' = NoSetup
  /\ UNCHANGED <<objects, current, cancellations, signalled, tasks, cancelling,
                 continued, dirs, prompts, restarts, executed>>

NewDir == [run |-> setup.run, session |-> setup.session, history |-> <<>>, state |-> "Running"]

WithNewDir == IF Tracing THEN Append(dirs, NewDir) ELSE dirs

\* The sink, the runtime and the retained session exist: the session is usable.
FinishSetup ==
  /\ setup # NoSetup /\ setup.pc = "build"
  /\ Len(objects) < MaxObjects /\ Len(dirs) < MaxObjects
  /\ dirs' = WithNewDir
  /\ objects' = Append(objects, [history |-> setup.history,
                                 dir |-> IF Tracing THEN Len(dirs) + 1 ELSE NoDir])
  /\ current' = [current EXCEPT ![setup.session] = Len(objects) + 1]
  /\ executed' = IF setup.op = "resume" THEN executed
                 ELSE [executed EXCEPT ![setup.session] = setup.history]
  /\ setup' = NoSetup
  /\ UNCHANGED <<control, cancellations, signalled, tasks, cancelling, continued,
                 prompts, restarts>>

\* The trace directory, the runtime or the session cannot be created.
BuildFails ==
  /\ setup # NoSetup /\ setup.pc = "build"
  /\ \/ UNCHANGED dirs
     \/ Len(dirs) < MaxObjects /\ dirs' = WithNewDir
  /\ control' = RolledBack(control, setup.session, setup.run, setup.key)
  /\ setup' = NoSetup
  /\ UNCHANGED <<objects, current, cancellations, signalled, tasks, cancelling,
                 continued, prompts, restarts, executed>>

-----------------------------------------------------------------------------
(* Executing a prompt. *)

\* What continue_session inserts: a token, a task and the key's answer.
Admit(s, r, key) ==
  /\ prompts < MaxPrompts
  /\ key # NoRequestKey => continued[key] = NoEntry
  /\ Active(control, s, r)
  /\ current[s] # NoObject
  /\ prompts' = prompts + 1
  /\ cancellations' = [cancellations EXCEPT ![r] = prompts']
  /\ tasks' = [tasks EXCEPT ![prompts'] = Task(s, r, current[s])]
  /\ continued' = IF key = NoRequestKey THEN continued
                  ELSE [continued EXCEPT ![key] = [session |-> s, run |-> r]]
  /\ UNCHANGED <<control, objects, current, signalled, cancelling, setup, dirs,
                 restarts, executed>>

\* A bug: continue does not look for a running execution.
ContinueAnyTime(s, r, key) == Admit(s, r, key)

\* continue_session: a run with a token has an execution already.
ContinueSession(s, r, key) == cancellations[r] = NoPrompt /\ Admit(s, r, key)

AtTask(p, pc) == tasks[p].pc = pc
MoveTask(p, pc) == tasks' = [tasks EXCEPT ![p] = [@ EXCEPT !.pc = pc]]
EndTask(p) == tasks' = [tasks EXCEPT ![p] = Idle]

\* The task takes the retained session, appends the prompt and runs; the first
\* checkpoint carries the prompt to the directory of the session's own sink.
Execute(p) ==
  LET o == tasks[p].object
      extended == Append(objects[o].history, p)
      dir == objects[o].dir
  IN /\ AtTask(p, "admitted")
     /\ ~Locked(o)
     /\ MoveTask(p, "running")
     /\ objects' = [objects EXCEPT ![o] = [@ EXCEPT !.history = extended]]
     /\ dirs' = IF dir = NoDir THEN dirs
                ELSE [dirs EXCEPT ![dir] = [@ EXCEPT !.history = extended]]
     /\ executed' = [executed EXCEPT ![tasks[p].session] = Append(@, p)]
     /\ UNCHANGED <<control, current, cancellations, signalled, cancelling, setup,
                    continued, prompts, restarts>>

\* run_session returns; a run that is cancelled late may still succeed.
RunReturns(p) ==
  /\ AtTask(p, "running")
  /\ \E result \in {"ok", "failed"} :
       tasks' = [tasks EXCEPT ![p] = [@ EXCEPT !.pc = "returned", !.result = result]]
  /\ UNCHANGED <<control, objects, current, cancellations, signalled, cancelling,
                 setup, continued, dirs, prompts, restarts, executed>>

\* The events are projected, the sink is flushed, and the run's token goes.
ForgetToken(p) ==
  /\ AtTask(p, "returned")
  /\ MoveTask(p, "deciding")
  /\ cancellations' = [cancellations EXCEPT ![tasks[p].run] = NoPrompt]
  /\ UNCHANGED <<control, objects, current, signalled, cancelling, setup,
                 continued, dirs, prompts, restarts, executed>>

\* A bug: run.json of the directory that find_run_dir returns.
FinalizedOldest(r, state) ==
  IF RunDirs(r) = {} THEN dirs
  ELSE [dirs EXCEPT ![FindRunDir(r)] = [@ EXCEPT !.state = state]]

\* finalize_run_manifest writes run.json of the run's last directory.
Finalized(r, state) ==
  IF RunDirs(r) = {} THEN dirs
  ELSE [dirs EXCEPT ![TracePath(r)] = [@ EXCEPT !.state = state]]

Outcome(p) == IF tasks[p].result = "ok" THEN "Completed" ELSE "Failed"

\* What execute makes of the run: nothing is reported once the token is signalled.
Verdict(p) == IF p \in signalled THEN "Interrupted" ELSE Outcome(p)

Decide(p) ==
  /\ AtTask(p, "deciding")
  /\ dirs' = Finalized(tasks[p].run, Verdict(p))
  /\ IF Verdict(p) = "Interrupted" THEN EndTask(p) ELSE MoveTask(p, "reporting")
  /\ UNCHANGED <<control, objects, current, cancellations, signalled, cancelling,
                 setup, continued, prompts, restarts, executed>>

\* complete_run, or the error branch of execute.
Report(p) ==
  /\ AtTask(p, "reporting")
  /\ EndTask(p)
  /\ control' = IF Outcome(p) = "Completed"
                THEN RunCompleted(control, tasks[p].session, tasks[p].run)
                ELSE RunFailed(control, tasks[p].session, tasks[p].run)
  /\ UNCHANGED <<objects, current, cancellations, signalled, cancelling, setup,
                 continued, dirs, prompts, restarts, executed>>

-----------------------------------------------------------------------------
(* Cancelling. *)

\* cancel_run signals the token it finds ...
CancelRun(s, r) ==
  /\ Owns(control, s, r)
  /\ <<s, r>> \notin cancelling
  /\ cancelling' = cancelling \cup {<<s, r>>}
  /\ signalled' = signalled \cup ({cancellations[r]} \ {NoPrompt})
  /\ UNCHANGED <<control, objects, current, cancellations, tasks, setup, continued,
                 dirs, prompts, restarts, executed>>

\* ... and then marks the run, if it has not ended by now.
MarkCancelled(s, r) ==
  /\ <<s, r>> \in cancelling
  /\ cancelling' = cancelling \ {<<s, r>>}
  /\ control' = CancelMarked(control, s, r)
  /\ UNCHANGED <<objects, current, cancellations, signalled, tasks, setup,
                 continued, dirs, prompts, restarts, executed>>

\* The process ends and a new one starts over the same trace directories.
Restart ==
  /\ restarts < MaxRestarts
  /\ restarts' = restarts + 1
  /\ control' = NewControl
  /\ objects' = <<>>
  /\ current' = [s \in Sessions |-> NoObject]
  /\ cancellations' = [r \in RunIds |-> NoPrompt]
  /\ signalled' = {}
  /\ tasks' = [p \in Prompts |-> Idle]
  /\ cancelling' = {}
  /\ setup' = NoSetup
  /\ continued' = [k \in RequestKeys |-> NoEntry]
  /\ UNCHANGED <<dirs, prompts, executed>>

-----------------------------------------------------------------------------
\* A client resumes a run it had in the session: one the control state holds, or
\* one that executed a prompt and left a directory.
Remembered(s, r) ==
  Owns(control, s, r) \/ \E i \in RunDirs(r) : dirs[i].session = s /\ dirs[i].history # <<>>

\* A client that waits makes its next call on a session once nothing is under way.
MayCall(s) ==
  ClientsWait => /\ \A p \in Prompts : tasks[p] # Idle => tasks[p].session # s
                 /\ setup # NoSetup => setup.session # s

Resume == \E s \in Sessions, r \in RunIds, key \in RequestKeys \cup {NoRequestKey} :
            Remembered(s, r) /\ MayCall(s) /\ ResumeSession(s, r, key)
Start == \E s \in Sessions, key \in RequestKeys \cup {NoRequestKey} : StartSession(s, key)
Branch == \E s \in Sessions, r \in RunIds, key \in RequestKeys \cup {NoRequestKey} :
            \E parent \in Sessions \ {s} : BranchSession(parent, r, s, key)
Continue == \E s \in Sessions, r \in RunIds, key \in RequestKeys \cup {NoRequestKey} :
              MayCall(s) /\ ContinueSession(s, r, key)
Cancel == \E s \in Sessions, r \in RunIds : CancelRun(s, r)

\* The steps of a task that need nobody else.
TaskStep(p) == Execute(p) \/ ForgetToken(p) \/ Decide(p) \/ Report(p)

Next ==
  \/ Start \/ Resume \/ Branch \/ Continue \/ Cancel
  \/ TakeSource \/ SourceFails \/ FinishSetup \/ BuildFails
  \/ \E p \in Prompts : TaskStep(p) \/ RunReturns(p)
  \/ \E s \in Sessions, r \in RunIds : MarkCancelled(s, r)
  \/ Restart

Spec == Init /\ [][Next]_vars

-----------------------------------------------------------------------------
(* Properties. *)

\* A run belongs to one session, as its status, token and events are kept by its id;
\* and a session's active run is one of its runs and has the status Running, so a
\* client that finds it active can continue it and one that cancels it ends it.
RunsAreOwned ==
  \A s \in Sessions, r \in RunIds :
    /\ Active(control, s, r) => Owns(control, s, r) /\ Status(control, r) = "Running"
    /\ \A t \in Sessions : Owns(control, s, r) /\ Owns(control, t, r) => s = t

Ended(kind) ==
  CASE kind = "RunCompleted" -> "Completed" [] kind = "RunFailed" -> "Failed"
    [] kind = "RunCancelled" -> "Cancelled" [] OTHER -> "Running"

\* The last event of a session about one of its runs.
LastEvent(s, r, i) ==
  /\ i \in DOMAIN control.events[s] /\ control.events[s][i].run = r
  /\ \A j \in DOMAIN control.events[s] : j > i => control.events[s][j].run # r

\* Polling agrees with inspection: once a run has ended, its session's last event
\* about it says how.
EventsAgree ==
  \A s \in Sessions, r \in RunIds :
    Owns(control, s, r) /\ Status(control, r) \in Terminal =>
      \A i \in DOMAIN control.events[s] :
        LastEvent(s, r, i) => Ended(control.events[s][i].kind) = Status(control, r)

\* When nothing is under way, the newest run.json of a run that the control state
\* reports as ended says how it ended.
ManifestAgrees ==
  \A r \in RunIds :
    /\ Status(control, r) \in {"Completed", "Failed"} /\ setup = NoSetup
    /\ RunDirs(r) # {}
    /\ \A p \in Prompts : tasks[p] = Idle \/ tasks[p].run # r
    => dirs[TracePath(r)].state = Status(control, r)

\* What inspection and polling tell of a run agrees, over resumes, branches, failed calls
\* and cancels.
RunsToldAlike == RunsAreOwned /\ EventsAgree

\* A usable session's history is the conversation that was executed in it, over
\* resumes, branches, failed calls and restarts (ADR-022).
HistoryKept ==
  \A s \in Sessions :
    current[s] # NoObject => objects[current[s]].history = executed[s]

\* No two prompts execute in one run or on one retained session at the same time, and
\* an execution whose token was signalled never reports its run as ended: neither a
\* second prompt nor a late end overwrites what a client was told.
ExecutionsAreExclusive ==
  /\ \A p, q \in Prompts :
       /\ AtTask(p, "running") /\ AtTask(q, "running")
       /\ tasks[p].run = tasks[q].run \/ tasks[p].object = tasks[q].object
       => p = q
  /\ \A p \in signalled : ~AtTask(p, "reporting")

\* A cancelled run stays cancelled: no later report rewrites its status.
CancelledStays ==
  [][\A r \in RunIds :
       Status(control, r) = "Cancelled" => Status(control', r) # "Completed"]_vars

\* A prompt that is admitted ends with a status for its run, or with the call that
\* rolls the run back.
ExecutionSettles ==
  \A p \in Prompts, r \in RunIds :
    AtTask(p, "admitted") /\ tasks[p].run = r
      ~> Status(control, r) \in Terminal \cup {"Unknown"}
=============================================================================
