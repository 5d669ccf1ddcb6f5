------------------------------- MODULE RunStore -------------------------------
(***************************************************************************)
(* The directory of runs that the commands of several processes share      *)
(* (crates/gestalt-app/src/run.rs, sessions.rs, runs.rs): runs are begun,  *)
(* continued, resumed and branched, each in a directory of its own with a  *)
(* run.json that names its session and its parent, and runs are deleted    *)
(* and pruned together with what descends from them.  Nothing is locked.   *)
(***************************************************************************)
EXTENDS Naturals, Sequences, SequencesExt, FiniteSets

CONSTANTS
  Users,      \* processes: command lines and terminals
  StoredRuns,
  PastRuns,   \* runs that have completed before
  StoredSessions,
  NoStoredRun,
  NoStoredSession,   \* the empty session id
  MaxIssued          \* bound: commands of the users

ASSUME RunStoreAssumption ==
  /\ IsFiniteSet(StoredRuns) /\ NoStoredRun \notin StoredRuns /\ PastRuns \subseteq StoredRuns
  /\ NoStoredSession \notin StoredSessions /\ MaxIssued \in Nat

VARIABLES
  runDirs,   \* the directory of a run: run.json, and the last checkpoint of its trace
  created,   \* the runs in the order of created_at, in which run.json is also created
  task,      \* what a user's process is doing
  issued     \* the number of commands

storeVars == <<runDirs, created, task, issued>>

-----------------------------------------------------------------------------
NoRunDir == [manifest |-> "absent", session |-> NoStoredSession, parent |-> NoStoredRun,
             onward |-> FALSE, history |-> {}]

\* seen: what the manifests told a removal, the runs with a parent that could be read.
NoTask == [at |-> "idle", run |-> NoStoredRun, dir |-> NoRunDir, result |-> "none",
         targets |-> {}, plan |-> {}, taken |-> {}, seen |-> {}]

ManifestStates == {"Running", "Completed", "Interrupted"}

Present(r) == runDirs[r].manifest # "absent"
\* RunManifest::load_from succeeds.
Readable(r) == runDirs[r].manifest \in ManifestStates
ParentReadable(r) == runDirs[r].parent # NoStoredRun /\ Readable(runDirs[r].parent)

RunsOf(s) == {r \in StoredRuns : Readable(r) /\ runDirs[r].session = s}

\* The run that was created last of those that can be read.
resolve_session_head(s) ==
  IF RunsOf(s) = {} THEN {NoStoredRun}
  ELSE {r \in RunsOf(s) : \E i \in DOMAIN created :
          created[i] = r /\ \A j \in (i + 1)..Len(created) : created[j] \notin RunsOf(s)}

FreshRuns == {r \in StoredRuns \ ToSet(created) :
                ~Present(r) /\ \A u \in Users : task[u].run # r}

-----------------------------------------------------------------------------
\* ResumeAnalyzer: TraceResume's part, by what a command reads from it.  Since the run,
\* the settings that its fingerprint covers may have changed, or the workspace; the trace
\* of a run without its final run.json may be one the analysis cannot use, and an
\* operation may be in flight in it.

Analyses(r) ==
  LET d == runDirs[r]
      unusable == [status |-> "incompatible", session |-> d.session, run |-> r, history |-> {}]
      known(status) == [unusable EXCEPT !.status = status, !.history = d.history]
  IN IF ~Readable(r) THEN {[unusable EXCEPT !.session = NoStoredSession, !.run = NoStoredRun]}
     ELSE IF r \notin d.history THEN {unusable}
     ELSE {unusable, known("drift")} \cup
          CASE d.manifest = "Completed" -> {known("completed")}
            [] OTHER -> {known("safe"), known("ambiguous")}

AcceptedUnlessAmbiguous(kind, status) == kind = "Resume" => status # "ambiguous"

\* Resume and continue are refused by the analysis, a branch never is.
Accepted(kind, status) ==
  CASE kind = "Continue" -> status = "completed"
    [] kind = "Resume" -> status = "safe"
    [] kind = "Branch" -> TRUE

\* A branch may name a checkpoint of the trace, which is then read without the analysis.
HistoriesFor(kind, r, analysis) ==
  {analysis.history}
    \cup {h \in {runDirs[r].history} : kind = "Branch" /\ r \in h}

-----------------------------------------------------------------------------
StoreInit ==
  /\ created \in SetToSeqs(PastRuns)
  /\ \E s \in StoredSessions :
       runDirs = [r \in StoredRuns |->
                 IF r \notin PastRuns THEN NoRunDir
                 ELSE [NoRunDir EXCEPT !.manifest = "Completed", !.session = s,
                                       !.history = {r}]]
  /\ task = [u \in Users |-> NoTask] /\ issued = 0

TaskEnds(u) == task' = [task EXCEPT ![u] = NoTask]

Starts(u, d) == task' = [task EXCEPT ![u] = [NoTask EXCEPT !.at = "create", !.dir = d]]

(* run_prompt: a new run, under a session's name but without its history.  *)
run_prompt(u, s) ==
  /\ Starts(u, [NoRunDir EXCEPT !.session = s])
  /\ UNCHANGED <<runDirs, created>>

(* run_session_action up to the creation of the run's directory.           *)
run_session_action(u, kind, target) ==
  /\ IF target = NoStoredRun \/ ~Present(target) THEN TaskEnds(u)
     ELSE \E a \in Analyses(target) : \E history \in HistoriesFor(kind, target, a) :
            IF ~Accepted(kind, a.status) THEN TaskEnds(u)
            ELSE Starts(u, [NoRunDir EXCEPT !.session = a.session, !.parent = a.run,
                                         !.onward = kind # "Branch", !.history = history])
  /\ UNCHANGED <<runDirs, created>>

(* JsonlTraceSink::create_run, and the runtime is built, which may fail    *)
(* and leave a directory without run.json.                                 *)
create_run(u) ==
  /\ task[u].at = "create"
  /\ \E r \in FreshRuns :
       /\ runDirs' = [runDirs EXCEPT ![r] = [task[u].dir EXCEPT !.manifest = "none"]]
       /\ \/ task' = [task EXCEPT ![u].run = r, ![u].at = "save"]
          \/ TaskEnds(u)
  /\ UNCHANGED created

(* The first RunManifest::save_to of a run must succeed; the last one may  *)
(* fail.  Each empties run.json before it writes it.                       *)
FirstSave(u) ==
  LET r == task[u].run
  IN /\ task[u].at = "save"
     /\ IF Present(r)
        THEN /\ runDirs' = [runDirs EXCEPT ![r].manifest = "Running"]
             /\ created' = Append(created, r)
             /\ task' = [task EXCEPT ![u].at = "loop"]
        ELSE TaskEnds(u) /\ UNCHANGED <<runDirs, created>>

LastSave(u) ==
  LET t == task[u]
  IN /\ t.at \in {"over", "saving"}
     /\ IF Present(t.run)
        THEN /\ runDirs' = [runDirs EXCEPT ![t.run].manifest =
                              IF t.at = "over" THEN "torn" ELSE t.result]
             /\ IF t.at = "over" THEN task' = [task EXCEPT ![u].at = "saving"] ELSE TaskEnds(u)
        ELSE TaskEnds(u) /\ UNCHANGED runDirs
     /\ UNCHANGED created

(* The first checkpoint of the agent's run holds the prompt.               *)
Checkpoints(u) ==
  LET r == task[u].run
  IN /\ task[u].at = "loop" /\ Present(r) /\ r \notin runDirs[r].history
     /\ runDirs' = [runDirs EXCEPT ![r].history = @ \cup {r}]
     /\ UNCHANGED <<created, task>>

(* The loop is over; a run that has not come to its first checkpoint has   *)
(* been cancelled or has failed.                                           *)
LoopEnds(u) ==
  LET r == task[u].run
  IN /\ task[u].at = "loop"
     /\ \E result \in {"Completed", "Interrupted"} :
          /\ result = "Completed" => ~Present(r) \/ r \in runDirs[r].history
          /\ task' = [task EXCEPT ![u].at = "over", ![u].result = result]
     /\ UNCHANGED <<runDirs, created>>

(* The user says no, or the process ends or dies where it is.              *)
Leaves(u) == task[u].at # "idle" /\ TaskEnds(u) /\ UNCHANGED <<runDirs, created>>

-----------------------------------------------------------------------------
\* delete_run and prune_runs.

Children(r) == {c \in StoredRuns : Readable(c) /\ runDirs[c].parent = r}

has_descendants(r) == Children(r) # {}

gather_children(r) == Children(r)

\* The least set that holds the children of r and those of its members.
gather_descendants(r) ==
  {x \in StoredRuns : \A D \in SUBSET StoredRuns :
     (\A p \in D \cup {r} : Children(p) \subseteq D) => x \in D} \ {r}

\* What is listed with a directory; the parent of a run without manifest is not known.
Listed(r, cascade) ==
  {r} \cup (IF cascade /\ Readable(r) THEN gather_descendants(r) ELSE {})

Refused(targets, cascade) ==
  ~cascade /\ \E r \in targets : Readable(r) /\ has_descendants(r)

(* The runs to remove are listed, and the user is asked about the list.    *)
ListRuns(u, targets, cascade) ==
  /\ targets # {} /\ \A r \in targets : Present(r)
  /\ LET listed == UNION {Listed(r, cascade) : r \in targets}
     IN IF Refused(targets, cascade) THEN TaskEnds(u)
        ELSE task' = [task EXCEPT ![u] = [NoTask EXCEPT
                        !.at = "remove", !.targets = targets, !.plan = listed,
                        !.seen = {r \in StoredRuns : Readable(r) /\ ParentReadable(r)}]]
  /\ UNCHANGED <<runDirs, created>>

delete_run(u, r, cascade) == ListRuns(u, {r}, cascade)
prune_runs(u, old, cascade) == ListRuns(u, old, cascade)

(* The user has confirmed, and directories are removed one by one, in the  *)
(* order of the listing, where descendants follow their target; the first  *)
(* that fails ends it.                                                     *)
RemoveNext(u) ==
  LET t == task[u]
  IN /\ t.at = "remove"
     /\ IF t.plan = {}
        THEN task' = [task EXCEPT ![u].at = "removed"] /\ UNCHANGED runDirs
        ELSE \E r \in t.plan :
               /\ r \in t.targets \/ t.taken # {}
               /\ IF Present(r)
                  THEN /\ runDirs' = [runDirs EXCEPT ![r] = NoRunDir]
                       /\ task' = [task EXCEPT ![u].plan = @ \ {r}, ![u].taken = @ \cup {r}]
                  ELSE TaskEnds(u) /\ UNCHANGED runDirs
     /\ UNCHANGED created

-----------------------------------------------------------------------------
CommandStep(u) == create_run(u) \/ FirstSave(u) \/ Checkpoints(u) \/ LoopEnds(u) \/ LastSave(u)

UserCommands(u) ==
  /\ task[u].at = "idle" /\ issued < MaxIssued /\ issued' = issued + 1
  /\ \/ \E s \in StoredSessions : run_prompt(u, s)
     \/ \E s \in StoredSessions : \E head \in resolve_session_head(s) :
          run_session_action(u, "Continue", head)
     \/ \E r \in StoredRuns, kind \in {"Resume", "Branch"} : run_session_action(u, kind, r)
     \/ \E r \in StoredRuns, cascade \in BOOLEAN : delete_run(u, r, cascade)
     \/ \E old \in SUBSET StoredRuns, cascade \in BOOLEAN : prune_runs(u, old, cascade)

StoreNext ==
  \E u \in Users : \/ UserCommands(u)
                  \/ /\ CommandStep(u) \/ Leaves(u) \/ RemoveNext(u)
                     /\ UNCHANGED issued

StoreSpec == StoreInit /\ [][StoreNext]_storeVars

-----------------------------------------------------------------------------
(* A run that is continued or resumed has the whole history of the run it  *)
(* goes on from, and the session of that run (sessions.rs, the comment     *)
(* before run_session_action).                                             *)
ContextPreserved ==
  \A r \in StoredRuns : LET p == runDirs[r].parent IN
    runDirs[r].onward /\ Readable(p) => runDirs[p].history \subseteq runDirs[r].history
                                    /\ runDirs[r].session = runDirs[p].session

(* A removal that has finished leaves no run without its parent, if both   *)
(* manifests could be read when the removal was listed (runs.rs: delete_run*)
(* and prune_runs; ADR-022:9).                                             *)
RemovedWithDescendants ==
  \A u \in Users : LET t == task[u] IN
    t.at = "removed" => \A r \in t.seen : Present(r) => runDirs[r].parent \notin t.taken
=============================================================================
