--------------------------- MODULE CommandExecution ---------------------------
(***************************************************************************)
(* One command: NoSandbox::run for the bash tool (exec.rs), a command tool *)
(* of an extension (extension/command_tool.rs) and a command that verifies *)
(* (verify/verifiers.rs), with the processes it starts, its two pipes, its *)
(* readers, its deadline, its artifacts and the cancel of the future that  *)
(* waits for it.  Output is counted, not spelled.                          *)
(***************************************************************************)
EXTENDS Naturals, FiniteSets

CONSTANTS
  MaxOutput,   \* max_output_bytes
  MaxWritten   \* bound: what a command writes to a stream

ASSUME CommandAssumption == MaxOutput \in Nat /\ MaxWritten \in Nat

VARIABLES
  command,    \* the request and how far its future is
  living,     \* processes of the command: the child, a descendant that holds the
              \* pipes, one that closed them
  streams,    \* per pipe: written, taken from it, kept, whether cut, whether its reader goes on
  artifacts,  \* files of the call, each with the bytes it holds
  late,       \* the deadline has passed
  outcome

commandVars == <<command, living, streams, artifacts, late, outcome>>

Streams == {"stdout", "stderr"}
Processes == {"child", "heir", "detached"}
Requests == [kind : {"bash", "tool", "verifier"}, inside : BOOLEAN, local : BOOLEAN,
             network : BOOLEAN, shell : BOOLEAN, recorded : BOOLEAN]
NoOutcome == [result |-> "none", timedOut |-> FALSE, truncated |-> FALSE, late |-> FALSE]
Unread == [written |-> 0, taken |-> 0, kept |-> 0, cut |-> FALSE, reading |-> FALSE]

CommandInit ==
  /\ command \in {[request |-> r, phase |-> "called", waited |-> FALSE] : r \in Requests}
  /\ living = {} /\ streams = [s \in Streams |-> Unread]
  /\ artifacts = {} /\ late = FALSE /\ outcome = NoOutcome

Kind == command.request.kind
At(phase) == command.phase = phase
Goes(phase) == command' = [command EXCEPT !.phase = phase]
Ends(result, timedOut, truncated) ==
  /\ Goes("over")
  /\ outcome' = [result |-> result, timedOut |-> timedOut, truncated |-> truncated, late |-> late]

\* is_audited_local_command is asked when the network is denied.
Permitted ==
  LET r == command.request IN
  CASE Kind = "bash" -> r.inside /\ (r.network \/ r.local)
    [] Kind = "tool" -> r.shell
    [] OTHER -> TRUE

-----------------------------------------------------------------------------
(* What the future does. *)

Refuse ==
  /\ At("called") /\ ~Permitted
  /\ Ends("error", FALSE, FALSE)
  /\ UNCHANGED <<living, streams, artifacts, late>>

\* A process that cannot be started is an error, of a verifier its verdict.
Spawn ==
  /\ At("called") /\ Permitted
  /\ \/ Goes("spawned") /\ living' = {"child"} /\ UNCHANGED outcome
     \/ Ends(IF Kind = "verifier" THEN "failed" ELSE "error", FALSE, FALSE) /\ UNCHANGED living
  /\ UNCHANGED <<streams, artifacts, late>>

\* kill_on_drop reaches the child only; a verifier's command has it not.
Dropped == IF Kind = "verifier" THEN living ELSE living \ {"child"}

\* Files that cannot be created end the call and drop the child.
PrepareArtifacts ==
  /\ Kind = "bash" /\ command.request.recorded /\ At("spawned") /\ artifacts = {}
  /\ \/ /\ artifacts' = {"stdout", "stderr"}
        /\ UNCHANGED <<command, living, outcome>>
     \/ /\ artifacts' \in {{}, {"stdout"}}
        /\ living' = Dropped /\ Ends("error", FALSE, FALSE)
  /\ UNCHANGED <<streams, late>>

\* A command tool gets its input on stdin; one that is gone before makes the write fail.
GiveInput ==
  /\ Kind = "tool" /\ At("spawned") /\ "child" \notin living
  /\ Ends("error", FALSE, FALSE)
  /\ UNCHANGED <<living, streams, artifacts, late>>

Wait ==
  /\ At("spawned")
  /\ Kind = "bash" => command.request.recorded = (artifacts # {})
  /\ Goes("waiting")
  /\ streams' = [s \in Streams |-> [streams[s] EXCEPT !.reading = TRUE]]
  /\ UNCHANGED <<living, artifacts, late, outcome>>

\* A bug: only the child is killed at the deadline.
KillsChild == living \ {"child"}

\* The child leads a process group, which is killed as a whole.
KillsGroup == {}

BashExits ==
  /\ Kind = "bash" /\ At("waiting")
  /\ \/ /\ "child" \notin living
        /\ command' = [command EXCEPT !.phase = "collecting", !.waited = TRUE] /\ UNCHANGED living
     \/ /\ "child" \in living /\ late
        /\ Goes("collecting") /\ living' = KillsGroup
  /\ UNCHANGED <<streams, artifacts, late, outcome>>

\* truncate_combined: stdout comes first.
Combined ==
  LET out == streams["stdout"].kept  err == streams["stderr"].kept IN
  [s \in Streams |->
     [streams[s] EXCEPT
        !.kept = IF s = "stdout" THEN IF out < MaxOutput THEN out ELSE MaxOutput
                 ELSE IF out + err <= MaxOutput THEN err
                 ELSE IF out < MaxOutput THEN MaxOutput - out ELSE 0]]

\* The combined file holds the files of the two streams, which go when all is shown.
BashReturns ==
  LET truncated == \/ \E s \in Streams : streams[s].cut
                   \/ streams["stdout"].kept + streams["stderr"].kept > MaxOutput IN
  /\ Kind = "bash" /\ At("collecting") /\ \A s \in Streams : ~streams[s].reading
  /\ streams' = Combined
  /\ \/ /\ artifacts' = IF truncated /\ artifacts # {} THEN artifacts \cup {"combined"} ELSE {}
        /\ Ends("output", ~command.waited, truncated)
     \/ artifacts # {} /\ truncated /\ UNCHANGED artifacts /\ Ends("error", FALSE, FALSE)
  /\ UNCHANGED <<living, late>>

\* wait_with_output: the exit and the ends of both pipes.
OthersReturn ==
  LET done == "child" \notin living /\ \A s \in Streams : ~streams[s].reading IN
  /\ Kind # "bash" /\ At("waiting")
  /\ \/ done /\ Kind = "tool" /\ streams["stdout"].taken > MaxOutput /\ Ends("error", FALSE, FALSE)
     \/ /\ done /\ (Kind = "tool" => streams["stdout"].taken <= MaxOutput)
        /\ \E result \in {"output", "failed"} : Ends(result, FALSE, FALSE)
     \/ ~done /\ Kind = "tool" /\ late /\ Ends("error", TRUE, FALSE)
  /\ living' = IF done THEN living ELSE Dropped
  /\ streams' = [s \in Streams |-> [streams[s] EXCEPT !.reading = FALSE]]
  /\ UNCHANGED <<artifacts, late>>

\* The killer of the group lives while the future waits; readers are tasks of their own.
Cancel ==
  /\ ~At("called") /\ ~At("over")
  /\ living' = IF Kind = "bash" /\ At("waiting") THEN KillsGroup
               ELSE IF At("collecting") THEN living ELSE Dropped
  /\ streams' = IF Kind = "bash" THEN streams
                ELSE [s \in Streams |-> [streams[s] EXCEPT !.reading = FALSE]]
  /\ Ends(IF At("waiting") THEN "cancelled waiting" ELSE "cancelled", FALSE, FALSE)
  /\ UNCHANGED <<artifacts, late>>

-----------------------------------------------------------------------------
(* The readers, the processes and time. *)

\* read_capped keeps what fits and takes the rest.  Other commands keep everything.
ReadSome(s) ==
  LET new == streams[s].written - streams[s].taken
      room == IF streams[s].cut THEN 0 ELSE MaxOutput - streams[s].kept IN
  /\ streams[s].reading /\ new > 0
  /\ streams' = [streams EXCEPT ![s] =
       [streams[s] EXCEPT
                 !.taken = @ + new,
                 !.kept = @ + IF Kind = "bash" /\ new > room THEN room ELSE new,
                 !.cut = @ \/ (Kind = "bash" /\ new > room)]]
  /\ UNCHANGED <<command, living, artifacts, late, outcome>>

\* The end of a pipe is when nobody holds it; a reader of exec.rs also ends at the deadline.
ReaderEnds(s) ==
  /\ streams[s].reading
  /\ \/ living \cap {"child", "heir"} = {} /\ streams[s].taken = streams[s].written
     \/ Kind = "bash" /\ late
  /\ streams' = [streams EXCEPT ![s].reading = FALSE]
  /\ UNCHANGED <<command, living, artifacts, late, outcome>>

Write(s) ==
  /\ living \cap {"child", "heir"} # {} /\ streams[s].written < MaxWritten
  /\ ~At("over")
  /\ streams' = [streams EXCEPT ![s].written = @ + 1]
  /\ UNCHANGED <<command, living, artifacts, late, outcome>>

\* A descendant stays in the group and outlives the child.
ForkOrExit ==
  /\ \/ "child" \in living /\ ~At("over") /\ living' \in {living \cup {"heir"}, living \cup {"detached"}}
     \/ \E p \in living : living' = living \ {p}
  /\ UNCHANGED <<command, streams, artifacts, late, outcome>>

\* The time runs while the command is waited for; a verifier's has no limit.
DeadlinePasses ==
  /\ ~late /\ Kind # "verifier" /\ (At("waiting") \/ At("collecting")) /\ late' = TRUE
  /\ UNCHANGED <<command, living, streams, artifacts, outcome>>

CommandNext ==
  \/ Refuse \/ Spawn \/ PrepareArtifacts \/ GiveInput \/ Wait \/ BashExits
  \/ BashReturns \/ OthersReturn \/ Cancel
  \/ \E s \in Streams : ReadSome(s) \/ ReaderEnds(s) \/ Write(s)
  \/ ForkOrExit \/ DeadlinePasses

CommandSpec == CommandInit /\ [][CommandNext]_commandVars

-----------------------------------------------------------------------------
(* Properties. *)

\* The result of a command accounts for its output and its processes.  What a result
\* in time shows is everything that was written, unless it says that it is truncated;
\* what was cut is in the artifact; what a timed out or cancelled bash command started
\* is dead.  Exits, descendants, readers, the deadline and a cancel come in any order.
ResultAccounts ==
  /\ outcome.result = "output" /\ ~outcome.late /\ ~outcome.truncated =>
       \A s \in Streams : streams[s].kept = streams[s].written
  /\ outcome.result = "output" /\ Kind = "bash" =>
       /\ streams["stdout"].kept + streams["stderr"].kept <= MaxOutput
       /\ outcome.truncated /\ command.request.recorded =>
            artifacts = {"stdout", "stderr", "combined"}
       /\ ~outcome.truncated => \A s \in Streams : streams[s].kept = streams[s].taken
  /\ Kind = "bash" /\ (outcome.timedOut \/ outcome.result = "cancelled waiting") => living = {}
=============================================================================
