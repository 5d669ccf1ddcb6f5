-------------------------- MODULE ApplicationProofs --------------------------
(***************************************************************************)
(* Proofs about the application around the runtime: a command accounts for *)
(* its output (CommandExecution), the screen tells the truth (Terminal),   *)
(* what a run goes on from stays whole and what descends from a removed    *)
(* run goes with it (RunStore), the layers of the configuration keep their *)
(* promises (ConfigLayers), and the tools of servers answer as they are    *)
(* offered (ToolDiscovery).                                                *)
(***************************************************************************)
EXTENDS ToolDiscovery, CommandExecution, Terminal, RunStore, ConfigLayers, TLAPS,
        SequenceTheorems, FiniteSetTheorems, WellFoundedInduction

-----------------------------------------------------------------------------
(* CommandExecution. *)

Phases == {"called", "spawned", "waiting", "collecting", "over"}
Results == {"none", "error", "failed", "output", "cancelled", "cancelled waiting"}
StreamStates ==
  [written : Nat, taken : Nat, kept : Nat, cut : BOOLEAN, reading : BOOLEAN]

CommandStates == [request : Requests, phase : Phases, waited : BOOLEAN]
Outcomes == [result : Results, timedOut : BOOLEAN, truncated : BOOLEAN, late : BOOLEAN]

\* The types of the variables of a command.
CommandType ==
  /\ command \in CommandStates
  /\ living \subseteq Processes
  /\ streams \in [Streams -> StreamStates]
  /\ artifacts \subseteq {"stdout", "stderr", "combined"}
  /\ late \in BOOLEAN
  /\ outcome \in Outcomes

Awaited == At("waiting") \/ At("collecting")

\* Until the result is made, what was taken and not cut is kept, and only the readers of
\* exec.rs cut.
StreamsCounted ==
  ~At("over") => \A s \in Streams :
    /\ streams[s].taken <= streams[s].written
    /\ ~streams[s].cut => streams[s].kept = streams[s].taken
    /\ Kind # "bash" => ~streams[s].cut

WithinLimit == Kind = "bash" => \A s \in Streams : streams[s].kept <= MaxOutput

\* A reader that has ended in time has come to the end of a pipe that nobody holds.
ReadersDrain ==
  Awaited => \A s \in Streams :
    ~streams[s].reading /\ (~late \/ Kind # "bash") =>
      living \cap {"child", "heir"} = {} /\ streams[s].taken = streams[s].written

ArtifactsKept ==
  /\ ~At("over") => artifacts \in {{}, {"stdout", "stderr"}}
  /\ Awaited /\ Kind = "bash" => command.request.recorded = (artifacts # {})

\* What is collected without an exit of the child was killed.
PhasesAgree ==
  /\ At("collecting") => Kind = "bash" /\ (~command.waited => living = {})
  /\ ~At("over") => outcome = NoOutcome
  /\ outcome.result = "output" => \A s \in Streams : ~streams[s].reading

CommandInv ==
  /\ CommandType /\ StreamsCounted /\ WithinLimit /\ ReadersDrain /\ ArtifactsKept
  /\ PhasesAgree /\ ResultAccounts

LEMMA CommandBegins == ASSUME CommandInit PROVE CommandInv
<1>1. PICK r \in Requests : command = [request |-> r, phase |-> "called", waited |-> FALSE]
  BY DEF CommandInit
<1>2. CommandType
  BY <1>1 DEF CommandInit, CommandType, Unread, StreamStates, NoOutcome, Phases, Results, CommandStates, Outcomes
<1>3. StreamsCounted /\ WithinLimit
  BY <1>1, CommandAssumption DEF CommandInit, StreamsCounted, WithinLimit, Unread
<1>4. ReadersDrain /\ ArtifactsKept /\ PhasesAgree
  BY <1>1 DEF CommandInit, ReadersDrain, ArtifactsKept, PhasesAgree, At, Awaited, Unread, NoOutcome
<1>5. ResultAccounts
  BY <1>1 DEF CommandInit, ResultAccounts, NoOutcome
<1> QED  BY <1>2, <1>3, <1>4, <1>5 DEF CommandInv

\* No step of the future, of the readers, of the processes or of time breaks the account.
LEMMA GoesOnly ==
  ASSUME CommandType, NEW p \in Phases, Goes(p)
  PROVE  /\ command' \in CommandStates
         /\ command'.request = command.request /\ command'.phase = p
         /\ command'.waited = command.waited
BY DEF CommandType, CommandStates, Goes

LEMMA EndsWith ==
  ASSUME CommandType, NEW result \in Results, NEW timedOut \in BOOLEAN, NEW truncated \in BOOLEAN,
         Ends(result, timedOut, truncated)
  PROVE  /\ command' \in CommandStates
         /\ command'.request = command.request /\ command'.phase = "over"
         /\ outcome' \in Outcomes
         /\ outcome'.result = result /\ outcome'.timedOut = timedOut
         /\ outcome'.truncated = truncated /\ outcome'.late = late
<1>1. "over" \in Phases
  BY DEF Phases
<1> QED  BY <1>1, GoesOnly DEF CommandType, Ends, Outcomes

\* A command that ends without output leaves nothing to account for.
LEMMA EndsWithoutOutput ==
  ASSUME CommandInv, NEW result \in {"error", "failed", "cancelled"}, NEW timedOut \in BOOLEAN,
         Ends(result, timedOut, FALSE), Kind = "bash" => ~timedOut,
         living' \subseteq living, streams' \in [Streams -> StreamStates],
         artifacts' \subseteq {"stdout", "stderr", "combined"}, late' \in BOOLEAN,
         Kind = "bash" => \A s \in Streams : streams'[s].kept <= MaxOutput
  PROVE  CommandInv'
<1>1. /\ command' \in CommandStates
      /\ command'.request = command.request /\ command'.phase = "over"
      /\ outcome' \in Outcomes
      /\ outcome'.result = result /\ outcome'.timedOut = timedOut
  BY EndsWith DEF CommandInv, Results
<1>2. CommandType'
  BY <1>1 DEF CommandInv, CommandType
<1>3. /\ StreamsCounted' /\ ReadersDrain' /\ ArtifactsKept' /\ PhasesAgree'
  BY <1>1 DEF StreamsCounted, ReadersDrain, ArtifactsKept, PhasesAgree, At, Awaited
<1>4. ResultAccounts' /\ WithinLimit'
  BY <1>1 DEF ResultAccounts, WithinLimit, Kind
<1> QED  BY <1>2, <1>3, <1>4 DEF CommandInv

\* Before its end a command has no result to account for.
LEMMA NoResultYet == ASSUME CommandInv, ~At("over"), outcome' = outcome PROVE ResultAccounts'
<1>1. outcome' = NoOutcome
  BY DEF CommandInv, PhasesAgree
<1>2. outcome'.result = "none" /\ outcome'.timedOut = FALSE
  BY <1>1 DEF NoOutcome
<1> QED  BY <1>2 DEF ResultAccounts

\* No step of the future, of the readers, of the processes or of time breaks the account.
LEMMA CommandKept == ASSUME CommandInv, CommandNext PROVE CommandInv'
<1> USE CommandAssumption DEF At, Kind
<1>t. /\ command \in CommandStates /\ living \subseteq Processes
      /\ streams \in [Streams -> StreamStates]
      /\ artifacts \subseteq {"stdout", "stderr", "combined"}
      /\ late \in BOOLEAN /\ outcome \in Outcomes
  BY DEF CommandInv, CommandType
<1>u. Kind = "bash" => \A s \in Streams : streams[s].kept <= MaxOutput
  BY DEF CommandInv, WithinLimit
<1>1. ASSUME Refuse PROVE CommandInv'
  <2>1. Ends("error", FALSE, FALSE) /\ UNCHANGED <<living, streams, artifacts, late>>
    BY <1>1 DEF Refuse
  <2> QED  BY <1>t, <2>1, <1>u, EndsWithoutOutput
<1>2. ASSUME Spawn PROVE CommandInv'
  <2>1. CASE Goes("spawned") /\ living' = {"child"} /\ UNCHANGED outcome
    <3>1. command' \in CommandStates /\ command'.phase = "spawned" /\ command'.request = command.request
      BY <2>1, GoesOnly DEF CommandInv, Phases
    <3>2. CommandType'
      BY <1>2, <1>t, <2>1, <3>1 DEF Spawn, CommandType, Processes
    <3>3. /\ StreamsCounted' /\ WithinLimit' /\ ReadersDrain' /\ ArtifactsKept' /\ PhasesAgree'
      BY <1>2, <2>1, <3>1 DEF Spawn, CommandInv, StreamsCounted, WithinLimit, ReadersDrain, ArtifactsKept,
                              PhasesAgree, Awaited, NoOutcome
    <3> QED  BY <1>2, <2>1, <3>2, <3>3, NoResultYet DEF CommandInv, Spawn
  <2>2. CASE Ends(IF Kind = "verifier" THEN "failed" ELSE "error", FALSE, FALSE) /\ UNCHANGED living
    <3> DEFINE result == IF Kind = "verifier" THEN "failed" ELSE "error"
    <3>1. result \in {"error", "failed"} /\ Ends(result, FALSE, FALSE)
      BY <2>2
    <3> HIDE DEF result
    <3> QED  BY <1>2, <1>t, <2>2, <3>1, <1>u, EndsWithoutOutput DEF Spawn
  <2> QED  BY <1>2, <2>1, <2>2 DEF Spawn
<1>3. ASSUME PrepareArtifacts PROVE CommandInv'
  <2>1. CASE artifacts' = {"stdout", "stderr"} /\ UNCHANGED <<command, living, outcome>>
    <3>1. CommandType'
      BY <1>3, <1>t, <2>1 DEF PrepareArtifacts, CommandType
    <3>2. /\ StreamsCounted' /\ WithinLimit' /\ ReadersDrain' /\ ArtifactsKept' /\ PhasesAgree'
      BY <1>3, <2>1 DEF PrepareArtifacts, CommandInv, StreamsCounted, WithinLimit, ReadersDrain, ArtifactsKept,
                        PhasesAgree, Awaited, NoOutcome
    <3> QED  BY <1>3, <2>1, <3>1, <3>2, NoResultYet DEF CommandInv, PrepareArtifacts
  <2>2. CASE artifacts' \in {{}, {"stdout"}} /\ living' = Dropped /\ Ends("error", FALSE, FALSE)
    BY <1>3, <1>t, <2>2, <1>u, EndsWithoutOutput DEF PrepareArtifacts, Dropped
  <2> QED  BY <1>3, <2>1, <2>2 DEF PrepareArtifacts
<1>4. ASSUME GiveInput PROVE CommandInv'
  BY <1>4, <1>t, <1>u, EndsWithoutOutput DEF GiveInput
<1>5. ASSUME Wait PROVE CommandInv'
  <2>1. command' \in CommandStates /\ command'.phase = "waiting" /\ command'.request = command.request
    BY <1>5, GoesOnly DEF CommandInv, Wait, Phases
  <2>2. streams' \in [Streams -> StreamStates]
    BY <1>5, <1>t DEF Wait, StreamStates
  <2>3. CommandType'
    BY <1>5, <1>t, <2>1, <2>2 DEF Wait, CommandType
  <2>4. StreamsCounted' /\ WithinLimit'
    BY <1>5, <1>t, <2>1 DEF Wait, CommandInv, StreamsCounted, WithinLimit, StreamStates
  <2>5. ReadersDrain' /\ ArtifactsKept' /\ PhasesAgree'
    BY <1>5, <1>t, <2>1 DEF Wait, CommandInv, ReadersDrain, ArtifactsKept, PhasesAgree, NoOutcome,
                            StreamStates
  <2> QED  BY <1>5, <2>3, <2>4, <2>5, NoResultYet DEF CommandInv, Wait
<1>6. ASSUME BashExits PROVE CommandInv'
  <2>1. /\ command' \in CommandStates /\ command'.phase = "collecting"
        /\ command'.request = command.request
        /\ ~command'.waited => living' = {}
    BY <1>6, <1>t, GoesOnly DEF CommandInv, BashExits, Phases, CommandStates, KillsGroup
  <2>2. living' \subseteq living
    BY <1>6 DEF BashExits, KillsGroup
  <2>3. CommandType'
    BY <1>6, <1>t, <2>1, <2>2 DEF BashExits, CommandType
  <2>4. StreamsCounted' /\ WithinLimit' /\ ReadersDrain'
    BY <1>6, <2>1, <2>2 DEF BashExits, CommandInv, StreamsCounted, WithinLimit, ReadersDrain, Awaited
  <2>5. ArtifactsKept' /\ PhasesAgree'
    BY <1>6, <2>1 DEF BashExits, CommandInv, ArtifactsKept, PhasesAgree, Awaited, NoOutcome
  <2> QED  BY <1>6, <2>3, <2>4, <2>5, NoResultYet DEF CommandInv, BashExits
<1>7. ASSUME BashReturns PROVE CommandInv'
  <2> DEFINE truncated == \/ \E s \in Streams : streams[s].cut
                          \/ streams["stdout"].kept + streams["stderr"].kept > MaxOutput
  <2>1. \A s \in Streams : /\ streams'[s].kept \in Nat /\ streams'[s].kept <= MaxOutput
                           /\ streams'[s].reading = FALSE
    BY <1>7, <1>t DEF BashReturns, Combined, StreamStates, Streams
  <2>2. streams' \in [Streams -> StreamStates]
    BY <1>7, <1>t DEF BashReturns, Combined, StreamStates, Streams
  <2>3. truncated \in BOOLEAN
    OBVIOUS
  <2>4. CASE /\ artifacts' = IF truncated /\ artifacts # {} THEN artifacts \cup {"combined"} ELSE {}
             /\ Ends("output", ~command.waited, truncated)
    <3>1. command.waited \in BOOLEAN /\ artifacts' \subseteq {"stdout", "stderr", "combined"}
      BY <1>t, <2>4 DEF CommandStates
    <3> HIDE DEF truncated
    <3>2. /\ command' \in CommandStates
          /\ command'.request = command.request /\ command'.phase = "over"
          /\ outcome' \in Outcomes
          /\ outcome'.result = "output" /\ outcome'.timedOut = ~command.waited
          /\ outcome'.truncated = truncated /\ outcome'.late = late
      BY <2>3, <2>4, <3>1, EndsWith DEF CommandInv, Results
    <3>3. CommandType'
      BY <1>7, <1>t, <2>2, <3>1, <3>2 DEF BashReturns, CommandType
    <3>4. StreamsCounted' /\ WithinLimit' /\ ReadersDrain' /\ ArtifactsKept' /\ PhasesAgree'
      BY <2>1, <3>2 DEF StreamsCounted, WithinLimit, ReadersDrain, ArtifactsKept, PhasesAgree, Awaited
    <3>5. /\ ~command.waited => living' = {}
          /\ Kind' = "bash"
      BY <1>7, <3>2 DEF BashReturns, CommandInv, PhasesAgree
    <3>6. \A s \in Streams : /\ streams'[s].written = streams[s].written
                             /\ streams'[s].taken = streams[s].taken
                             /\ ~truncated => streams'[s].kept = streams[s].taken
      BY <1>7, <1>t DEF BashReturns, Combined, StreamStates, Streams, truncated, CommandInv,
                        StreamsCounted
    <3>7. streams'["stdout"].kept + streams'["stderr"].kept <= MaxOutput
      BY <1>7, <1>t DEF BashReturns, Combined, StreamStates, Streams
    <3>8. ~late => \A s \in Streams : streams[s].written = streams[s].taken
      BY <1>7 DEF BashReturns, CommandInv, ReadersDrain, Awaited
    <3>9. truncated /\ command.request.recorded => artifacts' = {"stdout", "stderr", "combined"}
      BY <1>7, <2>4 DEF BashReturns, CommandInv, ArtifactsKept, Awaited
    <3>10. ResultAccounts'
      BY <3>2, <3>5, <3>6, <3>7, <3>8, <3>9 DEF ResultAccounts
    <3> QED  BY <3>3, <3>4, <3>10 DEF CommandInv
  <2>5. CASE UNCHANGED artifacts /\ Ends("error", FALSE, FALSE)
    BY <1>7, <1>t, <2>1, <2>2, <2>5, EndsWithoutOutput DEF BashReturns
  <2> QED  BY <1>7, <2>4, <2>5 DEF BashReturns
<1>8. ASSUME OthersReturn PROVE CommandInv'
  <2> DEFINE done == "child" \notin living /\ \A s \in Streams : ~streams[s].reading
  <2>1. streams' \in [Streams -> StreamStates] /\ living' \subseteq living
    BY <1>8, <1>t DEF OthersReturn, StreamStates, Dropped
  <2>2. CASE Ends("error", FALSE, FALSE) \/ Ends("error", TRUE, FALSE) \/ Ends("failed", FALSE, FALSE)
    BY <1>8, <1>t, <2>1, <2>2, <1>u, EndsWithoutOutput DEF OthersReturn
  <2>3. CASE done /\ Ends("output", FALSE, FALSE)
    <3>1. /\ command' \in CommandStates
          /\ command'.request = command.request /\ command'.phase = "over"
          /\ outcome' \in Outcomes
          /\ outcome'.result = "output" /\ outcome'.timedOut = FALSE
      BY <2>3, EndsWith DEF CommandInv, Results
    <3>2. CommandType'
      BY <1>8, <1>t, <2>1, <3>1 DEF OthersReturn, CommandType
    <3>3. \A s \in Streams : /\ streams'[s].kept = streams[s].kept
                             /\ streams'[s].written = streams[s].written
                             /\ streams'[s].reading = FALSE
      BY <1>8, <1>t DEF OthersReturn, StreamStates
    <3>4. StreamsCounted' /\ WithinLimit' /\ ReadersDrain' /\ ArtifactsKept' /\ PhasesAgree'
      BY <1>8, <3>1, <3>3 DEF OthersReturn, StreamsCounted, WithinLimit, ReadersDrain, ArtifactsKept, PhasesAgree, Awaited
    <3>5. \A s \in Streams : streams[s].kept = streams[s].written
      BY <1>8, <2>3 DEF OthersReturn, CommandInv, StreamsCounted, WithinLimit, ReadersDrain, Awaited
    <3>6. ResultAccounts'
      BY <1>8, <3>1, <3>3, <3>5 DEF OthersReturn, ResultAccounts
    <3> QED  BY <3>2, <3>4, <3>6 DEF CommandInv
  <2> QED  BY <1>8, <2>2, <2>3 DEF OthersReturn
<1>9. ASSUME Cancel PROVE CommandInv'
  <2>1. streams' \in [Streams -> StreamStates] /\ living' \subseteq living
    BY <1>9, <1>t DEF Cancel, StreamStates, Dropped, KillsGroup
  <2>2. CASE ~At("waiting")
    BY <1>9, <1>t, <2>1, <2>2, <1>u, EndsWithoutOutput DEF Cancel
  <2>3. CASE At("waiting")
    <3>1. /\ command' \in CommandStates
          /\ command'.request = command.request /\ command'.phase = "over"
          /\ outcome' \in Outcomes
          /\ outcome'.result = "cancelled waiting" /\ outcome'.timedOut = FALSE
      BY <1>9, <2>3, EndsWith DEF Cancel, CommandInv, Results
    <3>2. CommandType'
      BY <1>9, <1>t, <2>1, <3>1 DEF Cancel, CommandType
    <3>3. StreamsCounted' /\ WithinLimit' /\ ReadersDrain' /\ ArtifactsKept' /\ PhasesAgree'
      BY <1>9, <1>u, <3>1 DEF Cancel, StreamsCounted, WithinLimit, ReadersDrain, ArtifactsKept, PhasesAgree, Awaited
    <3>4. Kind = "bash" => living' = {}
      BY <1>9, <2>3 DEF Cancel, KillsGroup
    <3>5. ResultAccounts'
      BY <3>1, <3>4 DEF ResultAccounts
    <3> QED  BY <3>2, <3>3, <3>5 DEF CommandInv
  <2> QED  BY <2>2, <2>3
<1>10. ASSUME NEW s \in Streams, ReadSome(s) PROVE CommandInv'
  <2> DEFINE new == streams[s].written - streams[s].taken
             room == IF streams[s].cut THEN 0 ELSE MaxOutput - streams[s].kept
             cuts == Kind = "bash" /\ new > room
  <2>1. /\ streams[s] \in StreamStates /\ streams[s].reading /\ new > 0
        /\ UNCHANGED <<command, living, artifacts, late, outcome>>
        /\ streams' = [streams EXCEPT ![s] =
             [streams[s] EXCEPT !.taken = @ + new, !.kept = @ + IF cuts THEN room ELSE new,
                                !.cut = @ \/ cuts]]
    BY <1>10, <1>t DEF ReadSome
  <2>2. /\ streams[s].written \in Nat /\ streams[s].taken \in Nat /\ streams[s].kept \in Nat
        /\ streams[s].cut \in BOOLEAN /\ new \in Nat
    BY <2>1 DEF StreamStates
  <2>3. Kind = "bash" => streams[s].kept <= MaxOutput
    BY <1>u
  <2>c. outcome.result # "output" /\ DOMAIN streams = Streams
    BY <1>t, <2>1 DEF CommandInv, PhasesAgree
  <2> DEFINE kept == streams[s].kept + IF cuts THEN room ELSE new
             cut == streams[s].cut \/ cuts
  <2> HIDE DEF new, cuts, room
  <2>v. streams' = [streams EXCEPT ![s] =
          [streams[s] EXCEPT !.taken = streams[s].taken + new, !.kept = kept, !.cut = cut]]
    BY <2>1
  <2>4. /\ streams'[s].written = streams[s].written /\ streams'[s].taken = streams[s].taken + new
        /\ streams'[s].kept = kept /\ streams'[s].cut = cut /\ streams'[s].reading = streams[s].reading
        /\ \A o \in Streams : o # s => streams'[o] = streams[o]
    <3> DEFINE read == [streams[s] EXCEPT !.taken = streams[s].taken + new, !.kept = kept, !.cut = cut]
    <3>1. streams'[s] = read /\ \A o \in Streams : o # s => streams'[o] = streams[o]
      BY <2>c, <2>v
    <3>2. streams[s] = [written |-> streams[s].written, taken |-> streams[s].taken,
                        kept |-> streams[s].kept, cut |-> streams[s].cut,
                        reading |-> streams[s].reading]
      BY <2>1 DEF StreamStates
    <3> HIDE DEF kept, cut
    <3>3. /\ read.written = streams[s].written /\ read.taken = streams[s].taken + new
          /\ read.kept = kept /\ read.cut = cut /\ read.reading = streams[s].reading
      BY <3>2
    <3> HIDE DEF read
    <3> QED  BY <3>1, <3>3
  <2>5. streams[s].taken + new = streams[s].written
    BY <2>2 DEF new
  <2>6. cut \in BOOLEAN /\ kept \in Nat /\ (Kind = "bash" => kept <= MaxOutput)
    BY <2>2, <2>3 DEF cuts, room
  <2>7. ~cut => kept = streams[s].kept + new
    OBVIOUS
  <2>8. Kind # "bash" /\ ~streams[s].cut => ~cut
    BY DEF cuts
  <2> HIDE DEF kept, cut
  <2>w. [streams[s] EXCEPT !.taken = streams[s].taken + new, !.kept = kept, !.cut = cut] \in StreamStates
    <3>1. streams[s] \in StreamStates /\ streams[s].taken + new \in Nat /\ kept \in Nat /\ cut \in BOOLEAN
      BY <2>1, <2>2, <2>6
    <3> QED  BY <3>1 DEF StreamStates
  <2>9. streams' \in [Streams -> StreamStates]
    BY <1>t, <2>v, <2>w
  <2>10. CommandType'
    BY <1>t, <2>1, <2>9 DEF CommandType
  <2>11. StreamsCounted' /\ WithinLimit'
    BY <2>1, <2>2, <2>4, <2>5, <2>6, <2>7, <2>8 DEF CommandInv, StreamsCounted, WithinLimit
  <2>12. ReadersDrain' /\ ArtifactsKept' /\ PhasesAgree'
    BY <2>1, <2>4, <2>c DEF CommandInv, ReadersDrain, ArtifactsKept, PhasesAgree, Awaited, NoOutcome
  <2>13. ResultAccounts'
    BY <2>1, <2>c DEF CommandInv, ResultAccounts
  <2> QED  BY <2>10, <2>11, <2>12, <2>13 DEF CommandInv
<1>11. ASSUME NEW s \in Streams, ReaderEnds(s) PROVE CommandInv'
  <2>1. streams' \in [Streams -> StreamStates]
    BY <1>11, <1>t DEF ReaderEnds, StreamStates
  <2>2. CommandType'
    BY <1>11, <1>t, <2>1 DEF ReaderEnds, CommandType
  <2>3. \A o \in Streams : /\ streams'[o].written = streams[o].written
                           /\ streams'[o].taken = streams[o].taken
                           /\ streams'[o].kept = streams[o].kept /\ streams'[o].cut = streams[o].cut
                           /\ o # s => streams'[o].reading = streams[o].reading
                           /\ streams'[o].reading => streams[o].reading
    BY <1>11, <1>t DEF ReaderEnds, StreamStates
  <2>4. StreamsCounted' /\ WithinLimit' /\ ArtifactsKept' /\ PhasesAgree'
    BY <1>11, <2>3 DEF ReaderEnds, CommandInv, StreamsCounted, WithinLimit, ArtifactsKept, PhasesAgree, Awaited,
                       NoOutcome
  <2>5. ReadersDrain'
    BY <1>11, <2>3 DEF ReaderEnds, CommandInv, ReadersDrain, Awaited
  <2>6. ResultAccounts'
    BY <1>11, <2>3 DEF ReaderEnds, CommandInv, ResultAccounts, PhasesAgree
  <2> QED  BY <2>2, <2>4, <2>5, <2>6 DEF CommandInv
<1>12. ASSUME NEW s \in Streams, Write(s) PROVE CommandInv'
  <2>1. streams' \in [Streams -> StreamStates]
    BY <1>12, <1>t DEF Write, StreamStates
  <2>2. CommandType'
    BY <1>12, <1>t, <2>1 DEF Write, CommandType
  <2>3. \A o \in Streams : /\ streams'[o].taken = streams[o].taken
                           /\ streams'[o].kept = streams[o].kept /\ streams'[o].cut = streams[o].cut
                           /\ streams'[o].reading = streams[o].reading
                           /\ streams'[o].written \in Nat /\ streams'[o].written >= streams[o].written
                           /\ streams[o].written \in Nat /\ streams[o].taken \in Nat
    BY <1>12, <1>t DEF Write, StreamStates
  <2>4. StreamsCounted' /\ WithinLimit' /\ ArtifactsKept' /\ PhasesAgree'
    BY <1>12, <2>3 DEF Write, CommandInv, StreamsCounted, WithinLimit, ArtifactsKept, PhasesAgree, Awaited,
                       NoOutcome
  <2>5. ReadersDrain'
    BY <1>12, <2>3 DEF Write, CommandInv, ReadersDrain, Awaited
  <2>6. ResultAccounts'
    BY <1>12, NoResultYet DEF Write
  <2> QED  BY <2>2, <2>4, <2>5, <2>6 DEF CommandInv
<1>13. ASSUME ForkOrExit PROVE CommandInv'
  <2>1. living' \subseteq Processes /\ ("child" \notin living \/ At("over") => living' \subseteq living)
    BY <1>13, <1>t DEF ForkOrExit, Processes
  <2>2. CommandType'
    BY <1>13, <1>t, <2>1 DEF ForkOrExit, CommandType
  <2>3. StreamsCounted' /\ WithinLimit' /\ ArtifactsKept'
    BY <1>13 DEF ForkOrExit, CommandInv, StreamsCounted, WithinLimit, ArtifactsKept, Awaited
  <2>4. ReadersDrain'
    BY <1>13, <2>1 DEF ForkOrExit, CommandInv, ReadersDrain, Awaited
  <2>5. PhasesAgree'
    BY <1>13, <2>1 DEF ForkOrExit, CommandInv, PhasesAgree, NoOutcome
  <2>6. ResultAccounts'
    BY <1>13, <2>1 DEF ForkOrExit, CommandInv, PhasesAgree, ResultAccounts, NoOutcome
  <2> QED  BY <2>2, <2>3, <2>4, <2>5, <2>6 DEF CommandInv
<1>14. ASSUME DeadlinePasses PROVE CommandInv'
  <2>1. CommandType'
    BY <1>14, <1>t DEF DeadlinePasses, CommandType
  <2>2. StreamsCounted' /\ WithinLimit' /\ ArtifactsKept' /\ PhasesAgree'
    BY <1>14 DEF DeadlinePasses, CommandInv, StreamsCounted, WithinLimit, ArtifactsKept, PhasesAgree, Awaited, NoOutcome
  <2>3. ReadersDrain'
    BY <1>14 DEF DeadlinePasses, CommandInv, ReadersDrain, Awaited
  <2> QED  BY <1>14, <2>1, <2>2, <2>3, NoResultYet DEF CommandInv, DeadlinePasses
<1> QED
  BY <1>1, <1>2, <1>3, <1>4, <1>5, <1>6, <1>7, <1>8, <1>9, <1>10, <1>11, <1>12, <1>13, <1>14
  DEF CommandNext

\* The result of a command accounts for its output and its processes (exec.rs: run,
\* read_capped, truncate_combined; command_tool.rs; verifiers.rs), for every limit, every
\* output and every order of exits, readers, the deadline and a cancel.
THEOREM Accounted == CommandSpec => []ResultAccounts
<1>1. CommandInit => CommandInv
  BY CommandBegins
<1>2. CommandInv /\ [CommandNext]_commandVars => CommandInv'
  <2>1. ASSUME CommandInv, UNCHANGED commandVars PROVE CommandInv'
    <3>1. /\ command' = command /\ living' = living /\ streams' = streams
          /\ artifacts' = artifacts /\ late' = late /\ outcome' = outcome
      BY <2>1 DEF commandVars
    <3>2. CommandType' /\ StreamsCounted' /\ WithinLimit' /\ ReadersDrain'
      BY <2>1, <3>1 DEF CommandInv, CommandType, StreamsCounted, WithinLimit, ReadersDrain,
                        At, Kind, Awaited
    <3>3. ArtifactsKept' /\ PhasesAgree'
      BY <2>1, <3>1 DEF CommandInv, ArtifactsKept, PhasesAgree, At, Kind, Awaited
    <3>4. ResultAccounts'
      <4>1. ResultAccounts
        BY <2>1 DEF CommandInv
      <4> QED  BY <3>1, <4>1 DEF ResultAccounts, Kind
    <3> QED  BY <3>2, <3>3, <3>4 DEF CommandInv
  <2> QED  BY <2>1, CommandKept
<1>3. CommandInv => ResultAccounts
  BY DEF CommandInv
<1> QED  BY <1>1, <1>2, <1>3, PTL DEF CommandSpec

-----------------------------------------------------------------------------
(* ConfigLayers: every pair of files that the commands may leave. *)

Writes == [at : {"write"}, target : {"global", "workspace"}, file : Files]

\* The inductive invariant: layers are what a file can say, also those under way.
ConfigInv ==
  /\ globalFile \in Files \cup {NoFile} /\ workspaceFile \in Files \cup {NoFile}
  /\ legacy \in BOOLEAN /\ keychain \in BOOLEAN
  /\ environment \in Layers /\ flags \in Layers
  /\ underway \in [Commands -> Writes \cup {NoCommand}]

LEMMA EmptyIsAFile == Empty \in Files
<1>1. [s \in Settings |-> Unset] \in Layers
  BY DEF Layers
<1>2. [p \in Profiles |-> NoProfile] \in [Profiles -> Models \cup {NoProfile, Unset}]
  OBVIOUS
<1>3. {} \in SUBSET Credentials /\ {} \in SUBSET Names /\ Unset \in (SUBSET Entries) \cup {Unset}
  OBVIOUS
<1> QED  BY <1>1, <1>2, <1>3, Zenon DEF Empty, Files

LEMMA ReadsAFile == ASSUME NEW f \in Files \cup {NoFile} PROVE Read(f) \in Files
  BY EmptyIsAFile DEF Read

LEMMA FileFields ==
  ASSUME NEW f \in Files
  PROVE  /\ f.settings \in Layers /\ f.profiles \in [Profiles -> Models \cup {NoProfile, Unset}]
         /\ f.credentials \subseteq Credentials
         /\ f.allow \in (SUBSET Entries) \cup {Unset} /\ f.deny \in (SUBSET Entries) \cup {Unset}
         /\ f.disabled \subseteq Names /\ f.active \subseteq Names
  BY DEF Files

LEMMA ConfigBegins == ASSUME ConfigInit PROVE ConfigInv
<1>1. PICK files \in InitialFiles : globalFile = files[1] /\ workspaceFile = files[2]
  BY DEF ConfigInit
<1>2. files \in (Files \cup {NoFile}) \X (Files \cup {NoFile})
  BY <1>1, FilesAssumption
<1>3. environment \in Layers /\ flags \in Layers
  BY FilesAssumption DEF ConfigInit
<1> QED  BY <1>1, <1>2, <1>3 DEF ConfigInit, ConfigInv

\* A command that has read a layer writes a layer.
LEMMA RewriteKeeps ==
  ASSUME ConfigInv, NEW c \in Commands, NEW target \in {"global", "workspace"}, NEW copy \in Files,
         Rewrite(c, target, copy), keychain' \in BOOLEAN,
         UNCHANGED <<globalFile, workspaceFile, legacy, environment, flags>>
  PROVE  ConfigInv'
<1>1. [at |-> "write", target |-> target, file |-> copy] \in Writes
  BY DEF Writes
<1> QED  BY <1>1 DEF ConfigInv, Rewrite

LEMMA ConfigKept == ASSUME ConfigInv, ConfigNext PROVE ConfigInv'
<1>r. Read(globalFile) \in Files /\ Read(workspaceFile) \in Files
  BY ReadsAFile DEF ConfigInv
<1>1. ASSUME NEW c \in Commands, NEW profile \in Profiles, UseProfile(c, profile) PROVE ConfigInv'
  <2> DEFINE target == IF workspaceFile # NoFile THEN "workspace" ELSE "global"
             file == IF target = "workspace" THEN workspaceFile ELSE globalFile
             copy == [Read(file) EXCEPT !.settings["profile"] = profile]
  <2>1. Read(file) \in Files /\ target \in {"global", "workspace"}
    BY <1>r
  <2>2. copy \in Files
    BY <2>1 DEF Files, Layers, Values, Settings
  <2>3. Rewrite(c, target, copy) /\ UNCHANGED <<globalFile, workspaceFile, legacy, environment, flags, keychain>>
    BY <1>1 DEF UseProfile
  <2> HIDE DEF target, copy
  <2> QED  BY <2>1, <2>2, <2>3, RewriteKeeps DEF ConfigInv
<1>2. ASSUME NEW c \in Commands, NEW name \in Names, NEW on \in BOOLEAN, SetDisabled(c, name, on)
      PROVE  ConfigInv'
  <2> DEFINE copy == [Read(workspaceFile) EXCEPT
                        !.disabled = IF on THEN @ \cup {name} ELSE @ \ {name}]
  <2>1. copy \in Files
    BY <1>r DEF Files
  <2>2. Rewrite(c, "workspace", copy) /\ UNCHANGED <<globalFile, workspaceFile, legacy, environment, flags, keychain>>
    BY <1>2 DEF SetDisabled
  <2> HIDE DEF copy
  <2> QED  BY <2>1, <2>2, RewriteKeeps DEF ConfigInv
<1>3. ASSUME NEW c \in Commands, NEW name \in Names, NEW on \in BOOLEAN, SetActive(c, name, on)
      PROVE  ConfigInv'
  <2> DEFINE copy == [Read(workspaceFile) EXCEPT
                        !.active = IF on THEN @ \cup {name} ELSE @ \ {name}]
  <2>1. copy \in Files
    BY <1>r DEF Files
  <2>2. Rewrite(c, "workspace", copy) /\ UNCHANGED <<globalFile, workspaceFile, legacy, environment, flags, keychain>>
    BY <1>3 DEF SetActive
  <2> HIDE DEF copy
  <2> QED  BY <2>1, <2>2, RewriteKeeps DEF ConfigInv
<1>4. ASSUME NEW c \in Commands, NEW profile \in Profiles, NEW inKeychain \in BOOLEAN,
             NEW asDefault \in BOOLEAN, Connect(c, profile, inKeychain, asDefault)
      PROVE  ConfigInv'
  <2> DEFINE connected == [Read(globalFile) EXCEPT
                             !.credentials = {IF inKeychain THEN "auth_ref" ELSE "api_key_env"}]
             copy == IF asDefault
                     THEN [connected EXCEPT !.profiles[profile] = Unset, !.settings["profile"] = profile]
                     ELSE connected
  <2>1. connected \in Files
    BY <1>r DEF Files, Credentials
  <2>2. Rewrite(c, "global", copy) /\ UNCHANGED <<globalFile, workspaceFile, legacy, environment, flags>>
    BY <1>4 DEF Connect
  <2>3. keychain' \in BOOLEAN
    BY <1>4 DEF Connect
  <2> HIDE DEF connected
  <2>4. copy \in Files
    BY <2>1 DEF Files, Layers, Values, Settings
  <2> HIDE DEF copy
  <2> QED  BY <2>2, <2>3, <2>4, RewriteKeeps
<1>5. ASSUME NEW c \in Commands, Disconnect(c) PROVE ConfigInv'
  <2> DEFINE without == [globalFile EXCEPT !.credentials = {},
                                           !.profiles = [p \in Profiles |-> NoProfile]]
  <2>1. without \in Files
    BY <1>5 DEF Disconnect, ConfigInv, Files
  <2>2. PICK last : Rewrite(c, "global", IF last = without.settings["profile"]
                                         THEN [without EXCEPT !.settings["profile"] = Unset]
                                         ELSE without)
    BY <1>5 DEF Disconnect
  <2>3. keychain' = FALSE /\ UNCHANGED <<globalFile, workspaceFile, legacy, environment, flags>>
    BY <1>5 DEF Disconnect
  <2> HIDE DEF without
  <2> DEFINE copy == IF last = without.settings["profile"]
                     THEN [without EXCEPT !.settings["profile"] = Unset] ELSE without
  <2>4. copy \in Files
    BY <2>1 DEF Files, Layers, Settings
  <2> HIDE DEF copy
  <2>5. Rewrite(c, "global", copy)
    BY <2>2 DEF copy
  <2> QED  BY <2>3, <2>4, <2>5, RewriteKeeps
<1>6. ASSUME NEW c \in Commands, WriteFile(c) PROVE ConfigInv'
  <2>1. underway[c] \in Writes
    BY <1>6 DEF WriteFile, ConfigInv, NoCommand
  <2>2. underway[c].file \in Files
    BY <2>1 DEF Writes
  <2> QED  BY <1>6, <2>2 DEF WriteFile, ConfigInv
<1> QED  BY <1>1, <1>2, <1>3, <1>4, <1>5, <1>6 DEF ConfigNext

\* What a list says is in the union of the layers.
LEMMA UnionHolds ==
  ASSUME NEW low \in (SUBSET Entries) \cup {Unset}, NEW high \in (SUBSET Entries) \cup {Unset}
  PROVE  /\ low # Unset => Union(low, high) # Unset /\ low \subseteq Union(low, high)
         /\ high # Unset => Union(low, high) # Unset /\ high \subseteq Union(low, high)
<1>1. Unset \notin SUBSET Entries
  BY ConfigAssumption
<1>2. CASE low = Unset
  BY <1>2 DEF Union
<1>3. CASE low # Unset /\ high = Unset
  BY <1>3 DEF Union
<1>4. CASE low # Unset /\ high # Unset
  <2>1. low \in SUBSET Entries /\ high \in SUBSET Entries /\ Union(low, high) = low \cup high
    BY <1>4 DEF Union
  <2>2. low \cup high \in SUBSET Entries
    BY <2>1
  <2>3. Union(low, high) # Unset
    BY <1>1, <2>1, <2>2, Zenon
  <2> QED  BY <2>1, <2>3
<1> QED  BY <1>2, <1>3, <1>4

\* What loads keeps the promises of the layers (config.rs: merge, merge_unions,
\* merge_provider_config, explain_config; docs/v0.1/configuration.md), for every set of
\* profiles, models, list entries and credentials that the files may have.
THEOREM LayersKeepPromises == ConfigSpec => []LayersRespected
<1>1. ConfigInit => ConfigInv
  BY ConfigBegins
<1>2. ConfigInv /\ [ConfigNext]_configVars => ConfigInv'
  <2>1. ASSUME ConfigInv, UNCHANGED configVars PROVE ConfigInv'
    BY <2>1 DEF configVars, ConfigInv
  <2> QED  BY <2>1, ConfigKept
<1>3. ConfigInv => LayersRespected
  <2> SUFFICES ASSUME ConfigInv, Loads(globalFile, workspaceFile) PROVE LayersRespected
    BY DEF LayersRespected
  <2> DEFINE global == Read(globalFile)  workspace == Read(workspaceFile)
             config == Current
  <2>1. global \in Files /\ workspace \in Files
    BY ReadsAFile DEF ConfigInv
  <2>2. /\ config.deny = Union(global.deny, workspace.deny)
        /\ config.credentials = IF workspace.credentials # {} THEN workspace.credentials
                                ELSE global.credentials
        /\ \A s \in Settings : config.settings[s] =
             Above(Above(Above(global.settings[s], workspace.settings[s]), environment[s]), flags[s])
    BY DEF Current, Effective, Merge
  <2>3. /\ global.deny # Unset => global.deny \subseteq DeniedEntries(config)
        /\ workspace.deny # Unset => workspace.deny \subseteq DeniedEntries(config)
    BY <2>1, <2>2, FileFields, UnionHolds DEF DeniedEntries, WithDefault
  <2>4. \A file \in {globalFile, workspaceFile} :
          file # NoFile /\ file.deny # Unset => file.deny \subseteq DeniedEntries(config)
    BY <2>3 DEF Read
  <2>5. Cardinality(config.credentials) <= 1 /\ workspace.credentials \in {{}, config.credentials}
    BY <2>2 DEF Loads, ValidLayer
  <2>6. \A s \in Settings : ExplainedValue(s) = config.settings[s]
    BY <2>2 DEF ExplainedValue, ExplainedLayer, Above, Read, Empty
  <2>7. ExplainedDenied \subseteq DeniedEntries(config)
    <3>1. CASE workspace.deny # Unset
      BY <2>3, <3>1 DEF ExplainedDenied, Read, Empty
    <3>2. CASE workspace.deny = Unset /\ global.deny # Unset
      BY <2>3, <3>2 DEF ExplainedDenied, Read, Empty
    <3>3. CASE workspace.deny = Unset /\ global.deny = Unset
      BY <2>2, <3>3 DEF ExplainedDenied, DeniedEntries, WithDefault, Union
    <3> QED  BY <3>1, <3>2, <3>3
  <2> QED  BY <2>4, <2>5, <2>6, <2>7 DEF LayersRespected
<1> QED  BY <1>1, <1>2, <1>3, PTL DEF ConfigSpec

-----------------------------------------------------------------------------
(* Terminal. *)

Screens ==
  [modal : Modals, focus : Focuses, sidebar : BOOLEAN, details : BOOLEAN, request : Nat,
   session : SessionNames, parent : Nat, tree : SessionNames \cup {NoName},
   running : BOOLEAN, open : BOOLEAN]
Messages ==
  [kind : {"ApprovalRequest", "RunCompleted"}, result : {"none", "Ok", "Failed", "Cancelled"},
   run : Nat, question : Nat]
Jobs ==
  [at : {"none", "starting", "running", "waiting"},
   kind : {"none", "continue", "resume", "branch"}, session : SessionNames \cup {NoName},
   parent : Nat, run : Nat, question : Nat, cancelled : BOOLEAN]
Decisions == {"none", "Approve", "Deny", "another's"}

TerminalType ==
  /\ ui \in Screens /\ approval_tx \in Nat
  /\ bridge \in Seq(Messages) /\ job \in Jobs /\ jobs \in Nat
  /\ replies \in Seq(Decisions) /\ stored \in Seq(SessionNames)
  /\ connects \in [begun : Nat, pending : Nat]

\* Runs that the screen, the task or a message names are in the run log.
RunsKnown ==
  /\ ui.parent <= Len(stored) /\ (ui.parent # 0 => stored[ui.parent] = ui.session)
  /\ job.at # "none" => job.session \in SessionNames /\ job.parent <= Len(stored)
  /\ job.at \in {"running", "waiting"} => job.run \in DOMAIN stored
  /\ \A i \in DOMAIN bridge : bridge[i].result = "Ok" => bridge[i].run \in DOMAIN stored

\* While the screen says that nothing runs, there is no task, message or question.
OneRun ==
  /\ jobs = IF job.at = "none" THEN 0 ELSE 1
  /\ ~ui.running => job.at = "none" /\ bridge = <<>> /\ approval_tx = 0
  /\ job.at \in {"starting", "running"} => bridge = <<>> /\ approval_tx = 0

\* On its way is at most the last question, unanswered, before the end of its run.
QuestionsInOrder ==
  /\ approval_tx = ui.request
  /\ approval_tx # 0 => approval_tx = Len(replies) /\ replies[Len(replies)] = "none"
  /\ job.at = "waiting" => job.question = Len(replies) /\ replies # <<>>
  /\ \A i \in DOMAIN bridge :
       /\ bridge[i].kind = "RunCompleted" => i = Len(bridge) /\ job.at = "none"
       /\ bridge[i].kind = "ApprovalRequest" =>
            /\ i = 1 /\ approval_tx = 0
            /\ replies # <<>> /\ bridge[i].question = Len(replies)
            /\ replies[Len(replies)] = "none"

\* The first connection is made in the wizard, before any run.
WizardFirst ==
  /\ connects.pending <= connects.begun
  /\ ui.modal = "Onboarding" => ~ui.running
  /\ connects.begun <= 1 /\ connects.pending > 0 => ui.modal = "Onboarding"

\* The other parts of ScreenAgrees.
ScreenTrue ==
  /\ ui.tree \in {NoName, ui.session}
  /\ ui.focus = "LineageTree" => ui.sidebar
  /\ ui.focus = "Details" => ui.details
  /\ \A q \in DOMAIN replies : replies[q] # "another's"
  /\ ui.modal = "Approval" => ui.request # 0
  /\ job.at = "waiting" /\ replies[Len(replies)] = "none" =>
       \/ bridge # <<>>
       \/ ui.request = job.question /\ (connects.begun <= 1 => ui.modal = "Approval")

TerminalInv ==
  TerminalType /\ RunsKnown /\ OneRun /\ QuestionsInOrder /\ WizardFirst /\ ScreenTrue

LEMMA ScreenFields ==
  ASSUME NEW u \in Screens
  PROVE  /\ u.modal \in Modals /\ u.focus \in Focuses /\ u.sidebar \in BOOLEAN
         /\ u.details \in BOOLEAN /\ u.request \in Nat /\ u.session \in SessionNames
         /\ u.parent \in Nat /\ u.tree \in SessionNames \cup {NoName}
         /\ u.running \in BOOLEAN /\ u.open \in BOOLEAN
  BY DEF Screens

LEMMA JobFields ==
  ASSUME NEW j \in Jobs
  PROVE  /\ j.at \in {"none", "starting", "running", "waiting"}
         /\ j.session \in SessionNames \cup {NoName} /\ j.parent \in Nat /\ j.run \in Nat
         /\ j.question \in Nat /\ j.cancelled \in BOOLEAN
  BY DEF Jobs

LEMMA NoJobTyped == NoJob \in Jobs /\ NoJob.at = "none"
  BY DEF NoJob, Jobs

LEMMA TerminalTruth == ASSUME TerminalInv PROVE ScreenAgrees
<1>1. jobs <= 1 /\ (jobs = 1 => ui.running)
  BY JobFields DEF TerminalInv, OneRun
<1>2. ui.request # 0 => approval_tx = ui.request
  BY DEF TerminalInv, QuestionsInOrder
<1>3. ASSUME job.at = "waiting", replies[job.question] = "none"
      PROVE  \/ \E i \in DOMAIN bridge : bridge[i].question = job.question
             \/ ui.request = job.question /\ (connects.begun <= 1 => ui.modal = "Approval")
  <2>1. job.question = Len(replies)
    BY <1>3 DEF TerminalInv, QuestionsInOrder
  <2>2. CASE bridge # <<>>
    <3>1. 1 \in DOMAIN bridge /\ bridge[1] \in Messages
      BY <2>2, EmptySeq, LenProperties, ElementOfSeq DEF TerminalInv, TerminalType
    <3>2. bridge[1].kind = "ApprovalRequest"
      BY <1>3, <3>1 DEF TerminalInv, QuestionsInOrder, Messages
    <3>3. bridge[1].question = Len(replies)
      BY <3>1, <3>2 DEF TerminalInv, QuestionsInOrder
    <3> QED  BY <2>1, <3>1, <3>3
  <2>3. CASE bridge = <<>>
    BY <1>3, <2>1, <2>3 DEF TerminalInv, ScreenTrue
  <2> QED  BY <2>2, <2>3
<1> QED
  BY <1>1, <1>2, <1>3 DEF TerminalInv, ScreenTrue, RunsKnown, ScreenAgrees

LEMMA TerminalBegins == ASSUME TerminalInit PROVE TerminalInv
<1>1. PICK onboarding \in BOOLEAN, resumed \in BOOLEAN, prompted \in BOOLEAN, s \in SessionNames :
        LET parent == IF resumed THEN 1 ELSE 0
            starts == (resumed \/ prompted) /\ ~onboarding
        IN /\ stored = IF resumed THEN <<s>> ELSE <<>>
           /\ ui = [modal |-> IF onboarding THEN "Onboarding" ELSE "None", focus |-> "ChatPrompt",
                    sidebar |-> FALSE, details |-> FALSE, request |-> 0,
                    session |-> s, parent |-> parent, tree |-> s, running |-> starts, open |-> TRUE]
           /\ approval_tx = 0 /\ bridge = <<>> /\ replies = <<>>
           /\ connects = [begun |-> 0, pending |-> 0]
           /\ job = IF ~starts THEN NoJob
                    ELSE [NoJob EXCEPT !.at = "starting", !.session = s, !.parent = parent,
                                       !.kind = IF resumed THEN "resume" ELSE "continue"]
           /\ jobs = IF starts THEN 1 ELSE 0
  BY DEF TerminalInit
<1> DEFINE parent == IF resumed THEN 1 ELSE 0
           starts == (resumed \/ prompted) /\ ~onboarding
<1>2. stored \in Seq(SessionNames) /\ parent <= Len(stored) /\ (parent # 0 => stored[parent] = s)
  BY <1>1
<1>3. /\ ui \in Screens /\ ui.modal = (IF onboarding THEN "Onboarding" ELSE "None")
      /\ ui.focus = "ChatPrompt" /\ ui.request = 0 /\ ui.session = s /\ ui.parent = parent
      /\ ui.tree = s /\ ui.running = starts
  BY <1>1 DEF Screens, Modals, Focuses
<1>4. /\ job \in Jobs /\ job.at = IF starts THEN "starting" ELSE "none"
      /\ job.at # "none" => job.session = s /\ job.parent = parent
  BY <1>1, NoJobTyped DEF NoJob, Jobs
<1>5. /\ bridge = <<>> /\ replies = <<>> /\ approval_tx = 0 /\ jobs = IF starts THEN 1 ELSE 0
      /\ connects.begun = 0 /\ connects.pending = 0 /\ connects \in [begun : Nat, pending : Nat]
      /\ DOMAIN bridge = {} /\ DOMAIN replies = {} /\ Len(replies) = 0
  BY <1>1
<1>6. TerminalType
  BY <1>2, <1>3, <1>4, <1>5 DEF TerminalType
<1>7. RunsKnown /\ OneRun
  BY <1>2, <1>3, <1>4, <1>5 DEF RunsKnown, OneRun
<1>8. QuestionsInOrder
  BY <1>3, <1>4, <1>5 DEF QuestionsInOrder
<1>w. WizardFirst
  <2>1. onboarding => ~ui.running
    BY <1>3
  <2>2. ui.modal = "Onboarding" => onboarding
    BY <1>3
  <2>3. 0 <= 0 /\ ~(0 > 0)
    OBVIOUS
  <2> QED  BY <1>5, <2>1, <2>2, <2>3 DEF WizardFirst
<1>9. ScreenTrue
  BY <1>3, <1>4, <1>5 DEF ScreenTrue
<1> QED  BY <1>6, <1>7, <1>8, <1>w, <1>9 DEF TerminalInv

\* The run and the bridge.

LEMMA StoredGrows ==
  ASSUME TerminalInv, NEW s \in SessionNames, stored' = Append(stored, s)
  PROVE  /\ stored' \in Seq(SessionNames) /\ Len(stored') = Len(stored) + 1
         /\ DOMAIN stored \subseteq DOMAIN stored' /\ Len(stored') \in DOMAIN stored'
         /\ \A r \in DOMAIN stored : stored'[r] = stored[r]
         /\ stored'[Len(stored')] = s
         /\ ui.parent <= Len(stored') /\ (ui.parent # 0 => stored'[ui.parent] = ui.session)
  BY AppendProperties, LenProperties, ScreenFields DEF TerminalInv, TerminalType, RunsKnown

LEMMA RunStartsKeeps == ASSUME TerminalInv, RunStarts PROVE TerminalInv'
<1>t. /\ ui \in Screens /\ bridge \in Seq(Messages) /\ job \in Jobs /\ stored \in Seq(SessionNames)
      /\ jobs = 1 /\ bridge = <<>> /\ approval_tx = 0 /\ ui.running
      /\ job.at = "starting" /\ job.session \in SessionNames /\ job.parent <= Len(stored)
  BY DEF TerminalInv, TerminalType, OneRun, RunsKnown, RunStarts
<1>1. CASE /\ stored' = Append(stored, IF job.kind = "continue" \/ job.parent = 0 THEN job.session
                                       ELSE stored[job.parent])
           /\ job' = [job EXCEPT !.at = "running", !.run = Len(stored')]
           /\ UNCHANGED <<bridge, jobs>>
  <2> DEFINE name == IF job.kind = "continue" \/ job.parent = 0 THEN job.session
                     ELSE stored[job.parent]
  <2>1. name \in SessionNames
    BY <1>t, JobFields, ElementOfSeq
  <2> HIDE DEF name
  <2>2. stored' = Append(stored, name)
    BY <1>1 DEF name
  <2>3. /\ stored' \in Seq(SessionNames) /\ Len(stored') = Len(stored) + 1
        /\ Len(stored') \in DOMAIN stored'
        /\ ui.parent <= Len(stored') /\ (ui.parent # 0 => stored'[ui.parent] = ui.session)
    BY <2>1, <2>2, StoredGrows
  <2>4. Len(stored') \in Nat /\ Len(stored) \in Nat
    BY <1>t, <2>3, LenProperties
  <2>5. /\ job' \in Jobs /\ job'.at = "running" /\ job'.run = Len(stored')
        /\ job'.session = job.session /\ job'.parent = job.parent
    BY <1>1, <1>t, <2>4 DEF Jobs
  <2>6. TerminalType'
    BY <1>1, <2>3, <2>5 DEF RunStarts, TerminalInv, TerminalType
  <2>7. RunsKnown'
    <3>1. job.parent \in Nat /\ UNCHANGED ui /\ DOMAIN bridge' = {}
      BY <1>1, <1>t, JobFields DEF RunStarts
    <3> QED  BY <1>t, <2>3, <2>4, <2>5, <3>1 DEF RunsKnown
  <2>8. OneRun' /\ QuestionsInOrder' /\ WizardFirst' /\ ScreenTrue'
    BY <1>1, <1>t, <2>5 DEF RunStarts, TerminalInv, OneRun, QuestionsInOrder, WizardFirst, ScreenTrue
  <2> QED  BY <2>6, <2>7, <2>8 DEF TerminalInv
<1>2. CASE Send(Completed("Failed", 0)) /\ job' = NoJob /\ jobs' = jobs - 1 /\ UNCHANGED stored
  <2> DEFINE m == Completed("Failed", 0)
  <2>1. m \in Messages /\ m.kind = "RunCompleted" /\ m.result = "Failed"
    BY DEF Completed, Messages
  <2> HIDE DEF m
  <2>2. /\ bridge' = <<m>> /\ bridge' \in Seq(Messages) /\ Len(bridge') = 1 /\ DOMAIN bridge' = {1}
        /\ bridge'[1] = m
    BY <1>2, <1>t, <2>1 DEF Send, m
  <2>3. job' \in Jobs /\ job'.at = "none" /\ jobs' = 0
    BY <1>2, <1>t, NoJobTyped
  <2>4. TerminalType' /\ RunsKnown' /\ OneRun'
    BY <1>2, <1>t, <2>1, <2>2, <2>3 DEF RunStarts, TerminalInv, TerminalType, RunsKnown, OneRun
  <2>5. QuestionsInOrder'
    BY <1>2, <1>t, <2>1, <2>2, <2>3 DEF RunStarts, TerminalInv, QuestionsInOrder
  <2>6. WizardFirst' /\ ScreenTrue'
    BY <1>2, <1>t, <2>3 DEF RunStarts, TerminalInv, WizardFirst, ScreenTrue
  <2> QED  BY <2>4, <2>5, <2>6 DEF TerminalInv
<1> QED  BY <1>1, <1>2 DEF RunStarts

LEMMA RunAsksKeeps == ASSUME TerminalInv, RunAsks PROVE TerminalInv'
<1>t. /\ ui \in Screens /\ bridge = <<>> /\ job \in Jobs /\ job.at = "running"
      /\ replies \in Seq(Decisions) /\ approval_tx = 0 /\ ui.request = 0 /\ jobs = 1 /\ ui.running
      /\ job.run \in DOMAIN stored /\ job.run \in Nat
  BY JobFields DEF TerminalInv, TerminalType, OneRun, RunsKnown, QuestionsInOrder, RunAsks
<1>1. /\ replies' = Append(replies, "none") /\ replies' \in Seq(Decisions)
      /\ Len(replies') = Len(replies) + 1 /\ Len(replies') \in Nat /\ replies' # <<>>
      /\ replies'[Len(replies')] = "none"
      /\ DOMAIN replies' = 1..(Len(replies) + 1) /\ DOMAIN replies = 1..Len(replies)
      /\ \A q \in 1..Len(replies) : replies'[q] = replies[q]
  BY <1>t, AppendProperties, LenProperties DEF RunAsks, Decisions
<1> DEFINE m == [kind |-> "ApprovalRequest", result |-> "none", run |-> job.run,
                 question |-> Len(replies')]
<1>2. m \in Messages /\ m.kind = "ApprovalRequest" /\ m.result = "none" /\ m.question = Len(replies')
  BY <1>t, <1>1 DEF Messages
<1>3. bridge' = Append(<<>>, m)
  BY <1>t DEF RunAsks, Send
<1> HIDE DEF m
<1>4. /\ bridge' = <<m>> /\ bridge' \in Seq(Messages) /\ Len(bridge') = 1 /\ DOMAIN bridge' = {1}
      /\ bridge'[1] = m /\ bridge' # <<>>
  BY <1>2, <1>3
<1>5. /\ job' \in Jobs /\ job'.at = "waiting" /\ job'.question = Len(replies')
      /\ job'.session = job.session /\ job'.parent = job.parent /\ job'.run = job.run
  BY <1>t, <1>1 DEF RunAsks, Jobs
<1>6. UNCHANGED <<ui, approval_tx, jobs, connects, stored>>
  BY DEF RunAsks
<1>7. TerminalType'
  BY <1>1, <1>4, <1>5, <1>6 DEF TerminalInv, TerminalType
<1>8. RunsKnown' /\ OneRun' /\ WizardFirst'
  BY <1>t, <1>2, <1>4, <1>5, <1>6 DEF TerminalInv, RunsKnown, OneRun, WizardFirst
<1>9. QuestionsInOrder'
  BY <1>t, <1>1, <1>2, <1>4, <1>5, <1>6 DEF QuestionsInOrder
<1>10. ScreenTrue'
  BY <1>t, <1>1, <1>4, <1>6 DEF TerminalInv, ScreenTrue
<1> QED  BY <1>7, <1>8, <1>9, <1>10 DEF TerminalInv

LEMMA RunIsAnsweredKeeps == ASSUME TerminalInv, RunIsAnswered PROVE TerminalInv'
<1>t. /\ job \in Jobs /\ job.at = "waiting" /\ job.question = Len(replies)
      /\ replies[Len(replies)] # "none" /\ bridge \in Seq(Messages) /\ replies \in Seq(Decisions)
      /\ approval_tx = 0 /\ jobs = 1 /\ ui.running /\ ui \in Screens
  BY DEF TerminalInv, TerminalType, QuestionsInOrder, OneRun, RunIsAnswered
<1>1. bridge = <<>>
  <2>1. SUFFICES ASSUME bridge # <<>> PROVE FALSE
    OBVIOUS
  <2>2. 1 \in DOMAIN bridge /\ bridge[1] \in Messages
    BY <1>t, <2>1, EmptySeq, LenProperties, ElementOfSeq
  <2> QED  BY <1>t, <2>2 DEF TerminalInv, QuestionsInOrder, Messages
<1>2. job' \in Jobs /\ job'.at = "running" /\ job'.session = job.session
      /\ job'.parent = job.parent /\ job'.run = job.run
  BY <1>t DEF RunIsAnswered, Jobs
<1>3. UNCHANGED <<ui, approval_tx, bridge, jobs, replies, connects, stored>>
  BY DEF RunIsAnswered
<1>4. TerminalType' /\ RunsKnown' /\ OneRun'
  BY <1>t, <1>1, <1>2, <1>3 DEF TerminalInv, TerminalType, RunsKnown, OneRun
<1>5. QuestionsInOrder' /\ WizardFirst' /\ ScreenTrue'
  BY <1>t, <1>1, <1>2, <1>3 DEF TerminalInv, QuestionsInOrder, WizardFirst, ScreenTrue
<1> QED  BY <1>4, <1>5 DEF TerminalInv

\* The end of a run is the last message.
LEMMA RunEndsKeeps == ASSUME TerminalInv, RunEnds PROVE TerminalInv'
<1>t. /\ job \in Jobs /\ job.at \in {"running", "waiting"} /\ ui \in Screens /\ bridge \in Seq(Messages)
      /\ job.run \in DOMAIN stored /\ job.run \in Nat /\ jobs = 1 /\ ui.running
  BY JobFields DEF TerminalInv, TerminalType, OneRun, RunsKnown, RunEnds
<1>1. PICK result \in {"Ok", "Failed", "Cancelled"} : Send(Completed(result, job.run))
  BY DEF RunEnds
<1> DEFINE m == Completed(result, job.run)
<1>2. /\ m \in Messages /\ m.kind = "RunCompleted" /\ m.run \in DOMAIN stored
  BY <1>t DEF Completed, Messages
<1> HIDE DEF m
<1>3. /\ bridge' = Append(bridge, m) /\ bridge' \in Seq(Messages) /\ Len(bridge') = Len(bridge) + 1
      /\ DOMAIN bridge' = 1..(Len(bridge) + 1) /\ DOMAIN bridge = 1..Len(bridge) /\ Len(bridge) \in Nat
      /\ \A i \in 1..Len(bridge) : bridge'[i] = bridge[i]
      /\ bridge'[Len(bridge) + 1] = m /\ bridge' # <<>>
  BY <1>1, <1>2, <1>t, AppendProperties, LenProperties DEF Send, m
<1>4. job' \in Jobs /\ job'.at = "none" /\ jobs' = 0
  BY <1>t, NoJobTyped DEF RunEnds
<1>5. UNCHANGED <<ui, approval_tx, replies, connects, stored>>
  BY DEF RunEnds
<1>6. \A i \in 1..Len(bridge) : bridge[i].kind # "RunCompleted"
  BY <1>t, <1>3 DEF TerminalInv, QuestionsInOrder
<1>7. TerminalType' /\ RunsKnown' /\ OneRun'
  BY <1>t, <1>2, <1>3, <1>4, <1>5 DEF TerminalInv, TerminalType, RunsKnown, OneRun
<1>8. QuestionsInOrder'
  BY <1>t, <1>2, <1>3, <1>4, <1>5, <1>6 DEF TerminalInv, QuestionsInOrder
<1>9. WizardFirst' /\ ScreenTrue'
  BY <1>t, <1>4, <1>5 DEF TerminalInv, WizardFirst, ScreenTrue
<1> QED  BY <1>7, <1>8, <1>9 DEF TerminalInv

LEMMA OthersRunKeeps == ASSUME TerminalInv, OthersRun PROVE TerminalInv'
<1>0. PICK s \in SessionNames : stored' = Append(stored, s)
  BY DEF OthersRun
<1>1. /\ stored' \in Seq(SessionNames) /\ Len(stored') = Len(stored) + 1
      /\ DOMAIN stored \subseteq DOMAIN stored'
      /\ ui.parent <= Len(stored') /\ (ui.parent # 0 => stored'[ui.parent] = ui.session)
  BY <1>0, StoredGrows
<1>2. Len(stored) \in Nat /\ job.parent \in Nat
  BY LenProperties, JobFields DEF TerminalInv, TerminalType
<1>3. UNCHANGED <<ui, approval_tx, bridge, job, jobs, replies, connects>>
  BY DEF OthersRun
<1>4. TerminalType' /\ RunsKnown'
  BY <1>1, <1>2, <1>3 DEF TerminalInv, TerminalType, RunsKnown
<1>5. OneRun' /\ QuestionsInOrder' /\ WizardFirst' /\ ScreenTrue'
  BY <1>3 DEF TerminalInv, OneRun, QuestionsInOrder, WizardFirst, ScreenTrue
<1> QED  BY <1>4, <1>5 DEF TerminalInv

\* A message is taken from the front of the bridge.
LEMMA TakesMessageKeeps == ASSUME TerminalInv, TakesMessage PROVE TerminalInv'
<1> DEFINE m == Head(bridge)
<1>t. /\ ui \in Screens /\ bridge \in Seq(Messages) /\ bridge # <<>> /\ bridge' = Tail(bridge)
      /\ job \in Jobs /\ stored \in Seq(SessionNames) /\ replies \in Seq(Decisions)
      /\ ui.running /\ ui.parent \in Nat /\ Len(stored) \in Nat /\ Len(replies) \in Nat
      /\ UNCHANGED <<job, jobs, replies, connects, stored>>
  BY ScreenFields, LenProperties DEF TerminalInv, TerminalType, OneRun, TakesMessage
<1>1. /\ m = bridge[1] /\ m \in Messages /\ 1 \in DOMAIN bridge
      /\ bridge' \in Seq(Messages) /\ Len(bridge) \in Nat /\ Len(bridge) # 0
      /\ DOMAIN bridge = 1..Len(bridge) /\ DOMAIN bridge' = 1..(Len(bridge) - 1)
      /\ Len(bridge') = Len(bridge) - 1
      /\ \A i \in DOMAIN bridge' : i + 1 \in DOMAIN bridge /\ bridge'[i] = bridge[i + 1]
  BY <1>t, HeadTailProperties, LenProperties, EmptySeq
<1>2. bridge' = <<>> \/ Len(bridge) > 1
  BY <1>1, EmptySeq
<1> HIDE DEF m
<1>3. \A i \in DOMAIN bridge' : /\ bridge'[i].kind = "RunCompleted" /\ i = Len(bridge')
                                /\ job.at = "none"
                                /\ bridge'[i].result = "Ok" => bridge'[i].run \in DOMAIN stored
  <2> SUFFICES ASSUME NEW i \in DOMAIN bridge'
               PROVE  /\ bridge'[i].kind = "RunCompleted" /\ i = Len(bridge') /\ job.at = "none"
                      /\ bridge'[i].result = "Ok" => bridge'[i].run \in DOMAIN stored
    OBVIOUS
  <2>1. i + 1 \in DOMAIN bridge /\ bridge'[i] = bridge[i + 1] /\ bridge[i + 1] \in Messages /\ i \in Nat
        /\ i + 1 # 1
    BY <1>t, <1>1, ElementOfSeq
  <2>2. bridge[i + 1].kind = "RunCompleted"
    BY <2>1 DEF TerminalInv, QuestionsInOrder, Messages
  <2> QED  BY <1>1, <2>1, <2>2 DEF TerminalInv, QuestionsInOrder, RunsKnown
<1>4. CASE m.kind = "ApprovalRequest"
  <2>1. /\ approval_tx = 0 /\ replies # <<>> /\ m.question = Len(replies)
        /\ replies[Len(replies)] = "none" /\ m.question \in Nat
    BY <1>t, <1>1, <1>4 DEF TerminalInv, QuestionsInOrder
  <2>2. /\ approval_tx' = m.question
        /\ ui' = [ui EXCEPT !.request = m.question, !.modal = "Approval"]
    BY <1>4 DEF TakesMessage, ShowsRequest, m
  <2>3. /\ ui' \in Screens /\ ui'.request = m.question /\ ui'.modal = "Approval"
        /\ ui'.running = ui.running /\ ui'.parent = ui.parent /\ ui'.session = ui.session
        /\ ui'.tree = ui.tree /\ ui'.focus = ui.focus /\ ui'.sidebar = ui.sidebar
        /\ ui'.details = ui.details
    BY <1>t, <2>1, <2>2 DEF Screens, Modals
  <2>4. Len(replies) # 0
    BY <1>t, <2>1, EmptySeq
  <2>5. job.at \in {"waiting", "none"}
    BY <1>t, JobFields DEF TerminalInv, OneRun
  <2>6. ui.modal # "Onboarding" /\ connects.begun \in Nat /\ connects.pending \in Nat
    BY <1>t DEF TerminalInv, TerminalType, WizardFirst
  <2>7. TerminalType' /\ RunsKnown' /\ OneRun'
    BY <1>t, <1>1, <1>3, <2>1, <2>2, <2>3, <2>5 DEF TerminalInv, TerminalType, RunsKnown, OneRun
  <2>8. QuestionsInOrder'
    BY <1>t, <1>1, <1>3, <2>1, <2>2, <2>3 DEF TerminalInv, QuestionsInOrder
  <2>9. WizardFirst'
    BY <1>t, <2>3, <2>6 DEF TerminalInv, WizardFirst
  <2>10. ScreenTrue'
    BY <1>t, <2>1, <2>2, <2>3, <2>4 DEF TerminalInv, QuestionsInOrder, ScreenTrue
  <2> QED  BY <2>7, <2>8, <2>9, <2>10 DEF TerminalInv
<1>5. CASE m.kind = "RunCompleted"
  <2>1. job.at = "none" /\ Len(bridge) = 1 /\ (m.result = "Ok" => m.run \in DOMAIN stored)
    BY <1>t, <1>1, <1>5 DEF TerminalInv, QuestionsInOrder, RunsKnown
  <2>2. bridge' = <<>> /\ approval_tx' = 0 /\ ShowsResult(m)
    <3>1. ShowsResult(m)
      BY <1>5 DEF TakesMessage, m
    <3>2. approval_tx' = 0
      BY <3>1 DEF ShowsResult
    <3> QED  BY <1>1, <1>2, <2>1, <3>1, <3>2
  <2>3. /\ ui' \in Screens /\ ui'.running = FALSE /\ ui'.request = 0
        /\ ui'.modal \in {"None", "Notification"} /\ ui'.tree = ui'.session
        /\ ui'.focus = ui.focus /\ ui'.sidebar = ui.sidebar /\ ui'.details = ui.details
        /\ ui'.parent <= Len(stored) /\ (ui'.parent # 0 => stored[ui'.parent] = ui'.session)
    <3> DEFINE over == [ui EXCEPT !.running = FALSE, !.request = 0, !.modal = "None"]
    <3>1. /\ over \in Screens /\ over.running = FALSE /\ over.request = 0 /\ over.modal = "None"
          /\ over.focus = ui.focus /\ over.sidebar = ui.sidebar /\ over.details = ui.details
          /\ over.parent = ui.parent /\ over.session = ui.session
      BY <1>t DEF Screens, Modals
    <3>2. /\ ui.parent <= Len(stored) /\ (ui.parent # 0 => stored[ui.parent] = ui.session)
          /\ ui.session \in SessionNames /\ DOMAIN stored = 1..Len(stored)
      BY <1>t, ScreenFields, LenProperties DEF TerminalInv, RunsKnown
    <3>3. CASE m.result = "Ok"
      <4>1. m.run \in 1..Len(stored) /\ stored[m.run] \in SessionNames /\ m.run \in Nat
        BY <1>t, <2>1, <3>2, <3>3, ElementOfSeq
      <4>2. CASE ui' = [over EXCEPT !.parent = m.run, !.session = stored[m.run], !.tree = stored[m.run]]
        <5> DEFINE name == stored[m.run]  run == m.run
        <5>1. name \in SessionNames /\ run \in Nat /\ run <= Len(stored) /\ stored[run] = name
          BY <1>t, <4>1
        <5>2. ui' = [over EXCEPT !.parent = run, !.session = name, !.tree = name]
          BY <4>2
        <5> HIDE DEF over, name, run
        <5>3. ui' \in Screens
          BY <3>1, <5>1, <5>2 DEF Screens
        <5>4. /\ ui'.running = over.running /\ ui'.request = over.request /\ ui'.modal = over.modal
              /\ ui'.focus = over.focus /\ ui'.sidebar = over.sidebar /\ ui'.details = over.details
              /\ ui'.parent = run /\ ui'.session = name /\ ui'.tree = name
          BY <3>1, <5>2 DEF Screens
        <5> QED  BY <3>1, <5>1, <5>3, <5>4
      <4>3. CASE ui' = [over EXCEPT !.tree = ui.session]
        <5> HIDE DEF over
        <5> QED  BY <3>1, <3>2, <4>3 DEF Screens, Modals
      <4> QED  BY <2>2, <3>3, <4>2, <4>3 DEF ShowsResult
    <3>4. CASE m.result # "Ok"
      <4>1. PICK latest \in find_latest_run_id(ui.session) :
              ui' = [over EXCEPT !.parent = IF latest = 0 THEN @ ELSE latest, !.tree = ui.session,
                                 !.modal = IF m.result = "Failed" THEN "Notification" ELSE @]
        BY <2>2, <3>4 DEF ShowsResult
      <4>2. latest = 0 \/ (latest \in 1..Len(stored) /\ stored[latest] = ui.session)
        BY <3>2 DEF find_latest_run_id, InSession
      <4> HIDE DEF over
      <4> DEFINE parent == IF latest = 0 THEN over.parent ELSE latest
                 modal == IF m.result = "Failed" THEN "Notification" ELSE over.modal
      <4>3. /\ parent \in Nat /\ parent <= Len(stored) /\ (parent # 0 => stored[parent] = ui.session)
            /\ modal \in {"None", "Notification"}
        BY <1>t, <3>1, <3>2, <4>2
      <4>4. ui' = [over EXCEPT !.parent = parent, !.tree = ui.session, !.modal = modal]
        BY <4>1
      <4> HIDE DEF parent, modal
      <4> QED  BY <3>1, <3>2, <4>3, <4>4 DEF Screens, Modals
    <3> QED  BY <3>3, <3>4
  <2>4. TerminalType' /\ RunsKnown' /\ OneRun'
    BY <1>t, <2>1, <2>2, <2>3 DEF TerminalInv, TerminalType, RunsKnown, OneRun
  <2>5. QuestionsInOrder' /\ ScreenTrue'
    BY <1>t, <2>1, <2>2, <2>3 DEF TerminalInv, QuestionsInOrder, ScreenTrue
  <2>6. WizardFirst'
    BY <1>t, <2>3 DEF TerminalInv, WizardFirst
  <2> QED  BY <2>4, <2>5, <2>6 DEF TerminalInv
<1> QED  BY <1>1, <1>4, <1>5 DEF Messages

\* The result of a connection.
LEMMA TakesConnectionKeeps == ASSUME TerminalInv, TakesConnection PROVE TerminalInv'
<1>t. /\ ui \in Screens /\ connects \in [begun : Nat, pending : Nat]
      /\ connects.begun \in Nat /\ connects.pending \in Nat /\ connects.pending > 0
      /\ connects.pending <= connects.begun
      /\ UNCHANGED <<approval_tx, bridge, job, jobs, replies, stored>>
  BY DEF TerminalInv, TerminalType, WizardFirst, TakesConnection
<1>1. /\ connects' \in [begun : Nat, pending : Nat] /\ connects'.begun = connects.begun
      /\ connects'.pending = connects.pending - 1
  BY <1>t DEF TakesConnection
<1>2. /\ ui' \in Screens /\ (ui'.modal = "None" \/ ui'.modal = ui.modal)
      /\ ui'.request = ui.request /\ ui'.parent = ui.parent /\ ui'.session = ui.session
      /\ ui'.running = ui.running /\ ui'.focus = ui.focus /\ ui'.sidebar = ui.sidebar
      /\ ui'.details = ui.details /\ (ui'.tree = ui.session \/ ui'.tree = ui.tree)
  <2>1. ui.session \in SessionNames
    BY <1>t, ScreenFields
  <2>2. \/ ui' = ui
        \/ ui' = [ui EXCEPT !.modal = "None"]
        \/ ui' = [ui EXCEPT !.modal = "None", !.tree = ui.session]
    BY DEF TakesConnection
  <2>3. CASE ui' = ui
    BY <1>t, <2>3
  <2>4. CASE ui' # ui
    <3>1. \E place \in {ui.tree, ui.session} :
            ui' = [ui EXCEPT !.modal = "None", !.tree = place]
      BY <1>t, <2>2, <2>4 DEF Screens
    <3>2. PICK place \in {ui.tree, ui.session} :
            ui' = [ui EXCEPT !.modal = "None", !.tree = place]
      BY <3>1
    <3>3. place \in SessionNames \cup {NoName}
      BY <1>t, <2>1 DEF Screens
    <3> QED  BY <1>t, <3>2, <3>3 DEF Screens, Modals
  <2> QED  BY <2>3, <2>4
<1>3. TerminalType' /\ RunsKnown' /\ OneRun' /\ QuestionsInOrder'
  BY <1>t, <1>1, <1>2 DEF TerminalInv, TerminalType, RunsKnown, OneRun, QuestionsInOrder
<1>4. job.at = "waiting" => ui.running
  BY <1>t DEF TerminalInv, OneRun
<1>5. WizardFirst'
  BY <1>t, <1>1, <1>2 DEF TerminalInv, WizardFirst
<1>6. ScreenTrue'
  BY <1>t, <1>1, <1>2, <1>4 DEF TerminalInv, WizardFirst, ScreenTrue
<1> QED  BY <1>3, <1>5, <1>6 DEF TerminalInv

\* Keys that change the screen only.
LEMMA ShowsKeeps ==
  ASSUME TerminalInv, NEW screen \in Screens, Shows(screen),
         screen.request = ui.request, screen.running = ui.running,
         screen.parent <= Len(stored),
         screen.parent # 0 => stored[screen.parent] = screen.session,
         screen.tree \in {NoName, screen.session},
         screen.focus = "LineageTree" => screen.sidebar,
         screen.focus = "Details" => screen.details,
         screen.modal = "Approval" <=> ui.modal = "Approval",
         screen.modal = "Onboarding" <=> ui.modal = "Onboarding"
  PROVE  TerminalInv'
<1>1. ui' = screen /\ UNCHANGED <<approval_tx, bridge, job, jobs, replies, connects, stored>>
  BY DEF Shows
<1>2. TerminalType' /\ RunsKnown' /\ OneRun' /\ QuestionsInOrder'
  BY <1>1 DEF TerminalInv, TerminalType, RunsKnown, OneRun, QuestionsInOrder
<1>3. WizardFirst' /\ ScreenTrue'
  BY <1>1 DEF TerminalInv, WizardFirst, ScreenTrue
<1> QED  BY <1>2, <1>3 DEF TerminalInv

\* A decision answers the question that is shown, which is the last one.
LEMMA DecidesKeeps ==
  ASSUME TerminalInv, ui.modal = "Approval", NEW decision \in {"Approve", "Deny"}, Decides(decision)
  PROVE  TerminalInv'
<1> DEFINE n == Len(replies)
<1>t. /\ ui \in Screens /\ replies \in Seq(Decisions) /\ n \in Nat /\ approval_tx \in Nat
      /\ DOMAIN replies = 1..n
      /\ approval_tx = n /\ n # 0 /\ ui.request = n /\ replies[n] = "none"
  BY LenProperties DEF TerminalInv, TerminalType, QuestionsInOrder, ScreenTrue
<1>1. replies' = [replies EXCEPT ![n] = decision]
  BY <1>t DEF Decides
<1>i. n \in 1..n /\ decision \in Decisions
  BY <1>t DEF Decisions
<1> HIDE DEF n
<1>e. /\ replies' \in Seq(Decisions) /\ Len(replies') = n
      /\ replies'[n] = decision /\ \A q \in 1..n : q # n => replies'[q] = replies[q]
  <2>1. replies \in Seq(Decisions) /\ n \in 1..Len(replies) /\ n = Len(replies)
    BY <1>t, <1>i DEF n
  <2>2. /\ [replies EXCEPT ![n] = decision] \in Seq(Decisions)
        /\ Len([replies EXCEPT ![n] = decision]) = Len(replies)
        /\ \A q \in 1..Len(replies) :
             [replies EXCEPT ![n] = decision][q] = IF q = n THEN decision ELSE replies[q]
    BY <2>1, <1>i, ExceptSeq
  <2> QED  BY <1>1, <1>i, <2>1, <2>2
<1>2. /\ replies' \in Seq(Decisions) /\ Len(replies') = n /\ DOMAIN replies' = 1..n
      /\ replies'[n] = decision /\ \A q \in 1..n : q # n => replies'[q] = replies[q]
      /\ replies' # <<>>
  BY <1>t, <1>e, LenProperties, EmptySeq
<1>3. approval_tx' = 0 /\ UNCHANGED <<bridge, job, jobs, connects, stored>>
  BY DEF Decides
<1>4. ui' = [ui EXCEPT !.modal = "None", !.request = 0]
  BY DEF Decides
<1>5. /\ ui' \in Screens /\ ui'.modal = "None" /\ ui'.request = 0
      /\ ui'.parent = ui.parent /\ ui'.session = ui.session /\ ui'.tree = ui.tree
      /\ ui'.running = ui.running /\ ui'.focus = ui.focus /\ ui'.sidebar = ui.sidebar
      /\ ui'.details = ui.details
  BY <1>t, <1>4 DEF Screens, Modals
<1>6. \A i \in DOMAIN bridge : bridge[i].kind # "ApprovalRequest"
  BY <1>t DEF TerminalInv, QuestionsInOrder
<1>7. TerminalType' /\ RunsKnown' /\ OneRun' /\ WizardFirst'
  BY <1>2, <1>3, <1>5 DEF TerminalInv, TerminalType, RunsKnown, OneRun, WizardFirst
<1>8. QuestionsInOrder'
  BY <1>2, <1>3, <1>5, <1>6 DEF TerminalInv, QuestionsInOrder, n
<1>9. ScreenTrue'
  BY <1>t, <1>2, <1>3, <1>5 DEF TerminalInv, ScreenTrue
<1> QED  BY <1>7, <1>8, <1>9 DEF TerminalInv

LEMMA SaveOnboardingKeeps ==
  ASSUME TerminalInv, ui.modal = "Onboarding", SaveOnboarding PROVE TerminalInv'
<1>1. /\ connects.begun \in Nat /\ connects.pending \in Nat /\ connects.pending <= connects.begun
      /\ ~ui.running
  BY DEF TerminalInv, TerminalType, WizardFirst
<1>2. /\ connects' = [begun |-> connects.begun + 1, pending |-> connects.pending + 1]
      /\ UNCHANGED <<ui, approval_tx, bridge, job, jobs, replies, stored>>
  BY DEF SaveOnboarding
<1>3. /\ connects' \in [begun : Nat, pending : Nat] /\ connects'.begun = connects.begun + 1
      /\ connects'.pending = connects.pending + 1
  BY <1>1, <1>2
<1>4. TerminalType' /\ RunsKnown' /\ OneRun' /\ QuestionsInOrder'
  BY <1>2, <1>3 DEF TerminalInv, TerminalType, RunsKnown, OneRun, QuestionsInOrder
<1>5. WizardFirst'
  BY <1>1, <1>2, <1>3 DEF TerminalInv, WizardFirst
<1>6. ScreenTrue'
  BY <1>1, <1>2 DEF TerminalInv, OneRun, ScreenTrue
<1> QED  BY <1>4, <1>5, <1>6 DEF TerminalInv

LEMMA InterruptKeeps == ASSUME TerminalInv, InterruptRun PROVE TerminalInv'
<1>1. job \in Jobs /\ UNCHANGED <<ui, approval_tx, bridge, jobs, replies, connects, stored>>
  BY DEF TerminalInv, TerminalType, InterruptRun
<1>2. /\ job' \in Jobs /\ job'.at = job.at /\ job'.session = job.session /\ job'.parent = job.parent
      /\ job'.run = job.run /\ job'.question = job.question
  BY <1>1 DEF InterruptRun, Jobs
<1>3. TerminalType' /\ RunsKnown' /\ OneRun' /\ QuestionsInOrder' /\ WizardFirst'
  BY <1>1, <1>2 DEF TerminalInv, TerminalType, RunsKnown, OneRun, QuestionsInOrder, WizardFirst
<1>4. ScreenTrue'
  BY <1>1, <1>2 DEF TerminalInv, ScreenTrue
<1> QED  BY <1>3, <1>4 DEF TerminalInv

\* A prompt is sent when nothing runs, and from the session that is shown.
LEMMA SpawnKeeps ==
  ASSUME TerminalInv, ~ui.running, ui.modal = "None", NEW kind \in {"continue", "branch"},
         NEW parent \in Nat, parent <= Len(stored),
         spawn_run(kind, ui.session, parent), ui' = [ui EXCEPT !.running = TRUE],
         UNCHANGED <<approval_tx, bridge, replies, connects, stored>>
  PROVE  TerminalInv'
<1>t. /\ ui \in Screens /\ ui.session \in SessionNames /\ job.at = "none" /\ bridge = <<>>
      /\ approval_tx = 0 /\ ui.request = 0 /\ jobs = 0
  BY ScreenFields DEF TerminalInv, TerminalType, OneRun, QuestionsInOrder
<1>j. /\ job' = [NoJob EXCEPT !.at = "starting", !.kind = kind, !.session = ui.session,
                          !.parent = parent]
      /\ jobs' = jobs + 1
  BY DEF spawn_run
<1>s. ui.session \in SessionNames \cup {NoName}
  BY <1>t
<1>1. /\ job' \in Jobs /\ job'.at = "starting" /\ job'.session = ui.session /\ job'.parent = parent
      /\ jobs' = 1
  <2> DEFINE session == ui.session
  <2>1. job' = [NoJob EXCEPT !.at = "starting", !.kind = kind, !.session = session, !.parent = parent]
    BY <1>j
  <2>2. session \in SessionNames \cup {NoName}
    BY <1>s
  <2> HIDE DEF session
  <2>3. /\ job' \in Jobs /\ job'.at = "starting" /\ job'.session = session /\ job'.parent = parent
    BY <2>1, <2>2 DEF NoJob, Jobs
  <2> QED  BY <2>3, <1>j, <1>t DEF session
<1>2. /\ ui' \in Screens /\ ui'.modal = "None" /\ ui'.request = 0
      /\ ui'.parent = ui.parent /\ ui'.session = ui.session /\ ui'.tree = ui.tree
      /\ ui'.running = TRUE /\ ui'.focus = ui.focus /\ ui'.sidebar = ui.sidebar
      /\ ui'.details = ui.details
  BY <1>t DEF Screens
<1>3. TerminalType' /\ RunsKnown' /\ OneRun'
  BY <1>t, <1>1, <1>2 DEF TerminalInv, TerminalType, RunsKnown, OneRun
<1>4. QuestionsInOrder' /\ WizardFirst' /\ ScreenTrue'
  BY <1>t, <1>1, <1>2 DEF TerminalInv, QuestionsInOrder, WizardFirst, ScreenTrue
<1> QED  BY <1>3, <1>4 DEF TerminalInv

LEMMA KeysKeep == ASSUME TerminalInv, handle_key_event PROVE TerminalInv'
<1>t. /\ ui \in Screens /\ ui.focus \in Focuses /\ ui.session \in SessionNames /\ ui.parent \in Nat
      /\ ui.sidebar \in BOOLEAN /\ ui.details \in BOOLEAN
      /\ stored \in Seq(SessionNames) /\ Len(stored) \in Nat /\ DOMAIN stored = 1..Len(stored)
      /\ ui.parent <= Len(stored) /\ (ui.parent # 0 => stored[ui.parent] = ui.session)
      /\ ui.tree \in {NoName, ui.session}
      /\ (ui.focus = "LineageTree" => ui.sidebar) /\ (ui.focus = "Details" => ui.details)
  BY ScreenFields, LenProperties DEF TerminalInv, TerminalType, RunsKnown, ScreenTrue
\* Screens that keep what the parts of ScreenAgrees are about.
<1> DEFINE Alike(u) ==
      /\ u \in Screens /\ u.request = ui.request /\ u.running = ui.running
      /\ u.parent = ui.parent /\ u.session = ui.session /\ u.tree \in {ui.tree, ui.session}
      /\ u.focus = "LineageTree" => u.sidebar
      /\ u.focus = "Details" => u.details
      /\ u.modal = "Approval" <=> ui.modal = "Approval"
      /\ u.modal = "Onboarding" <=> ui.modal = "Onboarding"
<1>a. ASSUME NEW u, Shows(u), Alike(u) PROVE TerminalInv'
  BY <1>a, <1>t, ShowsKeeps
<1>q. ASSUME Quit PROVE TerminalInv'
  <2> DEFINE u == [ui EXCEPT !.open = FALSE]
  <2>1. Alike(u)
    BY <1>t DEF Screens
  <2> QED  BY <1>q, <1>a, <2>1 DEF Quit
<1>m. ASSUME NEW modal \in {"None", "Help", "SessionSwitcher"},
             ui.modal \in {"None", "Help", "Notification", "SessionSwitcher"},
             Shows([ui EXCEPT !.modal = modal])
      PROVE  TerminalInv'
  <2> DEFINE u == [ui EXCEPT !.modal = modal]
  <2>1. Alike(u)
    BY <1>m, <1>t DEF Screens, Modals
  <2> QED  BY <1>m, <1>a, <2>1
<1>f. ASSUME Shows([ui EXCEPT !.focus = "ChatPrompt"]) PROVE TerminalInv'
  <2> DEFINE u == [ui EXCEPT !.focus = "ChatPrompt"]
  <2>1. Alike(u)
    BY <1>t DEF Screens, Focuses
  <2> QED  BY <1>f, <1>a, <2>1
<1>d. ASSUME Shows(ToggledDetails) PROVE TerminalInv'
  <2> DEFINE focus == IF ~ui.details THEN "Details"
                      ELSE IF ui.focus = "Details" THEN "ChatPrompt" ELSE ui.focus
             details == ~ui.details
             u == [ui EXCEPT !.details = details, !.focus = focus]
  <2>1. /\ focus \in Focuses /\ details \in BOOLEAN
        /\ (focus = "LineageTree" => ui.sidebar) /\ (focus = "Details" => details)
    BY <1>t DEF Focuses
  <2>2. ToggledDetails = u
    BY DEF ToggledDetails
  <2> HIDE DEF focus, details
  <2>3. Alike(u)
    BY <1>t, <2>1 DEF Screens
  <2> QED  BY <1>d, <1>a, <2>2, <2>3
<1>o. ASSUME Shows([ui EXCEPT !.sidebar = TRUE, !.focus = "LineageTree", !.tree = ui.session])
      PROVE  TerminalInv'
  <2> DEFINE u == [ui EXCEPT !.sidebar = TRUE, !.focus = "LineageTree", !.tree = ui.session]
  <2>1. Alike(u)
    BY <1>t DEF Screens, Focuses
  <2> QED  BY <1>o, <1>a, <2>1
<1>s. ASSUME Shows(ToggledSidebar) PROVE TerminalInv'
  <2> DEFINE focus == IF ui.focus = "LineageTree" THEN "ChatPrompt" ELSE ui.focus
             u == [ui EXCEPT !.sidebar = FALSE, !.focus = focus]
  <2>1. CASE ui.sidebar
    <3>1. focus \in Focuses /\ focus # "LineageTree" /\ (focus = "Details" => ui.details)
      BY <1>t DEF Focuses
    <3>2. ToggledSidebar = u
      BY <2>1 DEF ToggledSidebar
    <3> HIDE DEF focus
    <3>3. Alike(u)
      BY <1>t, <3>1 DEF Screens
    <3> QED  BY <1>s, <1>a, <3>2, <3>3
  <2>2. CASE ~ui.sidebar
    BY <1>s, <1>o, <2>2 DEF ToggledSidebar
  <2> QED  BY <2>1, <2>2
<1>1. CASE ui.modal # "None"
  <2>0. KeyInModal
    BY <1>1 DEF handle_key_event
  <2>1. CASE ui.modal \in {"Help", "Notification", "SessionSwitcher"} /\ Shows([ui EXCEPT !.modal = "None"])
    BY <2>1, <1>m
  <2>2. CASE ui.modal = "SessionSwitcher" /\ SelectSession
    <3>0. PICK s \in {stored[r] : r \in DOMAIN stored} :
            \E latest \in find_latest_run_id(s) :
              Shows([ui EXCEPT !.modal = "None", !.session = s, !.parent = latest, !.tree = s])
      BY <2>2 DEF SelectSession
    <3>1. PICK latest \in find_latest_run_id(s) :
            Shows([ui EXCEPT !.modal = "None", !.session = s, !.parent = latest, !.tree = s])
      BY <3>0
    <3>2. s \in SessionNames /\ latest \in 1..Len(stored) /\ stored[latest] = s
      BY <1>t, ElementOfSeq DEF find_latest_run_id, InSession
    <3> DEFINE u == [ui EXCEPT !.modal = "None", !.session = s, !.parent = latest, !.tree = s]
    <3>3. /\ u \in Screens /\ u.request = ui.request /\ u.running = ui.running
          /\ u.parent = latest /\ u.session = s /\ u.tree = s /\ u.modal = "None"
          /\ u.focus = ui.focus /\ u.sidebar = ui.sidebar /\ u.details = ui.details
      <4>1. s \in SessionNames \cup {NoName} /\ latest \in Nat
        BY <1>t, <3>2
      <4> QED  BY <1>t, <3>2, <4>1 DEF Screens, Modals
    <3> HIDE DEF u
    <3>4. Shows(u)
      BY <3>1 DEF u
    <3> QED  BY <1>t, <2>2, <3>2, <3>3, <3>4, ShowsKeeps
  <2>3. CASE ui.modal = "Approval" /\ \E decision \in {"Approve", "Deny"} : Decides(decision)
    BY <2>3, DecidesKeeps
  <2>4. CASE ui.modal = "Onboarding" /\ (Quit \/ SaveOnboarding)
    BY <2>4, <1>q, SaveOnboardingKeeps
  <2> QED  BY <2>0, <2>1, <2>2, <2>3, <2>4 DEF KeyInModal
<1>2. CASE ui.modal = "None" /\ Shortcut
  <2>1. CASE InterruptRun
    BY <2>1, InterruptKeeps
  <2> QED  BY <1>2, <1>q, <1>f, <1>s, <1>d, <1>m, <2>1 DEF Shortcut
<1>3. CASE ui.modal = "None" /\ KeyInFocus
  <2>1. CASE SubmitPrompt
    BY <1>3, <1>t, <2>1, SpawnKeeps DEF KeyInFocus, SubmitPrompt
  <2>2. CASE BranchPrompt
    <3>1. PICK r \in BranchTargets : spawn_run("branch", ui.session, r)
      BY <2>2 DEF BranchPrompt
    <3>2. r \in Nat /\ r <= Len(stored)
      BY <1>t, <3>1 DEF BranchTargets, InSession
    <3> QED  BY <1>3, <1>t, <2>2, <3>1, <3>2, SpawnKeeps DEF KeyInFocus, BranchPrompt
  <2>3. CASE start_new_session
    <3>1. PICK s \in SessionNames :
            Shows([ui EXCEPT !.session = s, !.parent = 0, !.tree = NoName, !.sidebar = FALSE,
                             !.focus = "ChatPrompt"])
      BY <2>3 DEF start_new_session
    <3> DEFINE u == [ui EXCEPT !.session = s, !.parent = 0, !.tree = NoName, !.sidebar = FALSE,
                               !.focus = "ChatPrompt"]
    <3>2. /\ u \in Screens /\ u.request = ui.request /\ u.running = ui.running
          /\ u.parent = 0 /\ u.session = s /\ u.tree = NoName /\ u.modal = ui.modal
          /\ u.focus = "ChatPrompt"
      BY <1>t DEF Screens, Focuses
    <3> HIDE DEF u
    <3>3. Shows(u)
      BY <3>1 DEF u
    <3> QED  BY <1>t, <3>2, <3>3, ShowsKeeps
  <2> QED  BY <1>3, <1>q, <1>m, <1>d, <1>o, <1>f, <2>1, <2>2, <2>3 DEF KeyInFocus, Enter
<1> QED  BY <1>1, <1>2, <1>3 DEF handle_key_event

\* The screen tells the truth (app.rs: run_tui; update.rs: handle_key_event; bridge.rs), for
\* any number of sessions, stored runs, questions and connections, in every order of keys,
\* messages of the run and results of connections.
THEOREM ScreenTellsTruth == TerminalSpec => []ScreenAgrees
<1>1. TerminalInit => TerminalInv
  BY TerminalBegins
<1>2. TerminalInv /\ [TerminalNext]_terminalVars => TerminalInv'
  <2>1. ASSUME TerminalInv, UNCHANGED terminalVars PROVE TerminalInv'
    BY <2>1 DEF terminalVars, TerminalInv, TerminalType, RunsKnown, OneRun, QuestionsInOrder,
                WizardFirst, ScreenTrue
  <2> QED
    BY <2>1, RunStartsKeeps, RunAsksKeeps, RunIsAnsweredKeeps, RunEndsKeeps, OthersRunKeeps,
       TakesMessageKeeps, TakesConnectionKeeps, KeysKeep DEF TerminalNext
<1>3. TerminalInv => ScreenAgrees
  BY TerminalTruth
<1> QED  BY <1>1, <1>2, <1>3, PTL DEF TerminalSpec

-----------------------------------------------------------------------------
(* RunStore. *)

RunDirs == [manifest : {"absent", "none", "torn"} \cup ManifestStates,
            session : StoredSessions \cup {NoStoredSession},
            parent : StoredRuns \cup {NoStoredRun},
            onward : BOOLEAN, history : SUBSET StoredRuns]
Tasks == [at : {"idle", "create", "save", "loop", "over", "saving", "remove", "removed"},
          run : StoredRuns \cup {NoStoredRun}, dir : RunDirs,
          result : {"none", "Completed", "Interrupted"},
          targets : SUBSET StoredRuns, plan : SUBSET StoredRuns, taken : SUBSET StoredRuns,
          seen : SUBSET StoredRuns]

\* The types of the variables of the store.
StoreType ==
  /\ runDirs \in [StoredRuns -> RunDirs]
  /\ created \in Seq(StoredRuns)
  /\ task \in [Users -> Tasks]

\* A directory that goes on from a run has that run's history and session, as long as the
\* run is there: the history of a run that something goes on from does not grow any more.
GoesOn(d, dirs, known) ==
  d.onward =>
    /\ d.parent \in known
    /\ dirs[d.parent].manifest # "absent" =>
         /\ d.parent \in dirs[d.parent].history
         /\ dirs[d.parent].history \subseteq d.history
         /\ dirs[d.parent].session = d.session

\* What a removal has listed is closed under the parents that it has read, and stays so.
ListClosed(t, dirs, known) ==
  t.at \in {"remove", "removed"} =>
    /\ t.seen \subseteq known
    /\ \A r \in t.seen : dirs[r].manifest # "absent" /\ dirs[r].parent \in t.plan \cup t.taken
                           => r \in t.plan \cup t.taken
    /\ \A r \in t.seen : r \in t.taken => dirs[r].manifest = "absent"
    /\ t.at = "removed" => t.plan = {}

HasManifest(d) == d.manifest \notin {"absent", "none"}

\* A task that has a run knows it.
RunOk(t, known) ==
  /\ t.at = "save" => t.run \in StoredRuns
  /\ t.at \in {"loop", "over", "saving"} => t.run \in known

\* A run.json, torn or whole, is that of a run that has been created.
CreatedKnown ==
  /\ \A r \in StoredRuns : HasManifest(runDirs[r]) => r \in ToSet(created)
  /\ \A u \in Users : RunOk(task[u], ToSet(created))

HistoriesFrozen ==
  /\ \A r \in StoredRuns : GoesOn(runDirs[r], runDirs, ToSet(created))
  /\ \A u \in Users : GoesOn(task[u].dir, runDirs, ToSet(created))

RemovalClosed == \A u \in Users : ListClosed(task[u], runDirs, ToSet(created))

StoreInv == StoreType /\ CreatedKnown /\ HistoriesFrozen /\ RemovalClosed

\* What a step may do to the directories of created runs: remove them, or leave alone their
\* session and parent, and their history from the first checkpoint on.
Kept(dirs, after, known, knownAfter) ==
  /\ known \subseteq knownAfter
  /\ \A p \in known :
       after[p].manifest # "absent" =>
         /\ dirs[p].manifest # "absent"
         /\ after[p].session = dirs[p].session /\ after[p].parent = dirs[p].parent
         /\ p \in dirs[p].history => after[p].history = dirs[p].history

LEMMA GoesOnStays ==
  ASSUME NEW d, NEW dirs, NEW after, NEW known, NEW knownAfter,
         Kept(dirs, after, known, knownAfter), GoesOn(d, dirs, known)
  PROVE  GoesOn(d, after, knownAfter)
BY DEF Kept, GoesOn

LEMMA ListStaysClosed ==
  ASSUME NEW t, NEW dirs, NEW after, NEW known, NEW knownAfter,
         Kept(dirs, after, known, knownAfter), ListClosed(t, dirs, known)
  PROVE  ListClosed(t, after, knownAfter)
BY DEF Kept, ListClosed

LEMMA ToSetAppend ==
  ASSUME NEW S, NEW s \in Seq(S), NEW e \in S
  PROVE  ToSet(Append(s, e)) = ToSet(s) \cup {e}
<1>1. /\ Len(s) \in Nat /\ DOMAIN s = 1..Len(s)
      /\ DOMAIN Append(s, e) = 1..(Len(s) + 1)
  BY LenProperties, AppendProperties
<1>2. \A i \in 1..Len(s) : Append(s, e)[i] = s[i]
  BY AppendProperties
<1>3. Append(s, e)[Len(s) + 1] = e
  BY AppendProperties
<1>4. ASSUME NEW x \in ToSet(Append(s, e)) PROVE x \in ToSet(s) \cup {e}
  <2>1. PICK i \in 1..(Len(s) + 1) : x = Append(s, e)[i]
    BY <1>1, <1>4 DEF ToSet
  <2>2. CASE i = Len(s) + 1
    BY <1>3, <2>1, <2>2
  <2>3. CASE i \in 1..Len(s)
    BY <1>1, <1>2, <2>1, <2>3 DEF ToSet
  <2> QED  BY <1>1, <2>1, <2>2, <2>3
<1>5. ASSUME NEW x \in ToSet(s) PROVE x \in ToSet(Append(s, e))
  <2>1. PICK i \in 1..Len(s) : x = s[i]
    BY <1>1, <1>5 DEF ToSet
  <2>2. i \in 1..(Len(s) + 1) /\ x = Append(s, e)[i]
    BY <1>1, <1>2, <2>1
  <2> QED  BY <1>1, <2>2 DEF ToSet
<1>6. e \in ToSet(Append(s, e))
  BY <1>1, <1>3 DEF ToSet
<1> QED  BY <1>4, <1>5, <1>6

LEMMA KnownRuns == ASSUME NEW S, NEW s \in Seq(S) PROVE ToSet(s) \subseteq S
BY LenProperties, ElementOfSeq DEF ToSet

\* An order of a finite set holds each of its elements.
LEMMA OrderHoldsAll ==
  ASSUME NEW S, IsFiniteSet(S), NEW s \in SetToSeqs(S)
  PROVE  s \in Seq(S) /\ ToSet(s) = S
<1> DEFINE n == Cardinality(S)
<1>1. n \in Nat
  BY FS_CardinalityType
<1>2. s \in [1..n -> S] /\ \A i, j \in 1..n : i # j => s[i] # s[j]
  BY DEF SetToSeqs
<1>3. s \in Seq(S)
  BY <1>1, <1>2, SeqDef
<1>4. s \in Injection(1..n, S)
  BY <1>2 DEF Injection, IsInjective
<1>5. IsFiniteSet(1..n) /\ Cardinality(1..n) = n
  BY <1>1, FS_Interval
<1>6. s \in Surjection(1..n, S)
  BY <1>4, <1>5, FS_Injection
<1>7. \A x \in S : \E i \in 1..n : s[i] = x
  BY <1>6 DEF Surjection
<1> HIDE DEF n
<1>8. DOMAIN s = 1..n
  BY <1>2
<1> QED  BY <1>2, <1>3, <1>7, <1>8 DEF ToSet

LEMMA StoreBegins == StoreInit => StoreInv
<1> SUFFICES ASSUME StoreInit PROVE StoreInv
  OBVIOUS
<1>1. IsFiniteSet(PastRuns)
  BY RunStoreAssumption, FS_Subset
<1>2. created \in Seq(PastRuns) /\ ToSet(created) = PastRuns
  BY <1>1, OrderHoldsAll DEF StoreInit
<1>3. created \in Seq(StoredRuns)
  BY <1>2, RunStoreAssumption, SeqMonotonic
<1>4. NoRunDir \in RunDirs /\ ~NoRunDir.onward /\ NoRunDir.manifest = "absent"
  BY DEF NoRunDir, RunDirs
<1>5. PICK s \in StoredSessions :
        runDirs = [r \in StoredRuns |->
                     IF r \notin PastRuns THEN NoRunDir
                     ELSE [NoRunDir EXCEPT !.manifest = "Completed", !.session = s,
                                           !.history = {r}]]
  BY DEF StoreInit
<1>6. ASSUME NEW r \in StoredRuns
      PROVE  /\ runDirs[r] \in RunDirs /\ ~runDirs[r].onward
             /\ r \notin PastRuns => runDirs[r].manifest = "absent"
  BY <1>4, <1>5 DEF NoRunDir, RunDirs, ManifestStates
<1>7. runDirs \in [StoredRuns -> RunDirs]
  BY <1>5, <1>6
<1>8. /\ NoTask \in Tasks /\ NoTask.at = "idle" /\ ~NoTask.dir.onward
      /\ task = [u \in Users |-> NoTask]
  BY <1>4 DEF NoTask, Tasks, StoreInit
<1>9. StoreType
  BY <1>3, <1>7, <1>8 DEF StoreType
<1>10. CreatedKnown
  BY <1>2, <1>6, <1>8 DEF CreatedKnown, HasManifest, RunOk
<1>11. HistoriesFrozen
  BY <1>6, <1>8 DEF HistoriesFrozen, GoesOn
<1>12. RemovalClosed
  BY <1>8 DEF RemovalClosed, ListClosed
<1> QED  BY <1>9, <1>10, <1>11, <1>12 DEF StoreInv

\* What the invariant says of one step of a user: the directories are kept, and the new
\* task and each directory are as they must be.
LEMMA StepKeeps ==
  ASSUME StoreInv, NEW u \in Users, NEW t \in Tasks,
         task' = [task EXCEPT ![u] = t],
         runDirs' \in [StoredRuns -> RunDirs], created' \in Seq(StoredRuns),
         Kept(runDirs, runDirs', ToSet(created), ToSet(created')),
         \A r \in StoredRuns : HasManifest(runDirs'[r]) => r \in ToSet(created'),
         RunOk(t, ToSet(created')),
         \A r \in StoredRuns : GoesOn(runDirs'[r], runDirs', ToSet(created')),
         GoesOn(t.dir, runDirs', ToSet(created')),
         ListClosed(t, runDirs', ToSet(created'))
  PROVE  StoreInv'
<1>1. task \in [Users -> Tasks]
  BY DEF StoreInv, StoreType
<1>2. task' \in [Users -> Tasks] /\ task'[u] = t /\ \A v \in Users : v # u => task'[v] = task[v]
  BY <1>1
<1>3. StoreType'
  BY <1>2 DEF StoreType
<1>4. ToSet(created) \subseteq ToSet(created')
  BY DEF Kept
<1>5. ASSUME NEW v \in Users, v # u
      PROVE  /\ RunOk(task'[v], ToSet(created'))
             /\ GoesOn(task'[v].dir, runDirs', ToSet(created'))
             /\ ListClosed(task'[v], runDirs', ToSet(created'))
  <2>1. task'[v] = task[v]
    BY <1>2, <1>5
  <2>2. GoesOn(task[v].dir, runDirs', ToSet(created'))
    <3>1. GoesOn(task[v].dir, runDirs, ToSet(created))
      BY DEF StoreInv, HistoriesFrozen
    <3> QED  BY <3>1, GoesOnStays
  <2>3. ListClosed(task[v], runDirs', ToSet(created'))
    <3>1. ListClosed(task[v], runDirs, ToSet(created))
      BY DEF StoreInv, RemovalClosed
    <3> QED  BY <3>1, ListStaysClosed
  <2>4. RunOk(task[v], ToSet(created'))
    BY <1>4 DEF StoreInv, CreatedKnown, RunOk
  <2> QED  BY <2>1, <2>2, <2>3, <2>4
<1>6. CreatedKnown'
  BY <1>2, <1>5 DEF CreatedKnown
<1>7. HistoriesFrozen'
  BY <1>2, <1>5 DEF HistoriesFrozen
<1>8. RemovalClosed'
  BY <1>2, <1>5 DEF RemovalClosed
<1> QED  BY <1>3, <1>6, <1>7, <1>8 DEF StoreInv

LEMMA StoreTypes ==
  ASSUME StoreInv
  PROVE  /\ runDirs \in [StoredRuns -> RunDirs]
         /\ created \in Seq(StoredRuns) /\ ToSet(created) \subseteq StoredRuns
         /\ task \in [Users -> Tasks]
BY KnownRuns DEF StoreInv, StoreType

LEMMA NoTaskType ==
  NoRunDir \in RunDirs /\ ~NoRunDir.onward /\ NoTask \in Tasks
    /\ NoTask.at = "idle" /\ NoTask.dir = NoRunDir
BY DEF NoRunDir, RunDirs, NoTask, Tasks

\* A step that leaves the directories alone.
LEMMA TaskKeeps ==
  ASSUME StoreInv, NEW u \in Users, NEW t \in Tasks,
         task' = [task EXCEPT ![u] = t], UNCHANGED <<runDirs, created>>,
         RunOk(t, ToSet(created)),
         GoesOn(t.dir, runDirs, ToSet(created)), ListClosed(t, runDirs, ToSet(created))
  PROVE  StoreInv'
<1>1. runDirs' = runDirs /\ created' = created
  OBVIOUS
<1>2. runDirs' \in [StoredRuns -> RunDirs] /\ created' \in Seq(StoredRuns)
  BY <1>1, StoreTypes
<1>3. Kept(runDirs, runDirs', ToSet(created), ToSet(created'))
  BY <1>1 DEF Kept
<1>4. \A r \in StoredRuns : HasManifest(runDirs'[r]) => r \in ToSet(created')
  BY <1>1 DEF StoreInv, CreatedKnown
<1>5. \A r \in StoredRuns : GoesOn(runDirs'[r], runDirs', ToSet(created'))
  BY <1>1 DEF StoreInv, HistoriesFrozen
<1>6. /\ RunOk(t, ToSet(created'))
      /\ GoesOn(t.dir, runDirs', ToSet(created')) /\ ListClosed(t, runDirs', ToSet(created'))
  BY <1>1
<1> QED  BY <1>2, <1>3, <1>4, <1>5, <1>6, StepKeeps

LEMMA TaskEndsKeeps ==
  ASSUME StoreInv, NEW u \in Users, TaskEnds(u), UNCHANGED <<runDirs, created>>
  PROVE  StoreInv'
<1>1. task' = [task EXCEPT ![u] = NoTask]
  BY DEF TaskEnds
<1>2. /\ RunOk(NoTask, ToSet(created))
      /\ GoesOn(NoTask.dir, runDirs, ToSet(created)) /\ ListClosed(NoTask, runDirs, ToSet(created))
  BY NoTaskType DEF RunOk, GoesOn, ListClosed
<1> QED  BY <1>1, <1>2, NoTaskType, TaskKeeps

\* A new run under a name of its own, or one that goes on as GoesOn says.
LEMMA StartKeeps ==
  ASSUME StoreInv, NEW u \in Users, NEW d \in RunDirs, Starts(u, d),
         GoesOn(d, runDirs, ToSet(created)), UNCHANGED <<runDirs, created>>
  PROVE  StoreInv'
<1> DEFINE t == [NoTask EXCEPT !.at = "create", !.dir = d]
<1>1. task' = [task EXCEPT ![u] = t]
  BY DEF Starts
<1>2. t \in Tasks /\ t.at = "create" /\ t.dir = d
  BY NoTaskType DEF NoTask, Tasks
<1>3. RunOk(t, ToSet(created)) /\ ListClosed(t, runDirs, ToSet(created))
  BY <1>2 DEF RunOk, ListClosed
<1> HIDE DEF t
<1> QED  BY <1>1, <1>2, <1>3, TaskKeeps

LEMMA PromptKeeps ==
  ASSUME StoreInv, NEW u \in Users, NEW s \in StoredSessions, run_prompt(u, s)
  PROVE  StoreInv'
<1> DEFINE d == [NoRunDir EXCEPT !.session = s]
<1>1. d \in RunDirs /\ ~d.onward
  BY NoTaskType DEF NoRunDir, RunDirs
<1>2. GoesOn(d, runDirs, ToSet(created))
  BY <1>1 DEF GoesOn
<1>3. Starts(u, d) /\ UNCHANGED <<runDirs, created>>
  BY DEF run_prompt
<1> HIDE DEF d
<1> QED  BY <1>1, <1>2, <1>3, StartKeeps

\* An analysis says what it has read, or nothing.
LEMMA AnalysisSays ==
  ASSUME NEW r \in StoredRuns, NEW a \in Analyses(r)
  PROVE  /\ a.session \in {runDirs[r].session, NoStoredSession}
         /\ a.run \in {r, NoStoredRun}
         /\ a.history \in {{}, runDirs[r].history}
         /\ a.status \in {"completed", "safe"} =>
              /\ Readable(r) /\ r \in runDirs[r].history
              /\ a.session = runDirs[r].session /\ a.run = r
              /\ a.history = runDirs[r].history
<1> DEFINE d == runDirs[r]
           unusable == [status |-> "incompatible", session |-> d.session, run |-> r,
                        history |-> {}]
           known(status) == [unusable EXCEPT !.status = status, !.history = d.history]
<1>1. CASE ~Readable(r)
  <2>1. a = [unusable EXCEPT !.session = NoStoredSession, !.run = NoStoredRun]
    BY <1>1 DEF Analyses
  <2> QED  BY <2>1
<1>2. CASE Readable(r) /\ r \notin d.history
  <2>1. a = unusable
    BY <1>2 DEF Analyses
  <2> QED  BY <2>1
<1>3. CASE Readable(r) /\ r \in d.history
  <2>1. a \in {unusable, known("drift"), known("completed"), known("safe"), known("ambiguous")}
    <3>1. CASE d.manifest = "Completed"
      BY <1>3, <3>1 DEF Analyses
    <3>2. CASE d.manifest # "Completed"
      BY <1>3, <3>2 DEF Analyses
    <3> QED  BY <3>1, <3>2
  <2>2. CASE a = unusable
    BY <2>2
  <2>3. CASE a # unusable
    <3>1. \E status \in {"drift", "completed", "safe", "ambiguous"} : a = known(status)
      BY <2>1, <2>3
    <3> QED  BY <1>3, <3>1
  <2> QED  BY <2>2, <2>3
<1> QED  BY <1>1, <1>2, <1>3

LEMMA SessionActionKeeps ==
  ASSUME StoreInv, NEW u \in Users, NEW kind \in {"Continue", "Resume", "Branch"},
         NEW target \in StoredRuns \cup {NoStoredRun}, run_session_action(u, kind, target)
  PROVE  StoreInv'
<1>1. UNCHANGED <<runDirs, created>>
  BY DEF run_session_action
<1>2. CASE TaskEnds(u)
  BY <1>1, <1>2, TaskEndsKeeps
<1>3. CASE ~TaskEnds(u)
  <2>1. target \in StoredRuns
    BY <1>3 DEF run_session_action
  <2>2. PICK a \in Analyses(target) : \E history \in HistoriesFor(kind, target, a) :
          /\ Accepted(kind, a.status)
          /\ Starts(u, [NoRunDir EXCEPT !.session = a.session, !.parent = a.run,
                                        !.onward = kind # "Branch", !.history = history])
    BY <1>3 DEF run_session_action
  <2>3. PICK history \in HistoriesFor(kind, target, a) :
          /\ Accepted(kind, a.status)
          /\ Starts(u, [NoRunDir EXCEPT !.session = a.session, !.parent = a.run,
                                        !.onward = kind # "Branch", !.history = history])
    BY <2>2
  <2> DEFINE d == [NoRunDir EXCEPT !.session = a.session, !.parent = a.run,
                                   !.onward = kind # "Branch", !.history = history]
  <2>t. runDirs[target] \in RunDirs
    BY <2>1, StoreTypes
  <2>4. /\ a.session \in StoredSessions \cup {NoStoredSession}
        /\ a.run \in StoredRuns \cup {NoStoredRun} /\ a.history \subseteq StoredRuns
    <3>1. /\ runDirs[target].session \in StoredSessions \cup {NoStoredSession}
          /\ runDirs[target].history \subseteq StoredRuns
      BY <2>t DEF RunDirs
    <3> QED  BY <2>1, <3>1, AnalysisSays
  <2>5. history \subseteq StoredRuns
    <3>1. runDirs[target].history \subseteq StoredRuns
      BY <2>t DEF RunDirs
    <3> QED  BY <2>4, <3>1 DEF HistoriesFor
  <2>6. /\ d \in RunDirs /\ d.session = a.session /\ d.parent = a.run
        /\ d.onward = (kind # "Branch") /\ d.history = history
    BY <2>4, <2>5, NoTaskType DEF NoRunDir, RunDirs
  <2>7. Starts(u, d)
    BY <2>3
  <2> HIDE DEF d
  <2>8. GoesOn(d, runDirs, ToSet(created))
    <3>1. CASE kind = "Branch"
      BY <2>6, <3>1 DEF GoesOn
    <3>2. CASE kind # "Branch"
      <4>1. /\ Readable(target) /\ target \in runDirs[target].history
            /\ a.session = runDirs[target].session /\ a.run = target
            /\ a.history = runDirs[target].history
        <5>1. a.status \in {"completed", "safe"}
          BY <2>3, <3>2 DEF Accepted
        <5> QED  BY <2>1, <5>1, AnalysisSays
      <4>2. history = a.history
        BY <3>2 DEF HistoriesFor
      <4>3. target \in ToSet(created)
        BY <2>1, <4>1 DEF StoreInv, CreatedKnown, HasManifest, Readable, ManifestStates
      <4> QED  BY <2>6, <4>1, <4>2, <4>3 DEF GoesOn
    <3> QED  BY <3>1, <3>2
  <2> QED  BY <1>1, <2>6, <2>7, <2>8, StartKeeps
<1> QED  BY <1>2, <1>3

\* A directory is made for a run that none has been created under.
LEMMA CreateKeeps ==
  ASSUME StoreInv, NEW u \in Users, create_run(u) PROVE StoreInv'
<1>1. PICK r \in FreshRuns :
        /\ runDirs' = [runDirs EXCEPT ![r] = [task[u].dir EXCEPT !.manifest = "none"]]
        /\ \/ task' = [task EXCEPT ![u].run = r, ![u].at = "save"]
           \/ TaskEnds(u)
  BY DEF create_run
<1>2. created' = created
  BY DEF create_run
<1>3. r \in StoredRuns /\ r \notin ToSet(created)
  BY DEF FreshRuns
<1>4. task[u] \in Tasks /\ task[u].dir \in RunDirs
  BY StoreTypes DEF Tasks
<1> DEFINE d == [task[u].dir EXCEPT !.manifest = "none"]
<1>5. /\ d \in RunDirs /\ d.manifest = "none" /\ d.onward = task[u].dir.onward
      /\ d.parent = task[u].dir.parent /\ d.session = task[u].dir.session
      /\ d.history = task[u].dir.history
  BY <1>4 DEF RunDirs
<1>6. runDirs' = [runDirs EXCEPT ![r] = d]
  BY <1>1
<1> HIDE DEF d
<1>7. /\ runDirs' \in [StoredRuns -> RunDirs] /\ runDirs'[r] = d
      /\ \A q \in StoredRuns : q # r => runDirs'[q] = runDirs[q]
  BY <1>3, <1>5, <1>6, StoreTypes
<1>8. Kept(runDirs, runDirs', ToSet(created), ToSet(created'))
  BY <1>2, <1>3, <1>7, StoreTypes DEF Kept
<1>9. \A q \in StoredRuns : HasManifest(runDirs'[q]) => q \in ToSet(created')
  BY <1>2, <1>5, <1>7 DEF StoreInv, CreatedKnown, HasManifest
<1>10. GoesOn(task[u].dir, runDirs', ToSet(created'))
  <2>1. GoesOn(task[u].dir, runDirs, ToSet(created))
    BY DEF StoreInv, HistoriesFrozen
  <2> QED  BY <1>8, <2>1, GoesOnStays
<1>11. ASSUME NEW q \in StoredRuns PROVE GoesOn(runDirs'[q], runDirs', ToSet(created'))
  <2>1. CASE q = r
    BY <1>5, <1>7, <1>10, <2>1 DEF GoesOn
  <2>2. CASE q # r
    <3>1. GoesOn(runDirs[q], runDirs, ToSet(created)) /\ runDirs'[q] = runDirs[q]
      BY <1>7, <2>2 DEF StoreInv, HistoriesFrozen
    <3>2. GoesOn(runDirs[q], runDirs', ToSet(created'))
      BY <1>8, <3>1, GoesOnStays
    <3> QED  BY <3>1, <3>2
  <2> QED  BY <2>1, <2>2
<1>12. CASE TaskEnds(u)
  <2>1. task' = [task EXCEPT ![u] = NoTask]
    BY <1>12 DEF TaskEnds
  <2>2. GoesOn(NoTask.dir, runDirs', ToSet(created'))
    BY NoTaskType DEF GoesOn
  <2>3. ListClosed(NoTask, runDirs', ToSet(created'))
    BY NoTaskType DEF ListClosed
  <2>4. created' \in Seq(StoredRuns) /\ RunOk(NoTask, ToSet(created'))
    BY <1>2, StoreTypes, NoTaskType DEF RunOk
  <2> QED  BY <1>7, <1>8, <1>9, <1>11, <2>1, <2>2, <2>3, <2>4, NoTaskType, StepKeeps
<1>13. CASE task' = [task EXCEPT ![u].run = r, ![u].at = "save"]
  <2> DEFINE t == [task[u] EXCEPT !.run = r, !.at = "save"]
  <2>1. task' = [task EXCEPT ![u] = t]
    BY <1>13, StoreTypes
  <2>2. t \in Tasks /\ t.at = "save" /\ t.dir = task[u].dir /\ t.run = r
    BY <1>3, <1>4 DEF Tasks
  <2> HIDE DEF t
  <2>5. RunOk(t, ToSet(created'))
    BY <1>3, <2>2 DEF RunOk
  <2>3. ListClosed(t, runDirs', ToSet(created')) /\ created' \in Seq(StoredRuns)
    BY <1>2, <2>2, StoreTypes DEF ListClosed
  <2>4. GoesOn(t.dir, runDirs', ToSet(created'))
    BY <1>10, <2>2
  <2> QED  BY <1>7, <1>8, <1>9, <1>11, <2>1, <2>2, <2>3, <2>4, <2>5, StepKeeps
<1> QED  BY <1>1, <1>12, <1>13

\* A step that changes, of a created run's directory, only the state of its run.json.
LEMMA ManifestKeeps ==
  ASSUME StoreInv, NEW u \in Users, NEW t \in Tasks, NEW r \in StoredRuns,
         NEW manifest \in {"none", "torn"} \cup ManifestStates,
         Present(r), runDirs' = [runDirs EXCEPT ![r].manifest = manifest],
         created' \in Seq(StoredRuns), ToSet(created') = ToSet(created) \cup {r},
         task' = [task EXCEPT ![u] = t],
         t.at \in {"idle", "loop", "over", "saving"},
         t.at # "idle" => t.run = r, t.dir \in {NoRunDir, task[u].dir}
  PROVE  StoreInv'
<1>1. runDirs[r] \in RunDirs /\ runDirs \in [StoredRuns -> RunDirs]
  BY StoreTypes
<1> DEFINE d == [runDirs[r] EXCEPT !.manifest = manifest]
<1>2. runDirs' = [runDirs EXCEPT ![r] = d]
  BY <1>1
<1>3. /\ d \in RunDirs /\ d.manifest = manifest /\ d.onward = runDirs[r].onward
      /\ d.parent = runDirs[r].parent /\ d.session = runDirs[r].session
      /\ d.history = runDirs[r].history
  BY <1>1 DEF RunDirs
<1> HIDE DEF d
<1>4. /\ runDirs' \in [StoredRuns -> RunDirs] /\ runDirs'[r] = d
      /\ \A q \in StoredRuns : q # r => runDirs'[q] = runDirs[q]
  BY <1>1, <1>2, <1>3
<1>5. Kept(runDirs, runDirs', ToSet(created), ToSet(created'))
  BY <1>3, <1>4, StoreTypes DEF Kept, Present
<1>6. ASSUME NEW q \in StoredRuns, HasManifest(runDirs'[q]) PROVE q \in ToSet(created')
  BY <1>4, <1>6 DEF StoreInv, CreatedKnown
<1>7. ASSUME NEW q \in StoredRuns PROVE GoesOn(runDirs'[q], runDirs', ToSet(created'))
  <2>1. GoesOn(runDirs[q], runDirs, ToSet(created))
    BY DEF StoreInv, HistoriesFrozen
  <2>2. GoesOn(runDirs[q], runDirs', ToSet(created'))
    BY <1>5, <2>1, GoesOnStays
  <2>3. /\ runDirs'[q].onward = runDirs[q].onward /\ runDirs'[q].parent = runDirs[q].parent
        /\ runDirs'[q].session = runDirs[q].session /\ runDirs'[q].history = runDirs[q].history
    BY <1>3, <1>4
  <2> QED  BY <2>2, <2>3 DEF GoesOn
<1>8. GoesOn(t.dir, runDirs', ToSet(created'))
  <2>1. GoesOn(t.dir, runDirs, ToSet(created))
    BY NoTaskType DEF StoreInv, HistoriesFrozen, GoesOn
  <2> QED  BY <1>5, <2>1, GoesOnStays
<1>9. ListClosed(t, runDirs', ToSet(created'))
  BY DEF ListClosed
<1>10. RunOk(t, ToSet(created'))
  BY DEF RunOk
<1> QED  BY <1>4, <1>5, <1>6, <1>7, <1>8, <1>9, <1>10, StepKeeps

LEMMA FirstSaveKeeps == ASSUME StoreInv, NEW u \in Users, FirstSave(u) PROVE StoreInv'
<1> DEFINE r == task[u].run
<1>1. task[u] \in Tasks /\ task[u].at = "save" /\ r \in StoredRuns
  BY StoreTypes DEF FirstSave, StoreInv, CreatedKnown, RunOk
<1>2. CASE Present(r)
  <2> DEFINE t == [task[u] EXCEPT !.at = "loop"]
  <2>1. /\ runDirs' = [runDirs EXCEPT ![r].manifest = "Running"]
        /\ created' = Append(created, r) /\ task' = [task EXCEPT ![u] = t]
    BY <1>2, StoreTypes DEF FirstSave
  <2>2. t \in Tasks /\ t.at = "loop" /\ t.dir = task[u].dir /\ t.run = r
    BY <1>1 DEF Tasks
  <2>3. created' \in Seq(StoredRuns) /\ ToSet(created') = ToSet(created) \cup {r}
    BY <1>1, <2>1, StoreTypes, ToSetAppend, AppendProperties
  <2> HIDE DEF t, r
  <2>4. "Running" \in {"none", "torn"} \cup ManifestStates
    BY DEF ManifestStates
  <2> QED  BY <1>1, <1>2, <2>1, <2>2, <2>3, <2>4, ManifestKeeps
<1>3. CASE ~Present(r)
  BY <1>3, TaskEndsKeeps DEF FirstSave
<1> QED  BY <1>2, <1>3

LEMMA LastSaveKeeps == ASSUME StoreInv, NEW u \in Users, LastSave(u) PROVE StoreInv'
<1> DEFINE r == task[u].run
<1>1. /\ task[u] \in Tasks /\ task[u].at \in {"over", "saving"} /\ r \in ToSet(created)
      /\ r \in StoredRuns /\ created' = created
  BY StoreTypes DEF LastSave, StoreInv, CreatedKnown, RunOk
<1>2. created' \in Seq(StoredRuns) /\ ToSet(created') = ToSet(created) \cup {r}
  BY <1>1, StoreTypes
<1>3. CASE ~Present(r)
  BY <1>1, <1>3, TaskEndsKeeps DEF LastSave
<1>4. CASE Present(r) /\ task[u].at = "over"
  <2> DEFINE t == [task[u] EXCEPT !.at = "saving"]
  <2>1. /\ runDirs' = [runDirs EXCEPT ![r].manifest = "torn"] /\ task' = [task EXCEPT ![u] = t]
    BY <1>4, StoreTypes DEF LastSave
  <2>2. t \in Tasks /\ t.at = "saving" /\ t.dir = task[u].dir /\ t.run = r
    BY <1>1 DEF Tasks
  <2> HIDE DEF t, r
  <2> QED  BY <1>1, <1>2, <1>4, <2>1, <2>2, ManifestKeeps
<1>5. CASE Present(r) /\ task[u].at = "saving"
  <2> DEFINE manifest == task[u].result
  <2>1. /\ runDirs' = [runDirs EXCEPT ![r].manifest = manifest]
        /\ task' = [task EXCEPT ![u] = NoTask]
    BY <1>5 DEF LastSave, TaskEnds
  <2>2. manifest \in {"none", "torn"} \cup ManifestStates
    BY <1>1 DEF Tasks, ManifestStates
  <2> HIDE DEF manifest, r
  <2> QED  BY <1>1, <1>2, <1>5, <2>1, <2>2, NoTaskType, ManifestKeeps
<1> QED  BY <1>1, <1>3, <1>4, <1>5

\* Nothing goes on from a run before its first checkpoint.
LEMMA CheckpointsKeep ==
  ASSUME StoreInv, NEW u \in Users, Checkpoints(u) PROVE StoreInv'
<1> DEFINE r == task[u].run
<1>1. /\ task[u] \in Tasks /\ task[u].at = "loop" /\ r \in ToSet(created) /\ r \in StoredRuns
      /\ Present(r) /\ r \notin runDirs[r].history
      /\ created' = created /\ task' = task
  BY StoreTypes DEF Checkpoints, StoreInv, CreatedKnown, RunOk
<1>2. runDirs[r] \in RunDirs /\ runDirs \in [StoredRuns -> RunDirs]
  BY <1>1, StoreTypes
<1> DEFINE d == [runDirs[r] EXCEPT !.history = runDirs[r].history \cup {r}]
<1>3. runDirs' = [runDirs EXCEPT ![r] = d]
  BY <1>2 DEF Checkpoints
<1>4. /\ d \in RunDirs /\ d.manifest = runDirs[r].manifest /\ d.onward = runDirs[r].onward
      /\ d.parent = runDirs[r].parent /\ d.session = runDirs[r].session
      /\ runDirs[r].history \subseteq d.history
  BY <1>1, <1>2 DEF RunDirs
<1> HIDE DEF d, r
<1>5. /\ runDirs' \in [StoredRuns -> RunDirs] /\ runDirs'[r] = d
      /\ \A q \in StoredRuns : q # r => runDirs'[q] = runDirs[q]
  BY <1>1, <1>2, <1>3, <1>4
<1>6. Kept(runDirs, runDirs', ToSet(created), ToSet(created'))
  BY <1>1, <1>4, <1>5, StoreTypes DEF Kept, Present
<1>7. \A q \in StoredRuns : HasManifest(runDirs'[q]) => q \in ToSet(created')
  BY <1>1, <1>5 DEF StoreInv, CreatedKnown
<1>8. ASSUME NEW q \in StoredRuns PROVE GoesOn(runDirs'[q], runDirs', ToSet(created'))
  <2>1. GoesOn(runDirs[q], runDirs, ToSet(created))
    BY DEF StoreInv, HistoriesFrozen
  <2>2. GoesOn(runDirs[q], runDirs', ToSet(created'))
    BY <1>6, <2>1, GoesOnStays
  <2>3. /\ runDirs'[q].onward = runDirs[q].onward /\ runDirs'[q].parent = runDirs[q].parent
        /\ runDirs'[q].session = runDirs[q].session
        /\ runDirs[q].history \subseteq runDirs'[q].history
    BY <1>4, <1>5
  <2> QED  BY <2>2, <2>3 DEF GoesOn
<1>9. created' \in Seq(StoredRuns)
  BY <1>1, StoreTypes
<1> DEFINE t == task[u]
<1>10. task' = [task EXCEPT ![u] = t]
  BY <1>1, StoreTypes
<1>11. /\ RunOk(t, ToSet(created)) /\ GoesOn(t.dir, runDirs, ToSet(created))
       /\ ListClosed(t, runDirs, ToSet(created)) /\ t \in Tasks
  BY <1>1 DEF StoreInv, CreatedKnown, HistoriesFrozen, RemovalClosed
<1> HIDE DEF t
<1>12. GoesOn(t.dir, runDirs', ToSet(created')) /\ ListClosed(t, runDirs', ToSet(created'))
  BY <1>6, <1>11, GoesOnStays, ListStaysClosed
<1>13. RunOk(t, ToSet(created'))
  BY <1>1, <1>11
<1> QED  BY <1>5, <1>6, <1>7, <1>8, <1>9, <1>10, <1>11, <1>12, <1>13, StepKeeps

LEMMA LoopEndsKeeps == ASSUME StoreInv, NEW u \in Users, LoopEnds(u) PROVE StoreInv'
<1>1. /\ task[u] \in Tasks /\ task[u].at = "loop" /\ task[u].run \in ToSet(created)
      /\ UNCHANGED <<runDirs, created>> /\ GoesOn(task[u].dir, runDirs, ToSet(created))
  BY StoreTypes DEF LoopEnds, StoreInv, CreatedKnown, RunOk, HistoriesFrozen
<1>2. PICK result \in {"Completed", "Interrupted"} :
        task' = [task EXCEPT ![u].at = "over", ![u].result = result]
  BY DEF LoopEnds
<1> DEFINE t == [task[u] EXCEPT !.at = "over", !.result = result]
<1>3. task' = [task EXCEPT ![u] = t]
  BY <1>2, StoreTypes
<1>4. t \in Tasks /\ t.at = "over" /\ t.dir = task[u].dir /\ t.run = task[u].run
  BY <1>1 DEF Tasks
<1> HIDE DEF t
<1>5. /\ RunOk(t, ToSet(created)) /\ ListClosed(t, runDirs, ToSet(created))
      /\ GoesOn(t.dir, runDirs, ToSet(created))
  BY <1>1, <1>4 DEF RunOk, ListClosed
<1> QED  BY <1>1, <1>3, <1>4, <1>5, TaskKeeps

\* What is listed is closed under the children that can be read.
LEMMA DescendantsClosed ==
  ASSUME NEW r \in StoredRuns, NEW p \in gather_descendants(r) \cup {r}
  PROVE  Children(p) \subseteq gather_descendants(r) \cup {r}
<1> SUFFICES ASSUME NEW c \in Children(p), c # r PROVE c \in gather_descendants(r)
  OBVIOUS
<1>1. c \in StoredRuns
  BY DEF Children
<1>2. ASSUME NEW D \in SUBSET StoredRuns, \A q \in D \cup {r} : Children(q) \subseteq D
      PROVE  c \in D
  <2>1. p \in D \cup {r}
    BY <1>2 DEF gather_descendants
  <2> QED  BY <1>2, <2>1
<1> QED  BY <1>1, <1>2 DEF gather_descendants

LEMMA DescendantsType == ASSUME NEW r PROVE gather_descendants(r) \subseteq StoredRuns
BY DEF gather_descendants

LEMMA ListRunsKeeps ==
  ASSUME StoreInv, NEW u \in Users, NEW targets \in SUBSET StoredRuns, NEW cascade \in BOOLEAN,
         ListRuns(u, targets, cascade)
  PROVE  StoreInv'
<1>1. UNCHANGED <<runDirs, created>>
  BY DEF ListRuns
<1>2. CASE Refused(targets, cascade)
  BY <1>1, <1>2, TaskEndsKeeps DEF ListRuns
<1>3. CASE ~Refused(targets, cascade)
  <2> DEFINE listed == UNION {Listed(r, cascade) : r \in targets}
             seen == {r \in StoredRuns : Readable(r) /\ ParentReadable(r)}
             t == [NoTask EXCEPT !.at = "remove", !.targets = targets, !.plan = listed,
                                 !.seen = seen]
  <2>1. task' = [task EXCEPT ![u] = t]
    BY <1>3 DEF ListRuns
  <2>2. listed \subseteq StoredRuns
    BY DescendantsType DEF Listed
  <2>3. seen \subseteq ToSet(created)
    BY DEF StoreInv, CreatedKnown, HasManifest, Readable, ManifestStates
  <2>4. ASSUME NEW r \in seen, runDirs[r].parent \in listed PROVE r \in listed
    <3> DEFINE p == runDirs[r].parent
    <3>1. PICK q \in targets : p \in Listed(q, cascade)
      BY <2>4
    <3>2. r \in StoredRuns /\ Readable(r) /\ Readable(p) /\ r \in Children(p)
      BY <2>4 DEF ParentReadable, Children
    <3>3. CASE ~cascade
      <4>1. p = q
        BY <3>1, <3>3 DEF Listed
      <4> QED  BY <1>3, <3>2, <3>3, <4>1 DEF Refused, has_descendants
    <3>4. CASE cascade
      <4>1. Readable(q)
        <5>1. CASE p = q
          BY <3>2, <5>1
        <5>2. CASE p # q
          BY <3>1, <5>2 DEF Listed
        <5> QED  BY <5>1, <5>2
      <4>2. Listed(q, cascade) = gather_descendants(q) \cup {q}
        BY <3>4, <4>1 DEF Listed
      <4>3. r \in Listed(q, cascade)
        BY <3>1, <3>2, <4>2, DescendantsClosed
      <4> QED  BY <4>3
    <3> QED  BY <3>3, <3>4
  <2> HIDE DEF listed, seen
  <2>5. seen \subseteq StoredRuns
    BY DEF seen
  <2>6. /\ t \in Tasks /\ t.at = "remove" /\ t.plan = listed /\ t.taken = {}
        /\ t.seen = seen /\ t.dir = NoRunDir
    BY <2>2, <2>5, NoTaskType DEF NoTask, Tasks
  <2> HIDE DEF t
  <2>7. ListClosed(t, runDirs, ToSet(created))
    BY <2>3, <2>4, <2>6 DEF ListClosed
  <2>8. RunOk(t, ToSet(created)) /\ GoesOn(t.dir, runDirs, ToSet(created))
    BY <2>6, NoTaskType DEF RunOk, GoesOn
  <2> QED  BY <1>1, <2>1, <2>6, <2>7, <2>8, TaskKeeps
<1> QED  BY <1>2, <1>3

LEMMA RemoveNextKeeps == ASSUME StoreInv, NEW u \in Users, RemoveNext(u) PROVE StoreInv'
<1>1. /\ task[u] \in Tasks /\ task[u].at = "remove" /\ created' = created
      /\ ListClosed(task[u], runDirs, ToSet(created))
      /\ GoesOn(task[u].dir, runDirs, ToSet(created))
  BY StoreTypes DEF RemoveNext, StoreInv, RemovalClosed, HistoriesFrozen
<1>2. CASE task[u].plan = {}
  <2> DEFINE t == [task[u] EXCEPT !.at = "removed"]
  <2>1. task' = [task EXCEPT ![u] = t] /\ UNCHANGED <<runDirs, created>>
    BY <1>1, <1>2, StoreTypes DEF RemoveNext
  <2>2. /\ t \in Tasks /\ t.at = "removed" /\ t.plan = {} /\ t.taken = task[u].taken
        /\ t.seen = task[u].seen /\ t.dir = task[u].dir
    BY <1>1, <1>2 DEF Tasks
  <2> HIDE DEF t
  <2>3. /\ RunOk(t, ToSet(created)) /\ GoesOn(t.dir, runDirs, ToSet(created))
    BY <1>1, <2>2 DEF RunOk
  <2>4. ListClosed(t, runDirs, ToSet(created))
    BY <1>1, <1>2, <2>2 DEF ListClosed
  <2> QED  BY <2>1, <2>2, <2>3, <2>4, TaskKeeps
<1>3. CASE task[u].plan # {}
  <2>1. PICK r \in task[u].plan :
          IF Present(r)
          THEN /\ runDirs' = [runDirs EXCEPT ![r] = NoRunDir]
               /\ task' = [task EXCEPT ![u].plan = @ \ {r}, ![u].taken = @ \cup {r}]
          ELSE TaskEnds(u) /\ UNCHANGED runDirs
    BY <1>3 DEF RemoveNext
  <2>2. CASE ~Present(r)
    BY <1>1, <2>1, <2>2, TaskEndsKeeps
  <2>3. CASE Present(r)
    <3> DEFINE t == [task[u] EXCEPT !.plan = task[u].plan \ {r}, !.taken = task[u].taken \cup {r}]
    <3>1. runDirs' = [runDirs EXCEPT ![r] = NoRunDir] /\ task' = [task EXCEPT ![u] = t]
      BY <2>1, <2>3, StoreTypes
    <3>2. /\ r \in StoredRuns /\ task[u].plan \subseteq StoredRuns
          /\ task[u].taken \subseteq StoredRuns
      BY <1>1 DEF Tasks
    <3>3. /\ t \in Tasks /\ t.at = "remove" /\ t.plan = task[u].plan \ {r}
          /\ t.taken = task[u].taken \cup {r} /\ t.seen = task[u].seen /\ t.dir = task[u].dir
      BY <1>1, <3>2 DEF Tasks
    <3> HIDE DEF t
    <3>4. /\ runDirs' \in [StoredRuns -> RunDirs] /\ runDirs'[r] = NoRunDir
          /\ \A q \in StoredRuns : q # r => runDirs'[q] = runDirs[q]
      BY <3>1, <3>2, StoreTypes, NoTaskType
    <3>5. NoRunDir.manifest = "absent"
      BY DEF NoRunDir
    <3>6. Kept(runDirs, runDirs', ToSet(created), ToSet(created'))
      BY <1>1, <3>4, <3>5, StoreTypes DEF Kept
    <3>7. \A q \in StoredRuns : HasManifest(runDirs'[q]) => q \in ToSet(created')
      BY <1>1, <3>4, <3>5 DEF StoreInv, CreatedKnown, HasManifest
    <3>8. ASSUME NEW q \in StoredRuns PROVE GoesOn(runDirs'[q], runDirs', ToSet(created'))
      <4>1. CASE q = r
        BY <3>4, <4>1, NoTaskType DEF GoesOn
      <4>2. CASE q # r
        <5>1. GoesOn(runDirs[q], runDirs, ToSet(created)) /\ runDirs'[q] = runDirs[q]
          BY <3>4, <4>2 DEF StoreInv, HistoriesFrozen
        <5>2. GoesOn(runDirs[q], runDirs', ToSet(created'))
          BY <3>6, <5>1, GoesOnStays
        <5> QED  BY <5>1, <5>2
      <4> QED  BY <4>1, <4>2
    <3>9. GoesOn(t.dir, runDirs', ToSet(created'))
      BY <1>1, <3>3, <3>6, GoesOnStays
    <3>10. ListClosed(t, runDirs', ToSet(created'))
      <4>1. ListClosed(task[u], runDirs', ToSet(created'))
        BY <1>1, <3>6, ListStaysClosed
      <4>2. task[u].plan \cup task[u].taken = t.plan \cup t.taken
        BY <3>3
      <4> QED  BY <1>1, <3>3, <3>4, <3>5, <4>1, <4>2 DEF ListClosed
    <3>11. created' \in Seq(StoredRuns) /\ RunOk(t, ToSet(created'))
      BY <1>1, <3>3, StoreTypes DEF RunOk
    <3> QED  BY <3>1, <3>3, <3>4, <3>6, <3>7, <3>8, <3>9, <3>10, <3>11, StepKeeps
  <2> QED  BY <2>2, <2>3
<1> QED  BY <1>2, <1>3

LEMMA UserCommandsKeep == ASSUME StoreInv, NEW u \in Users, UserCommands(u) PROVE StoreInv'
<1>1. ASSUME NEW s \in StoredSessions, run_prompt(u, s) PROVE StoreInv'
  BY <1>1, PromptKeeps
<1>2. ASSUME NEW s \in StoredSessions, NEW head \in resolve_session_head(s),
             run_session_action(u, "Continue", head)
      PROVE  StoreInv'
  <2>1. head \in StoredRuns \cup {NoStoredRun}
    BY DEF resolve_session_head, RunsOf
  <2> QED  BY <1>2, <2>1, SessionActionKeeps
<1>3. ASSUME NEW r \in StoredRuns, NEW kind \in {"Resume", "Branch"},
             run_session_action(u, kind, r)
      PROVE  StoreInv'
  BY <1>3, SessionActionKeeps
<1>4. ASSUME NEW r \in StoredRuns, NEW cascade \in BOOLEAN, delete_run(u, r, cascade)
      PROVE  StoreInv'
  BY <1>4, ListRunsKeeps DEF delete_run
<1>5. ASSUME NEW old \in SUBSET StoredRuns, NEW cascade \in BOOLEAN, prune_runs(u, old, cascade)
      PROVE  StoreInv'
  BY <1>5, ListRunsKeeps DEF prune_runs
<1> QED  BY <1>1, <1>2, <1>3, <1>4, <1>5 DEF UserCommands

LEMMA StoreInvHolds == StoreSpec => []StoreInv
<1>1. StoreInv /\ [StoreNext]_storeVars => StoreInv'
  <2>1. ASSUME StoreInv, UNCHANGED storeVars PROVE StoreInv'
    BY <2>1 DEF storeVars, StoreInv, StoreType, CreatedKnown, HistoriesFrozen, RemovalClosed
  <2>2. ASSUME StoreInv, NEW u \in Users, CommandStep(u) \/ Leaves(u) \/ RemoveNext(u)
        PROVE  StoreInv'
    <3>1. CASE CommandStep(u)
      BY <2>2, <3>1, CreateKeeps, FirstSaveKeeps, CheckpointsKeep, LoopEndsKeeps, LastSaveKeeps
         DEF CommandStep
    <3>2. CASE Leaves(u)
      BY <2>2, <3>2, TaskEndsKeeps DEF Leaves
    <3> QED  BY <2>2, <3>1, <3>2, RemoveNextKeeps
  <2> QED  BY <2>1, <2>2, UserCommandsKeep DEF StoreNext
<1> QED  BY <1>1, StoreBegins, PTL DEF StoreSpec

\* A run that is continued or resumed has the whole history of the run that it goes on from,
\* and its session (sessions.rs: run_session_action), for any number of processes that begin,
\* go on from, save, delete and prune runs at the same time without a lock.
THEOREM HistoriesStayWhole == StoreSpec => []ContextPreserved
<1>1. StoreInv => ContextPreserved
  <2> SUFFICES ASSUME StoreInv, NEW r \in StoredRuns, runDirs[r].onward,
                      Readable(runDirs[r].parent)
               PROVE  /\ runDirs[runDirs[r].parent].history \subseteq runDirs[r].history
                      /\ runDirs[r].session = runDirs[runDirs[r].parent].session
    BY DEF ContextPreserved
  <2>1. GoesOn(runDirs[r], runDirs, ToSet(created))
    BY DEF StoreInv, HistoriesFrozen
  <2>2. runDirs[runDirs[r].parent].manifest # "absent"
    BY DEF Readable, ManifestStates
  <2> QED  BY <2>1, <2>2 DEF GoesOn
<1> QED  BY <1>1, StoreInvHolds, PTL

\* A removal that has finished leaves no run without its parent, if both manifests could be
\* read when it was listed (runs.rs: delete_run, prune_runs), whatever other processes do.
THEOREM RemovalTakesDescendants == StoreSpec => []RemovedWithDescendants
<1>1. StoreInv => RemovedWithDescendants
  <2> SUFFICES ASSUME StoreInv, NEW u \in Users, task[u].at = "removed",
                      NEW r \in task[u].seen, Present(r)
               PROVE  runDirs[r].parent \notin task[u].taken
    BY DEF RemovedWithDescendants
  <2>1. ListClosed(task[u], runDirs, ToSet(created))
    BY DEF StoreInv, RemovalClosed
  <2> QED  BY <2>1 DEF ListClosed, Present
<1> QED  BY <1>1, StoreInvHolds, PTL

-----------------------------------------------------------------------------
(* ToolDiscovery: the inductive invariant. *)

ListedTools == {t[2] : t \in ServerTools}
Cells == {"absent", "empty", "ready", "failed"}
Underway == {"entry", "cell", "wait", "connect", "client", "listing", "heard", "storing"}
ErrandSteps == Underway \cup {"idle", "next", "failed"}
ErrandJobs == {"none", "connect", "list", "details", "call"}
AskedNames == {<<>>} \cup {BaseName[id] : id \in McpIds} \cup {<<t>> : t \in ListedTools}

Registered == [cell : Cells, starter : Callers \cup {NoCaller}, failed : BOOLEAN,
               cache : (SUBSET ListedTools) \cup {NoList}]
ServerState == [processes : Int, up : BOOLEAN, tools : SUBSET ListedTools, unread : Nat]
Errand == [at : ErrandSteps, job : ErrandJobs, server : Servers \cup {NoServer},
           left : SUBSET Servers, asked : AskedNames, heard : SUBSET ListedTools,
           listed : SUBSET McpIds]

\* The process of a server is that of its client, or of who connects it.
ServerInv(s, row, srv) ==
  /\ srv.processes = IF row.cell = "ready" \/ row.starter # NoCaller THEN 1 ELSE 0
  /\ row.starter # NoCaller => row.cell = "empty"
  /\ row.failed => row.cell = "failed"
  /\ row.cache # NoList => row.cache \subseteq ToolsOf(s)
  /\ srv.tools \subseteq ToolsOf(s)

\* Who connects is the starter; only the embedder lists, and it lists what has no list.
CallerInv(c, it, rows) ==
  /\ it.at \in Underway => it.server \in Servers
  /\ it.at = "connect" => rows[it.server].starter = c
  /\ it.at \in {"listing", "heard", "storing"} => c = Embedder /\ rows[it.server].cache = NoList
  /\ it.at \in {"heard", "storing"} => it.heard \subseteq ToolsOf(it.server)
  /\ it.job \in {"list", "details"} => c = Embedder
  /\ it.job = "call" => c \in Agents

InspectedInv(told, rows) ==
  \A s \in Servers : /\ told[s] = "Failed" => rows[s].cell = "failed"
                     /\ told[s] = "Connected" => rows[s].cell = "ready"

ConnectionInv ==
  /\ registry \in [Servers -> Registered]
  /\ mcpServer \in [Servers -> ServerState]
  /\ caller \in [Callers -> Errand]
  /\ \A s \in Servers : ServerInv(s, registry[s], mcpServer[s])
  /\ \A c \in Callers : CallerInv(c, caller[c], registry)
  /\ InspectedInv(inspected, registry)

\* A tool is in the list of a server that is connected.
KeptTool(rows, id) ==
  /\ rows[id[2]].cell = "ready" /\ rows[id[2]].cache # NoList /\ id[3] \in rows[id[2]].cache

-----------------------------------------------------------------------------
(* ToolDiscovery: ids of tools. *)

LEMMA McpFacts ==
  ASSUME NEW id \in McpIds
  PROVE  /\ id = <<"mcp", id[2], id[3]>> /\ IsMcp(id) /\ id[2] \in Servers
         /\ id[3] \in ToolsOf(id[2]) /\ NameOf(id) = id[3] /\ id \in ToolIds
<1>1. PICK t \in ServerTools : id = <<"mcp", t[1], t[2]>>
  BY DEF McpIds, McpId
<1>2. t[1] \in Servers
  BY DiscoveryAssumption
<1>3. id[1] = "mcp" /\ id[2] = t[1] /\ id[3] = t[2] /\ Len(id) = 3
  BY <1>1
<1>4. t[2] \in ToolsOf(t[1])
  BY DEF ToolsOf
<1> QED  BY <1>1, <1>2, <1>3, <1>4 DEF IsMcp, NameOf, Last, ToolIds

LEMMA BuiltinFacts ==
  ASSUME NEW id \in ToolIds, id \notin McpIds
  PROVE  ~IsMcp(id) /\ NameOf(id) \in BaseTools \cup DiscoveryTools
<1>1. PICK n \in BaseTools \cup DiscoveryTools : id = <<"builtin", n>>
  BY DEF ToolIds, Builtin
<1>2. id[1] = "builtin" /\ id[2] = n /\ Len(id) = 2
  BY <1>1
<1> QED  BY <1>1, <1>2 DEF IsMcp, NameOf, Last

LEMMA ListedIds ==
  ASSUME NEW s \in Servers, NEW t \in ToolsOf(s)
  PROVE  <<"mcp", s, t>> \in McpIds /\ t \in ListedTools
<1>1. PICK u \in ServerTools : u[1] = s /\ u[2] = t
  BY DEF ToolsOf
<1> QED  BY <1>1 DEF McpIds, McpId, ListedTools

\* What get_cached_tools finds is in a list, and all that is, unless a lock is held.
LEMMA CachedFacts ==
  ASSUME ConnectionInv
  PROVE  /\ Cached \subseteq McpIds
         /\ \A id \in Cached : KeptTool(registry, id)
         /\ \A id \in McpIds : ~Contended /\ KeptTool(registry, id) => id \in Cached
<1> DEFINE Open == {x \in Servers : registry[x].cell = "ready" /\ registry[x].cache # NoList
                                       /\ ~CacheLocked(x)}
<1>1. ASSUME NEW id \in Cached PROVE id \in McpIds /\ KeptTool(registry, id)
  <2>1. PICK s \in Open : \E t \in registry[s].cache : id = <<"mcp", s, t>>
    BY <1>1 DEF Cached
  <2>2. PICK t \in registry[s].cache : id = <<"mcp", s, t>>
    BY <2>1
  <2>3. ServerInv(s, registry[s], mcpServer[s])
    BY DEF ConnectionInv
  <2>4. t \in ToolsOf(s)
    BY <2>2, <2>3 DEF ServerInv
  <2>5. id \in McpIds
    BY <2>2, <2>4, ListedIds
  <2>6. id[2] = s /\ id[3] = t
    BY <2>2
  <2> QED  BY <2>2, <2>5, <2>6 DEF KeptTool
<1>2. ASSUME NEW id \in McpIds, ~Contended, KeptTool(registry, id) PROVE id \in Cached
  <2>1. id = <<"mcp", id[2], id[3]>> /\ id[2] \in Servers
    BY McpFacts
  <2>2. id[2] \in Open /\ id[3] \in registry[id[2]].cache
    BY <1>2, <2>1 DEF KeptTool, Contended
  <2>3. mapHolder = NoCaller
    BY <1>2 DEF Contended
  <2>4. id \in UNION {{<<"mcp", s, t>> : t \in registry[s].cache} : s \in Open}
    BY <2>1, <2>2
  <2> QED  BY <2>3, <2>4 DEF Cached
<1> QED  BY <1>1, <1>2

-----------------------------------------------------------------------------
(* ToolDiscovery: how an errand goes on. *)

SameErrand(new, old) ==
  /\ new.job = old.job /\ new.server = old.server /\ new.left = old.left
  /\ new.asked = old.asked /\ new.heard = old.heard /\ new.listed = old.listed

LEMMA Moved ==
  ASSUME caller \in [Callers -> Errand], NEW c \in Callers, NEW at \in ErrandSteps, Moves(c, at)
  PROVE  \E new \in Errand : /\ caller' = [caller EXCEPT ![c] = new]
                             /\ new.at = at /\ SameErrand(new, caller[c])
<1> PICK new : new = [caller[c] EXCEPT !.at = at]
  OBVIOUS
<1>1. caller[c] \in Errand
  OBVIOUS
<1>2. new \in Errand /\ new.at = at /\ SameErrand(new, caller[c])
  BY <1>1 DEF Errand, SameErrand
<1>3. caller' = [caller EXCEPT ![c] = new]
  BY DEF Moves
<1> QED  BY <1>2, <1>3

LEMMA NoErrandType == NoErrand \in Errand /\ NoErrand.at = "idle" /\ NoErrand.job = "none"
BY DEF NoErrand, Errand, ErrandSteps, ErrandJobs, AskedNames

LEMMA FailedErrand ==
  ASSUME caller \in [Callers -> Errand], NEW c \in Callers, Fails(c)
  PROVE  \E new \in Errand : /\ caller' = [caller EXCEPT ![c] = new]
                             /\ new.at = "failed" /\ new.job = caller[c].job
                             /\ new.server = caller[c].server
<1> PICK new : new = [NoErrand EXCEPT !.at = "failed", !.job = caller[c].job, !.server = caller[c].server]
  OBVIOUS
<1>1. caller[c] \in Errand
  OBVIOUS
<1>2. new \in Errand /\ new.at = "failed" /\ new.job = caller[c].job /\ new.server = caller[c].server
  BY <1>1 DEF Errand, NoErrand, ErrandSteps, AskedNames
<1>3. caller' = [caller EXCEPT ![c] = new]
  BY DEF Fails
<1> QED  BY <1>2, <1>3

\* What has a list, or has failed to connect, stays so.
Grows ==
  \A s \in Servers :
    /\ registry[s].cell \in {"ready", "failed"} => registry'[s].cell = registry[s].cell
    /\ registry[s].cache # NoList => registry'[s].cache = registry[s].cache

\* A call goes on as it was, or fails.
CallSteps == {"entry", "cell", "wait", "connect", "client", "failed"}
CallGoesOn(new, old) ==
  new.job = "call" =>
    /\ old.job = "call"
    /\ old.at \in CallSteps =>
         /\ new.at \in CallSteps
         /\ new.at # "failed" =>
              old.at # "failed" /\ new.server = old.server /\ new.asked = old.asked

ErrandGoesOn(c) ==
  /\ ConnectionInv'
  /\ Grows
  /\ CallGoesOn(caller'[c], caller[c])
  /\ \A d \in Callers \ {c} : caller'[d] = caller[d]

LEMMA ErrandStep ==
  ASSUME ConnectionInv, NEW c \in Callers, NEW new \in Errand, caller' = [caller EXCEPT ![c] = new],
         registry' \in [Servers -> Registered], mcpServer' \in [Servers -> ServerState],
         \A s \in Servers : ServerInv(s, registry'[s], mcpServer'[s]),
         CallerInv(c, new, registry'),
         \A d \in Callers \ {c} : CallerInv(d, caller[d], registry'),
         inspected' = inspected, Grows, CallGoesOn(new, caller[c])
  PROVE  ErrandGoesOn(c)
<1>1. caller \in [Callers -> Errand]
  BY DEF ConnectionInv
<1>2. caller' \in [Callers -> Errand] /\ caller'[c] = new /\ \A d \in Callers \ {c} : caller'[d] = caller[d]
  BY <1>1
<1>3. \A d \in Callers : CallerInv(d, caller'[d], registry')
  BY <1>2
<1>4. InspectedInv(inspected', registry')
  BY DEF ConnectionInv, InspectedInv, Grows
<1>5. ConnectionInv'
  BY <1>2, <1>3, <1>4 DEF ConnectionInv
<1> QED  BY <1>2, <1>5 DEF ErrandGoesOn

LEMMA QuietErrand ==
  ASSUME ConnectionInv, NEW c \in Callers, NEW new \in Errand, caller' = [caller EXCEPT ![c] = new],
         registry' = registry, mcpServer' = mcpServer, inspected' = inspected,
         CallerInv(c, new, registry), CallGoesOn(new, caller[c])
  PROVE  ErrandGoesOn(c)
<1>1. Grows
  BY DEF Grows
<1>2. /\ registry' \in [Servers -> Registered] /\ mcpServer' \in [Servers -> ServerState]
      /\ \A s \in Servers : ServerInv(s, registry'[s], mcpServer'[s])
      /\ \A d \in Callers \ {c} : CallerInv(d, caller[d], registry')
      /\ CallerInv(c, new, registry')
  BY DEF ConnectionInv
<1> QED  BY <1>1, <1>2, ErrandStep

-----------------------------------------------------------------------------
(* ToolDiscovery: the steps of errands. *)

LEMMA EnterRegistryKeeps ==
  ASSUME ConnectionInv, NEW c \in Callers, EnterRegistry(c), inspected' = inspected
  PROVE  ErrandGoesOn(c)
<1>1. caller \in [Callers -> Errand] /\ CallerInv(c, caller[c], registry)
  BY DEF ConnectionInv
<1>2. registry' = registry /\ mcpServer' = mcpServer /\ caller[c].at = "entry"
  BY DEF EnterRegistry
<1>3. Fails(c) \/ Moves(c, "cell")
  BY DEF EnterRegistry
<1>4. "cell" \in ErrandSteps
  BY DEF ErrandSteps, Underway
<1>5. \E new \in Errand : /\ caller' = [caller EXCEPT ![c] = new]
                          /\ new.at \in {"failed", "cell"} /\ new.job = caller[c].job
                          /\ new.server = caller[c].server
                          /\ new.at # "failed" => new.asked = caller[c].asked
  <2>1. CASE Fails(c)
    BY <1>1, <2>1, FailedErrand
  <2>2. CASE Moves(c, "cell")
    <3>1. PICK new \in Errand : /\ caller' = [caller EXCEPT ![c] = new]
                                /\ new.at = "cell" /\ SameErrand(new, caller[c])
      BY <1>1, <1>4, <2>2, Moved
    <3> QED  BY <3>1 DEF SameErrand
  <2> QED  BY <1>3, <2>1, <2>2
<1>6. PICK new \in Errand : /\ caller' = [caller EXCEPT ![c] = new]
                            /\ new.at \in {"failed", "cell"} /\ new.job = caller[c].job
                            /\ new.server = caller[c].server
                            /\ new.at # "failed" => new.asked = caller[c].asked
  BY <1>5
<1>7. CallerInv(c, new, registry)
  BY <1>1, <1>2, <1>6 DEF CallerInv, Underway
<1>8. CallGoesOn(new, caller[c])
  BY <1>2, <1>6 DEF CallGoesOn, CallSteps
<1> QED  BY <1>2, <1>6, <1>7, <1>8, QuietErrand

\* The row of a server is exchanged.
LEMMA RowExchanged ==
  ASSUME ConnectionInv, NEW s \in Servers, NEW row \in Registered, NEW srv \in ServerState,
         registry' = [registry EXCEPT ![s] = row], mcpServer' = [mcpServer EXCEPT ![s] = srv],
         ServerInv(s, row, srv)
  PROVE  /\ registry' \in [Servers -> Registered] /\ mcpServer' \in [Servers -> ServerState]
         /\ \A x \in Servers : ServerInv(x, registry'[x], mcpServer'[x])
         /\ registry'[s] = row /\ \A x \in Servers \ {s} : registry'[x] = registry[x]
<1>1. registry \in [Servers -> Registered] /\ mcpServer \in [Servers -> ServerState]
  BY DEF ConnectionInv
<1>2. /\ registry' \in [Servers -> Registered] /\ mcpServer' \in [Servers -> ServerState]
      /\ registry'[s] = row /\ mcpServer'[s] = srv
      /\ \A x \in Servers \ {s} : registry'[x] = registry[x] /\ mcpServer'[x] = mcpServer[x]
  BY <1>1
<1>3. ASSUME NEW x \in Servers PROVE ServerInv(x, registry'[x], mcpServer'[x])
  <2>1. CASE x = s
    BY <1>2, <2>1
  <2>2. CASE x # s
    <3>1. ServerInv(x, registry[x], mcpServer[x])
      BY DEF ConnectionInv
    <3> QED  BY <1>2, <2>2, <3>1
  <2> QED  BY <2>1, <2>2
<1> QED  BY <1>2, <1>3

\* What an exchange of rows needs, for the callers: who connects at s keeps its row.
LEMMA ErrandWithRow ==
  ASSUME ConnectionInv, NEW c \in Callers, NEW new \in Errand, caller' = [caller EXCEPT ![c] = new],
         NEW s \in Servers, NEW row \in Registered, NEW srv \in ServerState,
         registry' = [registry EXCEPT ![s] = row], mcpServer' = [mcpServer EXCEPT ![s] = srv],
         ServerInv(s, row, srv),
         registry[s].cell \in {"ready", "failed"} => row.cell = registry[s].cell,
         registry[s].cache # NoList => row.cache = registry[s].cache,
         row.cache = registry[s].cache \/ c = Embedder,
         row.starter = registry[s].starter \/ registry[s].starter \in {c, NoCaller},
         CallerInv(c, new, registry'),
         inspected' = inspected, CallGoesOn(new, caller[c])
  PROVE  ErrandGoesOn(c)
<1>1. /\ registry' \in [Servers -> Registered] /\ mcpServer' \in [Servers -> ServerState]
      /\ \A x \in Servers : ServerInv(x, registry'[x], mcpServer'[x])
      /\ registry'[s] = row /\ \A x \in Servers \ {s} : registry'[x] = registry[x]
  BY RowExchanged
<1>2. Grows
  BY <1>1 DEF Grows
<1>3. ASSUME NEW d \in Callers \ {c} PROVE CallerInv(d, caller[d], registry')
  <2>1. CallerInv(d, caller[d], registry) /\ d # NoCaller /\ d # c
    BY DiscoveryAssumption DEF ConnectionInv
  <2>2. ASSUME caller[d].at = "connect" PROVE registry'[caller[d].server].starter = d
    <3>1. caller[d].server \in Servers /\ registry[caller[d].server].starter = d
      BY <2>1, <2>2 DEF CallerInv, Underway
    <3> QED  BY <1>1, <2>1, <3>1
  <2>3. ASSUME caller[d].at \in {"listing", "heard", "storing"}
        PROVE  registry'[caller[d].server].cache = NoList
    <3>1. d = Embedder /\ caller[d].server \in Servers /\ registry[caller[d].server].cache = NoList
      BY <2>1, <2>3 DEF CallerInv, Underway
    <3> QED  BY <1>1, <2>1, <3>1
  <2> QED  BY <2>1, <2>2, <2>3 DEF CallerInv
<1> QED  BY <1>1, <1>2, <1>3, ErrandStep

LEMMA RowFields ==
  ASSUME ConnectionInv, NEW s \in Servers
  PROVE  /\ registry[s] \in Registered /\ mcpServer[s] \in ServerState
         /\ ServerInv(s, registry[s], mcpServer[s])
         /\ registry = [registry EXCEPT ![s] = registry[s]]
         /\ mcpServer = [mcpServer EXCEPT ![s] = mcpServer[s]]
BY DEF ConnectionInv

LEMMA TakeCellKeeps ==
  ASSUME ConnectionInv, NEW c \in Callers, TakeCell(c), inspected' = inspected
  PROVE  ErrandGoesOn(c)
<1>1. caller \in [Callers -> Errand] /\ CallerInv(c, caller[c], registry)
  BY DEF ConnectionInv
<1>2. mcpServer' = mcpServer /\ caller[c].at = "cell" /\ Moves(c, "wait")
  BY DEF TakeCell
<1>3. PICK s : s = caller[c].server
  OBVIOUS
<1>4. s \in Servers
  BY <1>1, <1>2, <1>3 DEF CallerInv, Underway
<1>5. /\ registry[s] \in Registered /\ mcpServer[s] \in ServerState
      /\ ServerInv(s, registry[s], mcpServer[s])
      /\ mcpServer = [mcpServer EXCEPT ![s] = mcpServer[s]]
  BY <1>4, RowFields
<1>6. PICK row : row = [registry[s] EXCEPT !.cell = IF @ = "absent" THEN "empty" ELSE @]
  OBVIOUS
<1>7. /\ row \in Registered /\ row.starter = registry[s].starter /\ row.failed = registry[s].failed
      /\ row.cache = registry[s].cache
      /\ row.cell = IF registry[s].cell = "absent" THEN "empty" ELSE registry[s].cell
  BY <1>5, <1>6 DEF Registered, Cells
<1>8. registry' = [registry EXCEPT ![s] = row]
  BY <1>3, <1>6 DEF TakeCell
<1>9. ServerInv(s, row, mcpServer[s])
  BY <1>5, <1>7 DEF ServerInv
<1>10. "wait" \in ErrandSteps
  BY DEF ErrandSteps, Underway
<1>11. PICK new \in Errand : /\ caller' = [caller EXCEPT ![c] = new]
                             /\ new.at = "wait" /\ SameErrand(new, caller[c])
  BY <1>1, <1>2, <1>10, Moved
<1>12. CallerInv(c, new, registry') /\ CallGoesOn(new, caller[c])
  BY <1>1, <1>2, <1>3, <1>4, <1>11 DEF CallerInv, CallGoesOn, CallSteps, SameErrand
<1>13. registry[s].cell \in {"ready", "failed"} => row.cell = registry[s].cell
  BY <1>7
<1>14. mcpServer' = [mcpServer EXCEPT ![s] = mcpServer[s]]
  BY <1>2, <1>5
<1> QED  BY <1>4, <1>5, <1>7, <1>8, <1>9, <1>11, <1>12, <1>13, <1>14, ErrandWithRow

LEMMA StartConnectKeeps ==
  ASSUME ConnectionInv, NEW c \in Callers, StartConnect(c), inspected' = inspected
  PROVE  ErrandGoesOn(c)
<1>1. caller \in [Callers -> Errand] /\ CallerInv(c, caller[c], registry) /\ c # NoCaller
  BY DiscoveryAssumption DEF ConnectionInv
<1>2. caller[c].at = "wait" /\ Moves(c, "connect")
  BY DEF StartConnect
<1>3. PICK s : s = caller[c].server
  OBVIOUS
<1>4. s \in Servers
  BY <1>1, <1>2, <1>3 DEF CallerInv, Underway
<1>5. /\ registry[s] \in Registered /\ mcpServer[s] \in ServerState
      /\ ServerInv(s, registry[s], mcpServer[s])
  BY <1>4, RowFields
<1>6. registry[s].cell = "empty" /\ registry[s].starter = NoCaller
  BY <1>3 DEF StartConnect, MayInitialise
<1>7. PICK row : row = [registry[s] EXCEPT !.starter = c]
  OBVIOUS
<1>8. PICK srv : srv = [mcpServer[s] EXCEPT !.processes = @ + 1]
  OBVIOUS
<1>9. /\ row \in Registered /\ row.starter = c /\ row.failed = registry[s].failed
      /\ row.cache = registry[s].cache /\ row.cell = registry[s].cell
  BY <1>5, <1>7 DEF Registered
<1>10. srv \in ServerState /\ srv.processes = mcpServer[s].processes + 1 /\ srv.tools = mcpServer[s].tools
  BY <1>5, <1>8 DEF ServerState
<1>11. registry' = [registry EXCEPT ![s] = row] /\ mcpServer' = [mcpServer EXCEPT ![s] = srv]
  BY <1>3, <1>7, <1>8 DEF StartConnect
<1>12. ServerInv(s, row, srv)
  BY <1>1, <1>5, <1>6, <1>9, <1>10 DEF ServerInv
<1>13. "connect" \in ErrandSteps
  BY DEF ErrandSteps, Underway
<1>14. PICK new \in Errand : /\ caller' = [caller EXCEPT ![c] = new]
                             /\ new.at = "connect" /\ SameErrand(new, caller[c])
  BY <1>1, <1>2, <1>13, Moved
<1>15. registry'[s] = row
  BY <1>4, <1>11 DEF ConnectionInv
<1>16. CallerInv(c, new, registry') /\ CallGoesOn(new, caller[c])
  BY <1>1, <1>2, <1>3, <1>4, <1>9, <1>14, <1>15 DEF CallerInv, CallGoesOn, CallSteps, SameErrand
<1> QED  BY <1>4, <1>6, <1>9, <1>10, <1>11, <1>12, <1>14, <1>16, ErrandWithRow

LEMMA EndConnectKeeps ==
  ASSUME ConnectionInv, NEW c \in Callers, EndConnect(c), inspected' = inspected
  PROVE  ErrandGoesOn(c)
<1>1. caller \in [Callers -> Errand] /\ CallerInv(c, caller[c], registry) /\ c # NoCaller
  BY DiscoveryAssumption DEF ConnectionInv
<1>2. caller[c].at = "connect" /\ Moves(c, "wait")
  BY DEF EndConnect
<1>3. PICK s : s = caller[c].server
  OBVIOUS
<1>4. s \in Servers /\ registry[s].starter = c
  BY <1>1, <1>2, <1>3 DEF CallerInv, Underway
<1>5. /\ registry[s] \in Registered /\ mcpServer[s] \in ServerState
      /\ ServerInv(s, registry[s], mcpServer[s])
      /\ mcpServer = [mcpServer EXCEPT ![s] = mcpServer[s]]
  BY <1>4, RowFields
<1>6. registry[s].cell = "empty" /\ mcpServer[s].processes = 1 /\ ~registry[s].failed
  BY <1>1, <1>4, <1>5 DEF ServerInv
<1>7. "wait" \in ErrandSteps
  BY DEF ErrandSteps, Underway
<1>8. PICK new \in Errand : /\ caller' = [caller EXCEPT ![c] = new]
                            /\ new.at = "wait" /\ SameErrand(new, caller[c])
  BY <1>1, <1>2, <1>7, Moved
<1>9. CallerInv(c, new, registry') /\ CallGoesOn(new, caller[c])
  BY <1>1, <1>2, <1>3, <1>4, <1>8 DEF CallerInv, CallGoesOn, CallSteps, SameErrand
<1> DEFINE Concludes(cell, srv) ==
         /\ registry' = [registry EXCEPT ![s].cell = cell, ![s].starter = NoCaller]
         /\ mcpServer' = [mcpServer EXCEPT ![s] = srv] /\ srv.tools = mcpServer[s].tools
         /\ srv.processes = IF cell = "ready" THEN 1 ELSE 0
<1>10. \E cell \in {"ready", "failed"}, srv \in ServerState : Concludes(cell, srv)
  <2>1. ASSUME registry' = [registry EXCEPT ![s].cell = "ready", ![s].starter = NoCaller],
               mcpServer' = mcpServer
        PROVE  Concludes("ready", mcpServer[s])
    BY <1>5, <1>6, <2>1
  <2>2. ASSUME registry' = [registry EXCEPT ![s].cell = "failed", ![s].starter = NoCaller],
               mcpServer' = [mcpServer EXCEPT ![s].processes = @ - 1]
        PROVE  \E srv \in ServerState : Concludes("failed", srv)
    <3>1. PICK srv : srv = [mcpServer[s] EXCEPT !.processes = @ - 1]
      OBVIOUS
    <3>2. srv \in ServerState /\ srv.tools = mcpServer[s].tools /\ srv.processes = 0
      BY <1>5, <1>6, <3>1 DEF ServerState
    <3>3. mcpServer' = [mcpServer EXCEPT ![s] = srv]
      BY <2>2, <3>1
    <3> QED  BY <2>2, <3>2, <3>3
  <2>3. \/ /\ registry' = [registry EXCEPT ![s].cell = "ready", ![s].starter = NoCaller]
           /\ mcpServer' = mcpServer
        \/ /\ registry' = [registry EXCEPT ![s].cell = "failed", ![s].starter = NoCaller]
           /\ mcpServer' = [mcpServer EXCEPT ![s].processes = @ - 1]
    BY <1>3 DEF EndConnect
  <2> HIDE DEF Concludes
  <2> QED  BY <1>5, <2>1, <2>2, <2>3
<1>11. PICK cell \in {"ready", "failed"}, srv \in ServerState : Concludes(cell, srv)
  BY <1>10
<1>12. PICK row : row = [registry[s] EXCEPT !.cell = cell, !.starter = NoCaller]
  OBVIOUS
<1>13. /\ row \in Registered /\ row.starter = NoCaller /\ row.failed = registry[s].failed
       /\ row.cache = registry[s].cache /\ row.cell = cell
  BY <1>5, <1>12 DEF Registered, Cells
<1>14. registry' = [registry EXCEPT ![s] = row]
  BY <1>4, <1>11, <1>12 DEF ConnectionInv
<1>15. ServerInv(s, row, srv)
  BY <1>5, <1>6, <1>11, <1>13 DEF ServerInv
<1> QED  BY <1>4, <1>6, <1>8, <1>9, <1>11, <1>13, <1>14, <1>15, ErrandWithRow

LEMMA HaveClientKeeps ==
  ASSUME ConnectionInv, NEW c \in Callers, HaveClient(c), inspected' = inspected
  PROVE  ErrandGoesOn(c)
<1>1. caller \in [Callers -> Errand] /\ CallerInv(c, caller[c], registry)
  BY DEF ConnectionInv
<1>2. mcpServer' = mcpServer /\ caller[c].at = "wait"
  BY DEF HaveClient
<1>3. PICK s : s = caller[c].server
  OBVIOUS
<1>4. s \in Servers
  BY <1>1, <1>2, <1>3 DEF CallerInv, Underway
<1>5. CASE registry[s].cell = "ready"
  <2>1. registry' = registry /\ Moves(c, "client")
    BY <1>3, <1>5 DEF HaveClient
  <2>2. "client" \in ErrandSteps
    BY DEF ErrandSteps, Underway
  <2>3. PICK new \in Errand : /\ caller' = [caller EXCEPT ![c] = new]
                              /\ new.at = "client" /\ SameErrand(new, caller[c])
    BY <1>1, <2>1, <2>2, Moved
  <2>4. CallerInv(c, new, registry) /\ CallGoesOn(new, caller[c])
    BY <1>1, <1>2, <1>3, <1>4, <2>3 DEF CallerInv, CallGoesOn, CallSteps, SameErrand
  <2> QED  BY <1>2, <2>1, <2>3, <2>4, QuietErrand
<1>6. CASE registry[s].cell # "ready"
  <2>1. Fails(c) /\ registry[s].cell = "failed" /\ registry' = [registry EXCEPT ![s].failed = TRUE]
    BY <1>3, <1>6 DEF HaveClient
  <2>2. PICK new \in Errand : /\ caller' = [caller EXCEPT ![c] = new]
                              /\ new.at = "failed" /\ new.job = caller[c].job
                              /\ new.server = caller[c].server
    BY <1>1, <2>1, FailedErrand
  <2>3. CallerInv(c, new, registry') /\ CallGoesOn(new, caller[c])
    BY <1>1, <1>2, <2>2 DEF CallerInv, CallGoesOn, CallSteps, Underway
  <2>4. /\ registry[s] \in Registered /\ mcpServer[s] \in ServerState
        /\ ServerInv(s, registry[s], mcpServer[s])
        /\ mcpServer = [mcpServer EXCEPT ![s] = mcpServer[s]]
    BY <1>4, RowFields
  <2>5. PICK row : row = [registry[s] EXCEPT !.failed = TRUE]
    OBVIOUS
  <2>6. /\ row \in Registered /\ row.starter = registry[s].starter
        /\ row.cache = registry[s].cache /\ row.cell = registry[s].cell
    BY <2>4, <2>5 DEF Registered
  <2>7. registry' = [registry EXCEPT ![s] = row]
    BY <2>1, <2>5
  <2>8. ServerInv(s, row, mcpServer[s])
    BY <2>1, <2>4, <2>6 DEF ServerInv
  <2>9. mcpServer' = [mcpServer EXCEPT ![s] = mcpServer[s]]
    BY <1>2, <2>4
  <2> QED  BY <1>4, <2>2, <2>3, <2>4, <2>6, <2>7, <2>8, <2>9, ErrandWithRow
<1> QED  BY <1>5, <1>6

LEMMA TaskDroppedKeeps ==
  ASSUME ConnectionInv, NEW c \in Callers, TaskDropped(c), inspected' = inspected
  PROVE  ErrandGoesOn(c)
<1>1. caller \in [Callers -> Errand] /\ CallerInv(c, caller[c], registry) /\ c # NoCaller
  BY DiscoveryAssumption DEF ConnectionInv
<1>2. Fails(c) /\ caller[c].at \in {"wait", "connect", "client", "listing"}
  BY DEF TaskDropped
<1>3. PICK new \in Errand : /\ caller' = [caller EXCEPT ![c] = new]
                            /\ new.at = "failed" /\ new.job = caller[c].job
                            /\ new.server = caller[c].server
  BY <1>1, <1>2, FailedErrand
<1>4. CallGoesOn(new, caller[c])
  BY <1>2, <1>3 DEF CallGoesOn, CallSteps
<1>5. \A rows : CallerInv(c, new, rows)
  BY <1>1, <1>3 DEF CallerInv, Underway
<1>6. CASE caller[c].at = "connect"
  <2>1. PICK s : s = caller[c].server
    OBVIOUS
  <2>2. s \in Servers /\ registry[s].starter = c
    BY <1>1, <1>6, <2>1 DEF CallerInv, Underway
  <2>3. /\ registry[s] \in Registered /\ mcpServer[s] \in ServerState
        /\ ServerInv(s, registry[s], mcpServer[s])
    BY <2>2, RowFields
  <2>4. registry[s].cell = "empty" /\ mcpServer[s].processes = 1
    BY <1>1, <2>2, <2>3 DEF ServerInv
  <2>5. /\ registry' = [registry EXCEPT ![s].starter = NoCaller]
        /\ mcpServer' = [mcpServer EXCEPT ![s].processes = @ - 1]
    BY <1>6, <2>1 DEF TaskDropped
  <2>6. PICK row : row = [registry[s] EXCEPT !.starter = NoCaller]
    OBVIOUS
  <2>7. PICK srv : srv = [mcpServer[s] EXCEPT !.processes = @ - 1]
    OBVIOUS
  <2>8. /\ row \in Registered /\ row.starter = NoCaller /\ row.failed = registry[s].failed
        /\ row.cache = registry[s].cache /\ row.cell = registry[s].cell
    BY <2>3, <2>6 DEF Registered
  <2>9. srv \in ServerState /\ srv.processes = 0 /\ srv.tools = mcpServer[s].tools
    BY <2>3, <2>4, <2>7 DEF ServerState
  <2>10. registry' = [registry EXCEPT ![s] = row] /\ mcpServer' = [mcpServer EXCEPT ![s] = srv]
    BY <2>5, <2>6, <2>7
  <2>11. ServerInv(s, row, srv)
    BY <2>3, <2>4, <2>8, <2>9 DEF ServerInv
  <2>12. CallerInv(c, new, registry')
    BY <1>5
  <2> QED  BY <1>3, <1>4, <2>2, <2>4, <2>8, <2>9, <2>10, <2>11, <2>12, ErrandWithRow
<1>7. CASE caller[c].at # "connect"
  <2>1. registry' = registry /\ mcpServer' = mcpServer
    BY <1>7 DEF TaskDropped
  <2>2. CallerInv(c, new, registry)
    BY <1>5
  <2> QED  BY <1>3, <1>4, <2>1, <2>2, QuietErrand
<1> QED  BY <1>6, <1>7

\* After a list the next server is listed.
LEMMA ListedErrand ==
  ASSUME caller \in [Callers -> Errand], NEW c \in Callers, NEW tools,
         caller[c].server \in Servers, tools \subseteq ToolsOf(caller[c].server), Lists(c, tools)
  PROVE  \E new \in Errand : /\ caller' = [caller EXCEPT ![c] = new]
                             /\ new.at = "next" /\ new.job = caller[c].job
<1> PICK more : more = {<<"mcp", caller[c].server, t>> : t \in tools}
  OBVIOUS
<1> PICK new : new = [caller[c] EXCEPT !.at = "next", !.heard = {}, !.listed = @ \cup more]
  OBVIOUS
<1>1. caller[c] \in Errand
  OBVIOUS
<1>2. more \subseteq McpIds
  BY ListedIds
<1>3. new \in Errand /\ new.at = "next" /\ new.job = caller[c].job
  BY <1>1, <1>2 DEF Errand, ErrandSteps
<1>4. caller' = [caller EXCEPT ![c] = new]
  BY DEF Lists
<1> QED  BY <1>3, <1>4

LEMMA ReadCacheKeeps ==
  ASSUME ConnectionInv, NEW c \in Callers, ReadCache(c), inspected' = inspected
  PROVE  ErrandGoesOn(c)
<1>1. caller \in [Callers -> Errand] /\ CallerInv(c, caller[c], registry) /\ caller[c] \in Errand
  BY DEF ConnectionInv
<1>2. /\ registry' = registry /\ mcpServer' = mcpServer /\ caller[c].at = "client"
      /\ caller[c].job \in {"list", "details"}
  BY DEF ReadCache
<1>3. caller[c].server \in Servers /\ c = Embedder
  BY <1>1, <1>2 DEF CallerInv, Underway
<1>4. ServerInv(caller[c].server, registry[caller[c].server], mcpServer[caller[c].server])
  BY <1>3, RowFields
<1>5. CASE registry[caller[c].server].cache # NoList
  <2>1. Lists(c, registry[caller[c].server].cache)
    BY <1>5 DEF ReadCache
  <2>2. registry[caller[c].server].cache \subseteq ToolsOf(caller[c].server)
    BY <1>4, <1>5 DEF ServerInv
  <2>3. PICK new \in Errand : /\ caller' = [caller EXCEPT ![c] = new]
                              /\ new.at = "next" /\ new.job = caller[c].job
    BY <1>1, <1>3, <2>1, <2>2, ListedErrand
  <2>4. CallerInv(c, new, registry) /\ CallGoesOn(new, caller[c])
    BY <1>2, <1>3, <2>3 DEF CallerInv, CallGoesOn, CallSteps, Underway
  <2> QED  BY <1>2, <2>3, <2>4, QuietErrand
<1>6. CASE registry[caller[c].server].cache = NoList
  <2>1. Moves(c, "listing") /\ "listing" \in ErrandSteps
    BY <1>6 DEF ReadCache, ErrandSteps, Underway
  <2>2. PICK new \in Errand : /\ caller' = [caller EXCEPT ![c] = new]
                              /\ new.at = "listing" /\ SameErrand(new, caller[c])
    BY <1>1, <2>1, Moved
  <2>3. CallGoesOn(new, caller[c])
    BY <1>2, <2>2 DEF CallGoesOn, CallSteps, SameErrand
  <2>4. CallerInv(c, new, registry)
    BY <1>1, <1>2, <1>3, <1>6, <2>2 DEF CallerInv, SameErrand
  <2> QED  BY <1>2, <2>2, <2>3, <2>4, QuietErrand
<1> QED  BY <1>5, <1>6

LEMMA HearListKeeps ==
  ASSUME ConnectionInv, NEW c \in Callers, HearList(c), inspected' = inspected
  PROVE  ErrandGoesOn(c)
<1>1. caller \in [Callers -> Errand] /\ CallerInv(c, caller[c], registry) /\ caller[c] \in Errand
  BY DEF ConnectionInv
<1>2. registry' = registry /\ mcpServer' = mcpServer /\ caller[c].at = "listing"
  BY DEF HearList
<1>3. PICK s : s = caller[c].server
  OBVIOUS
<1>4. s \in Servers /\ c = Embedder /\ c \notin Agents /\ caller[c].job # "call"
  BY <1>1, <1>2, <1>3, DiscoveryAssumption DEF CallerInv, Underway
<1>5. mcpServer[s] \in ServerState /\ ServerInv(s, registry[s], mcpServer[s])
  BY <1>4, RowFields
<1>6. CASE mcpServer[s].up
  <2>1. caller' = [caller EXCEPT ![c].at = "heard", ![c].heard = mcpServer[s].tools]
    BY <1>3, <1>6 DEF HearList
  <2>2. PICK new : new = [caller[c] EXCEPT !.at = "heard", !.heard = mcpServer[s].tools]
    OBVIOUS
  <2>3. mcpServer[s].tools \subseteq ListedTools /\ mcpServer[s].tools \subseteq ToolsOf(s)
    BY <1>5 DEF ServerState, ServerInv
  <2>4. /\ new \in Errand /\ new.at = "heard" /\ new.heard = mcpServer[s].tools
        /\ new.job = caller[c].job /\ new.server = s
    BY <1>1, <1>3, <2>2, <2>3 DEF Errand, ErrandSteps, Underway
  <2>5. caller' = [caller EXCEPT ![c] = new]
    BY <1>1, <2>1, <2>2
  <2>6. CallerInv(c, new, registry) /\ CallGoesOn(new, caller[c])
    BY <1>1, <1>2, <1>3, <1>4, <2>3, <2>4 DEF CallerInv, CallGoesOn, CallSteps
  <2> QED  BY <1>2, <2>4, <2>5, <2>6, QuietErrand
<1>7. CASE ~mcpServer[s].up
  <2>1. Fails(c)
    BY <1>3, <1>7 DEF HearList
  <2>2. PICK new \in Errand : /\ caller' = [caller EXCEPT ![c] = new]
                              /\ new.at = "failed" /\ new.job = caller[c].job
                              /\ new.server = caller[c].server
    BY <1>1, <2>1, FailedErrand
  <2>3. CallerInv(c, new, registry) /\ CallGoesOn(new, caller[c])
    BY <1>1, <1>4, <2>2 DEF CallerInv, CallGoesOn, CallSteps, Underway
  <2> QED  BY <1>2, <2>2, <2>3, QuietErrand
<1> QED  BY <1>6, <1>7

LEMMA LockCacheKeeps ==
  ASSUME ConnectionInv, NEW c \in Callers, LockCache(c), inspected' = inspected
  PROVE  ErrandGoesOn(c)
<1>1. caller \in [Callers -> Errand] /\ CallerInv(c, caller[c], registry)
  BY DEF ConnectionInv
<1>2. /\ registry' = registry /\ mcpServer' = mcpServer /\ caller[c].at = "heard"
      /\ Moves(c, "storing") /\ "storing" \in ErrandSteps
  BY DEF LockCache, ErrandSteps, Underway
<1>3. PICK new \in Errand : /\ caller' = [caller EXCEPT ![c] = new]
                            /\ new.at = "storing" /\ SameErrand(new, caller[c])
  BY <1>1, <1>2, Moved
<1>4. caller[c].server \in Servers /\ c = Embedder /\ caller[c].job # "call"
  BY <1>1, <1>2, DiscoveryAssumption DEF CallerInv, Underway
<1>5. CallerInv(c, new, registry) /\ CallGoesOn(new, caller[c])
  BY <1>1, <1>2, <1>3, <1>4 DEF CallerInv, CallGoesOn, CallSteps, SameErrand
<1> QED  BY <1>2, <1>3, <1>5, QuietErrand

LEMMA StoreCacheKeeps ==
  ASSUME ConnectionInv, NEW c \in Callers, StoreCache(c), inspected' = inspected
  PROVE  ErrandGoesOn(c)
<1>1. caller \in [Callers -> Errand] /\ CallerInv(c, caller[c], registry) /\ caller[c] \in Errand
  BY DEF ConnectionInv
<1>2. mcpServer' = mcpServer /\ caller[c].at = "storing" /\ Lists(c, caller[c].heard)
  BY DEF StoreCache
<1>3. PICK s : s = caller[c].server
  OBVIOUS
<1>4. /\ s \in Servers /\ c = Embedder /\ c \notin Agents /\ caller[c].job # "call"
      /\ registry[s].cache = NoList /\ caller[c].heard \subseteq ToolsOf(s)
  BY <1>1, <1>2, <1>3, DiscoveryAssumption DEF CallerInv, Underway
<1>5. /\ registry[s] \in Registered /\ mcpServer[s] \in ServerState
      /\ ServerInv(s, registry[s], mcpServer[s])
      /\ mcpServer = [mcpServer EXCEPT ![s] = mcpServer[s]]
  BY <1>4, RowFields
<1>6. PICK row : row = [registry[s] EXCEPT !.cache = caller[c].heard]
  OBVIOUS
<1>7. caller[c].heard \subseteq ListedTools
  BY <1>1 DEF Errand
<1>8. /\ row \in Registered /\ row.starter = registry[s].starter /\ row.failed = registry[s].failed
      /\ row.cache = caller[c].heard /\ row.cell = registry[s].cell
  BY <1>5, <1>6, <1>7 DEF Registered
<1>9. registry' = [registry EXCEPT ![s] = row]
  BY <1>3, <1>6 DEF StoreCache
<1>10. ServerInv(s, row, mcpServer[s])
  BY <1>4, <1>5, <1>8 DEF ServerInv
<1>11. PICK new \in Errand : /\ caller' = [caller EXCEPT ![c] = new]
                             /\ new.at = "next" /\ new.job = caller[c].job
  BY <1>1, <1>2, <1>3, <1>4, ListedErrand
<1>12. CallerInv(c, new, registry') /\ CallGoesOn(new, caller[c])
  BY <1>4, <1>11 DEF CallerInv, CallGoesOn, CallSteps, Underway
<1>13. mcpServer' = [mcpServer EXCEPT ![s] = mcpServer[s]]
  BY <1>2, <1>5
<1> QED  BY <1>4, <1>5, <1>8, <1>9, <1>10, <1>11, <1>12, <1>13, ErrandWithRow

LEMMA NextServerKeeps ==
  ASSUME ConnectionInv, NEW c \in Callers, NextServer(c), inspected' = inspected
  PROVE  ErrandGoesOn(c)
<1>1. caller \in [Callers -> Errand] /\ CallerInv(c, caller[c], registry) /\ caller[c] \in Errand
  BY DEF ConnectionInv
<1>2. registry' = registry /\ mcpServer' = mcpServer /\ caller[c].at = "next"
  BY DEF NextServer
<1>3. PICK s \in caller[c].left :
        caller' = [caller EXCEPT ![c].at = "entry", ![c].server = s, ![c].left = @ \ {s}]
  BY DEF NextServer
<1>4. PICK new : new = [caller[c] EXCEPT !.at = "entry", !.server = s, !.left = @ \ {s}]
  OBVIOUS
<1>5. s \in Servers
  BY <1>1 DEF Errand
<1>6. /\ new \in Errand /\ new.at = "entry" /\ new.job = caller[c].job /\ new.server = s
  BY <1>1, <1>4, <1>5 DEF Errand, ErrandSteps, Underway
<1>7. caller' = [caller EXCEPT ![c] = new]
  BY <1>1, <1>3, <1>4
<1>8. CallerInv(c, new, registry) /\ CallGoesOn(new, caller[c])
  BY <1>1, <1>2, <1>5, <1>6 DEF CallerInv, CallGoesOn, CallSteps
<1> QED  BY <1>2, <1>6, <1>7, <1>8, QuietErrand

\* An errand is over.
LEMMA ErrandOver ==
  ASSUME ConnectionInv, NEW c \in Callers, caller' = [caller EXCEPT ![c] = NoErrand],
         registry' = registry, mcpServer' = mcpServer, inspected' = inspected
  PROVE  ErrandGoesOn(c)
<1>1. NoErrand \in Errand /\ NoErrand.at = "idle" /\ NoErrand.job = "none"
  BY NoErrandType
<1>2. CallerInv(c, NoErrand, registry) /\ CallGoesOn(NoErrand, caller[c])
  BY <1>1 DEF CallerInv, CallGoesOn, Underway
<1> QED  BY <1>1, <1>2, QuietErrand

\* Every step of an errand keeps the invariant of the connections, and what is listed.
LEMMA CallerStepKeeps ==
  ASSUME ConnectionInv, NEW c \in Callers, CallerStep(c)
  PROVE  ErrandGoesOn(c) /\ turn' = turn /\ settled' = settled /\ selected \subseteq selected'
<1>1. turn' = turn /\ settled' = settled /\ inspected' = inspected
  BY DEF CallerStep
<1>2. CASE EnterRegistry(c)
  BY <1>1, <1>2, EnterRegistryKeeps DEF EnterRegistry
<1>3. CASE TakeCell(c)
  BY <1>1, <1>3, TakeCellKeeps DEF TakeCell
<1>4. CASE StartConnect(c)
  BY <1>1, <1>4, StartConnectKeeps DEF StartConnect
<1>5. CASE EndConnect(c)
  BY <1>1, <1>5, EndConnectKeeps DEF EndConnect
<1>6. CASE HaveClient(c)
  BY <1>1, <1>6, HaveClientKeeps DEF HaveClient
<1>7. CASE TaskDropped(c)
  BY <1>1, <1>7, TaskDroppedKeeps DEF TaskDropped
<1>8. CASE ReadCache(c)
  BY <1>1, <1>8, ReadCacheKeeps DEF ReadCache
<1>9. CASE HearList(c)
  BY <1>1, <1>9, HearListKeeps DEF HearList
<1>10. CASE LockCache(c)
  BY <1>1, <1>10, LockCacheKeeps DEF LockCache
<1>11. CASE StoreCache(c)
  BY <1>1, <1>11, StoreCacheKeeps DEF StoreCache
<1>12. CASE NextServer(c)
  BY <1>1, <1>12, NextServerKeeps DEF NextServer
<1>13. CASE EndListing(c)
  <2>1. /\ caller' = [caller EXCEPT ![c] = NoErrand] /\ registry' = registry /\ mcpServer' = mcpServer
        /\ selected \subseteq selected'
    BY <1>13 DEF EndListing
  <2> QED  BY <1>1, <2>1, ErrandOver
<1>14. CASE EndJob(c)
  <2>1. /\ caller' = [caller EXCEPT ![c] = NoErrand] /\ registry' = registry /\ mcpServer' = mcpServer
        /\ selected' = selected
    BY <1>14 DEF EndJob
  <2> QED  BY <1>1, <2>1, ErrandOver
<1>15. \/ EnterRegistry(c) \/ TakeCell(c) \/ StartConnect(c) \/ EndConnect(c) \/ HaveClient(c)
       \/ TaskDropped(c) \/ ReadCache(c) \/ HearList(c) \/ LockCache(c) \/ StoreCache(c)
       \/ NextServer(c) \/ EndListing(c) \/ EndJob(c)
  BY DEF CallerStep
<1> QED
  BY <1>2, <1>3, <1>4, <1>5, <1>6, <1>7, <1>8, <1>9, <1>10, <1>11, <1>12, <1>13, <1>14, <1>15

\* An agent begins a call, or the embedder a listing.
LEMMA ErrandBegins ==
  ASSUME ConnectionInv, NEW c \in Callers, NEW new \in Errand, caller' = [caller EXCEPT ![c] = new],
         registry' = registry, mcpServer' = mcpServer, inspected' = inspected,
         CallerInv(c, new, registry)
  PROVE  /\ ConnectionInv' /\ Grows /\ caller'[c] = new
         /\ \A d \in Callers \ {c} : caller'[d] = caller[d]
<1>1. caller' \in [Callers -> Errand] /\ caller'[c] = new /\ \A d \in Callers \ {c} : caller'[d] = caller[d]
  BY DEF ConnectionInv
<1>2. \A d \in Callers : CallerInv(d, caller'[d], registry)
  BY <1>1 DEF ConnectionInv
<1> QED  BY <1>1, <1>2 DEF ConnectionInv, Grows

\* The connections do not change.
LEMMA ConnectionStutter ==
  ASSUME ConnectionInv, UNCHANGED <<registry, mcpServer, caller, inspected>>
  PROVE  ConnectionInv' /\ Grows
BY DEF ConnectionInv, Grows

LEMMA EmbedderListsKeeps ==
  ASSUME ConnectionInv, EmbedderLists
  PROVE  /\ ConnectionInv' /\ Grows /\ turn' = turn /\ selected' = selected /\ settled' = settled
         /\ \A d \in Agents : caller'[d] = caller[d]
<1>1. PICK order \in {[job |-> "list", asked |-> <<>>]}
            \cup {[job |-> "details", asked |-> n] : n \in {BaseName[id] : id \in McpIds}} :
        caller' = [caller EXCEPT ![Embedder] =
                    [NoErrand EXCEPT !.at = "next", !.job = order.job, !.asked = order.asked,
                                  !.left = Servers]]
  BY DEF EmbedderLists
<1>2. /\ registry' = registry /\ mcpServer' = mcpServer /\ inspected' = inspected
      /\ turn' = turn /\ selected' = selected /\ settled' = settled
  BY DEF EmbedderLists
<1>3. order.job \in {"list", "details"} /\ order.asked \in AskedNames
  BY DEF AskedNames
<1>4. PICK new : new = [NoErrand EXCEPT !.at = "next", !.job = order.job, !.asked = order.asked, !.left = Servers]
  OBVIOUS
<1>5. new \in Errand /\ new.at = "next" /\ new.job \in {"list", "details"}
  BY <1>3, <1>4 DEF NoErrand, Errand, ErrandSteps, ErrandJobs
<1>6. CallerInv(Embedder, new, registry)
  BY <1>5 DEF CallerInv, Underway
<1>7. Embedder \in Callers /\ Agents \subseteq Callers \ {Embedder}
  BY DiscoveryAssumption DEF Callers
<1>8. caller' = [caller EXCEPT ![Embedder] = new]
  BY <1>1, <1>4
<1>9. ConnectionInv' /\ Grows /\ \A d \in Callers \ {Embedder} : caller'[d] = caller[d]
  BY <1>2, <1>5, <1>6, <1>7, <1>8, ErrandBegins
<1> QED  BY <1>2, <1>7, <1>9

LEMMA GetAllStatesKeeps ==
  ASSUME ConnectionInv, get_all_states
  PROVE  /\ ConnectionInv' /\ Grows
         /\ turn' = turn /\ selected' = selected /\ settled' = settled /\ caller' = caller
<1>1. /\ inspected' = [s \in Servers |-> ConnectionState(s)]
      /\ UNCHANGED <<registry, mcpServer, caller, turn, selected, settled>>
  BY DEF get_all_states
<1>2. ASSUME NEW s \in Servers
      PROVE  /\ inspected'[s] = "Failed" => registry[s].cell = "failed"
             /\ inspected'[s] = "Connected" => registry[s].cell = "ready"
  <2>1. inspected'[s] = ConnectionState(s)
    BY <1>1
  <2>2. registry[s].failed => registry[s].cell = "failed"
    BY RowFields DEF ServerInv
  <2>3. registry[s].cell \in Cells
    BY RowFields DEF Registered
  <2> QED  BY <2>1, <2>2, <2>3 DEF ConnectionState, Cells
<1>3. InspectedInv(inspected', registry')
  BY <1>1, <1>2 DEF InspectedInv
<1> QED  BY <1>1, <1>3 DEF ConnectionInv, Grows

LEMMA ServerActsKeeps ==
  ASSUME ConnectionInv, NEW s \in Servers, ServerActs(s)
  PROVE  /\ ConnectionInv' /\ Grows
         /\ turn' = turn /\ selected' = selected /\ settled' = settled /\ caller' = caller
<1>1. UNCHANGED <<registry, caller, turn, selected, settled, inspected>>
  BY DEF ServerActs
<1>2. /\ registry[s] \in Registered /\ mcpServer[s] \in ServerState
      /\ ServerInv(s, registry[s], mcpServer[s])
      /\ registry = [registry EXCEPT ![s] = registry[s]]
  BY RowFields
<1>3. \E srv \in ServerState :
        /\ mcpServer' = [mcpServer EXCEPT ![s] = srv]
        /\ srv.processes = mcpServer[s].processes /\ srv.tools \subseteq ToolsOf(s)
  <2>1. ASSUME NEW t \in ToolsOf(s),
               mcpServer' = [mcpServer EXCEPT ![s].tools = IF t \in @ THEN @ \ {t} ELSE @ \cup {t},
                               ![s].unread = @ + (IF registry[s].cell = "ready" THEN 1 ELSE 0)]
        PROVE  <1>3
    <3>1. PICK srv : srv = [mcpServer[s] EXCEPT !.tools = IF t \in @ THEN @ \ {t} ELSE @ \cup {t},
                              !.unread = @ + (IF registry[s].cell = "ready" THEN 1 ELSE 0)]
      OBVIOUS
    <3>2. t \in ListedTools
      BY ListedIds
    <3> PICK tools : tools = IF t \in mcpServer[s].tools THEN mcpServer[s].tools \ {t}
                             ELSE mcpServer[s].tools \cup {t}
      OBVIOUS
    <3> PICK unread : unread = mcpServer[s].unread + (IF registry[s].cell = "ready" THEN 1 ELSE 0)
      OBVIOUS
    <3>0. tools \subseteq ListedTools /\ tools \subseteq mcpServer[s].tools \cup {t} /\ unread \in Nat
      BY <1>2, <3>2 DEF ServerState
    <3>7. srv = [mcpServer[s] EXCEPT !.tools = tools, !.unread = unread]
      BY <3>1
    <3>3. srv \in ServerState
      BY <1>2, <3>0, <3>7 DEF ServerState
    <3>4. srv.processes = mcpServer[s].processes /\ srv.tools \subseteq mcpServer[s].tools \cup {t}
      BY <1>2, <3>0, <3>7 DEF ServerState
    <3>5. srv.tools \subseteq ToolsOf(s)
      BY <1>2, <3>4 DEF ServerInv
    <3>6. mcpServer' = [mcpServer EXCEPT ![s] = srv]
      BY <1>2, <2>1, <3>1 DEF ConnectionInv
    <3> QED  BY <3>3, <3>4, <3>5, <3>6
  <2>2. ASSUME mcpServer' = [mcpServer EXCEPT ![s].up = FALSE]
        PROVE  <1>3
    <3>1. PICK srv : srv = [mcpServer[s] EXCEPT !.up = FALSE]
      OBVIOUS
    <3>2. srv \in ServerState /\ srv.processes = mcpServer[s].processes /\ srv.tools = mcpServer[s].tools
      BY <1>2, <3>1 DEF ServerState
    <3>3. srv.tools \subseteq ToolsOf(s)
      BY <1>2, <3>2 DEF ServerInv
    <3>4. mcpServer' = [mcpServer EXCEPT ![s] = srv]
      BY <2>2, <3>1
    <3> QED  BY <3>2, <3>3, <3>4
  <2> QED  BY <2>1, <2>2 DEF ServerActs
<1>4. PICK srv \in ServerState :
        /\ mcpServer' = [mcpServer EXCEPT ![s] = srv]
        /\ srv.processes = mcpServer[s].processes /\ srv.tools \subseteq ToolsOf(s)
  BY <1>3
<1>5. ServerInv(s, registry[s], srv)
  BY <1>2, <1>4 DEF ServerInv
<1>6. registry' = [registry EXCEPT ![s] = registry[s]]
  BY <1>1, <1>2
<1>7. /\ mcpServer' \in [Servers -> ServerState]
      /\ \A x \in Servers : ServerInv(x, registry'[x], mcpServer'[x])
  BY <1>2, <1>4, <1>5, <1>6, RowExchanged
<1> QED  BY <1>1, <1>7 DEF ConnectionInv, Grows

\* After list_changed the list of one server is gone.
LEMMA ListChangedKeeps ==
  ASSUME ConnectionInv, NEW s \in Servers, ListChanged(s)
  PROVE  /\ ConnectionInv'
         /\ \A x \in Servers \ {s} : registry'[x] = registry[x]
         /\ selected' = selected /\ settled' = settled /\ caller' = caller
<1>1. UNCHANGED <<caller, selected, settled, inspected>>
  BY DEF ListChanged
<1>2. registry[s] \in Registered /\ mcpServer[s] \in ServerState /\ ServerInv(s, registry[s], mcpServer[s])
  BY RowFields
<1>3. PICK row : row = [registry[s] EXCEPT !.cache = NoList]
  OBVIOUS
<1>4. PICK srv : srv = [mcpServer[s] EXCEPT !.unread = @ - 1]
  OBVIOUS
<1>5. /\ row \in Registered /\ row.starter = registry[s].starter /\ row.failed = registry[s].failed
      /\ row.cache = NoList /\ row.cell = registry[s].cell
  BY <1>2, <1>3 DEF Registered
<1>6. /\ srv \in ServerState /\ srv.processes = mcpServer[s].processes /\ srv.tools = mcpServer[s].tools
  <2>1. mcpServer[s].unread > 0
    BY DEF ListChanged
  <2> QED  BY <1>2, <1>4, <2>1 DEF ServerState
<1>7. registry' = [registry EXCEPT ![s] = row] /\ mcpServer' = [mcpServer EXCEPT ![s] = srv]
  BY <1>3, <1>4 DEF ListChanged
<1>8. ServerInv(s, row, srv)
  BY <1>2, <1>5, <1>6 DEF ServerInv
<1>9. /\ registry' \in [Servers -> Registered] /\ mcpServer' \in [Servers -> ServerState]
      /\ \A x \in Servers : ServerInv(x, registry'[x], mcpServer'[x])
      /\ registry'[s] = row /\ \A x \in Servers \ {s} : registry'[x] = registry[x]
  BY <1>5, <1>6, <1>7, <1>8, RowExchanged
<1>10. ASSUME NEW d \in Callers PROVE CallerInv(d, caller[d], registry')
  <2>1. CallerInv(d, caller[d], registry)
    BY DEF ConnectionInv
  <2>2. ASSUME caller[d].at \in Underway
        PROVE  /\ caller[d].server \in Servers
               /\ registry'[caller[d].server].starter = registry[caller[d].server].starter
               /\ \/ registry'[caller[d].server].cache = registry[caller[d].server].cache
                  \/ registry'[caller[d].server].cache = NoList
    BY <1>5, <1>9, <2>1, <2>2 DEF CallerInv
  <2> QED  BY <2>1, <2>2 DEF CallerInv, Underway
<1>11. InspectedInv(inspected, registry')
  BY <1>5, <1>9 DEF ConnectionInv, InspectedInv
<1> QED  BY <1>1, <1>9, <1>10, <1>11 DEF ConnectionInv

LEMMA ConnectionStarts == DiscoveryInit => ConnectionInv
<1> SUFFICES ASSUME DiscoveryInit PROVE ConnectionInv
  OBVIOUS
<1>1. registry = [s \in Servers |-> [cell |-> "absent", starter |-> NoCaller, failed |-> FALSE, cache |-> NoList]]
  BY DEF DiscoveryInit
<1>2. registry \in [Servers -> Registered]
  BY <1>1 DEF Registered, Cells
<1>3. mcpServer = [s \in Servers |-> [processes |-> 0, up |-> TRUE, tools |-> ToolsOf(s), unread |-> 0]]
  BY DEF DiscoveryInit
<1>4. \A s \in Servers : ToolsOf(s) \subseteq ListedTools
  BY ListedIds
<1>5. mcpServer \in [Servers -> ServerState]
  BY <1>3, <1>4 DEF ServerState
<1>6. \A s \in Servers : ServerInv(s, registry[s], mcpServer[s])
  BY <1>1, <1>3 DEF ServerInv
<1>7. ASSUME NEW c \in Callers PROVE caller[c] \in Errand /\ CallerInv(c, caller[c], registry)
  <2>1. CASE c \in AlwaysOn
    <3>1. PICK new : new = [NoErrand EXCEPT !.at = "entry", !.job = "connect", !.server = c]
      OBVIOUS
    <3>2. caller[c] = new
      BY <1>7, <2>1, <3>1 DEF DiscoveryInit
    <3>3. c \in Servers
      BY <2>1, DiscoveryAssumption
    <3>4. new \in Errand /\ new.at = "entry" /\ new.job = "connect" /\ new.server = c
      BY <3>1, <3>3 DEF NoErrand, Errand, ErrandSteps, ErrandJobs, AskedNames, Underway
    <3> QED  BY <3>2, <3>3, <3>4 DEF CallerInv
  <2>2. CASE c \notin AlwaysOn
    <3>1. caller[c] = NoErrand
      BY <1>7, <2>2 DEF DiscoveryInit
    <3> QED  BY <3>1, NoErrandType DEF CallerInv, Underway
  <2> QED  BY <2>1, <2>2
<1>8. caller \in [Callers -> Errand]
  <2>1. caller = [c \in Callers |-> caller[c]]
    BY DEF DiscoveryInit
  <2> QED  BY <1>7, <2>1
<1>9. InspectedInv(inspected, registry)
  BY DEF DiscoveryInit, InspectedInv
<1> QED  BY <1>2, <1>5, <1>6, <1>7, <1>8, <1>9 DEF ConnectionInv

-----------------------------------------------------------------------------
(* ToolDiscovery: the names of a turn. *)

LEMMA SmallestOf ==
  ASSUME NEW S, S \subseteq Nat, S # {}
  PROVE  \E i \in S : \A j \in S : i <= j
<1>1. IsWellFoundedOn(OpToRel(<, Nat), Nat)
  BY NatLessThanWellFounded
<1>2. PICK i \in S : \A j \in S : <<j, i>> \notin OpToRel(<, Nat)
  BY <1>1, WFMin
<1>3. \A j \in S : ~ (j < i)
  BY <1>2 DEF OpToRel
<1> QED
  BY <1>3

LEMMA MinIsIn ==
  ASSUME NEW S, S \subseteq Nat, S # {}
  PROVE  Min(S) \in S
BY SmallestOf DEF Min

\* Every place in the order is that of one id.
LEMMA OrderType ==
  ASSUME NEW ids, ids \subseteq ToolIds, IsFiniteSet(ids)
  PROVE  InOrder(ids) \in Seq(ids)
<1> DEFINE n == Cardinality(ids)
           Below(id) == {other \in ids : Position[other] <= Position[id]}
           f == [id \in ids |-> PlaceIn(ids, id)]
<1>1. n \in Nat
  BY FS_CardinalityType
<1>2. \A id \in ids : Position[id] \in Nat
  BY DiscoveryAssumption
<1>3. \A a, b \in ids : Position[a] = Position[b] => a = b
  BY DiscoveryAssumption DEF IsInjective
<1>4. ASSUME NEW id \in ids
      PROVE  IsFiniteSet(Below(id)) /\ PlaceIn(ids, id) \in 1..n
  <2>1. Below(id) \in SUBSET ids /\ id \in Below(id)
    BY <1>2
  <2>2. IsFiniteSet(Below(id)) /\ Cardinality(Below(id)) <= n
    BY <2>1, FS_Subset
  <2>3. Cardinality(Below(id)) \in Nat
    BY <2>2, FS_CardinalityType
  <2>4. Cardinality(Below(id)) # 0
    BY <2>1, <2>2, FS_EmptySet
  <2> QED  BY <1>1, <2>2, <2>3, <2>4 DEF PlaceIn
<1>5. ASSUME NEW a \in ids, NEW b \in ids, Position[a] < Position[b]
      PROVE  PlaceIn(ids, a) # PlaceIn(ids, b)
  <2>1. Below(a) \in SUBSET Below(b)
    <3>1. Position[a] \in Nat /\ Position[b] \in Nat
      BY <1>2
    <3> QED  BY <1>2, <1>5, <3>1
  <2>2. b \in Below(b) /\ b \notin Below(a)
    BY <1>2, <1>5
  <2>3. IsFiniteSet(Below(b))
    BY <1>4
  <2> HIDE DEF Below
  <2>4. Cardinality(Below(b)) = Cardinality(Below(a)) => Below(b) = Below(a)
    BY <2>1, <2>3, FS_Subset
  <2>5. Cardinality(Below(b)) # Cardinality(Below(a))
    BY <2>2, <2>4
  <2>6. PlaceIn(ids, a) = Cardinality(Below(a)) /\ PlaceIn(ids, b) = Cardinality(Below(b))
    BY DEF PlaceIn, Below
  <2> QED  BY <2>5, <2>6
<1>6. ASSUME NEW a \in ids, NEW b \in ids, PlaceIn(ids, a) = PlaceIn(ids, b)
      PROVE  a = b
  <2>1. ~(Position[a] < Position[b]) /\ ~(Position[b] < Position[a])
    BY <1>5, <1>6
  <2>2. Position[a] = Position[b]
    BY <1>2, <2>1
  <2> QED  BY <1>3, <2>2
<1>7. f \in Injection(ids, 1..n)
  BY <1>4, <1>6, Zenon DEF Injection, IsInjective
<1>8. IsFiniteSet(1..n) /\ Cardinality(1..n) = n
  BY <1>1, FS_Interval
<1>9. f \in Surjection(ids, 1..n)
  BY <1>7, <1>8, FS_Injection
<1>10. \A k \in 1..n : \E id \in ids : PlaceIn(ids, id) = k
  BY <1>9 DEF Surjection
<1>11. \A k \in 1..n : InOrder(ids)[k] \in ids
  BY <1>10 DEF InOrder
<1>12. InOrder(ids) = [k \in 1..n |-> InOrder(ids)[k]]
  BY DEF InOrder
<1> QED  BY <1>1, <1>11, <1>12

GivenNames == {BaseName[id] : id \in ToolIds} \cup {Suffixed(BaseName[id], n) : id \in ToolIds, n \in Nat}

LEMMA SuffixesDiffer ==
  ASSUME NEW id \in ToolIds, NEW m \in Nat, NEW n \in Nat,
         Suffixed(BaseName[id], m) = Suffixed(BaseName[id], n)
  PROVE  m = n
<1> PICK base : base = BaseName[id]
  OBVIOUS
<1> PICK T : T = {base[i] : i \in 1..Len(base)} \cup Nat
  OBVIOUS
<1>1. Len(base) \in Nat /\ base = [i \in 1..Len(base) |-> base[i]]
  BY DiscoveryAssumption
<1>2. base \in Seq(T)
  BY <1>1
<1>3. Append(base, m)[Len(base) + 1] = m /\ Append(base, n)[Len(base) + 1] = n
  BY <1>2, AppendProperties
<1> QED  BY <1>3 DEF Suffixed

\* Of more names than are taken one is free.
NamesDiffer(names, low, high) == \A a, b \in low..high : names[a] = names[b] => a = b
IsFree(names, a, given, k) == \A j \in 1..k : given[j] # names[a]

LEMMA OneIsFree ==
  ASSUME NEW low \in Nat, NEW n \in Nat, NEW k \in Nat, k <= n, NEW given, NEW names,
         NamesDiffer(names, low, low + n)
  PROVE  \E a \in low..(low + n) : IsFree(names, a, given, k)
<1> PICK all : all = low..(low + n)
  OBVIOUS
<1> PICK places : places = 1..k
  OBVIOUS
<1> PICK f : f = [a \in all |-> CHOOSE j \in places : given[j] = names[a]]
  OBVIOUS
<1> SUFFICES ASSUME \A a \in all : \E j \in places : given[j] = names[a] PROVE FALSE
  BY DEF IsFree
<1>1. f \in [all -> places] /\ \A a \in all : given[f[a]] = names[a]
  OBVIOUS
<1>2. IsFiniteSet(all) /\ Cardinality(all) = n + 1
  <2>1. low \in Int /\ low + n \in Int /\ ~(low > low + n) /\ (low + n) - low + 1 = n + 1
    OBVIOUS
  <2>2. IsFiniteSet(all) /\ Cardinality(all) = IF low > low + n THEN 0 ELSE (low + n) - low + 1
    BY <2>1, FS_Interval
  <2> QED  BY <2>1, <2>2
<1>3. IsFiniteSet(places) /\ Cardinality(places) = k
  <2>1. 1 \in Int /\ k \in Int /\ (IF 1 > k THEN 0 ELSE k - 1 + 1) = k
    OBVIOUS
  <2>2. IsFiniteSet(places) /\ Cardinality(places) = IF 1 > k THEN 0 ELSE k - 1 + 1
    BY <2>1, FS_Interval
  <2> QED  BY <2>1, <2>2
<1>4. Cardinality(places) < Cardinality(all)
  BY <1>2, <1>3
<1> DEFINE Same == \E a, b \in all : a # b /\ f[a] = f[b]
<1>5. Same
  <2>1. f \in [all -> places] /\ IsFiniteSet(all) /\ IsFiniteSet(places)
    BY <1>1, <1>2, <1>3
  <2> QED  BY ONLY <2>1, <1>4, FS_PigeonHole, Zenon
<1>6. PICK a \in all, b \in all : a # b /\ f[a] = f[b]
  BY <1>5
<1>7. names[a] = names[b]
  BY <1>1, <1>6
<1>8. a \in low..(low + n) /\ b \in low..(low + n)
  OBVIOUS
<1> QED  BY ONLY <1>6, <1>7, <1>8, NamesDiffer(names, low, low + n) DEF NamesDiffer

\* The suffixes to choose from are more than the names given.
LEMMA SuffixIsFree ==
  ASSUME NEW base, NEW low \in Nat, NEW L \in Nat, NEW k \in Nat, k <= L, NEW given \in Seq(GivenNames),
         Len(given) = k, \A m, n \in Nat : Suffixed(base, m) = Suffixed(base, n) => m = n
  PROVE  \E n \in low..(low + L) : n \in Nat /\ Suffixed(base, n) \notin ToSet(given)
<1> PICK names : names = [n \in low..(low + L) |-> Suffixed(base, n)]
  OBVIOUS
<1>1. \A n \in low..(low + L) : n \in Nat /\ names[n] = Suffixed(base, n)
  OBVIOUS
<1>2. NamesDiffer(names, low, low + L)
  BY <1>1 DEF NamesDiffer
<1>3. PICK a \in low..(low + L) : IsFree(names, a, given, k)
  BY <1>2, OneIsFree
<1>4. DOMAIN given = 1..k
  OBVIOUS
<1>5. Suffixed(base, a) \notin ToSet(given)
  BY <1>1, <1>3, <1>4 DEF ToSet, IsFree
<1> QED  BY <1>1, <1>5

LEMMA FreeNameType ==
  ASSUME NEW ids \in Seq(ToolIds), NEW i \in 1..Len(ids), NEW given \in Seq(GivenNames),
         Len(given) = i - 1
  PROVE  FreeName(ids, i, given) \in GivenNames /\ FreeName(ids, i, given) \notin ToSet(given)
<1> PICK L : L = Len(ids)
  OBVIOUS
<1>1. ids[i] \in ToolIds /\ L \in Nat /\ i \in 1..L
  OBVIOUS
<1> PICK base : base = BaseName[ids[i]]
  OBVIOUS
<1> PICK before : before = {j \in 1..(i - 1) : BaseName[ids[j]] = base}
  OBVIOUS
<1> PICK occurrence : occurrence = 1 + Cardinality(before)
  OBVIOUS
<1> PICK candidate : candidate = IF occurrence = 1 THEN base ELSE Suffixed(base, occurrence)
  OBVIOUS
<1> PICK free : free = {n \in occurrence..(occurrence + L) : Suffixed(base, n) \notin ToSet(given)}
  OBVIOUS
<1>2. occurrence \in Nat
  <2>1. i - 1 \in Int /\ 1 \in Int
    BY <1>1
  <2>2. IsFiniteSet(1..(i - 1))
    BY <2>1, FS_Interval
  <2>3. before \in SUBSET (1..(i - 1))
    OBVIOUS
  <2>4. IsFiniteSet(before)
    BY <2>2, <2>3, FS_Subset
  <2>5. Cardinality(before) \in Nat
    BY <2>4, FS_CardinalityType
  <2> QED  BY <2>5
<1>3. base \in GivenNames /\ \A n \in Nat : Suffixed(base, n) \in GivenNames
  BY <1>1 DEF GivenNames
<1>4. FreeName(ids, i, given) =
        IF candidate \notin ToSet(given) THEN candidate ELSE Suffixed(base, Min(free))
  BY DEF FreeName
<1>5. \A m, n \in Nat : Suffixed(base, m) = Suffixed(base, n) => m = n
  BY <1>1, SuffixesDiffer
<1>6. i - 1 \in Nat /\ i - 1 <= L
  BY <1>1
<1>7. \E n \in occurrence..(occurrence + L) : n \in Nat /\ Suffixed(base, n) \notin ToSet(given)
  BY <1>1, <1>2, <1>5, <1>6, SuffixIsFree
<1>8. free # {}
  BY <1>7
<1>9. free \subseteq Nat
  <2>1. \A n \in occurrence..(occurrence + L) : n \in Nat
    BY ONLY <1>1, <1>2
  <2> QED  BY <2>1
<1>10. Min(free) \in free
  BY <1>8, <1>9, MinIsIn
<1>11. Suffixed(base, Min(free)) \in GivenNames /\ Suffixed(base, Min(free)) \notin ToSet(given)
  BY <1>3, <1>9, <1>10
<1> QED  BY <1>2, <1>3, <1>4, <1>11

\* The names given to the first ids, one after the other.
NamesFor(names, ids, n) ==
  names = [i \in 0..n |-> IF i = 0 THEN <<>> ELSE Append(names[i - 1], FreeName(ids, i, names[i - 1]))]

LEMMA NamesAreGiven ==
  ASSUME NEW ids, NEW n \in Nat
  PROVE  \E names : NamesFor(names, ids, n)
<1> DEFINE Without == {m \in Nat : ~ \E names : NamesFor(names, ids, m)}
<1> SUFFICES ASSUME Without # {} PROVE FALSE
  OBVIOUS
<1>1. PICK m \in Without : \A k \in Without : m <= k
  <2>1. Without \subseteq Nat
    OBVIOUS
  <2> HIDE DEF Without
  <2> QED  BY <2>1, SmallestOf
<1>2. m \in Nat /\ ~ \E names : NamesFor(names, ids, m)
  OBVIOUS
<1>3. CASE m = 0
  <2>1. PICK f : f = [i \in 0..0 |-> <<>>]
    OBVIOUS
  <2>2. NamesFor(f, ids, 0)
    BY <2>1 DEF NamesFor
  <2> QED  BY <1>2, <1>3, <2>2
<1>4. CASE m # 0
  <2>1. m - 1 \in Nat /\ m - 1 \notin Without
    BY <1>1, <1>2, <1>4
  <2>2. PICK f : NamesFor(f, ids, m - 1)
    BY <2>1
  <2>3. f = [i \in 0..(m - 1) |-> IF i = 0 THEN <<>> ELSE Append(f[i - 1], FreeName(ids, i, f[i - 1]))]
    BY <2>2 DEF NamesFor
  <2>4. PICK g : g = [i \in 0..m |-> IF i < m THEN f[i] ELSE Append(f[m - 1], FreeName(ids, m, f[m - 1]))]
    OBVIOUS
  <2>5. ASSUME NEW i \in 0..m
        PROVE  g[i] = IF i = 0 THEN <<>> ELSE Append(g[i - 1], FreeName(ids, i, g[i - 1]))
    <3>1. CASE i = 0
      <4>1. g[0] = f[0] /\ f[0] = <<>>
        BY <1>2, <1>4, <2>1, <2>3, <2>4
      <4> QED  BY <3>1, <4>1
    <3>2. CASE i # 0 /\ i < m
      <4>1. i - 1 \in 0..m /\ i - 1 < m /\ i \in 0..(m - 1)
        BY <1>2, <3>2
      <4>2. g[i] = f[i] /\ g[i - 1] = f[i - 1]
        BY <2>4, <3>2, <4>1
      <4>3. f[i] = Append(f[i - 1], FreeName(ids, i, f[i - 1]))
        BY <2>3, <3>2, <4>1
      <4> QED  BY <3>2, <4>2, <4>3
    <3>3. CASE i = m
      <4>1. m - 1 \in 0..m /\ m - 1 < m
        BY <1>2, <1>4
      <4>2. g[m - 1] = f[m - 1] /\ g[m] = Append(f[m - 1], FreeName(ids, m, f[m - 1]))
        BY <1>2, <2>4, <4>1
      <4> QED  BY <1>4, <3>3, <4>2
    <3> QED  BY <1>2, <3>1, <3>2, <3>3
  <2>6. g = [i \in 0..m |-> g[i]]
    BY <2>4
  <2>7. NamesFor(g, ids, m)
    BY <2>5, <2>6 DEF NamesFor
  <2> QED  BY <1>2, <2>7
<1> QED  BY <1>3, <1>4

Distinct(s) == \A i, j \in DOMAIN s : s[i] = s[j] => i = j

LEMMA NameAppended ==
  ASSUME NEW given \in Seq(GivenNames), Distinct(given), NEW name \in GivenNames, name \notin ToSet(given)
  PROVE  /\ Append(given, name) \in Seq(GivenNames) /\ Len(Append(given, name)) = Len(given) + 1
         /\ Distinct(Append(given, name))
<1> PICK more : more = Append(given, name)
  OBVIOUS
<1>1. /\ more \in Seq(GivenNames) /\ Len(more) = Len(given) + 1 /\ more[Len(given) + 1] = name
      /\ \A i \in 1..Len(given) : more[i] = given[i]
  BY AppendProperties
<1>2. \A i \in 1..Len(given) : given[i] # name
  BY DEF ToSet
<1>3. DOMAIN more = 1..(Len(given) + 1) /\ DOMAIN given = 1..Len(given) /\ Len(given) \in Nat
  BY <1>1
<1>4. Distinct(more)
  BY <1>1, <1>2, <1>3 DEF Distinct
<1> QED  BY <1>1, <1>4

LEMMA ProviderNamesDiffer ==
  ASSUME NEW ids \in Seq(ToolIds)
  PROVE  /\ ProviderNames(ids) \in Seq(GivenNames) /\ Len(ProviderNames(ids)) = Len(ids)
         /\ Distinct(ProviderNames(ids))
<1> DEFINE n == Len(ids)
           Next(f) == [i \in 0..n |->
                         IF i = 0 THEN <<>> ELSE Append(f[i - 1], FreeName(ids, i, f[i - 1]))]
           names == CHOOSE f : f = Next(f)
<1>1. n \in Nat
  OBVIOUS
<1>2. ProviderNames(ids) = names[n]
  BY DEF ProviderNames
<1>3. \E f : f = Next(f)
  BY <1>1, NamesAreGiven DEF NamesFor
<1>4. names = Next(names)
  <2> HIDE DEF Next
  <2> QED  BY <1>3
<1> HIDE DEF names
<1>5. names[0] = <<>> /\ \A i \in 1..n : names[i] = Append(names[i - 1], FreeName(ids, i, names[i - 1]))
  <2>1. \A i \in 0..n : names[i] = IF i = 0 THEN <<>> ELSE Append(names[i - 1], FreeName(ids, i, names[i - 1]))
    BY <1>4
  <2>2. 0 \in 0..n /\ \A i \in 1..n : i \in 0..n /\ i # 0
    BY <1>1
  <2> QED  BY <2>1, <2>2
<1> DEFINE Good(i) == names[i] \in Seq(GivenNames) /\ Len(names[i]) = i /\ Distinct(names[i])
           Bad == {i \in 0..n : ~Good(i)}
<1>6. Bad = {}
  <2> SUFFICES ASSUME Bad # {} PROVE FALSE
    OBVIOUS
  <2>1. PICK i \in Bad : \A j \in Bad : i <= j
    <3>1. Bad \subseteq Nat
      BY <1>1
    <3> HIDE DEF Bad
    <3> QED  BY <3>1, SmallestOf
  <2>2. i \in 0..n /\ ~Good(i)
    OBVIOUS
  <2>3. CASE i = 0
    <3>1. <<>> \in Seq(GivenNames) /\ Len(<<>>) = 0 /\ Distinct(<<>>)
      BY DEF Distinct
    <3> QED  BY <1>5, <2>2, <2>3, <3>1
  <2>4. CASE i # 0
    <3>1. i \in 1..n /\ i - 1 \in 0..n /\ i - 1 \notin Bad
      BY <1>1, <2>1, <2>2, <2>4
    <3>2. PICK given : given = names[i - 1]
      OBVIOUS
    <3>3. given \in Seq(GivenNames) /\ Len(given) = i - 1 /\ Distinct(given)
      BY <3>1, <3>2
    <3>4. PICK name : name = FreeName(ids, i, given)
      OBVIOUS
    <3>5. name \in GivenNames /\ name \notin ToSet(given)
      BY <3>1, <3>3, <3>4, FreeNameType
    <3>6. names[i] = Append(given, name)
      BY <1>5, <3>1, <3>2, <3>4
    <3>7. names[i] \in Seq(GivenNames) /\ Len(names[i]) = Len(given) + 1 /\ Distinct(names[i])
      BY <3>3, <3>5, <3>6, NameAppended
    <3> QED  BY <2>2, <3>1, <3>3, <3>7
  <2> QED  BY <2>3, <2>4
<1>7. Good(n)
  BY <1>1, <1>6
<1> QED  BY <1>2, <1>7

OfferedTool == [id : ToolIds, name : GivenNames]

\* What is offered is what was planned, under names that differ.
LEMMA AdaptedTools ==
  ASSUME NEW found, found \subseteq ToolIds, IsFiniteSet(found)
  PROVE  /\ AdaptTools(found) \in Seq(OfferedTool)
         /\ \A i \in DOMAIN AdaptTools(found) : AdaptTools(found)[i].id \in found
         /\ \A i, j \in DOMAIN AdaptTools(found) :
              AdaptTools(found)[i].name = AdaptTools(found)[j].name => i = j
<1> PICK ids : ids = InOrder(found)
  OBVIOUS
<1> PICK names : names = ProviderNames(ids)
  OBVIOUS
<1> PICK offer : offer = AdaptTools(found)
  OBVIOUS
<1>1. ids \in Seq(found)
  BY OrderType
<1>2. ids \in Seq(ToolIds)
  BY <1>1
<1>3. names \in Seq(GivenNames) /\ Len(names) = Len(ids) /\ Distinct(names)
  BY <1>2, ProviderNamesDiffer
<1>4. DOMAIN ids = 1..Len(ids) /\ Len(ids) \in Nat /\ DOMAIN names = 1..Len(ids)
  BY <1>2, <1>3
<1>5. offer = [i \in 1..Len(ids) |-> [id |-> ids[i], name |-> names[i]]]
  BY <1>4 DEF AdaptTools
<1>6. \A i \in 1..Len(ids) : ids[i] \in found /\ ids[i] \in ToolIds /\ names[i] \in GivenNames
  BY <1>1, <1>2, <1>3, <1>4
<1>7. \A i \in 1..Len(ids) : offer[i] \in OfferedTool /\ offer[i].id = ids[i] /\ offer[i].name = names[i]
  BY <1>5, <1>6 DEF OfferedTool
<1>8. offer \in Seq(OfferedTool) /\ DOMAIN offer = 1..Len(ids)
  BY <1>4, <1>5, <1>7
<1>9. \A i, j \in DOMAIN offer : offer[i].name = offer[j].name => i = j
  BY <1>3, <1>4, <1>7, <1>8 DEF Distinct
<1> QED  BY <1>6, <1>7, <1>8, <1>9

-----------------------------------------------------------------------------
(* ToolDiscovery: the invariant of a turn. *)

CallOutcomes == {"inactive", "valid", "not_registered", "panic", "denied", "allowed", "ran", "error"}
TurnState ==
  [at : {"idle", "planning", "offered", "validating", "deciding", "panicked"},
   found : SUBSET ToolIds, offer : Seq(OfferedTool), calls : Seq(GivenNames \cup {UnknownName}),
   outcome : Seq(CallOutcomes), ran : Seq(Nat \X ToolIds), changed : SUBSET Servers, blind : BOOLEAN]

Means(offer, name) ==
  CHOOSE id \in ToolIds : \E i \in DOMAIN offer : offer[i] = [id |-> id, name |-> name]
CallsWith(outcomes, o) == {i \in DOMAIN outcomes : outcomes[i] = o}

NamesInv(it) ==
  /\ \A i, j \in DOMAIN it.offer : it.offer[i].name = it.offer[j].name => i = j
  /\ \A i \in DOMAIN it.ran :
       \E j \in DOMAIN it.offer : it.offer[j] = [id |-> it.ran[i][2], name |-> it.calls[it.ran[i][1]]]

\* What was found valid is offered and is there; what was not found is a discovery tool.
OutcomeInv(it) ==
  \A i \in DOMAIN it.outcome :
    /\ it.outcome[i] # "inactive" => \E j \in DOMAIN it.offer : it.offer[j].name = it.calls[i]
    /\ it.outcome[i] \in {"valid", "allowed"} =>
         LET id == Means(it.offer, it.calls[i]) IN IsMcp(id) \/ NameOf(id) \in BaseTools
    /\ ~it.blind /\ it.changed = {} =>
         /\ it.outcome[i] # "panic"
         /\ it.outcome[i] = "not_registered" => NameOf(Means(it.offer, it.calls[i])) \in DiscoveryTools

TurnInv(it) ==
  /\ it \in TurnState
  /\ it.at = "idle" => it = NoTurn
  /\ it.at \in {"planning", "offered"} => it.outcome = <<>> /\ it.ran = <<>>
  /\ NamesInv(it)
  /\ OutcomeInv(it)

\* What was found stays in the list of its server until the list changes.
KeptInv(it, rows) ==
  \A id \in ToolIds :
    id \in it.found \/ (\E i \in DOMAIN it.offer : it.offer[i].id = id) =>
      (IsMcp(id) /\ id[2] \notin it.changed => KeptTool(rows, id))

\* While a tool of a server is called the turn waits, and it is the tool that was offered.
CallInv(it, c) ==
  c.job = "call" =>
    /\ c.at \in CallSteps
    /\ it.at = "deciding" /\ CallsWith(it.outcome, "valid") = {} /\ CallsWith(it.outcome, "allowed") # {}
    /\ c.at # "failed" =>
         <<"mcp", c.server, c.asked[1]>> = Means(it.offer, it.calls[Min(CallsWith(it.outcome, "allowed"))])

ProgressInv(it, chosen) ==
  it.at = "offered" /\ ~it.blind /\ Cardinality(it.found \cap McpIds) > Threshold /\ it.changed = {} =>
    \A i \in DOMAIN it.offer :
      IsMcp(it.offer[i].id) => it.offer[i].id \in chosen \/ BaseName[it.offer[i].id] \in chosen

AgentInv(it, c, rows, chosen) ==
  TurnInv(it) /\ KeptInv(it, rows) /\ CallInv(it, c) /\ ProgressInv(it, chosen)

TurnsInv ==
  /\ turn \in [Agents -> TurnState]
  /\ \A r \in Agents : AgentInv(turn[r], caller[r], registry, selected)

DiscoveryInv == ConnectionInv /\ TurnsInv

LEMMA TurnFields ==
  ASSUME NEW it \in TurnState
  PROVE  /\ it.at \in {"idle", "planning", "offered", "validating", "deciding", "panicked"}
         /\ it.found \subseteq ToolIds /\ it.offer \in Seq(OfferedTool)
         /\ it.calls \in Seq(GivenNames \cup {UnknownName}) /\ it.outcome \in Seq(CallOutcomes)
         /\ it.ran \in Seq(Nat \X ToolIds) /\ it.changed \subseteq Servers /\ it.blind \in BOOLEAN
BY DEF TurnState

LEMMA NoTurnInv ==
  ASSUME NEW c, c.job # "call", NEW rows, NEW chosen
  PROVE  AgentInv(NoTurn, c, rows, chosen)
<1>1. /\ NoTurn.at = "idle" /\ NoTurn.found = {} /\ NoTurn.offer = <<>> /\ NoTurn.calls = <<>>
      /\ NoTurn.outcome = <<>> /\ NoTurn.ran = <<>> /\ NoTurn.changed = {} /\ NoTurn.blind = FALSE
  BY DEF NoTurn
<1>2. \A S : <<>> \in Seq(S)
  OBVIOUS
<1>3. NoTurn \in TurnState
  <2>1. /\ <<>> \in Seq(OfferedTool) /\ <<>> \in Seq(GivenNames \cup {UnknownName})
        /\ <<>> \in Seq(CallOutcomes) /\ <<>> \in Seq(Nat \X ToolIds)
    BY <1>2
  <2> QED  BY <2>1 DEF NoTurn, TurnState
<1>4. DOMAIN <<>> = {}
  OBVIOUS
<1>5. NamesInv(NoTurn) /\ OutcomeInv(NoTurn)
  BY <1>1, <1>4 DEF NamesInv, OutcomeInv
<1>6. KeptInv(NoTurn, rows)
  BY <1>1, <1>4 DEF KeptInv
<1>7. CallInv(NoTurn, c) /\ ProgressInv(NoTurn, chosen)
  BY <1>1 DEF CallInv, ProgressInv
<1> QED  BY <1>1, <1>3, <1>5, <1>6, <1>7 DEF AgentInv, TurnInv

\* An errand that goes on, and lists that stay, leave a turn as it is.
LEMMA AgentFrame ==
  ASSUME Grows, selected \subseteq selected',
         NEW it, NEW old, NEW new, AgentInv(it, old, registry, selected), CallGoesOn(new, old)
  PROVE  AgentInv(it, new, registry', selected')
<1>1. TurnInv(it) /\ KeptInv(it, registry) /\ CallInv(it, old) /\ ProgressInv(it, selected)
  BY DEF AgentInv
<1>2. KeptInv(it, registry')
  <2> SUFFICES ASSUME NEW id \in ToolIds, IsMcp(id), id[2] \notin it.changed, KeptTool(registry, id)
               PROVE  KeptTool(registry', id)
    BY <1>1 DEF KeptInv
  <2>1. id[2] \in Servers
    BY BuiltinFacts, McpFacts
  <2> QED  BY <2>1 DEF KeptTool, Grows
<1>3. CallInv(it, new)
  BY <1>1 DEF CallInv, CallGoesOn
<1>4. ProgressInv(it, selected')
  BY <1>1 DEF ProgressInv
<1> QED  BY <1>1, <1>2, <1>3, <1>4 DEF AgentInv

\* Steps that leave the turns alone.
LEMMA TurnsFrame ==
  ASSUME TurnsInv, Grows, selected \subseteq selected', turn' = turn,
         \A r \in Agents : CallGoesOn(caller'[r], caller[r])
  PROVE  TurnsInv'
<1>1. ASSUME NEW r \in Agents PROVE AgentInv(turn[r], caller'[r], registry', selected')
  <2>1. AgentInv(turn[r], caller[r], registry, selected) /\ CallGoesOn(caller'[r], caller[r])
    BY DEF TurnsInv
  <2> QED  BY <2>1, AgentFrame
<1> QED  BY <1>1 DEF TurnsInv

LEMMA CallGoesOnUnchanged == \A it : CallGoesOn(it, it)
BY DEF CallGoesOn

\* A step of one turn.
LEMMA TurnMoves ==
  ASSUME DiscoveryInv, NEW r \in Agents, NEW new, turn' = [turn EXCEPT ![r] = new],
         ConnectionInv', registry' = registry, selected' = selected,
         \A d \in Agents \ {r} : caller'[d] = caller[d],
         AgentInv(new, caller'[r], registry, selected)
  PROVE  DiscoveryInv'
<1>1. turn \in [Agents -> TurnState] /\ new \in TurnState
  BY DEF DiscoveryInv, TurnsInv, AgentInv, TurnInv
<1>2. turn' \in [Agents -> TurnState] /\ turn'[r] = new /\ \A d \in Agents \ {r} : turn'[d] = turn[d]
  BY <1>1
<1>3. ASSUME NEW d \in Agents PROVE AgentInv(turn'[d], caller'[d], registry', selected')
  <2>1. CASE d = r
    BY <1>2, <2>1
  <2>2. CASE d # r
    <3>1. AgentInv(turn[d], caller[d], registry, selected)
      BY DEF DiscoveryInv, TurnsInv
    <3>2. turn'[d] = turn[d] /\ caller'[d] = caller[d]
      BY <1>2, <2>2
    <3> QED  BY <3>1, <3>2
  <2> QED  BY <2>1, <2>2
<1> QED  BY <1>2, <1>3 DEF DiscoveryInv, TurnsInv

LEMMA AgentFields ==
  ASSUME DiscoveryInv, NEW r \in Agents
  PROVE  /\ turn[r] \in TurnState /\ TurnInv(turn[r]) /\ KeptInv(turn[r], registry)
         /\ CallInv(turn[r], caller[r]) /\ ProgressInv(turn[r], selected)
         /\ turn \in [Agents -> TurnState] /\ r \in Callers /\ caller[r] \in Errand
         /\ ConnectionInv
<1>1. AgentInv(turn[r], caller[r], registry, selected) /\ turn \in [Agents -> TurnState]
  BY DEF DiscoveryInv, TurnsInv
<1>2. r \in Callers
  BY DEF Callers
<1>3. caller[r] \in Errand /\ ConnectionInv
  BY <1>2 DEF DiscoveryInv, ConnectionInv
<1> QED  BY <1>1, <1>2, <1>3 DEF AgentInv

\* A step of a turn that changes nothing else.
LEMMA TurnAlone ==
  ASSUME DiscoveryInv, NEW r \in Agents, NEW new, turn' = [turn EXCEPT ![r] = new],
         UNCHANGED <<registry, mcpServer, caller, selected, inspected>>,
         TurnInv(new), KeptInv(new, registry), CallInv(new, caller[r]), ProgressInv(new, selected)
  PROVE  DiscoveryInv'
<1>1. ConnectionInv'
  <2>1. ConnectionInv
    BY DEF DiscoveryInv
  <2> QED  BY <2>1, ConnectionStutter
<1>2. registry' = registry /\ selected' = selected /\ caller' = caller
  OBVIOUS
<1>3. AgentInv(new, caller'[r], registry, selected)
  BY <1>2 DEF AgentInv
<1>4. \A d \in Agents \ {r} : caller'[d] = caller[d]
  BY <1>2
<1> QED  BY <1>1, <1>2, <1>3, <1>4, TurnMoves

\* Outside of the decisions nothing is called.
LEMMA NoCallThen ==
  ASSUME NEW it, NEW c, CallInv(it, c),
         it.at # "deciding" \/ CallsWith(it.outcome, "valid") # {} \/ CallsWith(it.outcome, "allowed") = {}
  PROVE  c.job # "call"
BY DEF CallInv

LEMMA IdsAreFinite == IsFiniteSet(ToolIds) /\ IsFiniteSet(McpIds)
<1>1. IsFiniteSet(McpIds)
  <2> DEFINE f == [t \in ServerTools |-> McpId(t)]
  <2>1. f \in Surjection(ServerTools, McpIds)
    BY DEF Surjection, McpIds
  <2> QED  BY <2>1, DiscoveryAssumption, FS_Surjection
<1>2. IsFiniteSet(BaseTools \cup DiscoveryTools)
  <2>1. IsFiniteSet({"search_tools"}) /\ IsFiniteSet({"get_tool_details"})
    BY FS_Singleton
  <2>2. DiscoveryTools = {"search_tools"} \cup {"get_tool_details"}
    BY DEF DiscoveryTools
  <2>3. IsFiniteSet(DiscoveryTools)
    BY <2>1, <2>2, FS_Union
  <2> QED  BY <2>3, DiscoveryAssumption, FS_Union
<1>3. IsFiniteSet({Builtin(n) : n \in BaseTools \cup DiscoveryTools})
  <2> DEFINE N == BaseTools \cup DiscoveryTools
             f == [n \in N |-> Builtin(n)]
             T == {Builtin(n) : n \in N}
  <2>1. f \in Surjection(N, T)
    BY DEF Surjection
  <2> HIDE DEF N, f
  <2>2. IsFiniteSet(T)
    BY <1>2, <2>1, FS_Surjection DEF N
  <2> QED  BY <2>2 DEF N
<1> QED  BY <1>1, <1>3, FS_Union DEF ToolIds

-----------------------------------------------------------------------------
(* ToolDiscovery: the steps of a turn. *)

LEMMA ReadDescriptorsKeeps ==
  ASSUME DiscoveryInv, NEW r \in Agents, ReadDescriptors(r)
  PROVE  DiscoveryInv'
<1>1. /\ TurnInv(turn[r]) /\ CallInv(turn[r], caller[r]) /\ ConnectionInv
      /\ turn[r].at = "idle"
  BY AgentFields DEF ReadDescriptors
<1>2. PICK found : found = Cached \cup {Builtin(n) : n \in BaseTools \cup DiscoveryTools}
  OBVIOUS
<1>3. PICK new : new = [NoTurn EXCEPT !.at = "planning", !.blind = Contended, !.found = found]
  OBVIOUS
<1>4. turn' = [turn EXCEPT ![r] = new] /\ UNCHANGED <<registry, mcpServer, caller, selected, inspected>>
  BY <1>2, <1>3 DEF ReadDescriptors
<1>5. /\ new.at = "planning" /\ new.found = found /\ new.offer = <<>> /\ new.calls = <<>>
      /\ new.outcome = <<>> /\ new.ran = <<>> /\ new.changed = {} /\ new.blind = Contended
  BY <1>3 DEF NoTurn
<1>6. found \subseteq ToolIds /\ \A id \in found : IsMcp(id) => KeptTool(registry, id)
  <2>1. Cached \subseteq McpIds /\ \A id \in Cached : KeptTool(registry, id)
    BY <1>1, CachedFacts
  <2>2. \A n : ~IsMcp(Builtin(n))
    BY DEF IsMcp, Builtin
  <2> QED  BY <1>2, <2>1, <2>2 DEF ToolIds
<1>7. new \in TurnState
  <2>1. /\ <<>> \in Seq(OfferedTool) /\ <<>> \in Seq(GivenNames \cup {UnknownName})
        /\ <<>> \in Seq(CallOutcomes) /\ <<>> \in Seq(Nat \X ToolIds)
    OBVIOUS
  <2>2. Contended \in BOOLEAN
    BY DEF Contended
  <2> QED  BY <1>3, <1>6, <2>1, <2>2 DEF NoTurn, TurnState
<1>8. NamesInv(new) /\ OutcomeInv(new)
  <2>1. DOMAIN <<>> = {}
    OBVIOUS
  <2> QED  BY <1>5, <2>1 DEF NamesInv, OutcomeInv
<1>9. KeptInv(new, registry)
  <2>1. DOMAIN <<>> = {}
    OBVIOUS
  <2> QED  BY <1>5, <1>6, <2>1 DEF KeptInv
<1>10. CallInv(new, caller[r]) /\ ProgressInv(new, selected)
  <2>1. caller[r].job # "call"
    BY <1>1, NoCallThen
  <2> QED  BY <1>5, <2>1 DEF CallInv, ProgressInv
<1>11. TurnInv(new)
  BY <1>5, <1>7, <1>8 DEF TurnInv
<1> QED  BY <1>4, <1>9, <1>10, <1>11, TurnAlone

LEMMA PlanTurnKeeps ==
  ASSUME DiscoveryInv, NEW r \in Agents, PlanTurn(r)
  PROVE  DiscoveryInv'
<1> PICK it : it = turn[r]
  OBVIOUS
<1>1. /\ it \in TurnState /\ TurnInv(it) /\ KeptInv(it, registry) /\ CallInv(it, caller[r]) /\ ConnectionInv
      /\ turn \in [Agents -> TurnState] /\ it.at = "planning"
  BY AgentFields DEF PlanTurn
<1> PICK planned : planned = Planned(it.found)
  OBVIOUS
<1> PICK offer : offer = AdaptTools(planned)
  OBVIOUS
<1> PICK new : new = [it EXCEPT !.at = "offered", !.offer = offer, !.blind = @ \/ Contended]
  OBVIOUS
<1>2. turn' = [turn EXCEPT ![r] = new] /\ UNCHANGED <<registry, mcpServer, caller, selected, inspected>>
  BY <1>1 DEF PlanTurn
<1>3. planned \subseteq it.found /\ planned \subseteq ToolIds /\ IsFiniteSet(planned)
  <2>1. planned \subseteq it.found /\ it.found \subseteq ToolIds
    BY <1>1, TurnFields DEF Planned
  <2>2. planned \in SUBSET ToolIds
    BY <2>1
  <2> QED  BY <2>1, <2>2, IdsAreFinite, FS_Subset
<1>4. /\ offer \in Seq(OfferedTool) /\ \A i \in DOMAIN offer : offer[i].id \in planned
      /\ \A i, j \in DOMAIN offer : offer[i].name = offer[j].name => i = j
  BY <1>3, AdaptedTools
<1>5. Contended \in BOOLEAN
  BY DEF Contended
<1>6. /\ new \in TurnState /\ new.at = "offered" /\ new.found = it.found /\ new.offer = offer
      /\ new.calls = it.calls /\ new.outcome = it.outcome /\ new.ran = it.ran
      /\ new.changed = it.changed /\ new.blind = (it.blind \/ Contended)
  BY <1>1, <1>4, <1>5 DEF TurnState
<1>7. new.outcome = <<>> /\ new.ran = <<>>
  BY <1>1, <1>6 DEF TurnInv
<1>8. NamesInv(new) /\ OutcomeInv(new)
  <2>1. DOMAIN <<>> = {}
    OBVIOUS
  <2> QED  BY <1>4, <1>6, <1>7, <2>1 DEF NamesInv, OutcomeInv
<1>9. TurnInv(new)
  BY <1>6, <1>7, <1>8 DEF TurnInv
<1>10. KeptInv(new, registry)
  BY <1>1, <1>3, <1>4, <1>6 DEF KeptInv
<1>11. CallInv(new, caller[r])
  <2>1. caller[r].job # "call"
    BY <1>1, NoCallThen
  <2> QED  BY <2>1 DEF CallInv
<1>12. ProgressInv(new, selected)
  <2> SUFFICES ASSUME ~new.blind, Cardinality(it.found \cap McpIds) > Threshold, it.changed = {},
                      NEW i \in DOMAIN offer, IsMcp(offer[i].id)
               PROVE  offer[i].id \in selected \/ BaseName[offer[i].id] \in selected
    BY <1>6 DEF ProgressInv
  <2>1. ~Contended
    BY <1>6
  <2>2. it.found \cap McpIds \in SUBSET Cached
    <3> SUFFICES ASSUME NEW id \in it.found, id \in McpIds PROVE id \in Cached
      OBVIOUS
    <3>1. IsMcp(id) /\ id \in ToolIds /\ id[2] \notin it.changed
      BY McpFacts
    <3>2. KeptTool(registry, id)
      BY <1>1, <3>1 DEF KeptInv
    <3> QED  BY <1>1, <2>1, <3>2, CachedFacts
  <2>3. Cached \in SUBSET McpIds
    BY <1>1, CachedFacts
  <2>4. IsFiniteSet(Cached)
    BY <2>3, IdsAreFinite, FS_Subset
  <2>5. Cardinality(it.found \cap McpIds) <= Cardinality(Cached) /\ IsFiniteSet(it.found \cap McpIds)
    BY <2>2, <2>4, FS_Subset
  <2>6. Cardinality(it.found \cap McpIds) \in Nat /\ Cardinality(Cached) \in Nat /\ Threshold \in Nat
    BY <2>4, <2>5, FS_CardinalityType, DiscoveryAssumption
  <2>7. Cardinality(Cached) > Threshold
    BY <2>5, <2>6
  <2>8. offer[i].id \in planned
    BY <1>4
  <2> QED  BY <2>7, <2>8 DEF Planned, Chosen
<1> QED  BY <1>2, <1>9, <1>10, <1>11, <1>12, TurnAlone

LEMMA ModelCallsKeeps ==
  ASSUME DiscoveryInv, NEW r \in Agents, ModelCalls(r)
  PROVE  DiscoveryInv'
<1> PICK it : it = turn[r]
  OBVIOUS
<1>1. /\ it \in TurnState /\ TurnInv(it) /\ KeptInv(it, registry) /\ CallInv(it, caller[r])
      /\ turn \in [Agents -> TurnState] /\ it.at = "offered"
  BY AgentFields DEF ModelCalls
<1> PICK n \in 1..MaxCalls : \E calls \in [1..n -> Offered(r) \cup {UnknownName}] :
        turn' = [turn EXCEPT ![r].at = "validating", ![r].calls = calls, ![r].found = {}]
  BY DEF ModelCalls
<1>2. PICK calls \in [1..n -> Offered(r) \cup {UnknownName}] :
        turn' = [turn EXCEPT ![r].at = "validating", ![r].calls = calls, ![r].found = {}]
  OBVIOUS
<1> PICK new : new = [it EXCEPT !.at = "validating", !.calls = calls, !.found = {}]
  OBVIOUS
<1>3. turn' = [turn EXCEPT ![r] = new] /\ UNCHANGED <<registry, mcpServer, caller, selected, inspected>>
  BY <1>1, <1>2 DEF ModelCalls
<1>4. Offered(r) \subseteq GivenNames
  <2> SUFFICES ASSUME NEW i \in DOMAIN it.offer PROVE it.offer[i].name \in GivenNames
    BY DEF Offered
  <2>1. it.offer \in Seq(OfferedTool)
    BY <1>1, TurnFields
  <2>2. it.offer[i] \in OfferedTool
    BY <2>1
  <2> QED  BY <2>2 DEF OfferedTool
<1>5. calls \in Seq(GivenNames \cup {UnknownName})
  <2>1. n \in Nat
    OBVIOUS
  <2>2. calls \in [1..n -> GivenNames \cup {UnknownName}]
    BY <1>4
  <2> QED  BY <2>1, <2>2
<1>6. /\ new \in TurnState /\ new.at = "validating" /\ new.found = {} /\ new.offer = it.offer
      /\ new.calls = calls /\ new.outcome = it.outcome /\ new.ran = it.ran
      /\ new.changed = it.changed /\ new.blind = it.blind
  BY <1>1, <1>5 DEF TurnState
<1>7. new.outcome = <<>> /\ new.ran = <<>>
  BY <1>1, <1>6 DEF TurnInv
<1>8. NamesInv(new) /\ OutcomeInv(new)
  <2>1. DOMAIN <<>> = {}
    OBVIOUS
  <2>2. NamesInv(it)
    BY <1>1 DEF TurnInv
  <2> QED  BY <1>6, <1>7, <2>1, <2>2 DEF NamesInv, OutcomeInv
<1>9. TurnInv(new)
  BY <1>6, <1>8 DEF TurnInv
<1>10. KeptInv(new, registry)
  BY <1>1, <1>6 DEF KeptInv
<1>11. CallInv(new, caller[r]) /\ ProgressInv(new, selected)
  <2>1. caller[r].job # "call"
    BY <1>1, NoCallThen
  <2> QED  BY <1>6, <2>1 DEF CallInv, ProgressInv
<1> QED  BY <1>3, <1>9, <1>10, <1>11, TurnAlone

\* A name that is offered means one of the tools that are.
LEMMA MeansIsOffered ==
  ASSUME NEW offer \in Seq(OfferedTool), NEW j \in DOMAIN offer
  PROVE  /\ Means(offer, offer[j].name) \in ToolIds
         /\ \E i \in DOMAIN offer : offer[i] = [id |-> Means(offer, offer[j].name), name |-> offer[j].name]
<1> PICK name : name = offer[j].name
  OBVIOUS
<1>1. offer[j] \in OfferedTool
  OBVIOUS
<1>2. offer[j].id \in ToolIds /\ offer[j] = [id |-> offer[j].id, name |-> name]
  BY <1>1 DEF OfferedTool
<1>3. \E id \in ToolIds : \E i \in DOMAIN offer : offer[i] = [id |-> id, name |-> name]
  BY <1>2
<1>4. /\ Means(offer, name) \in ToolIds
      /\ \E i \in DOMAIN offer : offer[i] = [id |-> Means(offer, name), name |-> name]
  BY <1>3 DEF Means
<1> QED  BY <1>4

\* A tool that is offered is found again, unless something has changed.
LEMMA OfferedIsFound ==
  ASSUME ConnectionInv, NEW it \in TurnState, KeptInv(it, registry), it.changed = {}, ~Contended,
         NEW j \in DOMAIN it.offer, NEW id, id = Means(it.offer, it.offer[j].name), ~GetById(id)
  PROVE  ~IsMcp(id) /\ NameOf(id) \in DiscoveryTools /\ NameOf(id) \notin BaseTools
<1>1. it.offer \in Seq(OfferedTool)
  BY TurnFields
<1>2. /\ id \in ToolIds
      /\ \E i \in DOMAIN it.offer : it.offer[i] = [id |-> id, name |-> it.offer[j].name]
  BY <1>1, MeansIsOffered
<1>3. \E i \in DOMAIN it.offer : it.offer[i].id = id
  BY <1>2
<1>4. ~IsMcp(id)
  <2> SUFFICES ASSUME IsMcp(id) PROVE FALSE
    OBVIOUS
  <2>1. id \in McpIds
    BY <1>2, BuiltinFacts
  <2>2. KeptTool(registry, id)
    BY <1>2, <1>3 DEF KeptInv
  <2>3. id \in Cached
    BY <2>1, <2>2, CachedFacts
  <2> QED  BY <2>3 DEF GetById
<1>5. id \notin McpIds
  BY <1>4, McpFacts
<1>6. NameOf(id) \in BaseTools \cup DiscoveryTools
  BY <1>2, <1>5, BuiltinFacts
<1> QED  BY <1>4, <1>6 DEF GetById

\* What calls turned out as, and blindness, is all that a step of a call changes of these.
SameOffer(new, it) ==
  /\ new.found = it.found /\ new.offer = it.offer /\ new.calls = it.calls /\ new.changed = it.changed

LEMMA SameOfferKept ==
  ASSUME NEW it, NEW new, NEW rows, KeptInv(it, rows), SameOffer(new, it)
  PROVE  KeptInv(new, rows)
BY DEF KeptInv, SameOffer

\* Of one call.
CallOutcomeInv(it, i) ==
  /\ it.outcome[i] # "inactive" => \E j \in DOMAIN it.offer : it.offer[j].name = it.calls[i]
  /\ it.outcome[i] \in {"valid", "allowed"} =>
       LET id == Means(it.offer, it.calls[i]) IN IsMcp(id) \/ NameOf(id) \in BaseTools
  /\ ~it.blind /\ it.changed = {} =>
       /\ it.outcome[i] # "panic"
       /\ it.outcome[i] = "not_registered" => NameOf(Means(it.offer, it.calls[i])) \in DiscoveryTools

OthersStay(new, it, n) ==
  /\ it.blind => new.blind
  /\ \A i \in DOMAIN new.outcome \ {n} : i \in DOMAIN it.outcome /\ new.outcome[i] = it.outcome[i]

LEMMA OneOutcome ==
  ASSUME NEW it, NEW new, NEW n, OutcomeInv(it), SameOffer(new, it), CallOutcomeInv(new, n),
         OthersStay(new, it, n)
  PROVE  OutcomeInv(new)
<1>1. ASSUME NEW i \in DOMAIN new.outcome PROVE CallOutcomeInv(new, i)
  <2>1. CASE i = n
    BY <2>1
  <2>2. CASE i # n
    <3>1. i \in DOMAIN it.outcome /\ new.outcome[i] = it.outcome[i] /\ (it.blind => new.blind)
      BY <2>2 DEF OthersStay
    <3>2. CallOutcomeInv(it, i)
      BY <3>1 DEF OutcomeInv, CallOutcomeInv
    <3> QED  BY <3>1, <3>2 DEF CallOutcomeInv, SameOffer
  <2> QED  BY <2>1, <2>2
<1> QED  BY <1>1 DEF OutcomeInv, CallOutcomeInv

LEMMA OneMore ==
  ASSUME NEW T, NEW seq \in Seq(T), NEW last \in T, NEW n, n = Len(seq) + 1,
         NEW longer, longer = Append(seq, last)
  PROVE  /\ DOMAIN longer = 1..n /\ longer[n] = last /\ DOMAIN seq = 1..(n - 1)
         /\ \A i \in 1..(n - 1) : longer[i] = seq[i]
BY AppendProperties

LEMMA ValidateCallKeeps ==
  ASSUME DiscoveryInv, NEW r \in Agents, ValidateCall(r)
  PROVE  DiscoveryInv'
<1> PICK it : it = turn[r]
  OBVIOUS
<1>1. /\ it \in TurnState /\ TurnInv(it) /\ KeptInv(it, registry) /\ CallInv(it, caller[r])
      /\ ConnectionInv /\ turn \in [Agents -> TurnState] /\ it.at = "validating"
  BY AgentFields DEF ValidateCall
<1> PICK n : n = Len(it.outcome) + 1
  OBVIOUS
<1> PICK name : name = it.calls[n]
  OBVIOUS
<1> PICK id : id = Means(it.offer, name)
  OBVIOUS
<1> PICK named : named = IF name \in Offered(r) THEN TRUE ELSE FALSE
  OBVIOUS
<1> PICK there : there = IF GetById(id) THEN TRUE ELSE FALSE
  OBVIOUS
<1> PICK o : o = IF ~named THEN "inactive" ELSE IF there THEN "valid" ELSE "not_registered"
  OBVIOUS
<1> PICK at : at = IF n = Len(it.calls) THEN "deciding" ELSE it.at
  OBVIOUS
<1> PICK new : new = [it EXCEPT !.outcome = Append(@, o), !.blind = @ \/ Contended, !.at = at]
  OBVIOUS
<1>2. Denotes(r, name) = id
  BY DEF Denotes, Means
<1>3. turn' = [turn EXCEPT ![r] = new] /\ UNCHANGED <<registry, mcpServer, caller, selected, inspected>>
  BY <1>1, <1>2 DEF ValidateCall
<1>4. /\ it.offer \in Seq(OfferedTool) /\ it.outcome \in Seq(CallOutcomes) /\ it.blind \in BOOLEAN
  BY <1>1, TurnFields
<1>5. Contended \in BOOLEAN
  BY DEF Contended
<1>6. /\ at \in {"validating", "deciding"} /\ o \in CallOutcomes /\ n \in Nat
      /\ Append(it.outcome, o) \in Seq(CallOutcomes)
  BY <1>1, <1>4 DEF CallOutcomes
<1>7. /\ new \in TurnState /\ SameOffer(new, it) /\ new.ran = it.ran /\ new.at = at
      /\ new.outcome = Append(it.outcome, o) /\ new.blind = (it.blind \/ Contended)
  <2> PICK blind \in BOOLEAN : blind = (it.blind \/ Contended)
    BY <1>4, <1>5
  <2> PICK more : more = Append(it.outcome, o)
    OBVIOUS
  <2>1. new = [it EXCEPT !.outcome = more, !.blind = blind, !.at = at]
    OBVIOUS
  <2>2. more \in Seq(CallOutcomes) /\ it \in TurnState
    BY <1>1, <1>6
  <2>3. new \in TurnState
    BY ONLY <1>6, <2>1, <2>2, blind \in BOOLEAN DEF TurnState
  <2>4. /\ new.ran = it.ran /\ new.at = at /\ new.outcome = more /\ new.blind = blind
        /\ SameOffer(new, it)
    BY ONLY <2>1, <2>2 DEF TurnState, SameOffer
  <2> QED  BY <2>3, <2>4
<1>8. /\ DOMAIN new.outcome = 1..n /\ new.outcome[n] = o /\ DOMAIN it.outcome = 1..(n - 1)
      /\ \A i \in 1..(n - 1) : new.outcome[i] = it.outcome[i]
  BY ONLY <1>4, <1>6, <1>7, n = Len(it.outcome) + 1, OneMore
<1>9. named => \E j \in DOMAIN it.offer : it.offer[j].name = name
  BY DEF Offered
<1>10. CallOutcomeInv(new, n)
  <2>1. ASSUME ~it.blind, ~Contended, it.changed = {}, named, ~there
        PROVE  NameOf(id) \in DiscoveryTools
    <3>1. PICK j \in DOMAIN it.offer : it.offer[j].name = name
      BY <1>9, <2>1
    <3> QED  BY <1>1, <2>1, <3>1, OfferedIsFound
  <2>2. named /\ there => IsMcp(id) \/ NameOf(id) \in BaseTools
    BY DEF GetById
  <2>3. new.calls[n] = name /\ new.offer = it.offer /\ new.changed = it.changed
    BY <1>7 DEF SameOffer
  <2>4. /\ o # "inactive" => named
        /\ o \in {"valid", "allowed"} => named /\ there
        /\ o # "panic" /\ (o = "not_registered" => named /\ ~there)
    OBVIOUS
  <2>5. ~new.blind => ~it.blind /\ ~Contended
    BY <1>7
  <2>6. /\ o # "inactive" => \E j \in DOMAIN it.offer : it.offer[j].name = name
        /\ o \in {"valid", "allowed"} => IsMcp(id) \/ NameOf(id) \in BaseTools
        /\ ~new.blind /\ it.changed = {} =>
             o # "panic" /\ (o = "not_registered" => NameOf(id) \in DiscoveryTools)
    BY <1>9, <2>1, <2>2, <2>4, <2>5
  <2>7. new.outcome[n] = o
    BY <1>8
  <2> QED  BY ONLY <2>3, <2>6, <2>7, id = Means(it.offer, name) DEF CallOutcomeInv
<1>11. OutcomeInv(new)
  <2>1. OthersStay(new, it, n)
    <3>1. it.blind => new.blind
      BY <1>7
    <3>2. \A i \in DOMAIN new.outcome \ {n} : i \in DOMAIN it.outcome /\ new.outcome[i] = it.outcome[i]
      BY <1>6, <1>8
    <3> QED  BY <3>1, <3>2 DEF OthersStay
  <2>2. OutcomeInv(it)
    BY <1>1 DEF TurnInv
  <2>3. SameOffer(new, it)
    BY <1>7
  <2>4. CallOutcomeInv(new, n)
    BY <1>10
  <2> QED  BY ONLY <2>1, <2>2, <2>3, <2>4, OneOutcome, Zenon
<1>12. NamesInv(new)
  <2>1. NamesInv(it)
    BY <1>1 DEF TurnInv
  <2>2. new.ran = it.ran /\ SameOffer(new, it)
    BY <1>7
  <2> QED  BY ONLY <2>1, <2>2 DEF NamesInv, SameOffer
<1>13. TurnInv(new)
  BY <1>6, <1>7, <1>11, <1>12 DEF TurnInv
<1>14. KeptInv(new, registry)
  BY <1>1, <1>7, SameOfferKept
<1>15. CallInv(new, caller[r]) /\ ProgressInv(new, selected)
  <2>1. caller[r].job # "call"
    BY <1>1, NoCallThen
  <2> QED  BY <1>6, <1>7, <2>1 DEF CallInv, ProgressInv
<1> QED  BY <1>3, <1>13, <1>14, <1>15, TurnAlone

\* One call has turned out, and may have run.
TurnsOut(it, new, n, o, at, blind, ran) ==
  /\ TurnInv(it) /\ it.at = "deciding" /\ n \in DOMAIN it.outcome /\ it.outcome[n] # "inactive"
  /\ o \in CallOutcomes /\ at \in {"deciding", "panicked"} /\ blind \in BOOLEAN /\ (it.blind => blind)
  /\ ran = it.ran \/ ran = Append(it.ran, <<n, Means(it.offer, it.calls[n])>>)
  /\ new = [it EXCEPT !.at = at, !.outcome = [@ EXCEPT ![n] = o], !.blind = blind, !.ran = ran]
  /\ CallOutcomeInv(new, n)

LEMMA CallTurnsOut ==
  ASSUME NEW it, NEW new, NEW n, NEW o, NEW at, NEW blind, NEW ran,
         TurnsOut(it, new, n, o, at, blind, ran)
  PROVE  TurnInv(new) /\ SameOffer(new, it) /\ new.at = at
<1>0. /\ TurnInv(it) /\ it.at = "deciding" /\ n \in DOMAIN it.outcome /\ it.outcome[n] # "inactive"
      /\ o \in CallOutcomes /\ at \in {"deciding", "panicked"} /\ blind \in BOOLEAN /\ (it.blind => blind)
      /\ ran = it.ran \/ ran = Append(it.ran, <<n, Means(it.offer, it.calls[n])>>)
      /\ new = [it EXCEPT !.at = at, !.outcome = [@ EXCEPT ![n] = o], !.blind = blind, !.ran = ran]
      /\ CallOutcomeInv(new, n)
  BY DEF TurnsOut
<1>1. it \in TurnState
  BY <1>0 DEF TurnInv
<1>2. /\ it.offer \in Seq(OfferedTool) /\ it.outcome \in Seq(CallOutcomes)
      /\ it.ran \in Seq(Nat \X ToolIds)
  BY <1>1, TurnFields
<1>3. n \in Nat
  BY <1>0, <1>2
<1>4. PICK j \in DOMAIN it.offer : it.offer[j].name = it.calls[n]
  <2>1. OutcomeInv(it)
    BY <1>0 DEF TurnInv
  <2> QED  BY <1>0, <2>1 DEF OutcomeInv
<1> PICK id : id = Means(it.offer, it.calls[n])
  OBVIOUS
<1>5. id \in ToolIds /\ \E i \in DOMAIN it.offer : it.offer[i] = [id |-> id, name |-> it.calls[n]]
  BY <1>2, <1>4, MeansIsOffered
<1>6. [it.outcome EXCEPT ![n] = o] \in Seq(CallOutcomes) /\ DOMAIN [it.outcome EXCEPT ![n] = o] = DOMAIN it.outcome
  BY <1>0, <1>2
<1>7. ran \in Seq(Nat \X ToolIds)
  <2>1. <<n, id>> \in Nat \X ToolIds
    BY <1>3, <1>5
  <2>2. Append(it.ran, <<n, id>>) \in Seq(Nat \X ToolIds)
    <3> PICK T : T = Nat \X ToolIds
      OBVIOUS
    <3>1. it.ran \in Seq(T) /\ <<n, id>> \in T
      BY <1>2, <2>1
    <3> QED  BY <3>1
  <2> QED  BY <1>0, <1>2, <2>2
<1>8. /\ new \in TurnState /\ SameOffer(new, it) /\ new.at = at /\ new.ran = ran /\ new.blind = blind
      /\ new.outcome = [it.outcome EXCEPT ![n] = o]
  BY <1>0, <1>1, <1>6, <1>7 DEF TurnState, SameOffer
<1>9. OutcomeInv(new)
  <2>1. OthersStay(new, it, n)
    BY <1>0, <1>6, <1>8 DEF OthersStay
  <2>2. OutcomeInv(it) /\ SameOffer(new, it) /\ CallOutcomeInv(new, n)
    BY <1>0, <1>8 DEF TurnInv
  <2> QED  BY ONLY <2>1, <2>2, OneOutcome, Zenon
<1>10. NamesInv(new)
  <2>1. NamesInv(it)
    BY <1>0 DEF TurnInv
  <2>2. new.offer = it.offer /\ new.calls = it.calls
    BY <1>8 DEF SameOffer
  <2>3. ASSUME NEW i \in DOMAIN ran
        PROVE  \E k \in DOMAIN it.offer : it.offer[k] = [id |-> ran[i][2], name |-> it.calls[ran[i][1]]]
    <3>1. CASE i \in DOMAIN it.ran /\ ran[i] = it.ran[i]
      BY <2>1, <3>1 DEF NamesInv
    <3>2. CASE ran[i] = <<n, id>>
      <4>1. ran[i][1] = n /\ ran[i][2] = id
        BY <3>2
      <4> QED  BY <1>5, <4>1
    <3>3. CASE ran = it.ran
      BY <2>3, <3>1, <3>3
    <3>4. CASE ran = Append(it.ran, <<n, id>>)
      <4>1. <<n, id>> \in Nat \X ToolIds
        BY <1>3, <1>5
      <4>2. /\ DOMAIN ran = 1..(Len(it.ran) + 1) /\ ran[Len(it.ran) + 1] = <<n, id>>
            /\ DOMAIN it.ran = 1..Len(it.ran) /\ \A k \in 1..Len(it.ran) : ran[k] = it.ran[k]
            /\ Len(it.ran) \in Nat
        BY <1>2, <3>4, <4>1, AppendProperties
      <4>3. i \in 1..Len(it.ran) \/ i = Len(it.ran) + 1
        BY <2>3, <4>2
      <4> QED  BY <3>1, <3>2, <4>2, <4>3
    <3> QED  BY <1>0, <3>3, <3>4
  <2> QED  BY <1>8, <2>1, <2>2, <2>3 DEF NamesInv
<1>11. TurnInv(new)
  BY <1>0, <1>8, <1>9, <1>10 DEF TurnInv
<1> QED  BY <1>8, <1>11

LEMMA FirstWith ==
  ASSUME NEW it \in TurnState, NEW o, CallsWith(it.outcome, o) # {}
  PROVE  LET n == Min(CallsWith(it.outcome, o)) IN n \in DOMAIN it.outcome /\ it.outcome[n] = o
<1>1. it.outcome \in Seq(CallOutcomes)
  BY TurnFields
<1> PICK S : S = CallsWith(it.outcome, o)
  OBVIOUS
<1>2. S \subseteq Nat /\ S # {}
  BY <1>1 DEF CallsWith
<1>3. Min(S) \in S
  BY <1>2, MinIsIn
<1> QED  BY <1>3 DEF CallsWith

LEMMA DecideCallKeeps ==
  ASSUME DiscoveryInv, NEW r \in Agents, DecideCall(r)
  PROVE  DiscoveryInv'
<1> PICK it : it = turn[r]
  OBVIOUS
<1>1. /\ it \in TurnState /\ TurnInv(it) /\ KeptInv(it, registry) /\ CallInv(it, caller[r])
      /\ ConnectionInv /\ turn \in [Agents -> TurnState] /\ it.at = "deciding"
  BY AgentFields DEF DecideCall
<1>2. \A o : Pending(r, o) = CallsWith(it.outcome, o)
  BY DEF Pending, CallsWith
<1> PICK n : n = Min(CallsWith(it.outcome, "valid"))
  OBVIOUS
<1> PICK id : id = Means(it.offer, it.calls[n])
  OBVIOUS
<1>3. Denotes(r, it.calls[n]) = id
  BY DEF Denotes, Means
<1>4. CallsWith(it.outcome, "valid") # {}
  BY <1>2 DEF DecideCall
<1>5. n \in DOMAIN it.outcome /\ it.outcome[n] = "valid"
  BY <1>1, <1>4, FirstWith
<1>6. caller[r].job # "call"
  BY <1>1, <1>4, NoCallThen
<1>7. CallOutcomeInv(it, n) /\ it.blind \in BOOLEAN
  BY <1>1, <1>5, TurnFields DEF TurnInv, OutcomeInv, CallOutcomeInv
<1>8. /\ \E j \in DOMAIN it.offer : it.offer[j].name = it.calls[n]
      /\ IsMcp(id) \/ NameOf(id) \in BaseTools
  BY <1>5, <1>7 DEF CallOutcomeInv
<1>9. /\ UNCHANGED <<registry, mcpServer, caller, selected, inspected>>
      /\ IF ~GetById(id)
         THEN turn' = [turn EXCEPT ![r].at = "panicked", ![r].blind = @ \/ Contended, ![r].outcome[n] = "panic"]
         ELSE \E decision \in {"denied", "allowed"} : turn' = [turn EXCEPT ![r].outcome[n] = decision]
  BY <1>2, <1>3 DEF DecideCall
<1>10. ASSUME NEW new, TurnInv(new), SameOffer(new, it), new.at \in {"deciding", "panicked"},
              turn' = [turn EXCEPT ![r] = new]
       PROVE  DiscoveryInv'
  <2>1. KeptInv(new, registry)
    BY <1>1, <1>10, SameOfferKept
  <2>2. CallInv(new, caller[r]) /\ ProgressInv(new, selected)
    BY <1>6, <1>10 DEF CallInv, ProgressInv
  <2> QED  BY <1>9, <1>10, <2>1, <2>2, TurnAlone
<1>11. CASE ~GetById(id)
  <2> PICK blind : blind = (it.blind \/ Contended)
    OBVIOUS
  <2> PICK new : new = [it EXCEPT !.at = "panicked", !.blind = @ \/ Contended, !.outcome[n] = "panic"]
    OBVIOUS
  <2>1. blind \in BOOLEAN /\ (it.blind => blind) /\ "panic" \in CallOutcomes
    BY <1>7 DEF Contended, CallOutcomes
  <2>2. new = [it EXCEPT !.at = "panicked", !.outcome = [@ EXCEPT ![n] = "panic"],
                         !.blind = blind, !.ran = it.ran]
    BY <1>1 DEF TurnState
  <2>3. turn' = [turn EXCEPT ![r] = new]
    <3>1. turn' = [turn EXCEPT ![r].at = "panicked", ![r].blind = @ \/ Contended, ![r].outcome[n] = "panic"]
      BY <1>9, <1>11
    <3>2. turn \in [Agents -> TurnState]
      BY <1>1
    <3>3. new = [turn[r] EXCEPT !.at = "panicked", !.blind = @ \/ Contended, !.outcome[n] = "panic"]
      OBVIOUS
    <3> QED  BY ONLY <3>1, <3>2, <3>3, r \in Agents
  <2>4. ~blind => it.changed # {}
    <3> SUFFICES ASSUME ~blind, it.changed = {} PROVE FALSE
      OBVIOUS
    <3>1. PICK j \in DOMAIN it.offer : it.offer[j].name = it.calls[n]
      BY <1>8
    <3>2. ~Contended
      OBVIOUS
    <3>3. ~IsMcp(id) /\ NameOf(id) \notin BaseTools
      BY <1>1, <1>11, <3>1, <3>2, OfferedIsFound
    <3> QED  BY <1>8, <3>3
  <2>5. new.outcome[n] = "panic" /\ new.offer = it.offer /\ new.calls = it.calls
        /\ new.changed = it.changed /\ new.blind = blind
    BY <1>1, <1>5 DEF TurnState
  <2>6. CallOutcomeInv(new, n)
    BY <1>8, <2>4, <2>5 DEF CallOutcomeInv
  <2>7. TurnsOut(it, new, n, "panic", "panicked", blind, it.ran)
    BY <1>1, <1>5, <2>1, <2>2, <2>6 DEF TurnsOut
  <2>8. TurnInv(new) /\ SameOffer(new, it) /\ new.at = "panicked"
    BY ONLY <2>7, CallTurnsOut
  <2> QED  BY <1>10, <2>3, <2>8
<1>12. CASE GetById(id)
  <2>1. PICK decision \in {"denied", "allowed"} : turn' = [turn EXCEPT ![r].outcome[n] = decision]
    BY <1>9, <1>12
  <2> PICK new : new = [it EXCEPT !.at = "deciding", !.outcome = [@ EXCEPT ![n] = decision],
                                  !.blind = it.blind, !.ran = it.ran]
    OBVIOUS
  <2>2. new = [it EXCEPT !.outcome[n] = decision]
    BY <1>1 DEF TurnState
  <2>3. turn' = [turn EXCEPT ![r] = new]
    BY <1>1, <2>1, <2>2
  <2>4. new.outcome[n] = decision /\ new.offer = it.offer /\ new.calls = it.calls
    BY <1>1, <1>5 DEF TurnState
  <2>5. CallOutcomeInv(new, n)
    BY <1>8, <2>4 DEF CallOutcomeInv
  <2>6. decision \in CallOutcomes /\ decision # "inactive"
    BY DEF CallOutcomes
  <2>7. TurnsOut(it, new, n, decision, "deciding", it.blind, it.ran)
    BY <1>1, <1>5, <1>7, <2>5, <2>6 DEF TurnsOut
  <2>8. TurnInv(new) /\ SameOffer(new, it) /\ new.at = "deciding"
    BY ONLY <2>7, CallTurnsOut
  <2> QED  BY <1>10, <2>3, <2>8
<1> QED  BY <1>11, <1>12

LEMMA ExecuteCallKeeps ==
  ASSUME DiscoveryInv, NEW r \in Agents, ExecuteCall(r)
  PROVE  DiscoveryInv'
<1> PICK it : it = turn[r]
  OBVIOUS
<1>1. /\ it \in TurnState /\ TurnInv(it) /\ KeptInv(it, registry) /\ ProgressInv(it, selected)
      /\ ConnectionInv /\ turn \in [Agents -> TurnState] /\ it.at = "deciding" /\ r \in Callers
  BY AgentFields DEF ExecuteCall
<1>2. \A o : Pending(r, o) = CallsWith(it.outcome, o)
  BY DEF Pending, CallsWith
<1> PICK n : n = Min(CallsWith(it.outcome, "allowed"))
  OBVIOUS
<1> PICK id : id = Means(it.offer, it.calls[n])
  OBVIOUS
<1>3. Denotes(r, it.calls[n]) = id
  BY DEF Denotes, Means
<1>4. CallsWith(it.outcome, "allowed") # {} /\ CallsWith(it.outcome, "valid") = {}
  BY <1>2 DEF ExecuteCall
<1>5. n \in DOMAIN it.outcome /\ it.outcome[n] = "allowed"
  BY <1>1, <1>4, FirstWith
<1>6. CallOutcomeInv(it, n) /\ it.blind \in BOOLEAN /\ it.offer \in Seq(OfferedTool)
  BY <1>1, <1>5, TurnFields DEF TurnInv, OutcomeInv, CallOutcomeInv
<1>7. PICK j \in DOMAIN it.offer : it.offer[j].name = it.calls[n]
  BY <1>5, <1>6 DEF CallOutcomeInv
<1>8. id \in ToolIds
  BY <1>6, <1>7, MeansIsOffered
<1>9. /\ UNCHANGED <<registry, mcpServer, selected, inspected>> /\ caller[r] = NoErrand
      /\ IF IsMcp(id)
         THEN /\ caller' = [caller EXCEPT ![r] = [NoErrand EXCEPT
                              !.at = "entry", !.job = "call", !.server = id[2], !.asked = <<NameOf(id)>>]]
              /\ UNCHANGED turn
         ELSE /\ turn' = [turn EXCEPT ![r].outcome[n] = "ran", ![r].ran = Append(@, <<n, id>>)]
              /\ UNCHANGED caller
  BY <1>2, <1>3 DEF ExecuteCall
<1>10. CASE IsMcp(id)
  <2>1. id \in McpIds
    BY <1>8, <1>10, BuiltinFacts
  <2>2. id = <<"mcp", id[2], id[3]>> /\ id[2] \in Servers /\ id[3] \in ToolsOf(id[2]) /\ NameOf(id) = id[3]
    BY <2>1, McpFacts
  <2>3. id[3] \in ListedTools
    BY <2>2, ListedIds
  <2> PICK name : name = <<NameOf(id)>>
    OBVIOUS
  <2> PICK errand : errand = [NoErrand EXCEPT !.at = "entry", !.job = "call", !.server = id[2], !.asked = name]
    OBVIOUS
  <2>4. name \in AskedNames /\ name[1] = id[3]
    BY <2>2, <2>3 DEF AskedNames
  <2>5. /\ errand \in Errand /\ errand.at = "entry" /\ errand.job = "call" /\ errand.server = id[2]
        /\ errand.asked = name
    BY <2>2, <2>4 DEF NoErrand, Errand, ErrandSteps, ErrandJobs, Underway
  <2>6. CallerInv(r, errand, registry)
    BY <2>2, <2>5 DEF CallerInv
  <2>7. /\ caller' = [caller EXCEPT ![r] = errand] /\ turn' = turn /\ registry' = registry
        /\ mcpServer' = mcpServer /\ inspected' = inspected
    BY <1>9, <1>10
  <2>8. ConnectionInv' /\ caller'[r] = errand /\ \A d \in Callers \ {r} : caller'[d] = caller[d]
    BY <1>1, <2>5, <2>6, <2>7, ErrandBegins
  <2>9. CallInv(it, errand)
    BY <1>1, <1>4, <2>2, <2>4, <2>5 DEF CallInv, CallSteps
  <2>10. AgentInv(it, caller'[r], registry, selected)
    BY <1>1, <2>8, <2>9 DEF AgentInv
  <2>11. turn' = [turn EXCEPT ![r] = it]
    BY <1>1, <2>7
  <2>12. \A d \in Agents \ {r} : caller'[d] = caller[d]
    BY <2>8 DEF Callers
  <2> QED  BY <1>9, <2>8, <2>10, <2>11, <2>12, TurnMoves
<1>11. CASE ~IsMcp(id)
  <2> PICK ran : ran = Append(it.ran, <<n, id>>)
    OBVIOUS
  <2> PICK new : new = [it EXCEPT !.outcome[n] = "ran", !.ran = ran]
    OBVIOUS
  <2>1. new = [it EXCEPT !.at = "deciding", !.outcome = [@ EXCEPT ![n] = "ran"],
                         !.blind = it.blind, !.ran = ran]
    BY <1>1 DEF TurnState
  <2>2. turn' = [turn EXCEPT ![r] = new]
    BY <1>1, <1>9, <1>11
  <2>3. new.outcome[n] = "ran" /\ new.offer = it.offer /\ new.calls = it.calls
    BY <1>1, <1>5 DEF TurnState
  <2>4. CallOutcomeInv(new, n)
    BY <1>7, <2>3 DEF CallOutcomeInv
  <2>5. "ran" \in CallOutcomes
    BY DEF CallOutcomes
  <2>10. TurnsOut(it, new, n, "ran", "deciding", it.blind, ran)
    BY <1>1, <1>5, <1>6, <2>1, <2>4, <2>5 DEF TurnsOut
  <2>6. TurnInv(new) /\ SameOffer(new, it) /\ new.at = "deciding"
    BY ONLY <2>10, CallTurnsOut
  <2>7. KeptInv(new, registry)
    BY <1>1, <2>6, SameOfferKept
  <2>8. CallInv(new, caller[r]) /\ ProgressInv(new, selected)
    BY <1>9, <2>6, NoErrandType DEF CallInv, ProgressInv
  <2>9. caller' = caller
    BY <1>9, <1>11
  <2> QED  BY <1>9, <2>2, <2>6, <2>7, <2>8, <2>9, TurnAlone
<1> QED  BY <1>10, <1>11

LEMMA EndCallKeeps ==
  ASSUME DiscoveryInv, NEW r \in Agents, EndCall(r)
  PROVE  DiscoveryInv'
<1> PICK it : it = turn[r]
  OBVIOUS
<1> PICK c : c = caller[r]
  OBVIOUS
<1>1. /\ it \in TurnState /\ TurnInv(it) /\ KeptInv(it, registry) /\ CallInv(it, c)
      /\ ConnectionInv /\ turn \in [Agents -> TurnState] /\ r \in Callers
  BY AgentFields
<1>2. c.job = "call" /\ c.at \in {"client", "failed"}
  BY DEF EndCall
<1> PICK n : n = Min(CallsWith(it.outcome, "allowed"))
  OBVIOUS
<1>3. /\ it.at = "deciding" /\ CallsWith(it.outcome, "allowed") # {}
      /\ c.at # "failed" => <<"mcp", c.server, c.asked[1]>> = Means(it.offer, it.calls[n])
  BY <1>1, <1>2 DEF CallInv
<1>4. n \in DOMAIN it.outcome /\ it.outcome[n] = "allowed"
  BY <1>1, <1>3, FirstWith
<1>5. CallOutcomeInv(it, n) /\ it.blind \in BOOLEAN
  BY <1>1, <1>4, TurnFields DEF TurnInv, OutcomeInv, CallOutcomeInv
<1>6. \E j \in DOMAIN it.offer : it.offer[j].name = it.calls[n]
  BY <1>4, <1>5 DEF CallOutcomeInv
<1>7. Pending(r, "allowed") = CallsWith(it.outcome, "allowed")
  BY DEF Pending, CallsWith
<1>8. PICK answered \in BOOLEAN :
        /\ answered => c.at = "client"
        /\ turn' = [turn EXCEPT ![r].outcome[n] = IF answered THEN "ran" ELSE "error",
                      ![r].ran = IF answered THEN Append(@, <<n, <<"mcp", c.server, c.asked[1]>>>>) ELSE @]
  BY <1>7 DEF EndCall
<1>9. caller' = [caller EXCEPT ![r] = NoErrand] /\ UNCHANGED <<registry, mcpServer, selected, inspected>>
  BY DEF EndCall
<1> PICK o : o = IF answered THEN "ran" ELSE "error"
  OBVIOUS
<1> PICK ran : ran = IF answered THEN Append(it.ran, <<n, <<"mcp", c.server, c.asked[1]>>>>) ELSE it.ran
  OBVIOUS
<1> PICK new : new = [it EXCEPT !.at = "deciding", !.outcome = [@ EXCEPT ![n] = o], !.blind = it.blind, !.ran = ran]
  OBVIOUS
<1>10. new = [it EXCEPT !.outcome[n] = o, !.ran = ran]
  BY <1>1, <1>3 DEF TurnState
<1>11. turn' = [turn EXCEPT ![r] = new]
  <2>1. CASE answered
    BY <1>1, <1>8, <1>10, <2>1
  <2>2. CASE ~answered
    BY <1>1, <1>8, <1>10, <2>2
  <2> QED  BY <2>1, <2>2
<1>12. new.outcome[n] = o /\ new.offer = it.offer /\ new.calls = it.calls
  BY <1>1, <1>4 DEF TurnState
<1>13. o \in CallOutcomes /\ o \in {"ran", "error"}
  BY DEF CallOutcomes
<1>14. CallOutcomeInv(new, n)
  BY <1>6, <1>12, <1>13 DEF CallOutcomeInv
<1>15. ran = it.ran \/ ran = Append(it.ran, <<n, Means(it.offer, it.calls[n])>>)
  BY <1>3, <1>8
<1>16. TurnInv(new) /\ SameOffer(new, it) /\ new.at = "deciding"
  <2>1. TurnsOut(it, new, n, o, "deciding", it.blind, ran)
    BY <1>1, <1>3, <1>4, <1>5, <1>13, <1>14, <1>15 DEF TurnsOut
  <2> QED  BY ONLY <2>1, CallTurnsOut
<1>17. KeptInv(new, registry)
  BY <1>1, <1>16, SameOfferKept
<1>18. NoErrand \in Errand /\ NoErrand.job # "call" /\ CallerInv(r, NoErrand, registry)
  BY NoErrandType DEF CallerInv, Underway
<1>19. ConnectionInv' /\ caller'[r] = NoErrand /\ \A d \in Callers \ {r} : caller'[d] = caller[d]
  BY <1>1, <1>9, <1>18, ErrandBegins
<1>20. CallInv(new, NoErrand) /\ ProgressInv(new, selected)
  BY <1>16, <1>18 DEF CallInv, ProgressInv
<1>21. AgentInv(new, caller'[r], registry, selected)
  BY <1>16, <1>17, <1>19, <1>20 DEF AgentInv
<1>22. \A d \in Agents \ {r} : caller'[d] = caller[d]
  BY <1>19 DEF Callers
<1> QED  BY <1>9, <1>11, <1>19, <1>21, <1>22, TurnMoves

LEMMA EndTurnKeeps ==
  ASSUME DiscoveryInv, NEW r \in Agents, EndTurn(r)
  PROVE  DiscoveryInv'
<1>1. CallInv(turn[r], caller[r])
  BY AgentFields
<1>2. turn' = [turn EXCEPT ![r] = NoTurn] /\ UNCHANGED <<registry, mcpServer, caller, selected, inspected>>
  BY DEF EndTurn
<1>3. CallsWith(turn[r].outcome, "allowed") = {}
  BY DEF EndTurn, Pending, CallsWith
<1>4. caller[r].job # "call"
  BY <1>1, <1>3, NoCallThen
<1>5. AgentInv(NoTurn, caller[r], registry, selected)
  BY <1>4, NoTurnInv
<1>6. TurnInv(NoTurn) /\ KeptInv(NoTurn, registry) /\ CallInv(NoTurn, caller[r]) /\ ProgressInv(NoTurn, selected)
  BY <1>5 DEF AgentInv
<1> QED  BY <1>2, <1>6, TurnAlone

\* The turn that goes on while a list changes remembers of whom.
LEMMA ListGone ==
  ASSUME NEW it, NEW c, NEW rows, NEW more, NEW chosen, AgentInv(it, c, rows, chosen), NEW s \in Servers,
         \A x \in Servers \ {s} : more[x] = rows[x],
         NEW new, new = IF it.at = "idle" THEN it ELSE [it EXCEPT !.changed = @ \cup {s}]
  PROVE  AgentInv(new, c, more, chosen)
<1>1. TurnInv(it) /\ KeptInv(it, rows) /\ CallInv(it, c) /\ it \in TurnState
  BY DEF AgentInv, TurnInv
<1>2. CASE it.at = "idle"
  <2>1. new = NoTurn
    BY <1>1, <1>2 DEF TurnInv
  <2>2. c.job # "call"
    BY <1>1, <1>2, NoCallThen
  <2> QED  BY <2>1, <2>2, NoTurnInv
<1>3. CASE it.at # "idle"
  <2> PICK wider : wider = it.changed \cup {s}
    OBVIOUS
  <2>1. new = [it EXCEPT !.changed = wider] /\ wider \subseteq Servers
    BY <1>1, <1>3 DEF TurnState
  <2>2. /\ new \in TurnState /\ new.at = it.at /\ new.found = it.found /\ new.offer = it.offer
        /\ new.calls = it.calls /\ new.outcome = it.outcome /\ new.ran = it.ran
        /\ new.changed = it.changed \cup {s} /\ new.blind = it.blind
    BY <1>1, <2>1 DEF TurnState
  <2>3. OutcomeInv(it) /\ NamesInv(it)
    BY <1>1 DEF TurnInv
  <2>4. new.changed # {}
    BY <2>2
  <2>5. OutcomeInv(new) /\ NamesInv(new)
    BY <2>2, <2>3, <2>4 DEF OutcomeInv, NamesInv
  <2>6. TurnInv(new)
    BY <1>1, <1>3, <2>2, <2>5 DEF TurnInv
  <2>7. KeptInv(new, more)
    <3> SUFFICES ASSUME NEW id \in ToolIds,
                        id \in it.found \/ (\E i \in DOMAIN it.offer : it.offer[i].id = id),
                        IsMcp(id), id[2] \notin it.changed \cup {s}
                 PROVE  KeptTool(more, id)
      BY <2>2 DEF KeptInv
    <3>1. KeptTool(rows, id)
      BY <1>1 DEF KeptInv
    <3>2. id[2] \in Servers \ {s}
      BY BuiltinFacts, McpFacts
    <3> QED  BY <3>1, <3>2 DEF KeptTool
  <2>8. CallInv(new, c) /\ ProgressInv(new, chosen)
    BY <1>1, <2>2, <2>4 DEF CallInv, ProgressInv
  <2> QED  BY <2>6, <2>7, <2>8 DEF AgentInv
<1> QED  BY <1>2, <1>3

LEMMA ListChangedLeavesTurns ==
  ASSUME DiscoveryInv, NEW s \in Servers, ListChanged(s)
  PROVE  DiscoveryInv'
<1>1. /\ ConnectionInv' /\ \A x \in Servers \ {s} : registry'[x] = registry[x]
      /\ selected' = selected /\ caller' = caller
  BY ListChangedKeeps DEF DiscoveryInv
<1>2. turn' = [r \in Agents |->
                 IF turn[r].at = "idle" THEN turn[r] ELSE [turn[r] EXCEPT !.changed = @ \cup {s}]]
  BY DEF ListChanged
<1>3. ASSUME NEW r \in Agents PROVE AgentInv(turn'[r], caller'[r], registry', selected')
  <2>1. AgentInv(turn[r], caller[r], registry, selected)
    BY DEF DiscoveryInv, TurnsInv
  <2>2. turn'[r] = IF turn[r].at = "idle" THEN turn[r] ELSE [turn[r] EXCEPT !.changed = @ \cup {s}]
    BY <1>2
  <2>3. AgentInv(turn'[r], caller[r], registry', selected)
    BY <1>1, <2>1, <2>2, ListGone
  <2> QED  BY <1>1, <2>3
<1>4. turn' \in [Agents -> TurnState]
  <2>1. \A r \in Agents : turn'[r] \in TurnState
    BY <1>3 DEF AgentInv, TurnInv
  <2>2. turn' = [r \in Agents |-> turn'[r]]
    BY <1>2
  <2> QED  BY <2>1, <2>2
<1> QED  BY <1>1, <1>3, <1>4 DEF DiscoveryInv, TurnsInv

LEMMA DiscoveryStarts == DiscoveryInit => DiscoveryInv
<1> SUFFICES ASSUME DiscoveryInit PROVE DiscoveryInv
  OBVIOUS
<1>1. ASSUME NEW r \in Agents PROVE AgentInv(turn[r], caller[r], registry, selected) /\ turn[r] = NoTurn
  <2>1. r \in Callers /\ r \notin AlwaysOn
    BY DiscoveryAssumption DEF Callers
  <2>2. caller[r] = NoErrand
    BY <2>1 DEF DiscoveryInit
  <2>3. turn[r] = NoTurn
    BY DEF DiscoveryInit
  <2>4. NoErrand.job # "call"
    BY NoErrandType
  <2> QED  BY <2>2, <2>3, <2>4, NoTurnInv
<1>2. turn \in [Agents -> TurnState]
  <2>1. \A r \in Agents : turn[r] \in TurnState
    BY <1>1 DEF AgentInv, TurnInv
  <2>2. turn = [r \in Agents |-> turn[r]]
    BY DEF DiscoveryInit
  <2> QED  BY <2>1, <2>2
<1> QED  BY <1>1, <1>2, ConnectionStarts DEF DiscoveryInv, TurnsInv

LEMMA DiscoveryKeeps == DiscoveryInv /\ [DiscoveryNext]_discoveryVars => DiscoveryInv'
<1> SUFFICES ASSUME DiscoveryInv, [DiscoveryNext]_discoveryVars PROVE DiscoveryInv'
  OBVIOUS
<1>1. ConnectionInv /\ TurnsInv
  BY DEF DiscoveryInv
<1>2. ASSUME ConnectionInv', Grows, selected \subseteq selected', turn' = turn,
             \A r \in Agents : CallGoesOn(caller'[r], caller[r])
      PROVE  DiscoveryInv'
  <2>1. TurnsInv'
    BY <1>1, <1>2, TurnsFrame
  <2> QED  BY <1>2, <2>1 DEF DiscoveryInv
<1>3. (\A r \in Agents : caller'[r] = caller[r]) => \A r \in Agents : CallGoesOn(caller'[r], caller[r])
  BY CallGoesOnUnchanged
<1>4. CASE UNCHANGED discoveryVars
  <2>1. /\ UNCHANGED <<registry, mcpServer, caller, inspected>>
        /\ turn' = turn /\ selected' = selected /\ caller' = caller
    BY <1>4 DEF discoveryVars
  <2>2. ConnectionInv' /\ Grows
    BY <1>1, <2>1, ConnectionStutter
  <2> QED  BY <1>2, <1>3, <2>1, <2>2
<1>5. ASSUME NEW c \in Callers, CallerStep(c) PROVE DiscoveryInv'
  <2>1. ErrandGoesOn(c) /\ turn' = turn /\ selected \subseteq selected'
    BY <1>1, <1>5, CallerStepKeeps
  <2>2. /\ ConnectionInv' /\ Grows /\ CallGoesOn(caller'[c], caller[c])
        /\ \A d \in Callers \ {c} : caller'[d] = caller[d]
    BY <2>1 DEF ErrandGoesOn
  <2>3. ASSUME NEW r \in Agents PROVE CallGoesOn(caller'[r], caller[r])
    <3>1. r \in Callers
      BY DEF Callers
    <3>2. CASE r = c
      BY <2>2, <3>2
    <3>3. CASE r # c
      <4>1. caller'[r] = caller[r]
        BY <2>2, <3>1, <3>3
      <4> QED  BY <4>1, CallGoesOnUnchanged
    <3> QED  BY <3>2, <3>3
  <2> QED  BY <1>2, <2>1, <2>2, <2>3
<1>6. CASE EmbedderLists
  <2>1. /\ ConnectionInv' /\ Grows /\ turn' = turn /\ selected' = selected
        /\ \A d \in Agents : caller'[d] = caller[d]
    BY <1>1, <1>6, EmbedderListsKeeps
  <2> QED  BY <1>2, <1>3, <2>1
<1>7. CASE get_all_states
  <2>1. ConnectionInv' /\ Grows /\ turn' = turn /\ selected' = selected /\ caller' = caller
    BY <1>1, <1>7, GetAllStatesKeeps
  <2> QED  BY <1>2, <1>3, <2>1
<1>8. ASSUME NEW s \in Servers, ServerActs(s) PROVE DiscoveryInv'
  <2>1. ConnectionInv' /\ Grows /\ turn' = turn /\ selected' = selected /\ caller' = caller
    BY <1>1, <1>8, ServerActsKeeps
  <2> QED  BY <1>2, <1>3, <2>1
<1>9. ASSUME NEW s \in Servers, ListChanged(s) PROVE DiscoveryInv'
  BY <1>9, ListChangedLeavesTurns
<1>10. ASSUME NEW r \in Agents, TurnStep(r) PROVE DiscoveryInv'
  BY <1>10, ReadDescriptorsKeeps, PlanTurnKeeps, ModelCallsKeeps, ValidateCallKeeps, DecideCallKeeps,
     ExecuteCallKeeps, EndCallKeeps, EndTurnKeeps DEF TurnStep
<1> QED
  BY <1>4, <1>5, <1>6, <1>7, <1>8, <1>9, <1>10 DEF DiscoveryNext

LEMMA DiscoveryMeans == DiscoveryInv => ToolsAsOffered
<1> SUFFICES ASSUME DiscoveryInv PROVE ToolsAsOffered
  OBVIOUS
<1>1. ASSUME NEW r \in Agents PROVE NamesAreTools(r) /\ CallsAreFound(r) /\ DiscoveryIsProgressive(r)
  <2>1. TurnInv(turn[r]) /\ ProgressInv(turn[r], selected)
    BY AgentFields
  <2>2. NamesInv(turn[r]) /\ OutcomeInv(turn[r])
    BY <2>1 DEF TurnInv
  <2>3. NamesAreTools(r)
    BY <2>2 DEF NamesInv, NamesAreTools
  <2>4. \A name : Denotes(r, name) = Means(turn[r].offer, name)
    BY DEF Denotes, Means
  <2>5. CallsAreFound(r)
    BY <2>2, <2>4 DEF OutcomeInv, CallsAreFound, Undisturbed
  <2>6. DiscoveryIsProgressive(r)
    BY <2>1 DEF ProgressInv, DiscoveryIsProgressive, Chosen
  <2> QED  BY <2>3, <2>5, <2>6
<1>2. ASSUME NEW s \in Servers
      PROVE  /\ mcpServer[s].processes <= 1
             /\ registry[s].cell = "ready" => mcpServer[s].processes = 1
             /\ inspected[s] = "Failed" => registry[s].cell = "failed"
             /\ inspected[s] = "Connected" => registry[s].cell = "ready"
  BY DEF DiscoveryInv, ConnectionInv, ServerInv, InspectedInv
<1> QED  BY <1>1, <1>2 DEF ToolsAsOffered, ServersAreOne

\* What a turn offers can be told apart, the calls of it run what they name, and are found
\* unless something was disturbed; and a server has at most one process.
THEOREM OfferedToolsAnswer == DiscoverySpec => []ToolsAsOffered
<1>1. DiscoverySpec => []DiscoveryInv
  BY DiscoveryStarts, DiscoveryKeeps, PTL DEF DiscoverySpec
<1>2. []DiscoveryInv => []ToolsAsOffered
  BY DiscoveryMeans, PTL
<1> QED  BY <1>1, <1>2, PTL

=============================================================================
