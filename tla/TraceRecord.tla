----------------------------- MODULE TraceRecord -----------------------------
(***************************************************************************)
(* What the trace of a run says and what its readers make of it            *)
(* (crates/gestalt-runtime/src/trace: mod.rs, tool_metrics.rs, golden.rs;  *)
(* crates/gestalt-cli/src/trace.rs): events are numbered, redacted and     *)
(* buffered; a run that dies leaves a prefix, perhaps with a torn line; a  *)
(* newer build may have written kinds this one does not know.  Readers     *)
(* are the client projection, the costs, the metrics of tools, inspection, *)
(* validation and the comparison with a golden trace.                      *)
(***************************************************************************)
EXTENDS Naturals, Sequences, SequencesExt, FiniteSets, FiniteSetsExt

CONSTANTS
  RecordedModels, \* models a run may ask
  PricedModels,   \* those whose price the catalog knows
  MaxRecordings,  \* runs of the project
  MaxBuilds,      \* contexts built, over all runs
  MaxBuffered,    \* lines the writer may hold back
  NoText          \* an event without text

ASSUME TraceRecordAssumption == PricedModels \subseteq RecordedModels

VARIABLES
  files,   \* trace.jsonl of each run: its lines, torn, over
  sink,    \* the TraceState of the run that goes on: seq, turn
  said,    \* every event of each run as the agent emitted it, of those that reached the file
  talk,    \* the history of the session of the run that goes on
  reports  \* cost.json of each run that ended

recordVars == <<files, sink, said, talk, reports>>

-----------------------------------------------------------------------------
\* Events, and what redaction makes of them.

\* Users, tools and failures mention secrets; a model says things with spaces around.
UserText == "secret"
ModelText == "spaced"
OutputText == "secret"

Said(kind, text, call, what) == [kind |-> kind, text |-> text, call |-> call, what |-> what]
NoCallId == 0
Of(kind) == Said(kind, NoText, NoCallId, <<>>)

\* Words are joined by single spaces whatever stood between them.
RedactString(text) ==
  [text |-> CASE text = "secret" -> "redacted" [] text = "spaced" -> "plain" [] OTHER -> text,
   redacted |-> text = "secret"]

\* The kinds the sink redacts; failures of the stream or of a build are not among them.
RedactedKinds ==
  {"UserMessage", "Text", "ToolCallProposed", "PolicyDecision", "ToolResult", "Error"}

RedactEvent(e) ==
  IF e.kind \in RedactedKinds
    THEN [event |-> [e EXCEPT !.text = RedactString(@).text],
          redacted |-> RedactString(e.text).redacted]
    ELSE [event |-> e, redacted |-> FALSE]

IsKnownKind(e) == e.kind # "Newer"

NoEstimate == <<>>
EmptyReport == [model |-> <<>>, tokens |-> 0, estimate |-> <<0>>, warnings |-> 0]
NoReport == [EmptyReport EXCEPT !.estimate = NoEstimate]

-----------------------------------------------------------------------------
\* Recording.

Running == Len(files) > 0 /\ ~Last(files).over
CurrentTrace == Len(files)
LastSaid == Last(said[CurrentTrace])
Builds ==
  FoldLeft(LAMBDA n, es : n + Len(SelectSeq(es, LAMBDA e : e.kind = "ContextBuilt")), 0, said)

Emit(e) ==
  LET turn == sink.turn + (IF e.kind = "ContextBuilt" THEN 1 ELSE 0)
      redaction == RedactEvent(e)
  IN /\ sink' = [seq |-> sink.seq + 1, turn |-> turn]
     /\ files' = [files EXCEPT ![CurrentTrace].lines =
                    Append(@, [seq |-> sink.seq + 1, turn |-> turn, event |-> redaction.event,
                               redacted |-> redaction.redacted])]
     /\ said' = [said EXCEPT ![CurrentTrace] = Append(@, e)]

\* The model had nothing more to do: the run goes on to no further turn.
Answered ==
  \E i \in DOMAIN said[CurrentTrace] : said[CurrentTrace][i].kind = "Stop"
                                     /\ said[CurrentTrace][i].what = <<"EndTurn">>

\* The next events the agent may emit after one of a kind.
CallId == sink.turn
Denied == <<"Denied", ModelText>>
ResultOf(error, truncated, pre) ==
  [error |-> error, truncated |-> truncated, pre |-> pre, hash |-> <<OutputText, error>>]
Failed(pre) == ResultOf(TRUE, FALSE, pre)

Following(last) ==
  CASE last.kind = "UserMessage" -> {Of("RunStarted")}
    [] last.kind = "RunStarted" -> {Said("Checkpoint", NoText, NoCallId, talk)}
    [] last.kind = "Checkpoint" ->
         IF Builds >= MaxBuilds \/ Answered THEN {}
           ELSE {Said("ContextBuilt", NoText, NoCallId, talk),
                 Said("ContextBuildFailed", OutputText, NoCallId, <<>>)}
    [] last.kind = "ContextBuildFailed" -> {Said("Error", OutputText, NoCallId, <<>>)}
    [] last.kind = "ContextBuilt" ->
         {Said("ModelRequest", NoText, NoCallId, <<m>>) : m \in RecordedModels}
    [] last.kind = "ModelRequest" ->
         {Said("Text", ModelText, NoCallId, <<>>), Of("ModelResponseStreamInterrupted"),
          Said("ModelResponseStreamFailed", OutputText, NoCallId, <<>>)}
    [] last.kind = "ModelResponseStreamFailed" -> {Said("Error", OutputText, NoCallId, <<>>)}
    [] last.kind = "Text" -> {Of("Usage")}
    [] last.kind = "Usage" -> {Said("Stop", NoText, NoCallId, <<"ToolUse">>),
                               Said("Stop", NoText, NoCallId, <<"EndTurn">>)}
    [] last.kind = "Stop" -> {Said("AssistantMessageCommitted", ModelText, NoCallId, last.what)}
    [] last.kind = "AssistantMessageCommitted" ->
         IF last.what = <<"EndTurn">>
           THEN {Said("Checkpoint", NoText, NoCallId, talk)}
           ELSE {Said("ToolCallProposed", ModelText, CallId, <<>>), Of("Newer")}
    [] last.kind = "Newer" -> {Said("ToolCallProposed", ModelText, CallId, <<>>)}
    [] last.kind = "ToolCallProposed" ->
         {Said("PolicyDecision", OutputText, CallId, d) : d \in {Denied, <<"Allowed", ModelText>>}}
           \cup {Said("ToolCallValidationFailed", OutputText, CallId, <<>>)}
    [] last.kind = "ToolCallValidationFailed" ->
         {Said("ToolResult", OutputText, CallId, Failed(TRUE))}
    [] last.kind = "PolicyDecision" ->
         IF last.what = Denied THEN {Said("ToolResult", OutputText, CallId, Failed(TRUE))}
           ELSE {Said("ToolExecutionStarted", NoText, CallId, <<>>)}
    [] last.kind = "ToolExecutionStarted" ->
         {Said("ToolRetryAttempt", NoText, CallId, <<>>),
          Said("ToolResult", OutputText, CallId, Failed(FALSE)),
          Said("ToolResult", OutputText, CallId, ResultOf(FALSE, FALSE, FALSE)),
          Said("ArtifactCreated", NoText, NoCallId, <<talk>>)}
    [] last.kind = "ToolRetryAttempt" ->
         {Said("ToolResult", OutputText, CallId, ResultOf(FALSE, FALSE, FALSE))}
    [] last.kind = "ArtifactCreated" ->
         {Said("ToolResult", OutputText, CallId, ResultOf(FALSE, TRUE, FALSE))}
    [] last.kind = "ToolResult" -> {Said("Checkpoint", NoText, NoCallId, talk)}
    [] OTHER -> {}

\* The message or result an event brings joins the history as it was said.
RecordNext ==
  /\ Running
  /\ \E e \in Following(LastSaid) :
       /\ Emit(e)
       /\ talk' = IF e.kind \in {"AssistantMessageCommitted", "ToolResult"}
                    THEN Append(talk, e.text) ELSE talk
  /\ UNCHANGED reports

\* A trace is created empty; the message of the user is its first event.
\* (A bound: no run begins after one that died.)
Begin ==
  /\ ~Running /\ Len(files) < MaxRecordings
  /\ \A i \in DOMAIN reports : reports[i] # NoReport
  /\ LET e == Said("UserMessage", UserText, NoCallId, <<>>)
     IN /\ files' = Append(files,
              [lines |-> <<[seq |-> 1, turn |-> 0, event |-> RedactEvent(e).event,
                            redacted |-> RedactEvent(e).redacted]>>,
               torn |-> FALSE, over |-> FALSE])
        /\ said' = Append(said, <<e>>)
  /\ talk' = <<UserText>>
  /\ sink' = [seq |-> 1, turn |-> 0]
  /\ UNCHANGED reports

-----------------------------------------------------------------------------
\* Readers.

\* Any line that is no JSON makes the whole trace unreadable; unknown kinds are passed over.
TraceReadable(file) == ~file.torn
ReadTrace(file) == SelectSeq(file.lines, LAMBDA line : IsKnownKind(line.event))

\* Shown per line, whatever became of the others.
ShownAs(kind) ==
  CASE kind = "RunStarted" -> "RunStarted"
    [] kind = "UserMessage" -> "UserMessage"
    [] kind = "Text" -> "AssistantText"
    [] kind \in {"ContextBuilt", "ContextBuildFailed", "Checkpoint",
                  "AssistantMessageCommitted"} -> "Context"
    [] kind \in {"ModelRequest", "ModelResponseStreamInterrupted"} -> "Model"
    [] kind \in {"ToolCallProposed", "ToolExecutionStarted", "ToolResult",
                  "ToolCallValidationFailed", "ToolRetryAttempt"} -> "Tool"
    [] kind = "PolicyDecision" -> "Policy"
    [] kind = "ArtifactCreated" -> "Artifact"
    [] kind = "Usage" -> "Usage"
    [] kind = "Stop" -> "Stop"
    [] kind \in {"Error", "ModelResponseStreamFailed"} -> "Error"
    [] kind = "Newer" -> "Unknown"

ShowsText ==
  {"UserMessage", "Text", "ContextBuildFailed", "ModelResponseStreamFailed", "PolicyDecision",
   "Error"}

StatusOf(e) ==
  CASE e.kind = "ToolResult" -> IF e.what.error THEN "error"
                                ELSE IF e.what.truncated THEN "truncated" ELSE "ok"
    [] e.kind = "ToolCallValidationFailed" -> "rejected"
    [] e.kind = "ToolRetryAttempt" -> "retry"
    [] e.kind = "PolicyDecision" -> e.what[1]
    [] OTHER -> "none"

\* Mutant: what the sink left as it was is shown as it is.
ProjectLineVerbatim(line) ==
  LET e == line.event
  IN [seq |-> line.seq, turn |-> line.turn, as |-> ShownAs(e.kind),
      text |-> IF e.kind \in ShowsText THEN e.text ELSE NoText,
      call |-> e.call, status |-> StatusOf(e), redacted |-> line.redacted]

ProjectClientEventLine(line) ==
  LET e == line.event
      shown == RedactString(e.text)
      text == IF e.kind \in ShowsText THEN shown ELSE [text |-> NoText, redacted |-> FALSE]
  IN [seq |-> line.seq, turn |-> line.turn, as |-> ShownAs(e.kind), text |-> text.text,
      call |-> e.call, status |-> StatusOf(e), redacted |-> line.redacted \/ text.redacted]

\* An estimate an unpriced usage took away comes back with the next priced one.

CostOf(report, e) ==
  CASE e.kind = "ModelRequest" -> [report EXCEPT !.model = e.what]
    [] e.kind = "Usage" /\ report.model[1] \in PricedModels ->
         [report EXCEPT !.tokens = @ + 1, !.estimate = <<(IF @ = NoEstimate THEN 0 ELSE @[1]) + 1>>]
    [] e.kind = "Usage" /\ report.model[1] \notin PricedModels ->
         [report EXCEPT !.tokens = @ + 1, !.estimate = NoEstimate, !.warnings = @ + 1]
    [] OTHER -> report

EventsRead(file) == LET lines == ReadTrace(file) IN [i \in DOMAIN lines |-> lines[i].event]

\* The models are forgotten between traces.
CostsOver(report, file) ==
  LET es == EventsRead(file)
      costs[i \in 0..Len(es)] ==
        IF i = 0 THEN [report EXCEPT !.model = <<>>] ELSE CostOf(costs[i - 1], es[i])
  IN costs[Len(es)]

AggregateCosts(traces) == FoldLeft(CostsOver, EmptyReport, traces)

CountOf(es, Counted(_)) == Cardinality({i \in DOMAIN es : Counted(es[i])})
TracesRead(traces) == [n \in DOMAIN traces |-> EventsRead(traces[n])]

\* Results by call, of the tools that ran; the last one of a call counts.
Results(es) ==
  LET ran(c) == {i \in DOMAIN es : es[i].kind = "ToolResult" /\ es[i].call = c /\ ~es[i].what.pre}
  IN [c \in {d \in 1..MaxBuilds : ran(d) # {}} |->
        es[CHOOSE i \in ran(c) : \A j \in ran(c) : j <= i].what]
FirstCallSuccesses(es) ==
  {c \in DOMAIN Results(es) :
     /\ ~Results(es)[c].error
     /\ \A i \in DOMAIN es : ~(es[i].kind = "ToolRetryAttempt" /\ es[i].call = c)}

\* One usage without a price leaves the metrics without an estimate.
MetricsEstimate(costs) == IF costs.warnings > 0 THEN NoEstimate ELSE costs.estimate

AnalyzeToolMetrics(traces) ==
  LET total(CountIn(_)) == FoldLeft(LAMBDA n, es : n + CountIn(es), 0, TracesRead(traces))
      kinds(k) == total(LAMBDA es : CountOf(es, LAMBDA e : e.kind = k))
      costs == AggregateCosts(traces)
  IN [proposed |-> kinds("ToolCallProposed"),
      invalid |-> kinds("ToolCallValidationFailed"),
      denied |-> total(LAMBDA es :
                   CountOf(es, LAMBDA e : e.kind = "PolicyDecision" /\ e.what[1] = "Denied")),
      truncated |-> total(LAMBDA es :
                      CountOf(es, LAMBDA e : e.kind = "ToolResult" /\ e.what.truncated)),
      executed |-> total(LAMBDA es : Cardinality(DOMAIN Results(es))),
      successes |-> total(LAMBDA es : Cardinality(FirstCallSuccesses(es))),
      estimate |-> MetricsEstimate(costs)]

InspectTrace(file) ==
  LET lines == ReadTrace(file)
  IN [events |-> Len(lines),
      turns |-> Max({0} \cup {lines[i].turn : i \in DOMAIN lines}),
      redacted |-> \E i \in DOMAIN lines : lines[i].redacted]

ValidateTrace(file) ==
  LET lines == ReadTrace(file)
  IN ~file.torn /\ \A i \in 2..Len(lines) : lines[i - 1].seq < lines[i].seq

\* A golden trace: kinds and numbers by place, then what the events of each kind say.
OfKind(es, kind) == SelectSeq(es, LAMBDA e : e.kind = kind)
KindMatches(kind, compared, expected, actual) ==
  LET x == OfKind(expected, kind)
      y == OfKind(actual, kind)
  IN Len(x) = Len(y) /\ \A i \in DOMAIN x : \A field \in compared : x[i][field] = y[i][field]

EventOrderingMatch(expected, actual) ==
  /\ Len(expected) = Len(actual)
  /\ \A i \in DOMAIN expected : /\ expected[i].seq = actual[i].seq
                                /\ expected[i].event.kind = actual[i].event.kind

\* The input of a call: as the first decision about it hashes it, or else as proposed.
InputHash(es, c) ==
  LET of(kind) == {i \in DOMAIN es : es[i].kind = kind /\ es[i].call = c}
      first(s) == es[CHOOSE i \in s : \A j \in s : i <= j]
  IN IF of("PolicyDecision") # {} THEN first(of("PolicyDecision")).what[2]
     ELSE IF of("ToolCallProposed") # {} THEN first(of("ToolCallProposed")).text ELSE NoText

ToolExecutionMatch(expected, actual) ==
  LET x == OfKind(expected, "ToolResult")
      y == OfKind(actual, "ToolResult")
  IN /\ Len(x) = Len(y)
     /\ \A i \in DOMAIN x : /\ x[i].what.hash = y[i].what.hash
                            /\ x[i].what.truncated = y[i].what.truncated
                            /\ InputHash(expected, x[i].call) = InputHash(actual, y[i].call)

AssertGolden(golden, file) ==
  LET expected == EventsRead(golden)
      actual == EventsRead(file)
  IN /\ EventOrderingMatch(ReadTrace(golden), ReadTrace(file))
     /\ KindMatches("PolicyDecision", {"what", "text"}, expected, actual)
     /\ ToolExecutionMatch(expected, actual)
     /\ \A kind \in {"ArtifactCreated", "ContextBuilt", "Usage", "Stop"} :
          KindMatches(kind, {"text", "call", "what"}, expected, actual)

-----------------------------------------------------------------------------
\* A run ends, or its process dies: what the buffer held is lost, a line may be torn.

EndKinds == {"Checkpoint", "Error", "ModelResponseStreamFailed", "ModelResponseStreamInterrupted"}

End ==
  /\ Running /\ LastSaid.kind \in EndKinds
  /\ files' = [files EXCEPT ![CurrentTrace].over = TRUE]
  /\ reports' = Append(reports, AggregateCosts(<<files[CurrentTrace]>>))
  /\ UNCHANGED <<sink, said, talk>>

Crash ==
  /\ Running
  /\ \E k \in {n \in 0..sink.seq : n + MaxBuffered >= sink.seq},
       torn \in BOOLEAN :
       /\ torn => k < sink.seq
       /\ files' = [files EXCEPT ![CurrentTrace] =
                      [lines |-> SubSeq(@.lines, 1, k), torn |-> torn, over |-> TRUE]]
       /\ said' = [said EXCEPT ![CurrentTrace] = SubSeq(@, 1, k)]
  /\ reports' = Append(reports, NoReport)
  /\ UNCHANGED <<sink, talk>>

TraceRecordInit ==
  /\ files = <<>> /\ said = <<>> /\ talk = <<>> /\ reports = <<>>
  /\ sink = [seq |-> 0, turn |-> 0]

TraceRecordNext == Begin \/ RecordNext \/ End \/ Crash

TraceRecordSpec == TraceRecordInit /\ [][TraceRecordNext]_recordVars

-----------------------------------------------------------------------------
\* Lines are numbered without a gap, in the order of the run, and say in which turn they are.
Numbered ==
  \A f \in DOMAIN files : \A i \in DOMAIN files[f].lines :
    LET line == files[f].lines[i]
    IN /\ line.seq = i
       /\ line.turn = CountOf(SubSeq(said[f], 1, i), LAMBDA e : e.kind = "ContextBuilt")
       /\ line.event.kind = said[f][i].kind

\* Clients see no secret, whatever the event, and are told where one was taken out.
ClientsSeeNoSecret ==
  \A f \in DOMAIN files : \A i \in DOMAIN files[f].lines :
    LET shown == ProjectClientEventLine(files[f].lines[i])
    IN /\ shown.text # "secret"
       /\ shown.redacted <=> /\ said[f][i].text = "secret"
                             /\ said[f][i].kind \in RedactedKinds \cup ShowsText

\* The last checkpoint has everything said before it, word for word.
CheckpointsVerbatim ==
  \A f \in DOMAIN files : \A i \in DOMAIN files[f].lines :
    files[f].lines[i].event.kind = "Checkpoint" =>
      LET before == SelectSeq(SubSeq(said[f], 1, i),
            LAMBDA e : e.kind \in {"UserMessage", "AssistantMessageCommitted", "ToolResult"})
      IN files[f].lines[i].event.what = [j \in DOMAIN before |-> before[j].text]

\* Every usage is in the costs; an estimate nobody warned about is exact, others are too low.
CostsAccount ==
  LET asked(f, i) == {j \in 1..i : said[f][j].kind = "ModelRequest"}
      model(f, i) == said[f][CHOOSE j \in asked(f, i) : \A k \in asked(f, i) : k <= j].what[1]
      usages == {u \in UNION {{f} \X DOMAIN said[f] : f \in DOMAIN said} :
                   said[u[1]][u[2]].kind = "Usage"}
      priced == {u \in usages : model(u[1], u[2]) \in PricedModels}
      costs == AggregateCosts(files)
  IN /\ costs.tokens = Cardinality(usages)
     /\ costs.warnings = Cardinality(usages \ priced)
     /\ MetricsEstimate(costs) = (IF usages = priced THEN <<Cardinality(priced)>> ELSE NoEstimate)
     /\ costs.estimate = NoEstimate \/ costs.estimate[1] <= Cardinality(priced)
     /\ usages = priced => costs.estimate = <<Cardinality(priced)>>
     /\ \A f \in DOMAIN reports : reports[f] \in {NoReport, AggregateCosts(<<files[f]>>)}

\* Every call of a trace is counted once: rejected, denied, run or still to be answered.
CallsAccount ==
  \A f \in DOMAIN files :
    LET m == AnalyzeToolMetrics(<<files[f]>>)
        inspected == InspectTrace(files[f])
        pending == m.proposed - (m.invalid + m.denied + m.executed)
    IN /\ pending \in {0, 1}
       /\ m.successes <= m.executed
       /\ inspected.turns = CountOf(said[f], LAMBDA e : e.kind = "ContextBuilt")
       /\ inspected.redacted => \E i \in DOMAIN said[f] : said[f][i].text = "secret"
       /\ ~files[f].torn <=> ValidateTrace(files[f])

\* A run that passes for its golden trace did to its calls what the golden run did.
GoldenMeansSame ==
  \A g, f \in DOMAIN files :
    (/\ g < f /\ TraceReadable(files[g]) /\ TraceReadable(files[f])
     /\ AssertGolden(files[g], files[f])) =>
      LET outcome(m) == [m EXCEPT !.estimate = NoEstimate]
      IN /\ outcome(AnalyzeToolMetrics(<<files[g]>>)) = outcome(AnalyzeToolMetrics(<<files[f]>>))
         /\ AggregateCosts(<<files[g]>>).tokens = AggregateCosts(<<files[f]>>).tokens
         /\ InspectTrace(files[g]).events = InspectTrace(files[f]).events

\* What readers make of a trace is what happened in the run, in as much of it as reached the
\* file: numbering, redaction, restorable history, costs, the fate of calls, golden comparison.
\* (Between runs: as a run may die anywhere, every prefix of a trace is among those.)
RecordAccounts == ~Running =>
  /\ Numbered /\ ClientsSeeNoSecret /\ CheckpointsVerbatim
  /\ CostsAccount /\ CallsAccount /\ GoldenMeansSame
=============================================================================
