------------------------------ MODULE ToolBatch ------------------------------
(***************************************************************************)
(* `execute_tool_batch` and the loop that answers its results              *)
(* (crates/gestalt-core/src/agent/executor.rs, agent.rs): the tool calls   *)
(* of a turn are validated, judged by the policy, confirmed by the user,   *)
(* executed and answered in the session, over the turns of one run.        *)
(***************************************************************************)
EXTENDS Naturals, Sequences, FiniteSets, SequencesExt

CONSTANTS
  Tools,        \* the tools a call may name
  Inputs,       \* inputs, compared as their hashes are
  NoInput,
  Offered,      \* tools in the name mappings of the turn and in the catalog
  Malformed,    \* <<tool, input>>: the input does not match the schema
  Exclusive,    \* <<tool, input>>: can_run_in_parallel is false
  Risk,         \* the risk of a tool with an input
  Retryable,    \* tools with a retry policy, trusted as idempotent and read-only
  MaxRetries,   \* max_retries of their policies
  MaxTurns,     \* loop_max_turns
  MaxCalls      \* bound: tool calls of a turn

Pairs == Tools \X Inputs
Orders == 1..MaxCalls

ASSUME ToolBatchAssumption ==
  /\ NoInput \notin Inputs
  /\ Offered \subseteq Tools /\ Retryable \subseteq Tools
  /\ Malformed \subseteq Pairs /\ Exclusive \subseteq Pairs
  /\ Risk \in [Pairs -> Nat]
  /\ MaxRetries \in Nat /\ MaxTurns \in Nat /\ MaxCalls \in Nat \ {0}

\* What the model proposes; an id is the place of the first call that has it.
ToolCall == [id : Orders, tool : Tools, input : Inputs]
PolicyStatus == {"Allowed", "Denied", "Confirm"}

\* How an attempt ends; a tool that refuses its input itself has failed.
AttemptOutcome == {"ok", "failed", "timeout"}

SessionGrant == [tool : Tools, input : Inputs, risk_ceiling : Nat, granted_at_turn : Nat]
NoVerdict == [input |-> NoInput, status |-> "Denied"]

VARIABLES
  pc,         \* where the batch is; "open" up to the execution of a planned call
  turn,       \* current_turn; turns are counted from 1
  calls,      \* tool_calls
  validated,  \* the calls of validated_calls not judged yet
  confirm,    \* confirm_queue
  edit,       \* the new input while it is judged
  input,      \* the input each call executes with
  planned,    \* calls still to be executed
  parallel,   \* current_parallel
  active,     \* the calls that execute now
  exec,       \* per call: phase, attempts and outcome of its execution
  results,    \* results, in the order they are pushed
  answered,   \* results already in the session
  grants,     \* session_grants
  cancelled,  \* the cancel token
  verdict,    \* ghost: the last policy decision on a call and the input it was on
  consent,    \* ghost: the input the user approved for a call
  asked,      \* ghost: calls the user was asked about
  forever     \* ghost: the pairs the user always allowed

deciding == <<validated, confirm, edit, input>>
executing == <<parallel, active, exec>>
ghosts == <<verdict, consent, asked, forever>>
batchVars == <<pc, turn, calls, deciding, planned, executing, results, answered,
          grants, cancelled, ghosts>>

NotRun == [phase |-> "waiting", attempts |-> 0, outcome |-> "rejected"]

BatchInit ==
  /\ pc = "idle" /\ turn = 0
  /\ calls = <<>> /\ validated = {} /\ confirm = <<>> /\ edit = NoInput
  /\ input = [o \in Orders |-> NoInput]
  /\ planned = <<>> /\ parallel = {} /\ active = {}
  /\ exec = [o \in Orders |-> NotRun]
  /\ results = <<>> /\ answered = 0 /\ grants = {} /\ cancelled = FALSE
  /\ verdict = [o \in Orders |-> NoVerdict]
  /\ consent = [o \in Orders |-> NoInput]
  /\ asked = {} /\ forever = {}

Pair(o) == <<calls[o].tool, input[o]>>
Result(o, outcome) == [order |-> o, outcome |-> outcome]

\* The results of some calls, as they are pushed; ReturnResults puts them in order.
Outcomes(os, ends) ==
  [k \in DOMAIN SetToSeq(os) |-> Result(SetToSeq(os)[k], ends[SetToSeq(os)[k]].outcome)]

-----------------------------------------------------------------------------
(* Validation. *)

\* An id is seen whether its call is valid or not.
Valid(cs, o) ==
  /\ \A k \in 1..(o - 1) : cs[k].id # cs[o].id
  /\ cs[o].tool \in Offered
  /\ <<cs[o].tool, cs[o].input>> \notin Malformed

\* The model ends a turn with tool calls; they are validated before the first await.
StartBatch(cs) ==
  LET valid == {o \in 1..Len(cs) : Valid(cs, o)}
      fresh == [o \in Orders |-> NotRun]
  IN /\ pc = "idle" /\ turn < MaxTurns
     /\ pc' = "open" /\ turn' = turn + 1 /\ calls' = cs
     /\ validated' = valid
     /\ results' = Outcomes(1..Len(cs) \ valid, fresh)
     /\ input' = [o \in Orders |-> IF o <= Len(cs) THEN cs[o].input ELSE NoInput]
     /\ exec' = fresh
     /\ answered' = 0
     /\ verdict' = [o \in Orders |-> NoVerdict]
     /\ consent' = [o \in Orders |-> NoInput]
     /\ asked' = {}
     /\ UNCHANGED <<confirm, edit, planned, parallel, active, grants, cancelled, forever>>

-----------------------------------------------------------------------------
(* Policy and approval. *)

Judging == pc = "open" /\ validated # {}
Asking == pc = "open" /\ validated = {} /\ confirm # <<>>
Planning == pc = "open" /\ validated = {} /\ confirm = <<>>

\* A bug: the input is not compared.
CoversTool(g, o) ==
  /\ g.tool = calls[o].tool
  /\ Risk[Pair(o)] <= g.risk_ceiling
  /\ g.granted_at_turn + MaxTurns > turn

\* SessionGrant::covers.
Covers(g, o) ==
  /\ <<g.tool, g.input>> = Pair(o)
  /\ Risk[Pair(o)] <= g.risk_ceiling
  /\ g.granted_at_turn + MaxTurns > turn

\* apply_grant_override: a grant never lifts a denial.
WithGrant(o, status) ==
  IF status # "Denied" /\ \E g \in grants : Covers(g, o) THEN "Allowed" ELSE status

\* The next validated call is judged; the policy engine may be another process.
EvaluatePolicy(o, status) ==
  LET final == WithGrant(o, status)
  IN /\ Judging /\ o \in validated /\ \A k \in validated : o <= k
     /\ validated' = validated \ {o}
     /\ verdict' = [verdict EXCEPT ![o] = [input |-> input[o], status |-> status]]
     /\ planned' = IF final = "Allowed" THEN Append(planned, o) ELSE planned
     /\ confirm' = IF final = "Confirm" THEN Append(confirm, o) ELSE confirm
     /\ results' = IF final = "Denied" THEN Append(results, Result(o, "rejected")) ELSE results
     /\ UNCHANGED <<pc, turn, calls, edit, input, executing, answered, grants,
                    cancelled, consent, asked, forever>>

\* The user is asked about one call at a time.
Answered(o) ==
  /\ confirm' = Tail(confirm)
  /\ asked' = asked \cup {o}
  /\ UNCHANGED <<pc, turn, calls, validated, edit, input, executing, answered,
                 cancelled, verdict>>

Approve ==
  LET o == Head(confirm) IN
  /\ Asking /\ Answered(o)
  /\ planned' = Append(planned, o)
  /\ consent' = [consent EXCEPT ![o] = input[o]]
  /\ UNCHANGED <<results, grants, forever>>

Deny ==
  LET o == Head(confirm) IN
  /\ Asking /\ Answered(o)
  /\ results' = Append(results, Result(o, "rejected"))
  /\ UNCHANGED <<planned, grants, consent, forever>>

AlwaysAllowForSession ==
  LET o == Head(confirm) IN
  /\ Asking /\ Answered(o)
  /\ grants' = grants \cup {[tool |-> calls[o].tool, input |-> input[o],
                             risk_ceiling |-> Risk[Pair(o)], granted_at_turn |-> turn]}
  /\ planned' = Append(planned, o)
  /\ consent' = [consent EXCEPT ![o] = input[o]]
  /\ forever' = forever \cup {Pair(o)}
  /\ UNCHANGED results

Edit(new) ==
  /\ Asking
  /\ pc' = "edit" /\ edit' = new
  /\ UNCHANGED <<turn, calls, validated, confirm, input, planned, executing, results,
                 answered, grants, cancelled, ghosts>>

\* The edited call is judged without grants, and only runs if it is allowed as it is.
EditRuns(status) == status = "Allowed"

JudgeEdit(status) ==
  LET o == Head(confirm) IN
  /\ pc = "edit"
  /\ pc' = "open" /\ edit' = NoInput
  /\ confirm' = Tail(confirm) /\ asked' = asked \cup {o}
  /\ verdict' = [verdict EXCEPT ![o] = [input |-> edit, status |-> status]]
  /\ IF EditRuns(status)
     THEN /\ planned' = Append(planned, o)
          /\ input' = [input EXCEPT ![o] = edit]
          /\ UNCHANGED results
     ELSE /\ results' = Append(results, Result(o, "rejected"))
          /\ UNCHANGED <<planned, input>>
  /\ UNCHANGED <<turn, calls, validated, executing, answered, grants, cancelled,
                 consent, forever>>

-----------------------------------------------------------------------------
(* Execution. *)

CanRunInParallel(o) == Pair(o) \notin Exclusive

\* A bug: a call that runs alone does not wait for the group before it.
GroupAtTheEnd == planned = <<>>

\* The collected group runs before the next exclusive call, or last.
GroupIsDue == planned # <<>> => ~CanRunInParallel(Head(planned))

\* ToolExecutionStarted is emitted and flushed for each call, then all begin.
Begin(os) ==
  /\ pc' = "running" /\ active' = os
  /\ exec' = [o \in Orders |->
                IF o \in os THEN [exec[o] EXCEPT !.phase = "running", !.attempts = 1]
                ELSE exec[o]]

StartGroup ==
  /\ Planning /\ parallel # {} /\ GroupIsDue
  /\ Begin(parallel)
  /\ parallel' = {}
  /\ UNCHANGED <<turn, calls, deciding, planned, results, answered, grants,
                 cancelled, ghosts>>

\* The hooks before the next planned call are awaited.
CallHooks ==
  /\ Planning /\ planned # <<>> /\ (parallel = {} \/ ~GroupIsDue)
  /\ pc' = "hooks"
  /\ UNCHANGED <<turn, calls, deciding, planned, executing, results, answered,
                 grants, cancelled, ghosts>>

AfterHooks ==
  LET o == Head(planned) IN
  /\ pc = "hooks"
  /\ planned' = Tail(planned)
  /\ IF CanRunInParallel(o)
     THEN /\ parallel' = parallel \cup {o}
          /\ pc' = "open"
          /\ UNCHANGED <<active, exec>>
     ELSE /\ Begin({o})
          /\ UNCHANGED parallel
  /\ UNCHANGED <<turn, calls, deciding, results, answered, grants, cancelled, ghosts>>

CanRetry(o, outcome) ==
  /\ outcome = "timeout"
  /\ calls[o].tool \in Retryable
  /\ exec[o].attempts <= MaxRetries

Executing(o) == pc = "running" /\ o \in active

InFlight(o) == Executing(o) /\ exec[o].phase \in {"running", "backoff"}

Moves(o, e) ==
  /\ exec' = [exec EXCEPT ![o] = e]
  /\ UNCHANGED <<pc, turn, calls, deciding, planned, parallel, active, results,
                 answered, grants, cancelled, ghosts>>

AttemptEnds(o, outcome) ==
  /\ Executing(o) /\ exec[o].phase = "running"
  /\ Moves(o, [phase |-> IF CanRetry(o, outcome) THEN "backoff" ELSE "ended",
               attempts |-> exec[o].attempts, outcome |-> outcome])

BackoffEnds(o) ==
  /\ Executing(o) /\ exec[o].phase = "backoff"
  /\ Moves(o, [exec[o] EXCEPT !.phase = "running", !.attempts = @ + 1])

\* execute_tool and the backoff race the token.
Interrupted(o) ==
  /\ InFlight(o) /\ cancelled
  /\ Moves(o, [exec[o] EXCEPT !.phase = "ended", !.outcome = "interrupted"])

AllEnded == \A o \in active : exec[o].phase = "ended"

\* join_all returns.
Collect ==
  /\ pc = "running" /\ AllEnded
  /\ results' = results \o Outcomes(active, exec)
  /\ pc' = "open" /\ active' = {}
  /\ UNCHANGED <<turn, calls, deciding, planned, parallel, exec, answered, grants,
                 cancelled, ghosts>>

-----------------------------------------------------------------------------
(* The end of the batch. *)

\* A bug: results stay in the order they were pushed.
AsPushed(rs) == rs

\* sort_by_key: where a result goes, by its order and then by the place it has.
Place(rs, k) ==
  LET before(i) == \/ rs[i].order < rs[k].order
                   \/ rs[i].order = rs[k].order /\ i <= k
  IN Cardinality({i \in DOMAIN rs : before(i)})
Sorted(rs) == [n \in DOMAIN rs |-> rs[CHOOSE k \in DOMAIN rs : Place(rs, k) = n]]

\* The batch returns its results.
ReturnResults ==
  /\ Planning /\ planned = <<>> /\ parallel = {}
  /\ results' = Sorted(results)
  /\ pc' = "answering"
  /\ UNCHANGED <<turn, calls, deciding, planned, executing, answered, grants,
                 cancelled, ghosts>>

IsLast(n) == n = Len(results)

\* The hooks after a call are awaited, then its result joins the session.
AnswerCall ==
  /\ pc = "answering"
  /\ answered' = answered + 1
  /\ pc' = IF IsLast(answered + 1) THEN "idle" ELSE "answering"
  /\ UNCHANGED <<turn, calls, deciding, planned, executing, results, grants,
                 cancelled, ghosts>>

\* A bug: nobody races the approval with the token.
AwaitsButApproval == Judging \/ pc \in {"edit", "hooks", "running", "answering"}

\* What is awaited together with the token.
Awaits == Judging \/ Asking \/ pc \in {"edit", "hooks", "running", "answering"}

\* The run returns an error; what executes is dropped where it is.
Abort ==
  /\ pc' = "aborted"
  /\ exec' = [o \in Orders |-> IF InFlight(o) THEN [exec[o] EXCEPT !.phase = "dropped"] ELSE exec[o]]
  /\ UNCHANGED <<turn, calls, deciding, planned, parallel, active, results, answered,
                 grants, cancelled, ghosts>>

ReturnCancelled == cancelled /\ Awaits /\ Abort

\* The policy engine, the approver or a write of an event fails.
ReturnError == pc \notin {"idle", "aborted"} /\ Abort

CancelToken ==
  /\ ~cancelled
  /\ cancelled' = TRUE
  /\ UNCHANGED <<pc, turn, calls, deciding, planned, executing, results, answered,
                 grants, ghosts>>

Batches ==
  UNION {{cs \in [1..n -> ToolCall] : \A o \in 1..n : cs[o].id <= o} : n \in 1..MaxCalls}

\* Steps that wait for nobody.
LocalStep == StartGroup \/ CallHooks \/ Collect \/ ReturnResults

BatchNext ==
  \/ \E cs \in Batches : StartBatch(cs)
  \/ \E status \in PolicyStatus : \/ \E o \in Orders : EvaluatePolicy(o, status)
                                  \/ JudgeEdit(status)
  \/ Approve \/ Deny \/ AlwaysAllowForSession
  \/ \E new \in Inputs : Edit(new)
  \/ AfterHooks
  \/ \E o \in Orders : \/ \E outcome \in AttemptOutcome : AttemptEnds(o, outcome)
                       \/ BackoffEnds(o) \/ Interrupted(o)
  \/ LocalStep
  \/ AnswerCall \/ ReturnCancelled \/ ReturnError \/ CancelToken

BatchSpec == BatchInit /\ [][BatchNext]_batchVars

-----------------------------------------------------------------------------
(* Properties. *)

Calls == DOMAIN calls
Ran(o) == exec[o].attempts > 0

\* Whatever runs was judged with the very input it runs with, and either the
\* policy allows it, or the user approved that input of this call, or always
\* allowed that input of the tool; no grant and no edit gets around the policy.
NothingRunsUnauthorised ==
  \A o \in Calls : Ran(o) =>
    /\ verdict[o].input = input[o]
    /\ \/ verdict[o].status = "Allowed"
       \/ verdict[o].status = "Confirm" /\ (consent[o] = input[o] \/ Pair(o) \in forever)

\* The side effects of a call id happen once: one call of the id runs, and only
\* an idempotent read-only tool is tried again, as often as its policy says.
SideEffectsOnce ==
  \A o \in Calls : Ran(o) =>
    /\ \A k \in Calls : calls[k].id = calls[o].id /\ Ran(k) => k = o
    /\ exec[o].attempts = 1 \/ (calls[o].tool \in Retryable /\ exec[o].attempts <= MaxRetries + 1)

\* While a call that cannot run in parallel executes, no other call does.
RunsAlone ==
  \A o, k \in Calls :
    /\ exec[o].phase \in {"running", "backoff"} /\ Pair(o) \in Exclusive
    /\ exec[k].phase \in {"running", "backoff"}
    => o = k

\* Calls the user is not asked about go first, each class as it was proposed.
Precedes(i, j) ==
  \/ i \notin asked /\ j \in asked
  \/ (i \in asked <=> j \in asked) /\ i < j

\* Unless both can run in parallel, a call is over before a later one begins.
RunsInOrder ==
  \A i, j \in Calls :
    /\ Ran(j) /\ Precedes(i, j) /\ {Pair(i), Pair(j)} \cap Exclusive # {}
    => \E k \in DOMAIN results : results[k].order = i

\* The effects of a batch come once, and in the order its calls are planned in, whatever
\* runs in parallel and is tried again (execute_tool_batch, the groups).
EffectsInOrder == SideEffectsOnce /\ RunsAlone /\ RunsInOrder

\* A batch that returns has one result per call, in the order of the calls, and
\* says rejected of exactly the calls that did not run.
EveryCallAnswered ==
  pc = "answering" =>
    /\ Len(results) = Len(calls)
    /\ \A k \in DOMAIN results :
         /\ results[k].order = k
         /\ (results[k].outcome = "rejected") = ~Ran(k)

\* A cancelled batch ends, whatever the policy, the user, hooks and tools do.
CancelEndsBatch == cancelled /\ pc # "idle" ~> pc \in {"idle", "aborted"}
=============================================================================
