-------------------------- MODULE ContextManagement --------------------------
(***************************************************************************)
(* `RuntimeContextPipeline::prepare_context`                               *)
(* (crates/gestalt-runtime/src/context, gestalt-runtime/src/compaction.rs): *)
(* before every request the canonical history is projected: the active     *)
(* checkpoint stands for the messages it summarises, tombstones for tool   *)
(* results that were cleared, and when the request does not fit, more      *)
(* results are cleared and then the oldest messages are compacted.         *)
(* Tokens are counted in units; a tombstone takes one.                     *)
(***************************************************************************)
EXTENDS Integers, Sequences, SequencesExt, FiniteSets, FiniteSetsExt, Functions

CONSTANTS
  UsableLimit,       \* model_limit - reserved_output - buffer_tokens
  ToolResultBudget,  \* tool_result_budget_ratio of it
  CompactionTarget,  \* compaction_target_ratio of it
  NextTurnGrowth,    \* projected_next_turn_growth
  KeepRecentTurns, KeepRecentTokens,
  ResultSizes,       \* sizes of tool results
  MaxMessages        \* bound: length of the history

ASSUME ContextAssumption ==
  /\ UsableLimit \in Nat \ {0} /\ ToolResultBudget \in Nat /\ CompactionTarget \in Nat
  /\ NextTurnGrowth \in Nat /\ KeepRecentTurns \in Nat /\ KeepRecentTokens \in Nat
  /\ ResultSizes \subseteq Nat \ {0} /\ MaxMessages \in Nat

VARIABLES
  managed,    \* policy.enabled, and the limit leaves room
  durability, \* "Required", "BestEffort", "Disabled", or "nowhere": no artifacts directory
  chat,       \* the canonical history
  activeCheckpoint, \* active_checkpoint and its summary, a sequence of at most one
  clearedIds, \* cleared_tool_results: indices of results
  packet,     \* the projection in the request that is out
  phase       \* "prompt", "prepare", "reply"

contextVars == <<managed, durability, chat, activeCheckpoint, clearedIds, packet, phase>>

-----------------------------------------------------------------------------
\* Messages.  `owner` of a result is the assistant message it answers; `calls`
\* of an assistant message is how many tool calls it makes.

User(size) == [role |-> "user", size |-> size, calls |-> 0, owner |-> 0, clearable |-> FALSE]
Assistant(calls) ==
  [role |-> "assistant", size |-> 1, calls |-> calls, owner |-> 0, clearable |-> FALSE]
ResultItem(owner, size, clearable) ==
  [role |-> "result", size |-> size, calls |-> 0, owner |-> owner, clearable |-> clearable]

\* Items of a projection: a message, its tombstone, or a checkpoint.
Canonical(i) == [kind |-> "canonical", from |-> i, upto |-> i, size |-> chat[i].size]
Tombstone(i) == [kind |-> "tombstone", from |-> i, upto |-> i, size |-> 1]
CheckpointItem(c) == [kind |-> "checkpoint", from |-> 1, upto |-> c.upto, size |-> c.size]

IsMessage(item) == item.kind # "checkpoint"
RoleOf(item) == IF IsMessage(item) THEN chat[item.from].role ELSE "system"
TokensFrom(items, first, last) ==
  SumFunctionOnSet([p \in DOMAIN items |-> items[p].size], first..last)
TokensOf(items) == TokensFrom(items, 1, Len(items))
Least(a, b) == IF a <= b THEN a ELSE b

-----------------------------------------------------------------------------
\* group_tool_exchanges

ResultsOf(items, a) ==
  {p \in DOMAIN items : RoleOf(items[p]) = "result" /\ chat[items[p].from].owner = items[a].from}
Callers(items) ==
  {a \in DOMAIN items : RoleOf(items[a]) = "assistant" /\ chat[items[a].from].calls > 0}
IsComplete(items, a) == Cardinality(ResultsOf(items, a)) = chat[items[a].from].calls

-----------------------------------------------------------------------------
\* find_recent_protected_start: the last turns and the last tokens.

RecentWindowStart(items) ==
  LET users == {p \in DOMAIN items : RoleOf(items[p]) = "user"}
  IN IF KeepRecentTurns = 0 THEN Len(items) + 1
     ELSE IF Cardinality(users) < KeepRecentTurns THEN 1
     ELSE CHOOSE p \in users : Cardinality({q \in users : q >= p}) = KeepRecentTurns

TailStart(items) ==
  Min({Len(items) + 1} \cup
      {p \in DOMAIN items : TokensFrom(items, p, Len(items)) <= KeepRecentTokens})

RecentProtectedStart(items) == Least(RecentWindowStart(items), TailStart(items))

-----------------------------------------------------------------------------
\* clear_eligible_tool_results: the oldest first, until the budget is met.

ToolTokens(items) ==
  SumFunctionOnSet([p \in DOMAIN items |-> items[p].size],
                   {p \in DOMAIN items : RoleOf(items[p]) = "result"})

Clearable(items) ==
  UNION {{p \in ResultsOf(items, a) : chat[items[p].from].clearable /\ items[p].size > 1} :
         a \in {b \in Callers(items) :
                  /\ IsComplete(items, b)
                  /\ \A p \in ResultsOf(items, b) \cup {b} : p < RecentProtectedStart(items)}}

ToClear(items) ==
  LET saved(S) == SumFunctionOnSet([p \in DOMAIN items |-> items[p].size - 1], S)
      need == ToolTokens(items) - ToolResultBudget
  IN {p \in Clearable(items) : saved({q \in Clearable(items) : q < p}) < need}

Cleared(items, S) ==
  [p \in DOMAIN items |-> IF p \in S THEN Tombstone(items[p].from) ELSE items[p]]

-----------------------------------------------------------------------------
\* plan_compaction_range: from the checkpoint, as far as the recent window and
\* the compactor's input allow, and never between a call and its results.

\* A range that may end anywhere.
SplitsNothing(items, first, end) == TRUE

KeepsExchanges(items, first, end) ==
  \A a \in Callers(items) :
    a \in first..(end - 1) =>
      IsComplete(items, a) /\ \A p \in ResultsOf(items, a) : p < end

CompactionStart(items) ==
  LET found == {p \in DOMAIN items : items[p].kind = "checkpoint"}
  IN IF found = {} THEN 1 ELSE Min(found)

\* The end of the range is the first position that stays; none is the start itself.
CompactionEnd(items) ==
  LET first == CompactionStart(items)
      fits == {e \in first..Least(RecentProtectedStart(items), Len(items) + 1) :
                 TokensFrom(items, first, e - 1) <= UsableLimit}
  IN IF fits = {} THEN first
     ELSE Max({first} \cup {e \in fits : KeepsExchanges(items, first, e)})

CanCompact(items) ==
  LET first == CompactionStart(items)
      end == CompactionEnd(items)
  IN /\ end > first
     /\ TokensFrom(items, first, end - 1) >= TokensOf(items) - CompactionTarget

-----------------------------------------------------------------------------
\* build_projected_history and load_checkpoint

\* A checkpoint that was never stored is looked for all the same.
LoadFails == durability # "nowhere" /\ activeCheckpoint # <<>> /\ ~activeCheckpoint[1].stored
Applied == IF durability = "nowhere" THEN <<>> ELSE activeCheckpoint

Projected ==
  LET covered == IF Applied = <<>> THEN 0 ELSE Applied[1].upto
      item(i) == IF i \in clearedIds THEN Tombstone(i) ELSE Canonical(i)
  IN (IF Applied = <<>> THEN <<>> ELSE <<CheckpointItem(Applied[1])>>)
       \o [k \in 1..(Len(chat) - covered) |-> item(covered + k)]

\* plan_context: without management the oldest messages that do not fit are left out.
Truncated(items) ==
  LET starts == {p \in 1..(Len(items) + 1) : TokensFrom(items, p, Len(items)) <= UsableLimit}
  IN SubSeq(items, Min(starts), Len(items))

\* run_compactor and the checkpoint made of its answer: the messages of the range
\* and the checkpoint that was loaded are what it summarises.
HeardOf(items, end) ==
  UNION {items[p].from..items[p].upto :
           p \in {q \in CompactionStart(items)..(end - 1) : IsMessage(items[q])}}

Summary(items, end, size, stored) ==
  [upto |-> items[end - 1].upto, size |-> size, stored |-> stored,
   heard |-> HeardOf(items, end) \cup (IF Applied = <<>> THEN {} ELSE Applied[1].heard)]

\* validate_checkpoint: a summary is smaller than what it stands for.
SourceTokens(upto) == SumFunctionOnSet([i \in DOMAIN chat |-> chat[i].size], 1..upto)

-----------------------------------------------------------------------------

ContextInit ==
  /\ managed \in BOOLEAN
  /\ durability \in {"Required", "BestEffort", "Disabled", "nowhere"}
  /\ chat = <<>> /\ activeCheckpoint = <<>> /\ clearedIds = {} /\ packet = <<>>
  /\ phase = "prompt"

\* A message of the user: a new run, or steering between two turns.
AddUser ==
  /\ phase = "prompt" /\ Len(chat) < MaxMessages
  /\ chat' = Append(chat, User(2))
  /\ phase' = "prepare"
  /\ UNCHANGED <<managed, durability, activeCheckpoint, clearedIds, packet>>

\* The provider answers with text and the run is over,
AddText ==
  /\ phase = "reply" /\ Len(chat) < MaxMessages
  /\ chat' = Append(chat, Assistant(0))
  /\ phase' = "prompt"
  /\ packet' = <<>>
  /\ UNCHANGED <<managed, durability, activeCheckpoint, clearedIds>>

\* or it calls tools, whose results go into the next request,
AddExchange ==
  /\ phase = "reply"
  /\ \E calls \in 1..2, clearable \in BOOLEAN : \E sizes \in [1..calls -> ResultSizes] :
       /\ Len(chat) + 1 + calls <= MaxMessages
       /\ chat' = Append(chat, Assistant(calls))
                    \o [k \in 1..calls |-> ResultItem(Len(chat) + 1, sizes[k], clearable)]
  /\ phase' = "prepare"
  /\ packet' = <<>>
  /\ UNCHANGED <<managed, durability, activeCheckpoint, clearedIds>>

\* or a cancel takes the results away: the call stays in the history unanswered.
CutExchange ==
  /\ phase = "reply" /\ Len(chat) < MaxMessages
  /\ chat' = Append(chat, Assistant(1))
  /\ phase' = "prompt"
  /\ packet' = <<>>
  /\ UNCHANGED <<managed, durability, activeCheckpoint, clearedIds>>

\* calculate_continuation_state: another model starts from the whole history.
ChangeModel ==
  /\ phase = "prompt" /\ (activeCheckpoint # <<>> \/ clearedIds # {})
  /\ activeCheckpoint' = <<>> /\ clearedIds' = {}
  /\ UNCHANGED <<managed, durability, chat, packet, phase>>

\* prepare_context fails: the run ends, the projection state is what it was.
Fails ==
  /\ phase' = "prompt"
  /\ UNCHANGED <<managed, durability, chat, activeCheckpoint, clearedIds, packet>>

Sends(items, checkpoint, cleared) ==
  /\ packet' = items /\ activeCheckpoint' = checkpoint /\ clearedIds' = cleared
  /\ phase' = "reply"
  /\ UNCHANGED <<managed, durability, chat>>

LoadCheckpointFails == phase = "prepare" /\ LoadFails /\ Fails

\* The manifest or the packet report cannot be written.
PersistenceFails == phase = "prepare" /\ ~LoadFails /\ durability = "Required" /\ Fails

SendBounded ==
  /\ phase = "prepare" /\ ~LoadFails /\ ~managed
  /\ Sends(Truncated(Projected), Applied, clearedIds)

SendWhole ==
  /\ phase = "prepare" /\ ~LoadFails /\ managed
  /\ TokensOf(Projected) + NextTurnGrowth <= UsableLimit
  /\ Sends(Projected, Applied, clearedIds)

\* Too much: more results are cleared, and what is left is compacted if it is still too much.
Pressed ==
  /\ phase = "prepare" /\ ~LoadFails /\ managed
  /\ TokensOf(Projected) + NextTurnGrowth > UsableLimit
AfterClearing == Cleared(Projected, ToClear(Projected))
ClearedNow == clearedIds \cup {Projected[p].from : p \in ToClear(Projected)}

SendCleared ==
  /\ Pressed /\ TokensOf(AfterClearing) <= UsableLimit
  /\ Sends(AfterClearing, Applied, ClearedNow)

Exhausted ==
  /\ Pressed /\ TokensOf(AfterClearing) > UsableLimit /\ ~CanCompact(AfterClearing)
  /\ Fails

Compacts == Pressed /\ TokensOf(AfterClearing) > UsableLimit /\ CanCompact(AfterClearing)

\* The compactor gives no answer, or none that is a checkpoint.
CompactorFails == Compacts /\ Fails

Compact ==
  /\ Compacts
  /\ \E size \in 1..3, written \in BOOLEAN :
       LET items == AfterClearing
           end == CompactionEnd(items)
           stored == written /\ durability \in {"Required", "BestEffort"}
           summary == Summary(items, end, size, stored)
           compacted == <<CheckpointItem(summary)>> \o SubSeq(items, end, Len(items))
       IN IF \/ TokensOf(compacted) > UsableLimit
             \/ size >= SourceTokens(summary.upto)
             \/ durability = "Required" /\ ~written
            THEN Fails
            ELSE Sends(compacted, <<summary>>, ClearedNow)

ContextNext ==
  \/ AddUser \/ AddText \/ AddExchange \/ CutExchange \/ ChangeModel
  \/ LoadCheckpointFails \/ PersistenceFails \/ SendBounded \/ SendWhole \/ SendCleared
  \/ Exhausted \/ CompactorFails \/ Compact

ContextSpec == ContextInit /\ [][ContextNext]_contextVars

-----------------------------------------------------------------------------

\* A request under context management tells the provider the whole conversation: every
\* message is in it, as itself or as its tombstone, or is in what the checkpoint heard, and
\* none is in both; no tool result is there without its call, no answered call without its
\* results, and the last turns the policy keeps are there word for word.
PacketFaithful ==
  phase = "reply" /\ managed =>
    LET shown == {packet[p].from : p \in {q \in DOMAIN packet : IsMessage(packet[q])}}
        heard == IF activeCheckpoint = <<>> THEN {} ELSE activeCheckpoint[1].heard
        summarised == {p \in DOMAIN packet : ~IsMessage(packet[p])}
        users == {i \in DOMAIN chat : chat[i].role = "user"}
    IN /\ shown \cap heard = {}
       /\ shown \cup (IF summarised = {} THEN {} ELSE heard) = DOMAIN chat
       /\ \A i \in DOMAIN chat : chat[i].role = "result" =>
            (i \in shown <=> chat[i].owner \in shown)
       /\ \A p \in DOMAIN packet :
            /\ packet[p].from \in users
            /\ Cardinality({u \in users : u > packet[p].from}) < KeepRecentTurns
            => \A q \in p..Len(packet) : packet[q].kind = "canonical"
=============================================================================
