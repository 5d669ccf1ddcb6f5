---------------------------- MODULE PromptAssembly ----------------------------
(***************************************************************************)
(* From a history to the request of a turn: what hooks and contributors    *)
(* add (crates/gestalt-runtime/src/composition_hooks.rs), the plan under a *)
(* budget, the packet and its stable prefix (context/mod.rs and            *)
(* assembler.rs), the report that is kept of it (context/report.rs), and   *)
(* what the body of each wire format says of it (providers/anthropic.rs,   *)
(* openai/chat_completions.rs, openai/responses.rs).  A block costs one    *)
(* unit.                                                                   *)
(***************************************************************************)
EXTENDS Naturals, Sequences, FiniteSets, SequencesExt

CONSTANTS
  Contributors,     \* with a stability that is SessionStatic or ActivationStatic
  UserBlocks, ReplyBlocks,  \* contents of user and assistant messages: sequences of blocks
  Budgets,          \* what is available for a plan
  NoticeReserve,    \* kept free for the notice
  MaxCaptured,      \* MAX_CAPTURED_CONTRIBUTIONS_BYTES
  NoPrefix,
  MaxTurns

ASSUME PromptAssumption ==
  /\ Budgets \subseteq Nat /\ NoticeReserve \in Nat /\ MaxCaptured \in Nat /\ MaxTurns \in Nat

VARIABLES
  prompting,   \* [strategy, capture]: prompt_assembly_strategy and the capture mode
  dialogue,    \* the canonical history of the session
  summary,     \* how many messages the active checkpoint stands for
  activation,  \* which skills are active: the text of a contributor follows it
  patches,     \* the patch_store of the run
  lastPrefix,  \* prompt_snapshot_state
  turn         \* [no, at, packet, snapshot, report] of the turn that is built

promptVars == <<prompting, dialogue, summary, activation, patches, lastPrefix, turn>>

-----------------------------------------------------------------------------
(* Messages.  `of` tells where one comes from: the n-th of the history, the *)
(* checkpoint, the assembler, a contributor, a hook, the notice.            *)

SystemMessage(of) == [role |-> "system", of |-> of, blocks |-> <<"text">>]

Base == <<SystemMessage(<<"prompt", 0>>), SystemMessage(<<"workspace", 0>>)>>
Notice == SystemMessage(<<"notice", 0>>)
CheckpointOf(n) == SystemMessage(<<"checkpoint", n>>)

\* The history as it is projected for a request.
Projected ==
  (IF summary = 0 THEN <<>> ELSE <<CheckpointOf(summary)>>)
    \o SubSeq(dialogue, summary + 1, Len(dialogue))

\* render_message: what is not trusted is wrapped, and cannot end its wrapping.
Rendered(m) ==
  [m EXCEPT !.blocks = [i \in DOMAIN @ |->
     IF @[i] \in {"untrusted", "output"} THEN "wrapped" ELSE @[i]]]

Cost(ms) == FoldLeft(LAMBDA sum, m : sum + Len(m.blocks), 0, ms)

-----------------------------------------------------------------------------
(* The plan: the last messages that fit. *)

plan_context(history, available) ==
  LET room == IF available > Cost(Base) + NoticeReserve
              THEN available - Cost(Base) - NoticeReserve ELSE 0
      fits == {k \in 0..Len(history) : Cost(SubSeq(history, Len(history) - k + 1, Len(history))) <= room}
      kept == CHOOSE k \in fits : \A j \in fits : j <= k
  IN [history |-> SubSeq(history, Len(history) - kept + 1, Len(history)),
      omissions |-> SubSeq(history, 1, Len(history) - kept),
      exhausted |-> available = 0 \/ kept < Len(history)]

-----------------------------------------------------------------------------
(* The packet. *)

\* A bug: the checkpoint, which every compaction replaces, counts as stable.
SystemPrefix(messages) ==
  CHOOSE n \in 0..Len(messages) :
    /\ \A i \in 1..n : messages[i].role = "system" /\ messages[i] # Notice
    /\ n = Len(messages) \/ messages[n + 1].role # "system" \/ messages[n + 1] = Notice

StablePrefix(messages) ==
  LET ends(i) == messages[i].role # "system" \/ messages[i].of[1] \in {"notice", "checkpoint"}
  IN CHOOSE n \in 0..Len(messages) :
       (\A i \in 1..n : ~ends(i)) /\ (n = Len(messages) \/ ends(n + 1))

\* compose_messages_with_prefix: stable patches after the stable prefix, then the others.
Composed(messages, added) ==
  LET n == StablePrefix(messages)
      stable == SelectSeq(added, LAMBDA p : p.stable)
      unstable == SelectSeq(added, LAMBDA p : ~p.stable)
      texts(ps) == [i \in DOMAIN ps |-> ps[i].message]
  IN [messages |-> SubSeq(messages, 1, n) \o texts(stable) \o texts(unstable)
                     \o SubSeq(messages, n + 1, Len(messages)),
      prefix |-> n + Len(stable)]

\* assemble and rebuild_packet
Packet(plan, added) ==
  LET rendered == [i \in DOMAIN plan.history |-> Rendered(plan.history[i])]
      composed == Composed(Base \o rendered \o (IF plan.exhausted THEN <<Notice>> ELSE <<>>), added)
      all == plan.omissions \o plan.history
      trust(m) == IF m.role = "result" \/ "untrusted" \in ToSet(m.blocks) THEN "untrusted" ELSE "trusted"
      contributed == {added[i].message.of[1] : i \in {j \in DOMAIN added : added[j].stable}}
  IN [messages |-> composed.messages,
      prefix |-> IF prompting.strategy = "Snapshot" THEN composed.prefix ELSE 0,
      sources |-> {[label |-> <<"history", i>>, included |-> i > Len(plan.omissions),
                     trust |-> trust(all[i])] : i \in DOMAIN all}
                    \cup {[label |-> <<c, 0>>, included |-> TRUE, trust |-> "trusted"] : c \in contributed}]

PrefixOf(p) == SubSeq(p.messages, 1, p.prefix)

\* ContextBuildReportV1::build: what is captured of the contributions, unless it is too much.
Captures(added) ==
  IF prompting.capture = "disabled" THEN {}
  ELSE {[of |-> added[i].message.of, content |-> IF prompting.capture = "full" THEN added[i].message.blocks ELSE <<>>] :
        i \in {j \in DOMAIN added : added[j].stable}}
Reportable(added) ==
  prompting.capture = "disabled" \/ Cardinality({i \in DOMAIN added : added[i].stable}) <= MaxCaptured

-----------------------------------------------------------------------------
(* What a body says of a packet: texts that are instructions, and items of *)
(* the conversation.                                                       *)

\* The blocks of a message that a format has a form for.
SaidBlocks(wire, m) ==
  SelectSeq(m.blocks, LAMBDA b : wire = "anthropic" \/ b # "document")

Items(role, wire, m) ==
  LET bs == SaidBlocks(wire, m) IN [i \in DOMAIN bs |-> [role |-> role, of |-> m.of, block |-> bs[i]]]

\* convert_responses_messages: the calls of a message, then its other blocks.
CallsFirst(items) == SelectSeq(items, LAMBDA y : y.block = "call")
                       \o SelectSeq(items, LAMBDA x : x.block # "call")

\* Under a cache plan the prefix are the system blocks, with a mark on the last, and a
\* system message after it is said as the user's.
Body(wire, p) ==
  LET cached == wire = "anthropic" /\ prompting.strategy = "Snapshot"
      system(i) == IF cached THEN i <= p.prefix
                   ELSE wire # "chat" /\ p.messages[i].role = "system"
      said(i) == LET m == p.messages[i] IN
        IF \/ m.role = "system" /\ cached
           \/ m.role = "result" /\ wire = "anthropic" THEN Items("user", wire, m)
        ELSE IF wire = "responses" THEN CallsFirst(Items(m.role, wire, m))
        ELSE Items(m.role, wire, m)
      indices(S(_)) == SelectSeq([i \in DOMAIN p.messages |-> i], S)
      instructions == indices(LAMBDA i : system(i))
      others == indices(LAMBDA i : ~system(i))
  IN [instructions |-> [i \in DOMAIN instructions |-> p.messages[instructions[i]].of],
      mark |-> IF cached THEN p.prefix ELSE 0,
      items |-> FlattenSeq([i \in DOMAIN others |-> said(others[i])])]

WireFormats == {"anthropic", "chat", "responses"}

-----------------------------------------------------------------------------
(* The turns of a run. *)

NewTurn(n) == [no |-> n, at |-> "waits", packet |-> NoPrefix, snapshot |-> "none", report |-> {}]

PromptInit ==
  /\ prompting \in [strategy : {"Dynamic", "Snapshot"}, capture : {"disabled", "full"}]
  /\ dialogue = <<>> /\ summary = 0 /\ activation = 1 /\ patches = <<>>
  /\ lastPrefix = NoPrefix /\ turn = NewTurn(0)

\* What the hooks of a run answer, those of the embedder and of lifecycle components together:
\* context, a block, or nothing, as when a component fails.
HookOutcome == {"nothing", "adds", "blocks"}

Appended(role, blocks) == [role |-> role, of |-> <<"history", Len(dialogue) + 1>>, blocks |-> blocks]

HookPatch(when) ==
  [stable |-> FALSE, at |-> <<when, turn.no>>, message |-> SystemMessage(<<when, turn.no>>)]
Contribution(c) ==
  [stable |-> TRUE, at |-> <<"before", turn.no>>, message |-> SystemMessage(<<c, activation>>)]

\* run_session begins: its patch store is new, the snapshot that of the run it
\* goes on from, if the cache key of that is the same, or none.
RunBegins(blocks) ==
  /\ turn.at \in {"waits", "over"} /\ turn.no < MaxTurns
  /\ dialogue' = Append(dialogue, Appended("user", blocks))
  /\ patches' = <<>>
  /\ turn' = [NewTurn(turn.no + 1) EXCEPT !.at = "hooks"]
  /\ lastPrefix' \in {lastPrefix, NoPrefix}
  /\ UNCHANGED <<prompting, summary, activation>>

\* RuntimeContextHookAdapter::before_context_build: the skills for the task, the hook, and
\* the contributors in their order, less those that fail.
BeforeContextBuild(v, hook, failing) ==
  /\ turn.at = "hooks"
  /\ activation' = v
  /\ LET well == SelectSeq(SetToSeq(Contributors), LAMBDA c : c \notin failing)
     IN patches' = patches \o (IF hook = "adds" THEN <<HookPatch("before")>> ELSE <<>>)
          \o [i \in DOMAIN well |-> [Contribution(well[i]) EXCEPT !.message.of[2] = v]]
  /\ turn' = [turn EXCEPT !.at = IF hook = "blocks" THEN "over" ELSE "prepare"]
  /\ UNCHANGED <<prompting, dialogue, summary, lastPrefix>>

\* A compaction, if there is one, and the packet.  The request of a managed context is
\* never cut; that of an unmanaged one is.
PrepareContext(available) ==
  /\ turn.at = "prepare"
  /\ LET plan == plan_context(Projected, available) IN
     turn' = IF Reportable(patches)
             THEN [turn EXCEPT !.at = "built", !.packet = Packet(plan, patches),
                               !.report = Captures(patches)]
             ELSE [turn EXCEPT !.at = "over"]
  /\ UNCHANGED <<prompting, dialogue, summary, activation, patches, lastPrefix>>

Compact(n) ==
  /\ turn.at = "prepare" /\ n \in (summary + 1)..(Len(dialogue) - 1)
  /\ dialogue[n + 1].role = "user"
  /\ summary' = n
  /\ UNCHANGED <<prompting, dialogue, activation, patches, lastPrefix, turn>>

\* after_context_build: the patches are spent; what the hook adds now is for the next turn.
AfterContextBuild(hook) ==
  /\ turn.at = "built"
  /\ patches' = IF hook = "adds" THEN <<HookPatch("after")>> ELSE <<>>
  /\ LET prefix == PrefixOf(turn.packet) IN
     IF prompting.strategy = "Snapshot"
     THEN /\ lastPrefix' = prefix
          /\ turn' = [turn EXCEPT !.at = IF hook = "blocks" THEN "over" ELSE "asked",
                        !.snapshot = IF lastPrefix = prefix THEN "reused" ELSE "created"]
     ELSE /\ turn' = [turn EXCEPT !.at = IF hook = "blocks" THEN "over" ELSE "asked"]
          /\ UNCHANGED lastPrefix
  /\ UNCHANGED <<prompting, dialogue, summary, activation>>

\* The reply, with the results of its calls; a reply without calls ends the run.
Replies(blocks) ==
  /\ turn.at = "asked" /\ turn.no < MaxTurns
  /\ LET calls == SelectSeq(blocks, LAMBDA b : b = "call")
         reply == Appended("assistant", blocks)
         results == [i \in DOMAIN calls |-> [role |-> "result", of |-> <<"history", Len(dialogue) + 1 + i>>, blocks |-> <<"output">>]]
     IN /\ dialogue' = Append(dialogue, reply) \o results
        /\ turn' = IF calls = <<>> THEN [turn EXCEPT !.at = "over"]
                   ELSE [NewTurn(turn.no + 1) EXCEPT !.at = "hooks"]
  /\ UNCHANGED <<prompting, summary, activation, patches, lastPrefix>>

PromptNext ==
  \/ \E blocks \in UserBlocks : RunBegins(blocks)
  \/ \E v \in {activation, 3 - activation}, hook \in HookOutcome,
        failing \in SUBSET Contributors : BeforeContextBuild(v, hook, failing)
  \/ \E available \in Budgets : PrepareContext(available)
  \/ \E n \in DOMAIN dialogue : Compact(n)
  \/ \E hook \in HookOutcome : AfterContextBuild(hook)
  \/ \E blocks \in ReplyBlocks : Replies(blocks)

PromptSpec == PromptInit /\ [][PromptNext]_promptVars

-----------------------------------------------------------------------------
(* Properties. *)

Times(bs, b) == Len(SelectSeq(bs, LAMBDA y : y = b))
PlacesIn(p, of) == {i \in DOMAIN p.messages : p.messages[i].of = of}

\* A body says every message of the packet once and in their order, in instructions or
\* items, less the documents that the OpenAI formats have no form for, and never a result
\* before its call.
SaysThePacket(wire, p) ==
  LET body == Body(wire, p)
      blocksOf(m) == SelectSeq(body.items, LAMBDA y : y.of = m.of)
      place(of) == CHOOSE i \in PlacesIn(p, of) : TRUE
  IN /\ \A i \in DOMAIN p.messages : LET m == p.messages[i] IN
          IF m.of \in ToSet(body.instructions) THEN blocksOf(m) = <<>>
          ELSE \A b \in ToSet(m.blocks) :
                 Cardinality({k \in DOMAIN blocksOf(m) : blocksOf(m)[k].block = b}) =
                   Times(SaidBlocks(wire, m), b)
     /\ \A k \in 2..Len(body.items) : place(body.items[k - 1].of) <= place(body.items[k].of)
     /\ \A k \in DOMAIN body.items : LET before == SubSeq(body.items, 1, k) IN
          (\A s \in p.sources : s.included) =>
            Len(SelectSeq(before, LAMBDA y : y.block = "wrapped" /\ dialogue[y.of[2]].role = "result"))
              <= Len(SelectSeq(before, LAMBDA y : y.block = "call"))

\* What a provider is asked on: the newest part of the history, in order and once, with the
\* notice if something is missing, and a source for every message, in or left out; what the
\* hooks and contributors add for this turn, once, and nothing they added for an earlier
\* one; nothing that is not trusted outside of its wrapping.  The prefix that is cached and
\* compared with the next turn's is the prompt and what is stable, whatever is compacted,
\* cut or added by hooks.  And every format says all of it.
RequestFaithful ==
  turn.at = "built" =>
    LET p == turn.packet
        said == SelectSeq(p.messages, LAMBDA m : m.of[1] \in {"history", "checkpoint"})
        whole == [i \in DOMAIN Projected |-> Rendered(Projected[i])]
    IN /\ said = SubSeq(whole, Len(whole) - Len(said) + 1, Len(whole))
       /\ PlacesIn(p, Notice.of) # {} \/ said = whole
       /\ \A i \in DOMAIN whole : \E s \in p.sources :
            s.label = <<"history", i>> /\ s.included = (i > Len(whole) - Len(said))
       /\ \A i \in DOMAIN p.messages : LET m == p.messages[i] IN
            /\ PlacesIn(p, m.of) = {i}
            /\ m.of[1] = "before" => m.of[2] = turn.no
            /\ m.of[1] = "after" => m.of[2] = turn.no - 1
            /\ m.of[1] \in Contributors => m.of[2] = activation /\ (p.prefix > 0 => i <= p.prefix)
            /\ {"untrusted", "output"} \cap ToSet(m.blocks) = {}
       /\ \A i \in 1..p.prefix : p.messages[i].of[1] \in {"prompt", "workspace"} \cup Contributors
       /\ {c.of : c \in turn.report} \subseteq {m.of : m \in ToSet(p.messages)}
       /\ \A wire \in WireFormats : SaysThePacket(wire, p)
=============================================================================
