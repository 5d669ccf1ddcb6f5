----------------------------- MODULE TurnProofs -----------------------------
(***************************************************************************)
(* Proofs about what a turn relies on: ToolPolicy, for every set of runs,  *)
(* skills, guards and tools, in every session mode; TraceResume, for every *)
(* set of calls, any number of turns and every crash; FilePatch, for every *)
(* document, set of files and failure; and ContextManagement, for every    *)
(* conversation and every policy of clearing and compaction.               *)
(***************************************************************************)
EXTENDS ToolPolicy, TraceResume, FilePatch, ContextManagement, TLAPS,
        FiniteSetTheorems, WellFoundedInduction

-----------------------------------------------------------------------------
(* ToolPolicy: the inductive invariant. *)

\* A skill whose body may become unreadable restricts nothing: Contribute would take its
\* restriction away from the turns of the other runs.
VanishingIsFree == \A s \in Vanishing : AllowedTools[s] \in {Unrestricted, AllowTokens}

\* policies.toml does not allow every command.
BashIsJudged == BashDefault # "Allow"

TurnSteps == {"top", "contribute", "plan", "answer", "ask", "over"}
Call == [actor : Actors, tool : CatalogTools, prompt : SUBSET Skills, asked : BOOLEAN,
         objected : BOOLEAN]
Turn == [at : TurnSteps, turns : Nat, prompt : SUBSET Skills, offered : SUBSET CatalogTools,
         called : SUBSET CatalogTools, held : SUBSET Call]

TypeInv ==
  /\ mode \in Modes
  /\ activeSkills \subseteq Skills
  /\ readable \subseteq Skills
  /\ matching \in [Actors -> SUBSET Skills]
  /\ turnOf \in [Actors -> Turn]
  /\ ranCalls \subseteq Call

\* The restricting skills that cannot vanish: a turn keeps them active.
Binding(skills) == Restricting(skills) \ Vanishing

ReadableInv == Skills \ readable \subseteq Vanishing

\* What the prompt of a turn binds the run to is still active when its calls are judged.
PromptInv ==
  \A a \in Actors : turnOf[a].at \in {"plan", "answer", "ask"} =>
    Binding(turnOf[a].prompt) \subseteq activeSkills

\* A call that runs, or will if the user approves it, keeps to the rules.
WithinRules(c) ==
  /\ \A s \in Restricting(c.prompt) : CanonicalId(c.tool) \in AllowedTools[s]
  /\ ~c.objected

Planning == mode \in {"Human", "DryRun", "Replay"}

CallsInv ==
  /\ \A a \in Actors : \A c \in turnOf[a].held : WithinRules(c)
  /\ \A c \in ranCalls : WithinRules(c) /\ (Planning => c.asked)

PolicyInv == TypeInv /\ ReadableInv /\ PromptInv /\ CallsInv

-----------------------------------------------------------------------------
(* What a verdict says. *)

\* In the modes that only plan the engine allows nothing by itself.
LEMMA PlanningAllowsNothing ==
  ASSUME BashIsJudged, Planning, NEW r \in ToolRequests
  PROVE  BaseDecision(r) # "Allowed"
<1>1. mode \notin {"Confirm", "Yolo"}
  BY DEF Planning
<1>2. \A k : Matrix(k) = "Denied"
  BY <1>1 DEF Matrix
<1>3. r.kind \in {"read", "write", "bash", "web_fetch", "other"}
  BY DEF ToolRequests
<1>4. PathDecision(r) # "Allowed"
  BY <1>2 DEF PathDecision
<1>5. NetworkDecision(r) # "Allowed"
  BY <1>2 DEF NetworkDecision
<1>6. BashDecision(r) # "Allowed"
  BY <1>1, <1>2 DEF BashDecision, BashIsJudged
<1> QED
  BY <1>2, <1>3, <1>4, <1>5, <1>6 DEF BaseDecision

\* What is not denied is admitted by the active skills, and nobody objected.
LEMMA VerdictFacts ==
  ASSUME NEW tool \in CatalogTools, NEW v \in Verdicts(tool), v.status # "Denied"
  PROVE  /\ SkillsAdmit(activeSkills, tool)
         /\ v.objected = FALSE
         /\ BashIsJudged /\ Planning => v.status # "Allowed"
<1>1. PICK r \in ToolRequests, hook \in HookAnswers, guards \in [Guards -> GuardAnswers] :
        v = [status |-> Judgement(tool, BaseDecision(r), hook, guards),
             objected |-> hook # "Continue" \/ \E g \in Guards : guards[g] # "Allowed"]
  BY DEF Verdicts
<1>2. v.status = Judgement(tool, BaseDecision(r), hook, guards)
  BY <1>1
<1>3. SkillsAdmit(activeSkills, tool) /\ ~GuardsBlock(hook, guards) /\ v.status = BaseDecision(r)
  BY <1>2 DEF Judgement
<1>4. v.objected = FALSE
  BY <1>1, <1>3 DEF GuardsBlock
<1> QED
  BY <1>3, <1>4, PlanningAllowsNothing

\* A call that the active skills admit keeps to the prompt of its turn.
LEMMA AdmittedFacts ==
  ASSUME VanishingIsFree, NEW tool \in CatalogTools, SkillsAdmit(activeSkills, tool),
         NEW prompt \in SUBSET Skills, Binding(prompt) \subseteq activeSkills
  PROVE  \A s \in Restricting(prompt) : CanonicalId(tool) \in AllowedTools[s]
<1> SUFFICES ASSUME NEW s \in Restricting(prompt)
             PROVE  CanonicalId(tool) \in AllowedTools[s]
  OBVIOUS
<1>1. AllowedTools[s] # Unrestricted
  BY DEF Restricting
<1>2. CASE s \in Vanishing
  <2>1. AllowedTools[s] = AllowTokens
    BY <1>1, <1>2 DEF VanishingIsFree
  <2> QED
    BY <2>1 DEF AllowTokens, CanonicalId
<1>3. CASE s \notin Vanishing
  <2>1. s \in Restricting(activeSkills)
    BY <1>1, <1>3 DEF Binding, Restricting
  <2> QED
    BY <2>1 DEF SkillsAdmit, Allows
<1> QED
  BY <1>2, <1>3

-----------------------------------------------------------------------------
(* Every step keeps the invariant. *)

LEMMA InitPolicyInv == ToolPolicyInit => PolicyInv
<1> SUFFICES ASSUME ToolPolicyInit PROVE PolicyInv
  OBVIOUS
<1>1. NoTurn \in Turn /\ NoTurn.at = "top" /\ NoTurn.held = {}
  BY DEF NoTurn, Turn, TurnSteps
<1>2. TypeInv
  BY <1>1 DEF ToolPolicyInit, TypeInv
<1> QED
  BY <1>1, <1>2 DEF ToolPolicyInit, PolicyInv, ReadableInv, PromptInv, CallsInv

\* Skills are only added by a turn, or taken away because their body cannot be read.
LEMMA ActiveKeeps ==
  ASSUME PolicyInv, NEW a \in Actors, ResolveSkills(a) \/ Contribute(a)
  PROVE  /\ activeSkills' \subseteq Skills
         /\ \A prompt \in SUBSET Skills :
              Binding(prompt) \subseteq activeSkills => Binding(prompt) \subseteq activeSkills'
<1>1. CASE ResolveSkills(a)
  BY <1>1, ToolPolicyAssumption DEF ResolveSkills, Resolved, PolicyInv, TypeInv
<1>2. CASE Contribute(a)
  BY <1>2 DEF Contribute, PolicyInv, TypeInv, ReadableInv, Binding, Restricting
<1> QED
  BY <1>1, <1>2

LEMMA ResolveSkillsKeeps ==
  ASSUME PolicyInv, NEW a \in Actors, ResolveSkills(a)
  PROVE  PolicyInv'
<1>1. PICK at \in {"over", "contribute"} :
        /\ turnOf' = [turnOf EXCEPT ![a].at = at]
        /\ UNCHANGED <<mode, readable, matching, ranCalls>>
  BY DEF ResolveSkills
<1>2. turnOf \in [Actors -> Turn] /\ turnOf[a] \in Turn
  BY DEF PolicyInv, TypeInv
<1>3. turnOf' = [turnOf EXCEPT ![a] = [turnOf[a] EXCEPT !.at = at]]
  BY <1>1
<1>4. /\ turnOf' \in [Actors -> Turn] /\ turnOf'[a].at = at /\ turnOf'[a].held = turnOf[a].held
      /\ \A b \in Actors : b # a => turnOf'[b] = turnOf[b]
  <2>1. [turnOf[a] EXCEPT !.at = at] \in Turn
    BY <1>2 DEF Turn, TurnSteps
  <2> QED
    BY <1>2, <1>3, <2>1 DEF Turn
<1>5. \A b \in Actors : turnOf[b].prompt \in SUBSET Skills
  BY <1>2 DEF Turn
<1>6. TypeInv'
  BY <1>1, <1>4, ActiveKeeps DEF PolicyInv, TypeInv
<1>7. PromptInv'
  BY <1>4, <1>5, ActiveKeeps DEF PolicyInv, PromptInv
<1>8. CallsInv'
  BY <1>1, <1>4 DEF PolicyInv, CallsInv, Planning, WithinRules
<1> QED
  BY <1>1, <1>6, <1>7, <1>8 DEF PolicyInv, ReadableInv

LEMMA ContributeKeeps ==
  ASSUME PolicyInv, NEW a \in Actors, Contribute(a)
  PROVE  PolicyInv'
<1>1. /\ activeSkills' = activeSkills \cap readable
      /\ turnOf' = [turnOf EXCEPT ![a] =
                      [turnOf[a] EXCEPT !.at = "plan", !.prompt = activeSkills \cap readable]]
      /\ UNCHANGED <<mode, readable, matching, ranCalls>>
  BY DEF Contribute
<1>2. turnOf \in [Actors -> Turn] /\ turnOf[a] \in Turn /\ activeSkills \subseteq Skills
  BY DEF PolicyInv, TypeInv
<1>3. /\ turnOf' \in [Actors -> Turn] /\ turnOf'[a].prompt = activeSkills'
      /\ turnOf'[a].held = turnOf[a].held
      /\ \A b \in Actors : b # a => turnOf'[b] = turnOf[b]
  <2>1. [turnOf[a] EXCEPT !.at = "plan", !.prompt = activeSkills \cap readable] \in Turn
    BY <1>2 DEF Turn, TurnSteps
  <2> QED
    BY <1>1, <1>2, <2>1 DEF Turn
<1>4. \A b \in Actors : turnOf[b].prompt \in SUBSET Skills
  BY <1>2 DEF Turn
<1>5. TypeInv'
  BY <1>1, <1>3, ActiveKeeps DEF PolicyInv, TypeInv
<1>6. PromptInv'
  <2>1. Binding(turnOf'[a].prompt) \subseteq activeSkills'
    BY <1>3 DEF Binding, Restricting
  <2> QED
    BY <1>3, <1>4, <2>1, ActiveKeeps DEF PolicyInv, PromptInv
<1>7. CallsInv'
  BY <1>1, <1>3 DEF PolicyInv, CallsInv, Planning, WithinRules
<1> QED
  BY <1>1, <1>5, <1>6, <1>7 DEF PolicyInv, ReadableInv

LEMMA OfferToolsKeeps ==
  ASSUME PolicyInv, NEW a \in Actors, OfferTools(a)
  PROVE  PolicyInv'
<1>1. PICK at \in {"over", "answer"} :
        /\ turnOf' = [turnOf EXCEPT ![a] =
                        [turnOf[a] EXCEPT !.at = at, !.offered = PlannedTools(activeSkills)]]
        /\ UNCHANGED <<mode, activeSkills, readable, matching, ranCalls>>
  BY DEF OfferTools
<1>2. turnOf \in [Actors -> Turn] /\ turnOf[a] \in Turn /\ turnOf[a].at = "plan"
  BY DEF PolicyInv, TypeInv, OfferTools
<1>3. /\ turnOf' \in [Actors -> Turn] /\ turnOf'[a].prompt = turnOf[a].prompt
      /\ turnOf'[a].held = turnOf[a].held
      /\ \A b \in Actors : b # a => turnOf'[b] = turnOf[b]
  <2>1. [turnOf[a] EXCEPT !.at = at, !.offered = PlannedTools(activeSkills)] \in Turn
    BY <1>2 DEF Turn, TurnSteps, PlannedTools
  <2> QED
    BY <1>1, <1>2, <2>1 DEF Turn
<1>4. TypeInv'
  BY <1>1, <1>3 DEF PolicyInv, TypeInv
<1>5. PromptInv'
  BY <1>1, <1>2, <1>3 DEF PolicyInv, PromptInv
<1>6. CallsInv'
  BY <1>1, <1>3 DEF PolicyInv, CallsInv, Planning, WithinRules
<1> QED
  BY <1>1, <1>4, <1>5, <1>6 DEF PolicyInv, ReadableInv

\* The call of a tool is judged with this verdict.
JudgedAs(a, tool, v) ==
  LET confirm == v.status = "Confirm"
      call == [actor |-> a, tool |-> tool, prompt |-> turnOf[a].prompt, asked |-> FALSE,
               objected |-> v.objected]
  IN /\ turnOf[a].at = "answer"
     /\ turnOf' = [turnOf EXCEPT ![a].called = @ \cup {tool},
                                 ![a].held = IF confirm THEN {call} ELSE {},
                                 ![a].at = IF confirm THEN "ask" ELSE "answer"]
     /\ ranCalls' = IF v.status = "Allowed" THEN ranCalls \cup {call} ELSE ranCalls
     /\ UNCHANGED <<mode, activeSkills, readable, matching>>

\* JudgeCall: what is allowed, or waits for the user, keeps to the rules.
LEMMA JudgeCallKeeps ==
  ASSUME VanishingIsFree, BashIsJudged, PolicyInv, NEW a \in Actors, JudgeCall(a)
  PROVE  PolicyInv'
<1> PICK tool \in CatalogTools : \E v \in Verdicts(tool) : JudgedAs(a, tool, v)
  BY DEF JudgeCall, JudgedAs
<1> PICK v \in Verdicts(tool) : JudgedAs(a, tool, v)
  OBVIOUS
<1> PICK call : call = [actor |-> a, tool |-> tool, prompt |-> turnOf[a].prompt,
                        asked |-> FALSE, objected |-> v.objected]
  OBVIOUS
<1>1. /\ turnOf[a].at = "answer"
      /\ turnOf' = [turnOf EXCEPT ![a] =
           [turnOf[a] EXCEPT !.called = turnOf[a].called \cup {tool},
                             !.held = IF v.status = "Confirm" THEN {call} ELSE {},
                             !.at = IF v.status = "Confirm" THEN "ask" ELSE "answer"]]
      /\ ranCalls' = IF v.status = "Allowed" THEN ranCalls \cup {call} ELSE ranCalls
      /\ UNCHANGED <<mode, activeSkills, readable, matching>>
  <2>1. turnOf[a].at = "answer" /\ UNCHANGED <<mode, activeSkills, readable, matching>>
    BY DEF JudgedAs
  <2>2. ranCalls' = IF v.status = "Allowed" THEN ranCalls \cup {call} ELSE ranCalls
    BY DEF JudgedAs
  <2>3. turnOf' = [turnOf EXCEPT ![a].called = @ \cup {tool},
                                 ![a].held = IF v.status = "Confirm" THEN {call} ELSE {},
                                 ![a].at = IF v.status = "Confirm" THEN "ask" ELSE "answer"]
    BY DEF JudgedAs
  <2>4. turnOf \in [Actors -> Turn]
    BY DEF PolicyInv, TypeInv
  <2> QED
    BY <2>1, <2>2, <2>3, <2>4
<1>2. turnOf \in [Actors -> Turn] /\ turnOf[a] \in Turn /\ turnOf[a].prompt \in SUBSET Skills
  BY DEF PolicyInv, TypeInv, Turn
<1>3. v.status \in {"Allowed", "Confirm"} =>
        call \in Call /\ WithinRules(call) /\ (Planning => v.status # "Allowed")
  <2> SUFFICES ASSUME v.status \in {"Allowed", "Confirm"}
               PROVE  call \in Call /\ WithinRules(call) /\ (Planning => v.status # "Allowed")
    OBVIOUS
  <2>1. /\ SkillsAdmit(activeSkills, tool) /\ v.objected = FALSE
        /\ Planning => v.status # "Allowed"
    BY VerdictFacts
  <2>2. Binding(turnOf[a].prompt) \subseteq activeSkills
    BY <1>1 DEF PolicyInv, PromptInv
  <2>3. \A s \in Restricting(turnOf[a].prompt) : CanonicalId(tool) \in AllowedTools[s]
    BY <1>2, <2>1, <2>2, AdmittedFacts
  <2> QED
    BY <1>1, <1>2, <2>1, <2>3 DEF Call, WithinRules
<1>4. /\ turnOf' \in [Actors -> Turn] /\ turnOf'[a].prompt = turnOf[a].prompt
      /\ turnOf'[a].held = IF v.status = "Confirm" THEN {call} ELSE {}
      /\ \A b \in Actors : b # a => turnOf'[b] = turnOf[b]
  <2>1. [turnOf[a] EXCEPT !.called = turnOf[a].called \cup {tool},
                          !.held = IF v.status = "Confirm" THEN {call} ELSE {},
                          !.at = IF v.status = "Confirm" THEN "ask" ELSE "answer"] \in Turn
    BY <1>2, <1>3 DEF Turn, TurnSteps
  <2> QED
    BY <1>1, <1>2, <2>1 DEF Turn
<1>5. TypeInv'
  BY <1>1, <1>3, <1>4 DEF PolicyInv, TypeInv
<1>6. PromptInv'
  BY <1>1, <1>4 DEF PolicyInv, PromptInv
<1>7. CallsInv'
  BY <1>1, <1>3, <1>4 DEF PolicyInv, CallsInv, Planning, WithinRules
<1> QED
  BY <1>1, <1>5, <1>6, <1>7 DEF PolicyInv, ReadableInv

LEMMA AnswerApprovalKeeps ==
  ASSUME PolicyInv, NEW a \in Actors, AnswerApproval(a)
  PROVE  PolicyInv'
<1>1. /\ turnOf[a].at = "ask"
      /\ turnOf' = [turnOf EXCEPT ![a] = [turnOf[a] EXCEPT !.at = "answer", !.held = {}]]
      /\ UNCHANGED <<mode, activeSkills, readable, matching>>
  BY DEF AnswerApproval
<1> PICK answered \in SUBSET {[c EXCEPT !.asked = TRUE] : c \in turnOf[a].held} :
      ranCalls' = ranCalls \cup answered
  <2>1. \/ ranCalls' = ranCalls \cup {}
        \/ ranCalls' = ranCalls \cup {[c EXCEPT !.asked = TRUE] : c \in turnOf[a].held}
    BY DEF AnswerApproval
  <2> QED
    BY <2>1
<1>2. turnOf \in [Actors -> Turn] /\ turnOf[a] \in Turn /\ turnOf[a].held \subseteq Call
  BY DEF PolicyInv, TypeInv, Turn
<1>3. /\ turnOf' \in [Actors -> Turn] /\ turnOf'[a].prompt = turnOf[a].prompt
      /\ turnOf'[a].held = {}
      /\ \A b \in Actors : b # a => turnOf'[b] = turnOf[b]
  <2>1. [turnOf[a] EXCEPT !.at = "answer", !.held = {}] \in Turn
    BY <1>2 DEF Turn, TurnSteps
  <2> QED
    BY <1>1, <1>2, <2>1 DEF Turn
<1>4. \A c \in answered : c \in Call /\ WithinRules(c) /\ c.asked
  <2> SUFFICES ASSUME NEW h \in turnOf[a].held, NEW c, c = [h EXCEPT !.asked = TRUE]
               PROVE  c \in Call /\ WithinRules(c) /\ c.asked
    OBVIOUS
  <2>1. h \in Call /\ WithinRules(h)
    BY <1>2 DEF PolicyInv, CallsInv
  <2>2. c \in Call /\ c.asked /\ c.tool = h.tool /\ c.prompt = h.prompt /\ c.objected = h.objected
    BY <2>1 DEF Call
  <2> QED
    BY <2>1, <2>2 DEF WithinRules
<1>5. TypeInv'
  BY <1>1, <1>3, <1>4 DEF PolicyInv, TypeInv
<1>6. PromptInv'
  BY <1>1, <1>3 DEF PolicyInv, PromptInv
<1>7. CallsInv'
  BY <1>1, <1>3, <1>4 DEF PolicyInv, CallsInv, Planning, WithinRules
<1> QED
  BY <1>1, <1>5, <1>6, <1>7 DEF PolicyInv, ReadableInv

LEMMA NextTurnKeeps ==
  ASSUME PolicyInv, NEW a \in Actors, NextTurn(a)
  PROVE  PolicyInv'
<1>1. PICK at \in {"over", "top"} :
        /\ turnOf' = [turnOf EXCEPT ![a] = [NoTurn EXCEPT !.turns = turnOf[a].turns + 1, !.at = at]]
        /\ ranCalls' \subseteq ranCalls
        /\ UNCHANGED <<mode, activeSkills, readable, matching>>
  BY DEF NextTurn
<1>2. turnOf \in [Actors -> Turn] /\ turnOf[a].turns \in Nat
  BY DEF PolicyInv, TypeInv, Turn
<1>3. /\ turnOf' \in [Actors -> Turn] /\ turnOf'[a].at = at /\ turnOf'[a].held = {}
      /\ \A b \in Actors : b # a => turnOf'[b] = turnOf[b]
  <2>1. NoTurn \in Turn /\ NoTurn.held = {}
    BY DEF NoTurn, Turn, TurnSteps
  <2> PICK next : next = [NoTurn EXCEPT !.turns = turnOf[a].turns + 1, !.at = at]
    OBVIOUS
  <2>2. turnOf[a].turns + 1 \in Nat
    BY <1>2
  <2>3. next \in Turn /\ next.at = at /\ next.held = NoTurn.held
    BY <2>1, <2>2 DEF Turn, TurnSteps
  <2> QED
    BY <1>1, <1>2, <2>1, <2>3
<1>4. TypeInv'
  BY <1>1, <1>3 DEF PolicyInv, TypeInv
<1>5. PromptInv'
  BY <1>1, <1>3 DEF PolicyInv, PromptInv
<1>6. CallsInv'
  BY <1>1, <1>3 DEF PolicyInv, CallsInv, Planning, WithinRules
<1> QED
  BY <1>1, <1>4, <1>5, <1>6 DEF PolicyInv, ReadableInv

\* BodyChanges: only the bodies that may vanish do.
LEMMA BodyChangesKeeps ==
  ASSUME PolicyInv, BodyChanges
  PROVE  PolicyInv'
<1>1. PICK s \in Vanishing :
        /\ readable' = IF s \in readable THEN readable \ {s} ELSE readable \cup {s}
        /\ UNCHANGED <<mode, activeSkills, matching, turnOf, ranCalls>>
  BY DEF BodyChanges
<1>2. TypeInv' /\ ReadableInv'
  BY <1>1, ToolPolicyAssumption DEF PolicyInv, TypeInv, ReadableInv
<1> QED
  BY <1>1, <1>2 DEF PolicyInv, PromptInv, CallsInv, Planning, WithinRules

-----------------------------------------------------------------------------
(* The theorem. *)

\* Whatever the skills, the hooks, the guards and the lists of policies.toml say, and
\* whatever the turns of other runs make of the shared skills: a call that runs is admitted
\* by every skill in the prompt of its turn, nobody objected to it, and in the modes that
\* only plan a user approved it (policy/engine.rs, skills, composition_hooks.rs).
THEOREM CallsKeepToTheRules ==
  ASSUME VanishingIsFree, BashIsJudged
  PROVE  ToolPolicySpec => []RanWithinRules
<1>1. ASSUME PolicyInv, [ToolPolicyNext]_toolPolicyVars
      PROVE  PolicyInv'
  <2>1. CASE BodyChanges
    BY <1>1, <2>1, BodyChangesKeeps
  <2>2. ASSUME NEW a \in Actors,
               \/ ResolveSkills(a) \/ Contribute(a) \/ OfferTools(a)
               \/ JudgeCall(a) \/ AnswerApproval(a) \/ NextTurn(a)
        PROVE  PolicyInv'
    BY <1>1, <2>2, ResolveSkillsKeeps, ContributeKeeps, OfferToolsKeeps, JudgeCallKeeps,
       AnswerApprovalKeeps, NextTurnKeeps
  <2>3. CASE UNCHANGED toolPolicyVars
    BY <1>1, <2>3 DEF toolPolicyVars, PolicyInv, TypeInv, ReadableInv, PromptInv, CallsInv,
                      Planning, WithinRules
  <2> QED
    BY <1>1, <2>1, <2>2, <2>3 DEF ToolPolicyNext
<1>2. PolicyInv => RanWithinRules
  BY DEF PolicyInv, CallsInv, WithinRules, RanWithinRules, Planning
<1> QED
  BY <1>1, <1>2, InitPolicyInv, PTL DEF ToolPolicySpec

-----------------------------------------------------------------------------
(* TraceResume: the order of the events of a trace, whatever part of it is *)
(* on disk.                                                                *)

\* What the analysis reads of an operation is whether its last event is its start.
LastOps == {"context", "provider", "policy", "approval"}
Event == [event : LastOps \cup {"tool", "hook", "checkpoint", "snapshot"}, over : BOOLEAN,
          ids : SUBSET ToolCalls]

IsStart(e) == e.event = "tool" /\ ~e.over
Starts(t) == {i \in DOMAIN t : IsStart(t[i])}

\* A checkpoint knows of every call that was started before it.
CheckpointsKnow(t) ==
  \A i \in Starts(t) : \A k \in CheckpointsOf(t) : i < k => t[i].ids \subseteq t[k].ids

\* After the start of a tool no other operation comes before the next checkpoint.
ToolsComeLast(t) ==
  \A i \in Starts(t) : \A j \in DOMAIN t : i < j /\ t[j].event \in LastOps =>
    \E k \in CheckpointsOf(t) : i < k /\ k < j

\* An operation that was begun before a tool starts has ended before it does.
OverBeforeTools(t) ==
  \A i \in Starts(t) : \A j \in DOMAIN t : j < i /\ t[j].event \in LastOps /\ ~t[j].over =>
    \E l \in DOMAIN t : j < l /\ l < i /\ t[l].event = t[j].event

Ordered(t) == CheckpointsKnow(t) /\ ToolsComeLast(t) /\ OverBeforeTools(t)

\* Every started call is in a checkpoint.
CaughtUp(t) == \A i \in Starts(t) : \E k \in CheckpointsOf(t) : i < k

\* No operation is under way but the open one.
Settled(t, open) ==
  \A j \in DOMAIN t : t[j].event \in LastOps /\ ~t[j].over /\ t[j].event # open =>
    \E l \in DOMAIN t : j < l /\ t[l].event = t[j].event

\* The trace ends with the start of a hook or of a tool.
Ambiguous(t) ==
  /\ t # <<>>
  /\ \/ t[Len(t)] = Begun("hook")
     \/ \E c \in ToolCalls : t[Len(t)] = ToolExecutionStarted(c)

-----------------------------------------------------------------------------
(* Events that are neither a start of a tool nor a checkpoint. *)

Quiet(e) == ~IsStart(e) /\ e.event # "checkpoint"

AllQuiet(ev) == \A k \in 1..Len(ev) : Quiet(ev[k])

\* The starts and checkpoints of u are those of t.
SameMarks(t, u) ==
  /\ \A i \in Starts(u) : i \in Starts(t) /\ u[i] = t[i]
  /\ \A k \in CheckpointsOf(u) : k \in CheckpointsOf(t) /\ u[k] = t[k]
  /\ \A k \in CheckpointsOf(t) : k \in CheckpointsOf(u) /\ u[k] = t[k]
  /\ CaughtUp(t) => CaughtUp(u)

\* What a trace is after more events.
LEMMA Appended ==
  ASSUME NEW t \in Seq(Event), NEW ev \in Seq(Event), NEW u, u = t \o ev
  PROVE  /\ u \in Seq(Event) /\ Len(u) = Len(t) + Len(ev)
         /\ DOMAIN u = 1..Len(u) /\ DOMAIN t = 1..Len(t)
         /\ Len(t) \in Nat /\ Len(ev) \in Nat
         /\ \A i \in 1..Len(t) : u[i] = t[i]
         /\ \A k \in 1..Len(ev) : u[Len(t) + k] = ev[k]
         /\ \A i \in 1..Len(u) : i > Len(t) => i - Len(t) \in 1..Len(ev) /\ u[i] = ev[i - Len(t)]
  OBVIOUS

LEMMA QuietEvents ==
  ASSUME NEW t \in Seq(Event), NEW ev \in Seq(Event), NEW u, u = t \o ev, AllQuiet(ev)
  PROVE  SameMarks(t, u)
<1>1. ASSUME NEW i \in Starts(u)
      PROVE  i \in Starts(t) /\ u[i] = t[i]
  <2>1. i \in 1..Len(u) /\ IsStart(u[i])
    BY <1>1, Appended DEF Starts
  <2>2. ~(i > Len(t))
    <3> SUFFICES ASSUME i > Len(t)
                 PROVE  FALSE
      OBVIOUS
    <3>1. i - Len(t) \in 1..Len(ev) /\ u[i] = ev[i - Len(t)]
      BY <2>1, Appended
    <3> QED
      BY <2>1, <3>1 DEF AllQuiet, Quiet
  <2>3. i \in 1..Len(t)
    BY <2>1, <2>2, Appended
  <2> QED
    BY <2>1, <2>3, Appended DEF Starts
<1>2. ASSUME NEW i \in CheckpointsOf(u)
      PROVE  i \in CheckpointsOf(t) /\ u[i] = t[i]
  <2>1. i \in 1..Len(u) /\ u[i].event = "checkpoint"
    BY <1>2, Appended DEF CheckpointsOf
  <2>2. ~(i > Len(t))
    <3> SUFFICES ASSUME i > Len(t)
                 PROVE  FALSE
      OBVIOUS
    <3>1. i - Len(t) \in 1..Len(ev) /\ u[i] = ev[i - Len(t)]
      BY <2>1, Appended
    <3> QED
      BY <2>1, <3>1 DEF AllQuiet, Quiet
  <2>3. i \in 1..Len(t)
    BY <2>1, <2>2, Appended
  <2> QED
    BY <2>1, <2>3, Appended DEF CheckpointsOf
<1>3. ASSUME NEW i \in CheckpointsOf(t)
      PROVE  i \in CheckpointsOf(u) /\ u[i] = t[i]
  <2>1. i \in 1..Len(t) /\ t[i].event = "checkpoint"
    BY <1>3, Appended DEF CheckpointsOf
  <2>2. i \in 1..Len(u) /\ u[i] = t[i]
    BY <2>1, Appended
  <2> QED
    BY <2>1, <2>2, Appended DEF CheckpointsOf
<1>4. CaughtUp(t) => CaughtUp(u)
  BY <1>1, <1>3 DEF CaughtUp
<1> QED
  BY <1>1, <1>2, <1>3, <1>4 DEF SameMarks

\* Other operations come only when every started call is in a checkpoint.
LEMMA QuietOrder ==
  ASSUME NEW t \in Seq(Event), NEW ev \in Seq(Event), NEW u, u = t \o ev,
         AllQuiet(ev),
         CaughtUp(t) \/ \A k \in 1..Len(ev) : ev[k].event \notin LastOps,
         Ordered(t)
  PROVE  Ordered(u)
<1>0. /\ \A i \in Starts(u) : i \in Starts(t) /\ u[i] = t[i]
      /\ \A k \in CheckpointsOf(u) : k \in CheckpointsOf(t) /\ u[k] = t[k]
      /\ \A k \in CheckpointsOf(t) : k \in CheckpointsOf(u)
  <2>1. SameMarks(t, u)
    BY QuietEvents
  <2> QED
    BY <2>1 DEF SameMarks
<1>1. CheckpointsKnow(u)
  <2> SUFFICES ASSUME NEW i \in Starts(u), NEW k \in CheckpointsOf(u), i < k
               PROVE  u[i].ids \subseteq u[k].ids
    BY DEF CheckpointsKnow
  <2>1. i \in Starts(t) /\ u[i] = t[i]
    BY <1>0
  <2>2. k \in CheckpointsOf(t) /\ u[k] = t[k]
    BY <1>0
  <2> QED
    BY <2>1, <2>2 DEF Ordered, CheckpointsKnow
<1>2. ToolsComeLast(u)
  <2> SUFFICES ASSUME NEW i \in Starts(u), NEW j \in DOMAIN u, i < j, u[j].event \in LastOps
               PROVE  \E k \in CheckpointsOf(u) : i < k /\ k < j
    BY DEF ToolsComeLast
  <2>1. i \in Starts(t)
    BY <1>0
  <2>2. CASE j <= Len(t)
    <3>1. j \in DOMAIN t /\ t[j] = u[j]
      BY <2>2, Appended
    <3>2. PICK k \in CheckpointsOf(t) : i < k /\ k < j
      BY <2>1, <3>1 DEF Ordered, ToolsComeLast
    <3> QED
      BY <3>2, <1>0
  <2>3. CASE j > Len(t)
    <3>1. j - Len(t) \in 1..Len(ev) /\ u[j] = ev[j - Len(t)]
      BY <2>3, Appended
    <3>2. CaughtUp(t)
      BY <3>1
    <3>3. PICK k \in CheckpointsOf(t) : i < k
      BY <2>1, <3>2 DEF CaughtUp
    <3>4. k <= Len(t) /\ k \in Nat
      BY <3>3, Appended DEF CheckpointsOf
    <3>5. k < j
      BY <2>3, <3>4, Appended
    <3> QED
      BY <3>3, <3>5, <1>0
  <2>4. j \in Nat /\ Len(t) \in Nat
    BY Appended
  <2> QED
    BY <2>2, <2>3, <2>4
<1>3. OverBeforeTools(u)
  <2> SUFFICES ASSUME NEW i \in Starts(u), NEW j \in DOMAIN u, j < i, u[j].event \in LastOps,
                      ~u[j].over
               PROVE  \E l \in DOMAIN u : j < l /\ l < i /\ u[l].event = u[j].event
    BY DEF OverBeforeTools
  <2>1. i \in Starts(t)
    BY <1>0
  <2>2. i \in 1..Len(t)
    BY <2>1, Appended DEF Starts
  <2>3. j \in 1..Len(t) /\ u[j] = t[j]
    BY <2>2, Appended
  <2>4. PICK l \in DOMAIN t : j < l /\ l < i /\ t[l].event = t[j].event
    BY <2>1, <2>3, Appended DEF Ordered, OverBeforeTools
  <2>5. l \in DOMAIN u /\ u[l] = t[l]
    BY <2>4, Appended
  <2> QED
    BY <2>3, <2>4, <2>5
<1> QED
  BY <1>1, <1>2, <1>3 DEF Ordered

\* An event of the open operation settles it; only `next` may be begun.
LEMMA SettledBy ==
  ASSUME NEW t \in Seq(Event), NEW ev \in Seq(Event), NEW u, u = t \o ev,
         NEW open, NEW next, Settled(t, open),
         open = next \/ open = "none" \/ \E k \in 1..Len(ev) : ev[k].event = open,
         \A k \in 1..Len(ev) : ev[k].event \in LastOps /\ ~ev[k].over => ev[k].event = next
  PROVE  Settled(u, next)
<1> SUFFICES ASSUME NEW j \in DOMAIN u, u[j].event \in LastOps, ~u[j].over, u[j].event # next
             PROVE  \E l \in DOMAIN u : j < l /\ u[l].event = u[j].event
  BY DEF Settled
<1>1. j \in 1..Len(u) /\ Len(t) \in Nat
  BY Appended
<1>2. ~(j > Len(t))
  <2> SUFFICES ASSUME j > Len(t)
               PROVE  FALSE
    OBVIOUS
  <2>1. j - Len(t) \in 1..Len(ev) /\ u[j] = ev[j - Len(t)]
    BY <1>1, Appended
  <2> QED
    BY <2>1
<1>3. j \in DOMAIN t /\ u[j] = t[j] /\ j <= Len(t)
  BY <1>1, <1>2, Appended
<1>4. CASE u[j].event # open
  <2>1. PICK l \in DOMAIN t : j < l /\ t[l].event = t[j].event
    BY <1>3, <1>4 DEF Settled
  <2>2. l \in DOMAIN u /\ u[l] = t[l]
    BY <2>1, Appended
  <2> QED
    BY <1>3, <2>1, <2>2
<1>5. CASE u[j].event = open
  <2>1. open # "none"
    BY <1>5 DEF LastOps
  <2>2. PICK k \in 1..Len(ev) : ev[k].event = open
    BY <1>5, <2>1
  <2>3. Len(t) + k \in DOMAIN u /\ u[Len(t) + k] = ev[k]
    BY <2>2, Appended
  <2>4. j < Len(t) + k
    BY <1>1, <1>3, <2>2
  <2> QED
    BY <1>5, <2>2, <2>3, <2>4
<1> QED
  BY <1>4, <1>5

\* A checkpoint that knows of every started call.
LEMMA CheckpointOrder ==
  ASSUME NEW t \in Seq(Event), NEW e \in Event, e.event = "checkpoint", NEW u, u = t \o <<e>>,
         \A i \in Starts(t) : t[i].ids \subseteq e.ids, Ordered(t)
  PROVE  /\ Ordered(u) /\ CaughtUp(u)
         /\ \A i \in Starts(u) : i \in Starts(t) /\ u[i] = t[i]
<1> DEFINE ev == <<e>>
<1>1. ev \in Seq(Event) /\ Len(ev) = 1 /\ ev[1] = e /\ u = t \o ev
  OBVIOUS
<1> HIDE DEF ev
<1>2. /\ DOMAIN u = 1..(Len(t) + 1) /\ DOMAIN t = 1..Len(t) /\ Len(t) \in Nat
      /\ u[Len(t) + 1] = e /\ \A i \in 1..Len(t) : u[i] = t[i]
  BY <1>1, Appended
<1>3. ASSUME NEW i \in Starts(u)
      PROVE  i \in Starts(t) /\ u[i] = t[i]
  BY <1>2 DEF Starts, IsStart
<1>4. CheckpointsOf(u) = CheckpointsOf(t) \cup {Len(t) + 1}
  BY <1>2 DEF CheckpointsOf
<1>5. CaughtUp(u)
  <2> SUFFICES ASSUME NEW i \in Starts(u)
               PROVE  i < Len(t) + 1
    BY <1>4 DEF CaughtUp
  <2> QED
    BY <1>2, <1>3 DEF Starts
<1>6. CheckpointsKnow(u)
  <2> SUFFICES ASSUME NEW i \in Starts(u), NEW k \in CheckpointsOf(u), i < k
               PROVE  u[i].ids \subseteq u[k].ids
    BY DEF CheckpointsKnow
  <2>1. CASE k \in CheckpointsOf(t)
    <3>1. u[k] = t[k]
      BY <1>2, <2>1 DEF CheckpointsOf
    <3> QED
      BY <1>3, <2>1, <3>1 DEF Ordered, CheckpointsKnow
  <2>2. CASE k = Len(t) + 1
    BY <1>2, <1>3, <2>2
  <2> QED
    BY <1>4, <2>1, <2>2
<1>7. ToolsComeLast(u)
  <2> SUFFICES ASSUME NEW i \in Starts(u), NEW j \in DOMAIN u, i < j, u[j].event \in LastOps
               PROVE  \E k \in CheckpointsOf(u) : i < k /\ k < j
    BY DEF ToolsComeLast
  <2>1. j \in DOMAIN t /\ u[j] = t[j]
    BY <1>2 DEF LastOps
  <2>2. PICK k \in CheckpointsOf(t) : i < k /\ k < j
    BY <1>3, <2>1 DEF Ordered, ToolsComeLast
  <2> QED
    BY <1>4, <2>2
<1>8. OverBeforeTools(u)
  <2> SUFFICES ASSUME NEW i \in Starts(u), NEW j \in DOMAIN u, j < i, u[j].event \in LastOps,
                      ~u[j].over
               PROVE  \E l \in DOMAIN u : j < l /\ l < i /\ u[l].event = u[j].event
    BY DEF OverBeforeTools
  <2>1. i \in Starts(t) /\ j \in DOMAIN t /\ u[j] = t[j]
    BY <1>2, <1>3 DEF LastOps
  <2>2. PICK l \in DOMAIN t : j < l /\ l < i /\ t[l].event = t[j].event
    BY <2>1 DEF Ordered, OverBeforeTools
  <2>3. l \in DOMAIN u /\ u[l] = t[l]
    BY <1>2, <2>2
  <2> QED
    BY <2>1, <2>2, <2>3
<1> QED
  BY <1>3, <1>5, <1>6, <1>7, <1>8 DEF Ordered

\* Tools start when no operation is under way.
LEMMA StartsOrder ==
  ASSUME NEW t \in Seq(Event), NEW ev \in Seq(Event), NEW u, u = t \o ev,
         \A k \in 1..Len(ev) : IsStart(ev[k]), Ordered(t), Settled(t, "none")
  PROVE  Ordered(u) /\ Settled(u, "none")
<1>1. ASSUME NEW j \in DOMAIN u, ~IsStart(u[j])
      PROVE  j \in DOMAIN t /\ u[j] = t[j] /\ j <= Len(t)
  <2>1. j \in 1..Len(u)
    BY Appended
  <2>2. ~(j > Len(t))
    <3> SUFFICES ASSUME j > Len(t)
                 PROVE  FALSE
      OBVIOUS
    <3>1. j - Len(t) \in 1..Len(ev) /\ u[j] = ev[j - Len(t)]
      BY <2>1, Appended
    <3> QED
      BY <1>1, <3>1
  <2> QED
    BY <2>1, <2>2, Appended
<1>2. ASSUME NEW k \in CheckpointsOf(u)
      PROVE  k \in CheckpointsOf(t) /\ u[k] = t[k] /\ k <= Len(t)
  <2>1. ~IsStart(u[k]) /\ k \in DOMAIN u
    BY <1>2 DEF IsStart, CheckpointsOf
  <2> QED
    BY <1>1, <1>2, <2>1 DEF CheckpointsOf
<1>3. ASSUME NEW k \in CheckpointsOf(t)
      PROVE  k \in CheckpointsOf(u)
  BY <1>3, Appended DEF CheckpointsOf
<1>4. ASSUME NEW i \in Starts(u), i <= Len(t)
      PROVE  i \in Starts(t) /\ u[i] = t[i]
  BY <1>4, Appended DEF Starts
<1>5. CheckpointsKnow(u)
  <2> SUFFICES ASSUME NEW i \in Starts(u), NEW k \in CheckpointsOf(u), i < k
               PROVE  u[i].ids \subseteq u[k].ids
    BY DEF CheckpointsKnow
  <2>1. k \in CheckpointsOf(t) /\ u[k] = t[k] /\ k <= Len(t)
    BY <1>2
  <2>2. i <= Len(t)
    BY <2>1, Appended DEF Starts, CheckpointsOf
  <2>3. i \in Starts(t) /\ u[i] = t[i]
    BY <1>4, <2>2
  <2> QED
    BY <2>1, <2>3 DEF Ordered, CheckpointsKnow
<1>6. ToolsComeLast(u)
  <2> SUFFICES ASSUME NEW i \in Starts(u), NEW j \in DOMAIN u, i < j, u[j].event \in LastOps
               PROVE  \E k \in CheckpointsOf(u) : i < k /\ k < j
    BY DEF ToolsComeLast
  <2>1. ~IsStart(u[j])
    BY DEF IsStart, LastOps
  <2>2. j \in DOMAIN t /\ u[j] = t[j] /\ j <= Len(t)
    BY <1>1, <2>1
  <2>3. i <= Len(t)
    BY <2>2, Appended DEF Starts
  <2>4. i \in Starts(t)
    BY <1>4, <2>3
  <2>5. PICK k \in CheckpointsOf(t) : i < k /\ k < j
    BY <2>2, <2>4 DEF Ordered, ToolsComeLast
  <2> QED
    BY <1>3, <2>5
<1>7. OverBeforeTools(u)
  <2> SUFFICES ASSUME NEW i \in Starts(u), NEW j \in DOMAIN u, j < i, u[j].event \in LastOps,
                      ~u[j].over
               PROVE  \E l \in DOMAIN u : j < l /\ l < i /\ u[l].event = u[j].event
    BY DEF OverBeforeTools
  <2>1. ~IsStart(u[j])
    BY DEF IsStart, LastOps
  <2>2. j \in DOMAIN t /\ u[j] = t[j] /\ j <= Len(t)
    BY <1>1, <2>1
  <2>3. CASE i <= Len(t)
    <3>1. i \in Starts(t)
      BY <1>4, <2>3
    <3>2. PICK l \in DOMAIN t : j < l /\ l < i /\ t[l].event = t[j].event
      BY <2>2, <3>1 DEF Ordered, OverBeforeTools
    <3>3. l \in DOMAIN u /\ u[l] = t[l]
      BY <3>2, Appended
    <3> QED
      BY <2>2, <3>2, <3>3
  <2>4. CASE i > Len(t)
    <3>1. t[j].event # "none"
      BY <2>2 DEF LastOps
    <3>2. PICK l \in DOMAIN t : j < l /\ t[l].event = t[j].event
      BY <2>2, <3>1 DEF Settled
    <3>3. l \in DOMAIN u /\ u[l] = t[l] /\ l <= Len(t) /\ l \in Nat
      BY <3>2, Appended
    <3>4. l < i
      BY <2>4, <3>3, Appended DEF Starts
    <3> QED
      BY <2>2, <3>2, <3>3, <3>4
  <2>5. i \in Nat /\ Len(t) \in Nat
    BY Appended DEF Starts
  <2> QED
    BY <2>3, <2>4, <2>5
<1>8. Settled(u, "none")
  <2>1. \A k \in 1..Len(ev) : ev[k].event \notin LastOps
    BY DEF IsStart, LastOps
  <2> QED
    BY <2>1, SettledBy
<1> QED
  BY <1>5, <1>6, <1>7, <1>8 DEF Ordered

-----------------------------------------------------------------------------
(* The invariant of a trace. *)

Asking == {"loop", "context", "request", "stream", "policy", "judging", "confirm", "asking"}
Answering == {"execute", "group", "running", "turnEnd"}
TraceSteps ==
  {"new", "saving", "begin"} \cup Asking \cup Answering \cup RunOver \cup {"over", "dead"}

TraceTypeInv ==
  /\ step \in TraceSteps
  /\ emitted \in Seq(Event)
  /\ onDisk \in 0..Len(emitted)
  /\ runJson \in [state : {"absent", "torn", "Running"} \cup RunOver, snapshot : BOOLEAN]
  /\ prompted \in BOOLEAN
  /\ proposed \in [{"policy", "confirm", "execute"} -> SUBSET ToolCalls]
  /\ started \subseteq ToolCalls /\ unanswered \subseteq ToolCalls /\ ran \subseteq ToolCalls

\* What runs was started, and its start is on disk.
StartsOnDisk ==
  \A c \in ran \cup started : \E i \in 1..onDisk : emitted[i] = ToolExecutionStarted(c)

\* What was started runs, or has.
StartsRun ==
  step \in Asking \cup Answering =>
    /\ \A i \in Starts(emitted) : emitted[i].ids \subseteq ran \cup started
    /\ step # "running" => started = {}

\* The operation that is under way.
Opened ==
  CASE step = "context" -> "context" [] step = "stream" -> "provider"
    [] step = "judging" -> "policy" [] step = "asking" -> "approval" [] OTHER -> "none"

OrderInv ==
  /\ Ordered(emitted)
  /\ step \in Asking => CaughtUp(emitted)
  /\ step \in Asking \cup Answering => Settled(emitted, Opened)
  /\ step \in {"new", "saving", "begin"} => emitted = <<>> /\ started = {} /\ ran = {}

\* How a trace ends that says the run is over.
OverInv ==
  /\ step = "Completed" \/ runJson.state = "Completed" => CaughtUp(emitted)
  /\ step = "Interrupted" \/ runJson.state = "Interrupted" =>
       CaughtUp(emitted) \/ Ambiguous(emitted)
  /\ step = "running" => Ambiguous(emitted)

\* run.json follows the flush of the trace.
ManifestLast ==
  /\ runJson.state \in {"Completed", "Interrupted"} => step = "over" /\ onDisk = Len(emitted)
  /\ step \in RunOver /\ runJson.state # "Running" => onDisk = Len(emitted)
  /\ step \in Asking \cup Answering \cup {"begin"} => runJson.state = "Running"

TraceInv ==
  TraceTypeInv /\ StartsOnDisk /\ StartsRun /\ OrderInv /\ OverInv /\ ManifestLast

-----------------------------------------------------------------------------
(* The analysis of a trace that satisfies the invariant. *)

LEMMA LeastIndex ==
  ASSUME NEW S, S \subseteq Nat, S # {}
  PROVE  \E i \in S : \A j \in S : i <= j
<1>1. IsWellFoundedOn(OpToRel(<, Nat), Nat)
  BY NatLessThanWellFounded
<1>2. PICK i \in S : \A j \in S : <<j, i>> \notin OpToRel(<, Nat)
  BY <1>1, WFMin
<1>3. \A j \in S : ~ (j < i)
  BY <1>2 DEF OpToRel
<1> QED
  BY <1>3

LEMMA LastCheckpointIsLast ==
  ASSUME NEW t \in Seq(Event), CheckpointsOf(t) # {}
  PROVE  /\ LastCheckpoint(t) \in CheckpointsOf(t)
         /\ \A j \in CheckpointsOf(t) : j <= LastCheckpoint(t)
<1> PICK n : n = Len(t)
  OBVIOUS
<1> PICK S : S = CheckpointsOf(t)
  OBVIOUS
<1>1. n \in Nat /\ S \subseteq 1..n /\ S # {}
  BY DEF CheckpointsOf
<1>2. \E i \in S : \A j \in S : j <= i
  <2> PICK T : T = {n - i : i \in S}
    OBVIOUS
  <2>1. T \subseteq Nat /\ T # {}
    <3>1. \A i \in S : n - i \in Nat
      BY <1>1
    <3>2. PICK i : i \in S
      BY <1>1
    <3> QED
      BY <3>1, <3>2
  <2>2. PICK k \in T : \A j \in T : k <= j
    BY <2>1, LeastIndex
  <2>3. PICK i \in S : k = n - i
    OBVIOUS
  <2>4. ASSUME NEW j \in S
        PROVE  j <= i
    <3>1. n - j \in T
      OBVIOUS
    <3>2. n - i <= n - j
      BY <2>2, <2>3, <3>1
    <3>3. i \in Nat /\ j \in Nat
      BY <1>1
    <3> QED
      BY <1>1, <3>2, <3>3
  <2> QED
    BY <2>4
<1> QED
  BY <1>2 DEF LastCheckpoint

\* What another process finds on disk, event by event.
LEMMA FoundType ==
  ASSUME TraceTypeInv
  PROVE  /\ OnDisk \in Seq(Event) /\ Len(OnDisk) = onDisk /\ DOMAIN OnDisk = 1..onDisk
         /\ onDisk \in Nat /\ onDisk <= Len(emitted) /\ Len(emitted) \in Nat
         /\ DOMAIN emitted = 1..Len(emitted)
         /\ \A i \in 1..onDisk : OnDisk[i] = emitted[i] /\ i \in DOMAIN emitted
<1>1. emitted \in Seq(Event) /\ onDisk \in 0..Len(emitted) /\ Len(emitted) \in Nat
  BY DEF TraceTypeInv
<1> QED
  BY <1>1 DEF OnDisk

\* What comes after a place in a trace.
LEMMA Later ==
  ASSUME NEW t \in Seq(Event), NEW k \in 1..Len(t), NEW late, late = SubSeq(t, k + 1, Len(t))
  PROVE  /\ late \in Seq(Event) /\ Len(late) = Len(t) - k /\ DOMAIN late = 1..(Len(t) - k)
         /\ \A j \in 1..(Len(t) - k) : late[j] = t[k + j]
  OBVIOUS

\* After a start that no checkpoint follows no other operation is in flight.
LEMMA OnlyTools ==
  ASSUME NEW e \in Seq(Event), NEW t \in Seq(Event), Ordered(e), Len(t) <= Len(e),
         \A i \in 1..Len(t) : t[i] = e[i],
         NEW k \in 1..Len(t), \A j \in CheckpointsOf(t) : j <= k,
         NEW s \in 1..Len(t), IsStart(t[s]), k < s,
         NEW op \in LastOps
  PROVE  ~InFlightOp(SubSeq(t, k + 1, Len(t)), op)
<1> PICK late : late = SubSeq(t, k + 1, Len(t))
  OBVIOUS
<1> PICK n : n = Len(t)
  OBVIOUS
<1> PICK d : d = n - k
  OBVIOUS
<1> SUFFICES ASSUME InFlightOp(late, op)
             PROVE  FALSE
  OBVIOUS
<1>1. /\ n \in Nat /\ k \in Nat /\ s \in Nat /\ d \in Nat
      /\ 1 <= k /\ k < s /\ s <= n
  OBVIOUS
<1>2. DOMAIN t = 1..n /\ \A i \in 1..n : i \in DOMAIN e /\ t[i] = e[i]
  OBVIOUS
<1>3. Len(late) = d /\ DOMAIN late = 1..d /\ \A j \in 1..d : late[j] = t[k + j]
  BY Later
<1>4. PICK b \in 1..d : late[b].event = op /\ ~late[b].over /\ \A j \in (b + 1)..d : late[j].event # op
  BY <1>3 DEF InFlightOp
<1> PICK g : g = k + b
  OBVIOUS
<1>5. g \in Nat /\ k < g /\ g <= n
  BY ONLY <1>1, d = n - k, b \in 1..d, g = k + b
<1>6. t[g] = late[b]
  BY <1>3
<1>7. e[g].event = op /\ ~e[g].over /\ g \in DOMAIN e
  BY <1>1, <1>2, <1>4, <1>5, <1>6
<1>8. s \in Starts(e) /\ IsStart(e[s])
  BY <1>1, <1>2 DEF Starts
<1>9. g # s
  BY <1>7, <1>8 DEF IsStart, LastOps
<1>10. CASE s < g
  <2>1. PICK c \in CheckpointsOf(e) : s < c /\ c < g
    BY <1>7, <1>8, <1>10 DEF Ordered, ToolsComeLast
  <2>2. c \in 1..Len(e) /\ e[c].event = "checkpoint"
    BY <2>1 DEF CheckpointsOf
  <2>3. c \in Nat /\ c \in 1..n
    BY <1>1, <1>5, <2>1, <2>2
  <2>4. c \in CheckpointsOf(t)
    BY <1>2, <2>2, <2>3 DEF CheckpointsOf
  <2>5. c <= k
    BY <2>4
  <2> QED
    BY ONLY <1>1, <2>1, <2>3, <2>5
<1>11. CASE g < s
  <2>1. PICK l \in DOMAIN e : g < l /\ l < s /\ e[l].event = op
    BY <1>7, <1>8, <1>11 DEF Ordered, OverBeforeTools
  <2>2. l \in Nat
    OBVIOUS
  <2>3. l \in 1..n /\ l - k \in (b + 1)..d /\ l - k \in 1..d /\ k + (l - k) = l
    BY ONLY <1>1, <1>5, <2>1, <2>2, d = n - k, b \in 1..d, g = k + b
  <2>4. late[l - k] = t[l]
    BY <1>3, <2>3
  <2>5. late[l - k].event = op
    BY <1>2, <2>1, <2>3, <2>4
  <2> QED
    BY <1>4, <2>3, <2>5
<1> QED
  BY <1>1, <1>5, <1>9, <1>10, <1>11

\* A status that lets a run be taken up rules out tools and hooks in flight.
LEMMA TakenUpStatus ==
  ASSUME TakenUp(TRUE, FALSE)
  PROVE  /\ CheckpointsOf(OnDisk) # {}
         /\ InFlightTools(AfterCheckpoint(OnDisk)) = {}
         /\ ~InFlightOp(AfterCheckpoint(OnDisk), "hook")
         /\ \/ \E op \in LastOps : InFlightOp(AfterCheckpoint(OnDisk), op)
            \/ runJson.state \in {"Completed", "Interrupted"}
<1> PICK late : late = AfterCheckpoint(OnDisk)
  OBVIOUS
<1> PICK tools : tools = InFlightTools(late)
  OBVIOUS
<1>1. RecoveryStatus(TRUE, FALSE) \in SafeToResume \cup SafeToContinue
  BY DEF TakenUp
<1>2. RecoveryStatus(TRUE, FALSE) \notin
        {"LegacyNonResumable", "IncompatibleTrace", "InterruptedAmbiguousTool",
         "InterruptedAmbiguousHook", "FailedWithCheckpoint", "UnfinalizedRunning"}
  BY <1>1 DEF SafeToResume, SafeToContinue
<1>3. CheckpointsOf(OnDisk) # {} /\ runJson.state \notin {"absent", "torn"}
  BY <1>2 DEF RecoveryStatus
<1>4. tools = {}
  BY <1>2, <1>3 DEF RecoveryStatus
<1>5. ~InFlightOp(late, "hook")
  BY <1>2, <1>3, <1>4 DEF RecoveryStatus
<1>6. ASSUME \A op \in LastOps : ~InFlightOp(late, op)
      PROVE  runJson.state \in {"Completed", "Interrupted"}
  <2>1. /\ ~InFlightOp(late, "approval") /\ ~InFlightOp(late, "policy")
        /\ ~InFlightOp(late, "provider") /\ ~InFlightOp(late, "context")
    BY <1>6 DEF LastOps
  <2>2. RecoveryStatus(TRUE, FALSE) = LifecycleStatus \/
        RecoveryStatus(TRUE, FALSE) = "IncompatibleTrace"
    BY <1>3, <1>4, <1>5, <2>1 DEF RecoveryStatus
  <2>3. LifecycleStatus \notin {"FailedWithCheckpoint", "UnfinalizedRunning"}
    BY <1>2, <2>2
  <2> QED
    BY <2>3 DEF LifecycleStatus
<1> QED
  BY <1>3, <1>4, <1>5, <1>6

LEMMA Safe ==
  ASSUME TraceInv
  PROVE  ResumeRepeatsNothing
<1> SUFFICES ASSUME TakenUp(TRUE, FALSE), NEW c \in ran, c \notin Restored
             PROVE  FALSE
  BY DEF ResumeRepeatsNothing
<1> PICK t : t = OnDisk
  OBVIOUS
<1> PICK k : k = LastCheckpoint(t)
  OBVIOUS
<1> PICK late : late = AfterCheckpoint(t)
  OBVIOUS
<1>1. /\ t \in Seq(Event) /\ Len(t) = onDisk /\ DOMAIN t = 1..onDisk
      /\ onDisk \in Nat /\ onDisk <= Len(emitted) /\ Len(emitted) \in Nat
      /\ DOMAIN emitted = 1..Len(emitted)
      /\ \A i \in 1..onDisk : t[i] = emitted[i] /\ i \in DOMAIN emitted
      /\ emitted \in Seq(Event) /\ ran \subseteq ToolCalls
  BY FoundType DEF TraceInv, TraceTypeInv
<1>2. k \in CheckpointsOf(t) /\ \A j \in CheckpointsOf(t) : j <= k
  BY <1>1, TakenUpStatus, LastCheckpointIsLast
<1>3. k \in 1..Len(t) /\ t[k].event = "checkpoint" /\ k \in CheckpointsOf(emitted)
  BY <1>1, <1>2 DEF CheckpointsOf
<1>4. PICK s \in 1..onDisk : emitted[s] = ToolExecutionStarted(c)
  BY DEF TraceInv, StartsOnDisk
<1>5. s \in Starts(emitted) /\ emitted[s].ids = {c} /\ IsStart(t[s])
  BY <1>1, <1>4 DEF Starts, IsStart, ToolExecutionStarted
<1>6. k < s
  <2>1. ~(s < k)
    <3> SUFFICES ASSUME s < k
                 PROVE  FALSE
      OBVIOUS
    <3>1. emitted[s].ids \subseteq emitted[k].ids
      BY <1>3, <1>5 DEF TraceInv, OrderInv, Ordered, CheckpointsKnow
    <3>2. Restored = t[k].ids
      BY DEF Restored
    <3> QED
      BY <1>1, <1>3, <1>5, <3>1, <3>2
  <2>2. s # k
    BY <1>1, <1>3, <1>5 DEF IsStart
  <2> QED
    BY <1>1, <1>3, <2>1, <2>2
<1>7. \A op \in LastOps : ~InFlightOp(late, op)
  BY <1>1, <1>2, <1>3, <1>5, <1>6, OnlyTools DEF TraceInv, OrderInv, AfterCheckpoint
<1>8. runJson.state \in {"Completed", "Interrupted"}
  BY <1>7, TakenUpStatus
<1>9. onDisk = Len(emitted)
  BY <1>8 DEF TraceInv, ManifestLast
<1>10. ~CaughtUp(emitted)
  <2> SUFFICES ASSUME CaughtUp(emitted)
               PROVE  FALSE
    OBVIOUS
  <2>1. PICK j \in CheckpointsOf(emitted) : s < j
    BY <1>5 DEF CaughtUp
  <2>2. j \in CheckpointsOf(t) /\ j \in Nat /\ k \in Nat /\ s \in Nat
    BY <1>1, <1>3, <1>9 DEF CheckpointsOf
  <2>3. j <= k
    BY <1>2, <2>2
  <2> QED
    BY ONLY <1>6, <2>1, <2>2, <2>3
<1>11. Ambiguous(emitted)
  BY <1>8, <1>10 DEF TraceInv, OverInv
<1>12. /\ late \in Seq(Event) /\ Len(late) = onDisk - k /\ DOMAIN late = 1..(onDisk - k)
       /\ \A j \in 1..(onDisk - k) : late[j] = t[k + j]
  <2>1. late = SubSeq(t, k + 1, Len(t))
    BY DEF AfterCheckpoint
  <2> QED
    BY <1>1, <1>3, <2>1, Later
<1> PICK n : n = onDisk - k
  OBVIOUS
<1>13. n \in 1..n /\ late[n] = emitted[Len(emitted)] /\ DOMAIN late = 1..n /\ Len(late) = n
       /\ n \in Nat
  BY <1>1, <1>3, <1>6, <1>9, <1>12
<1>14. \A j \in (n + 1)..n : FALSE
  BY <1>13
<1>15. CASE late[n] = Begun("hook")
  <2>1. InFlightOp(late, "hook")
    BY <1>13, <1>14, <1>15 DEF InFlightOp, Begun
  <2> QED
    BY <2>1, TakenUpStatus
<1>16. CASE \E d \in ToolCalls : late[n] = ToolExecutionStarted(d)
  <2>1. PICK d \in ToolCalls : late[n] = ToolExecutionStarted(d)
    BY <1>16
  <2>2. d \in InFlightTools(late)
    BY <1>13, <1>14, <2>1 DEF InFlightTools
  <2> QED
    BY <2>2, TakenUpStatus
<1> QED
  BY <1>11, <1>13, <1>15, <1>16 DEF Ambiguous

-----------------------------------------------------------------------------
(* Every step keeps the invariant. *)

Enumerates(f, S) == f \in Seq(S) /\ \A x \in S : \E k \in 1..Len(f) : f[k] = x

\* SetToSeq orders all of a finite set.
LEMMA SetInOrder ==
  ASSUME NEW S, IsFiniteSet(S)
  PROVE  Enumerates(SetToSeq(S), S)
<1> PICK f : f = SetToSeq(S)
  OBVIOUS
<1> PICK n : n = Cardinality(S)
  OBVIOUS
<1>1. n \in Nat /\ Bijection(1..n, S) # {}
  BY FS_CardinalityType DEF ExistsBijection
<1>2. PICK g \in Bijection(1..n, S) : TRUE
  BY <1>1
<1>3. g \in [1..n -> S] /\ IsInjective(g)
  BY <1>2 DEF Bijection, Injection
<1>4. f \in [1..n -> S] /\ IsInjective(f)
  BY <1>3 DEF SetToSeq
<1>5. f \in Injection(1..n, S)
  BY <1>4 DEF Injection
<1>6. Cardinality(1..n) = n
  BY <1>1, FS_Interval
<1>7. f \in Surjection(1..n, S)
  BY <1>5, <1>6, FS_Injection
<1>8. \A x \in S : \E k \in 1..n : f[k] = x
  BY <1>7 DEF Surjection
<1>9. f \in Seq(S) /\ Len(f) = n
  BY <1>1, <1>4
<1> QED
  BY <1>8, <1>9 DEF Enumerates

StartsOf(ev, group) ==
  /\ ev \in Seq(Event) /\ Len(ev) \in Nat /\ Len(ev) > 0
  /\ \A k \in 1..Len(ev) : \E c \in group : ev[k] = ToolExecutionStarted(c)
  /\ \A c \in group : \E k \in 1..Len(ev) : ev[k] = ToolExecutionStarted(c)

\* The starts of a group of calls.
LEMMA GroupStarts ==
  ASSUME NEW group, group \subseteq ToolCalls, group # {},
         NEW ev, ev = SetToSeq({ToolExecutionStarted(c) : c \in group})
  PROVE  StartsOf(ev, group)
<1> DEFINE T == {ToolExecutionStarted(c) : c \in group}
<1>1. IsFiniteSet(group)
  BY TraceAssumption, FS_Subset
<1>2. [c \in group |-> ToolExecutionStarted(c)] \in Surjection(group, T)
  BY DEF Surjection
<1>3. \A x \in T : \E c \in group : x = ToolExecutionStarted(c)
  OBVIOUS
<1>4. \A c \in group : ToolExecutionStarted(c) \in T /\ ToolExecutionStarted(c) \in Event
  BY DEF Event, ToolExecutionStarted
<1>5. ev = SetToSeq(T)
  OBVIOUS
<1> HIDE DEF T
<1>6. IsFiniteSet(T)
  BY <1>1, <1>2, FS_Surjection
<1>7. ev \in Seq(T) /\ \A x \in T : \E k \in 1..Len(ev) : ev[k] = x
  <2>1. Enumerates(ev, T)
    BY <1>5, <1>6, SetInOrder
  <2> QED
    BY <2>1 DEF Enumerates
<1>8. T \subseteq Event
  BY <1>3, <1>4
<1>9. ev \in Seq(Event) /\ Len(ev) \in Nat /\ \A k \in 1..Len(ev) : ev[k] \in T
  <2>1. Len(ev) \in Nat /\ ev \in [1..Len(ev) -> T]
    BY ONLY <1>7
  <2>2. ev \in [1..Len(ev) -> Event]
    BY ONLY <1>8, <2>1
  <2>3. ev \in Seq(Event)
    BY ONLY <2>1, <2>2
  <2> QED
    BY <2>1, <2>3
<1>10. \A k \in 1..Len(ev) : \E c \in group : ev[k] = ToolExecutionStarted(c)
  BY <1>3, <1>9
<1>11. \A c \in group : \E k \in 1..Len(ev) : ev[k] = ToolExecutionStarted(c)
  BY <1>4, <1>7
<1>12. Len(ev) > 0
  BY <1>9, <1>11
<1> QED
  BY <1>9, <1>10, <1>11, <1>12 DEF StartsOf

\* What a step that emits quiet events leaves of the invariant.
QuietlyKept ==
  /\ emitted' \in Seq(Event) /\ onDisk' \in 0..Len(emitted')
  /\ Ordered(emitted')
  /\ CaughtUp(emitted) => CaughtUp(emitted')
  /\ \A i \in Starts(emitted') : i \in Starts(emitted) /\ emitted'[i] = emitted[i]
  /\ \A c \in ran \cup started : \E i \in 1..onDisk' : emitted'[i] = ToolExecutionStarted(c)

LEMMA QuietStep ==
  ASSUME TraceInv, NEW ev \in Seq(Event), Emit(ev), AllQuiet(ev),
         CaughtUp(emitted) \/ \A k \in 1..Len(ev) : ev[k].event \notin LastOps
  PROVE  QuietlyKept
<1> PICK t : t = emitted
  OBVIOUS
<1> PICK u : u = emitted'
  OBVIOUS
<1>1. t \in Seq(Event) /\ onDisk \in 0..Len(t) /\ Ordered(t) /\ u = t \o ev
  BY DEF TraceInv, TraceTypeInv, OrderInv, Emit
<1>2. /\ u \in Seq(Event) /\ Len(u) = Len(t) + Len(ev) /\ Len(t) \in Nat /\ Len(ev) \in Nat
      /\ \A i \in 1..Len(t) : u[i] = t[i]
  BY <1>1, Appended
<1>3. onDisk' \in {onDisk} \cup (Len(t) + 1)..Len(u)
  BY DEF Emit
<1>4. onDisk' \in 0..Len(u) /\ onDisk' >= onDisk /\ onDisk \in Nat /\ onDisk' \in Nat
  BY <1>1, <1>2, <1>3
<1>5. Ordered(u)
  BY <1>1, QuietOrder
<1>6. SameMarks(t, u)
  BY <1>1, QuietEvents
<1>7. ASSUME NEW c \in ran \cup started
      PROVE  \E i \in 1..onDisk' : u[i] = ToolExecutionStarted(c)
  <2>1. PICK i \in 1..onDisk : t[i] = ToolExecutionStarted(c)
    BY DEF TraceInv, StartsOnDisk
  <2>2. i \in 1..Len(t) /\ i \in 1..onDisk'
    BY <1>1, <1>2, <1>4
  <2> QED
    BY <1>2, <2>1, <2>2
<1> QED
  BY <1>2, <1>4, <1>5, <1>6, <1>7 DEF QuietlyKept, SameMarks

\* What the steps before the tools share.
AskingFrame ==
  /\ step' \in Asking \cup RunOver \cup {"turnEnd", "execute"}
  /\ proposed' \in [{"policy", "confirm", "execute"} -> SUBSET ToolCalls]
  /\ unanswered' \subseteq ToolCalls
  /\ prompted' \in BOOLEAN /\ runJson' = runJson /\ ran' = ran /\ started' = started

LEMMA AskingKept ==
  ASSUME TraceInv, step \in Asking, AskingFrame, QuietlyKept,
         step' \notin RunOver => Settled(emitted', Opened')
  PROVE  TraceInv'
<1>1. /\ CaughtUp(emitted) /\ CaughtUp(emitted') /\ started = {} /\ runJson.state = "Running"
      /\ \A i \in Starts(emitted) : emitted[i].ids \subseteq ran \cup started
      /\ runJson' = runJson /\ ran' = ran /\ started' = started
      /\ step' \notin {"new", "saving", "begin", "running", "over"}
  BY DEF TraceInv, OrderInv, StartsRun, ManifestLast, QuietlyKept, Asking, Answering, AskingFrame,
         RunOver
<1>2. TraceTypeInv'
  BY DEF TraceInv, TraceTypeInv, QuietlyKept, AskingFrame, TraceSteps, Asking, Answering, RunOver
<1>3. StartsOnDisk'
  BY <1>1 DEF QuietlyKept, StartsOnDisk
<1>4. StartsRun'
  BY <1>1 DEF QuietlyKept, StartsRun
<1>5. OrderInv'
  BY <1>1 DEF QuietlyKept, OrderInv, Asking, Answering, RunOver
<1>6. OverInv'
  BY <1>1 DEF OverInv
<1>7. ManifestLast'
  BY <1>1 DEF ManifestLast, RunOver
<1> QED
  BY <1>2, <1>3, <1>4, <1>5, <1>6, <1>7 DEF TraceInv

LEMMA AskingEmits ==
  ASSUME TraceInv, step \in Asking, AskingFrame, NEW ev \in Seq(Event), Emit(ev), AllQuiet(ev),
         NEW next, Opened' = next \/ step' \in RunOver,
         Opened = next \/ Opened = "none" \/ \E k \in 1..Len(ev) : ev[k].event = Opened,
         \A k \in 1..Len(ev) : ev[k].event \in LastOps /\ ~ev[k].over => ev[k].event = next
  PROVE  TraceInv'
<1>1. CaughtUp(emitted) /\ Settled(emitted, Opened) /\ emitted \in Seq(Event)
  BY DEF TraceInv, TraceTypeInv, OrderInv
<1>2. QuietlyKept
  BY <1>1, QuietStep
<1>3. emitted' = emitted \o ev
  BY DEF Emit
<1> PICK open : open = Opened
  OBVIOUS
<1>4. Settled(emitted', next)
  BY <1>1, <1>3, SettledBy
<1> QED
  BY <1>2, <1>4, AskingKept

\* A step that emits nothing.
LEMMA SilentStep ==
  ASSUME TraceInv, emitted' = emitted, onDisk' = onDisk
  PROVE  QuietlyKept
  BY DEF TraceInv, TraceTypeInv, StartsOnDisk, OrderInv, QuietlyKept

LEMMA AskingSilent ==
  ASSUME TraceInv, step \in Asking, AskingFrame, emitted' = emitted, onDisk' = onDisk,
         Opened = "none", Opened' = "none"
  PROVE  TraceInv'
<1>1. QuietlyKept
  BY SilentStep
<1>2. Settled(emitted, "none")
  BY DEF TraceInv, OrderInv
<1> QED
  BY <1>1, <1>2, AskingKept

\* The events of one operation.
LEMMA BeginsOne ==
  ASSUME NEW op \in LastOps, NEW ev, ev = <<Begun(op)>>
  PROVE  /\ ev \in Seq(Event) /\ AllQuiet(ev)
         /\ \A k \in 1..Len(ev) : ev[k].event \in LastOps /\ ~ev[k].over => ev[k].event = op
<1>1. Begun(op) \in Event /\ Quiet(Begun(op)) /\ Begun(op).event = op
  BY DEF Begun, Event, Quiet, IsStart, LastOps
<1>2. ev \in Seq(Event) /\ Len(ev) = 1 /\ ev[1] = Begun(op)
  BY <1>1
<1> QED
  BY <1>1, <1>2 DEF AllQuiet

LEMMA EndsOne ==
  ASSUME NEW op \in LastOps, NEW ev, ev = <<Over(op)>>
  PROVE  /\ ev \in Seq(Event) /\ AllQuiet(ev)
         /\ \A k \in 1..Len(ev) : ev[k].over
         /\ \E k \in 1..Len(ev) : ev[k].event = op
<1>1. Over(op) \in Event /\ Quiet(Over(op)) /\ Over(op).event = op /\ Over(op).over
  BY DEF Over, Event, Quiet, IsStart, LastOps
<1>2. ev \in Seq(Event) /\ Len(ev) = 1 /\ ev[1] = Over(op)
  BY <1>1
<1> QED
  BY <1>1, <1>2 DEF AllQuiet

LEMMA SnapshotTaken ==
  ASSUME NEW ev, ev = <<PromptSnapshotCreated, Over("context")>>
  PROVE  /\ ev \in Seq(Event) /\ AllQuiet(ev)
         /\ \A k \in 1..Len(ev) : ev[k].over
         /\ \E k \in 1..Len(ev) : ev[k].event = "context"
<1> DEFINE a == PromptSnapshotCreated
           b == Over("context")
<1>1. /\ a \in Event /\ Quiet(a) /\ a.over
      /\ b \in Event /\ Quiet(b) /\ b.event = "context" /\ b.over
  BY DEF Over, PromptSnapshotCreated, Event, Quiet, IsStart, LastOps
<1>2. ev = <<a, b>>
  OBVIOUS
<1> HIDE DEF a, b
<1>3. ev \in Seq(Event) /\ Len(ev) = 2 /\ ev[1] = a /\ ev[2] = b
  BY <1>1, <1>2
<1>4. \A k \in 1..Len(ev) : k = 1 \/ k = 2
  BY <1>3
<1> QED
  BY <1>1, <1>3, <1>4 DEF AllQuiet

LEMMA LoopTopKeeps ==
  ASSUME TraceInv, LoopTop
  PROVE  TraceInv'
<1>1. step = "loop" /\ step \in Asking /\ Opened = "none"
  BY DEF LoopTop, Asking, Opened
<1>2. AskingFrame
  BY DEF LoopTop, End, files, batch, TraceInv, TraceTypeInv, AskingFrame, Asking, RunOver
<1>3. CASE emitted' = emitted /\ onDisk' = onDisk /\ step' \in RunOver
  BY <1>1, <1>2, <1>3, AskingSilent DEF Opened, RunOver
<1>4. CASE step' = "context" /\ Emit(<<Begun("context")>>)
  <2> PICK ev : ev = <<Begun("context")>>
    OBVIOUS
  <2>1. /\ ev \in Seq(Event) /\ AllQuiet(ev)
        /\ \A k \in 1..Len(ev) : ev[k].event \in LastOps /\ ~ev[k].over => ev[k].event = "context"
    BY BeginsOne DEF LastOps
  <2>2. Opened' = "context"
    BY <1>4 DEF Opened
  <2>3. Emit(ev)
    BY <1>4
  <2> QED
    BY <1>1, <1>2, <2>1, <2>2, <2>3, AskingEmits
<1> QED
  BY <1>3, <1>4 DEF LoopTop, End, RunOver

LEMMA BuildContextKeeps ==
  ASSUME TraceInv, BuildContext
  PROVE  TraceInv'
<1>1. step = "context" /\ step \in Asking /\ Opened = "context"
  BY DEF BuildContext, Asking, Opened
<1>2. AskingFrame /\ (Opened' = "none" \/ step' \in RunOver)
  BY DEF BuildContext, End, batch, TraceInv, TraceTypeInv, AskingFrame, Asking, RunOver, Opened
<1>3. ASSUME NEW ev, Emit(ev),
             ev = <<Over("context")>> \/ ev = <<PromptSnapshotCreated, Over("context")>>
      PROVE  TraceInv'
  <2>1. /\ ev \in Seq(Event) /\ AllQuiet(ev)
        /\ \A k \in 1..Len(ev) : ev[k].over
        /\ \E k \in 1..Len(ev) : ev[k].event = "context"
    BY <1>3, EndsOne, SnapshotTaken DEF LastOps
  <2> QED
    BY <1>1, <1>2, <1>3, <2>1, AskingEmits
<1>4. Emit(<<Over("context")>>) \/ Emit(<<PromptSnapshotCreated, Over("context")>>)
  BY DEF BuildContext
<1> QED
  BY <1>3, <1>4

LEMMA AskProviderKeeps ==
  ASSUME TraceInv, AskProvider
  PROVE  TraceInv'
<1> PICK ev : ev = <<Begun("provider")>>
  OBVIOUS
<1>1. step = "request" /\ step \in Asking /\ Opened = "none" /\ Opened' = "provider"
  BY DEF AskProvider, Asking, Opened
<1>2. AskingFrame
  BY DEF AskProvider, files, batch, TraceInv, TraceTypeInv, AskingFrame, Asking
<1>3. Emit(ev)
  BY DEF AskProvider
<1>4. /\ ev \in Seq(Event) /\ AllQuiet(ev)
      /\ \A k \in 1..Len(ev) : ev[k].event \in LastOps /\ ~ev[k].over => ev[k].event = "provider"
  BY BeginsOne DEF LastOps
<1> QED
  BY <1>1, <1>2, <1>3, <1>4, AskingEmits

LEMMA StreamKeeps ==
  ASSUME TraceInv, Stream
  PROVE  TraceInv'
<1> PICK ev : ev = <<Over("provider")>>
  OBVIOUS
<1>1. step = "stream" /\ step \in Asking /\ Opened = "provider"
  BY DEF Stream, Asking, Opened
<1>2. AskingFrame
  <2>1. /\ runJson' = runJson /\ ran' = ran /\ started' = started
        /\ prompted' \in BOOLEAN
    BY DEF Stream, files, TraceInv, TraceTypeInv
  <2>2. step' \in Asking \cup RunOver \cup {"turnEnd", "execute"}
    BY DEF Stream, End, Asking, RunOver
  <2>3. /\ proposed' \in [{"policy", "confirm", "execute"} -> SUBSET ToolCalls]
        /\ unanswered' \subseteq ToolCalls
    <3>1. /\ proposed \in [{"policy", "confirm", "execute"} -> SUBSET ToolCalls]
          /\ unanswered \subseteq ToolCalls
      BY DEF TraceInv, TraceTypeInv
    <3>2. ASSUME NEW calls \in SUBSET (ToolCalls \ ran),
                 proposed' = [NoCalls EXCEPT !.policy = calls], unanswered' = calls
          PROVE  /\ proposed' \in [{"policy", "confirm", "execute"} -> SUBSET ToolCalls]
                 /\ unanswered' \subseteq ToolCalls
      BY <3>2 DEF NoCalls
    <3>3. \/ UNCHANGED <<proposed, unanswered>>
          \/ \E calls \in SUBSET (ToolCalls \ ran) :
               proposed' = [NoCalls EXCEPT !.policy = calls] /\ unanswered' = calls
      BY DEF Stream
    <3> QED
      BY <3>1, <3>2, <3>3
  <2> QED
    BY <2>1, <2>2, <2>3 DEF AskingFrame
<1>3. Emit(ev) /\ (Opened' = "none" \/ step' \in RunOver)
  BY DEF Stream, End, RunOver, Opened
<1>4. /\ ev \in Seq(Event) /\ AllQuiet(ev)
      /\ \A k \in 1..Len(ev) : ev[k].over
      /\ \E k \in 1..Len(ev) : ev[k].event = "provider"
  BY EndsOne DEF LastOps
<1> QED
  BY <1>1, <1>2, <1>3, <1>4, AskingEmits

LEMMA PolicyStartsKeeps ==
  ASSUME TraceInv, PolicyStarts
  PROVE  TraceInv'
<1>1. step = "policy" /\ step \in Asking /\ Opened = "none"
  BY DEF PolicyStarts, Asking, Opened
<1>2. AskingFrame
  BY DEF PolicyStarts, files, batch, TraceInv, TraceTypeInv, AskingFrame, Asking
<1>3. CASE emitted' = emitted /\ onDisk' = onDisk /\ step' = "confirm"
  BY <1>1, <1>2, <1>3, AskingSilent DEF Opened
<1>4. CASE step' = "judging" /\ Emit(<<Begun("policy")>>)
  <2> PICK ev : ev = <<Begun("policy")>>
    OBVIOUS
  <2>1. /\ ev \in Seq(Event) /\ AllQuiet(ev)
        /\ \A k \in 1..Len(ev) : ev[k].event \in LastOps /\ ~ev[k].over => ev[k].event = "policy"
    BY BeginsOne DEF LastOps
  <2>2. Opened' = "policy"
    BY <1>4 DEF Opened
  <2>3. Emit(ev)
    BY <1>4
  <2> QED
    BY <1>1, <1>2, <2>1, <2>2, <2>3, AskingEmits
<1> QED
  BY <1>3, <1>4 DEF PolicyStarts

LEMMA PolicyDecidesKeeps ==
  ASSUME TraceInv, PolicyDecides
  PROVE  TraceInv'
<1> PICK ev : ev = <<Over("policy")>>
  OBVIOUS
<1>1. step = "judging" /\ step \in Asking /\ Opened = "policy"
  BY DEF PolicyDecides, Asking, Opened
<1>2. AskingFrame
  <2>1. /\ runJson' = runJson /\ ran' = ran /\ started' = started
        /\ unanswered' \subseteq ToolCalls /\ prompted' \in BOOLEAN
    BY DEF PolicyDecides, files, TraceInv, TraceTypeInv
  <2>2. step' \in Asking \cup RunOver \cup {"turnEnd", "execute"}
    BY DEF PolicyDecides, End, Asking, RunOver
  <2>3. proposed \in [{"policy", "confirm", "execute"} -> SUBSET ToolCalls]
    BY DEF TraceInv, TraceTypeInv
  <2>4. ASSUME NEW c \in proposed.policy, NEW stages \in {{}, {"confirm"}, {"execute"}},
               Judged(c, stages)
        PROVE  proposed' \in [{"policy", "confirm", "execute"} -> SUBSET ToolCalls]
    BY <2>3, <2>4 DEF Judged
  <2>5. proposed' \in [{"policy", "confirm", "execute"} -> SUBSET ToolCalls]
    BY <2>3, <2>4 DEF PolicyDecides
  <2> QED
    BY <2>1, <2>2, <2>5 DEF AskingFrame
<1>3. Emit(ev) /\ (Opened' = "none" \/ step' \in RunOver)
  BY DEF PolicyDecides, End, RunOver, Opened
<1>4. /\ ev \in Seq(Event) /\ AllQuiet(ev)
      /\ \A k \in 1..Len(ev) : ev[k].over
      /\ \E k \in 1..Len(ev) : ev[k].event = "policy"
  BY EndsOne DEF LastOps
<1> QED
  BY <1>1, <1>2, <1>3, <1>4, AskingEmits

LEMMA RequestApprovalKeeps ==
  ASSUME TraceInv, RequestApproval
  PROVE  TraceInv'
<1>1. step = "confirm" /\ step \in Asking /\ Opened = "none"
  BY DEF RequestApproval, Asking, Opened
<1>2. AskingFrame
  BY DEF RequestApproval, files, batch, TraceInv, TraceTypeInv, AskingFrame, Asking
<1>3. CASE emitted' = emitted /\ onDisk' = onDisk /\ step' = "execute"
  BY <1>1, <1>2, <1>3, AskingSilent DEF Opened
<1>4. CASE step' = "asking" /\ Emit(<<Begun("approval")>>)
  <2> PICK ev : ev = <<Begun("approval")>>
    OBVIOUS
  <2>1. /\ ev \in Seq(Event) /\ AllQuiet(ev)
        /\ \A k \in 1..Len(ev) : ev[k].event \in LastOps /\ ~ev[k].over => ev[k].event = "approval"
    BY BeginsOne DEF LastOps
  <2>2. Opened' = "approval"
    BY <1>4 DEF Opened
  <2>3. Emit(ev)
    BY <1>4
  <2> QED
    BY <1>1, <1>2, <2>1, <2>2, <2>3, AskingEmits
<1> QED
  BY <1>3, <1>4 DEF RequestApproval

LEMMA ApprovalArrivesKeeps ==
  ASSUME TraceInv, ApprovalArrives
  PROVE  TraceInv'
<1>1. step = "asking" /\ step \in Asking /\ Opened = "approval"
  BY DEF ApprovalArrives, Asking, Opened
<1>2. AskingFrame
  <2>1. /\ runJson' = runJson /\ ran' = ran /\ started' = started
        /\ unanswered' \subseteq ToolCalls /\ prompted' \in BOOLEAN
    BY DEF ApprovalArrives, files, TraceInv, TraceTypeInv
  <2>2. step' \in Asking \cup RunOver \cup {"turnEnd", "execute"}
    BY DEF ApprovalArrives, End, Asking, RunOver
  <2>3. proposed' \in [{"policy", "confirm", "execute"} -> SUBSET ToolCalls]
    <3>1. proposed \in [{"policy", "confirm", "execute"} -> SUBSET ToolCalls]
      BY DEF TraceInv, TraceTypeInv
    <3>2. ASSUME NEW c \in proposed.confirm, NEW granted \in {{}, {c}},
                 proposed' = [proposed EXCEPT !.confirm = @ \ {c}, !.execute = @ \cup granted]
          PROVE  proposed' \in [{"policy", "confirm", "execute"} -> SUBSET ToolCalls]
      BY <3>1, <3>2
    <3>3. \/ proposed' = proposed
          \/ \E c \in proposed.confirm : \E granted \in {{}, {c}} :
               proposed' = [proposed EXCEPT !.confirm = @ \ {c}, !.execute = @ \cup granted]
      BY DEF ApprovalArrives
    <3> QED
      BY <3>1, <3>2, <3>3
  <2> QED
    BY <2>1, <2>2, <2>3 DEF AskingFrame
<1>3. CASE Emit(<<Over("approval")>>)
  <2> PICK ev : ev = <<Over("approval")>>
    OBVIOUS
  <2>1. Opened' = "none" \/ step' \in RunOver
    BY DEF ApprovalArrives, End, RunOver, Opened
  <2>2. /\ ev \in Seq(Event) /\ AllQuiet(ev)
        /\ \A k \in 1..Len(ev) : ev[k].over
        /\ \E k \in 1..Len(ev) : ev[k].event = "approval"
    BY EndsOne DEF LastOps
  <2>3. Emit(ev)
    BY <1>3
  <2> QED
    BY <1>1, <1>2, <2>1, <2>2, <2>3, AskingEmits
<1>4. CASE emitted' = emitted /\ onDisk' = onDisk /\ step' = "Failed"
  BY <1>1, <1>2, <1>4, SilentStep, AskingKept DEF RunOver
<1> QED
  BY <1>3, <1>4 DEF ApprovalArrives, End

\* What is on disk stays there.
EmittedWell ==
  /\ emitted' \in Seq(Event) /\ onDisk' \in 0..Len(emitted')
  /\ \A c \in ran \cup started : \E i \in 1..onDisk' : emitted'[i] = ToolExecutionStarted(c)

LEMMA EmitTypes ==
  ASSUME TraceInv, NEW ev \in Seq(Event), Emit(ev) \/ EmitAndFlush(ev)
  PROVE  EmittedWell
<1> PICK t : t = emitted
  OBVIOUS
<1> PICK u : u = emitted'
  OBVIOUS
<1>1. t \in Seq(Event) /\ onDisk \in 0..Len(t) /\ u = t \o ev
  BY DEF TraceInv, TraceTypeInv, Emit, EmitAndFlush
<1>2. /\ u \in Seq(Event) /\ Len(u) = Len(t) + Len(ev) /\ Len(t) \in Nat /\ Len(ev) \in Nat
      /\ \A i \in 1..Len(t) : u[i] = t[i]
  BY <1>1, Appended
<1>3. onDisk' \in {onDisk} \cup (Len(t) + 1)..Len(u) \/ onDisk' = Len(u)
  BY DEF Emit, EmitAndFlush
<1>4. onDisk' \in 0..Len(u) /\ onDisk' >= onDisk /\ onDisk \in Nat /\ onDisk' \in Nat
  BY <1>1, <1>2, <1>3
<1>5. ASSUME NEW c \in ran \cup started
      PROVE  \E i \in 1..onDisk' : u[i] = ToolExecutionStarted(c)
  <2>1. PICK i \in 1..onDisk : t[i] = ToolExecutionStarted(c)
    BY DEF TraceInv, StartsOnDisk
  <2>2. i \in 1..Len(t) /\ i \in 1..onDisk'
    BY <1>1, <1>2, <1>4
  <2> QED
    BY <1>2, <2>1, <2>2
<1> QED
  BY <1>2, <1>4, <1>5 DEF EmittedWell

\* A checkpoint with the calls that have run, at the begin of the run or the end of a turn.
LEMMA CheckpointKeeps ==
  ASSUME TraceInv, step = "begin" \/ step = "turnEnd", Emit(<<Checkpoint>>),
         step' \in {"loop", "Completed"}, runJson' = runJson, prompted' = prompted,
         proposed' = proposed, unanswered' = unanswered, started' = started, ran' = ran
  PROVE  TraceInv'
<1> PICK t : t = emitted
  OBVIOUS
<1> PICK u : u = emitted'
  OBVIOUS
<1> PICK e : e = Checkpoint
  OBVIOUS
<1> PICK ev : ev = <<e>>
  OBVIOUS
<1>1. /\ t \in Seq(Event) /\ Ordered(t) /\ ran \subseteq ToolCalls
      /\ started = {} /\ runJson.state = "Running"
  BY DEF TraceInv, TraceTypeInv, OrderInv, StartsRun, ManifestLast, Asking, Answering
<1>2. e \in Event /\ e.event = "checkpoint" /\ e.ids = ran
  BY <1>1 DEF Checkpoint, Event
<1>3. \A i \in Starts(t) : t[i].ids \subseteq e.ids
  <2>1. CASE step = "begin"
    BY <2>1 DEF TraceInv, OrderInv, Starts
  <2>2. CASE step = "turnEnd"
    BY <1>1, <1>2, <2>2 DEF TraceInv, StartsRun, Answering
  <2> QED
    BY <2>1, <2>2
<1>4. u = t \o <<e>> /\ u = t \o ev /\ Emit(ev)
  BY DEF Emit
<1>5. /\ Ordered(u) /\ CaughtUp(u)
      /\ \A i \in Starts(u) : i \in Starts(t) /\ u[i] = t[i]
  BY <1>1, <1>2, <1>3, <1>4, CheckpointOrder
<1>6. ev \in Seq(Event) /\ \A k \in 1..Len(ev) : ev[k].event \notin LastOps
  BY <1>2 DEF LastOps
<1>7. Settled(t, "none")
  <2>1. CASE step = "begin"
    BY <2>1 DEF TraceInv, OrderInv, Settled
  <2>2. CASE step = "turnEnd"
    BY <2>2 DEF TraceInv, OrderInv, Answering, Opened
  <2> QED
    BY <2>1, <2>2
<1>8. Settled(u, "none")
  BY <1>1, <1>4, <1>6, <1>7, SettledBy
<1>9. EmittedWell
  BY <1>4, <1>6, EmitTypes
<1>10. TraceTypeInv'
  BY <1>9 DEF TraceInv, TraceTypeInv, EmittedWell, TraceSteps, Asking, RunOver
<1>11. StartsOnDisk'
  BY <1>9 DEF EmittedWell, StartsOnDisk
<1>12. StartsRun'
  <2>1. \A i \in Starts(u) : u[i].ids \subseteq ran \cup started
    BY <1>2, <1>3, <1>5
  <2> QED
    BY <1>1, <2>1 DEF StartsRun
<1>13. OrderInv'
  BY <1>5, <1>8 DEF OrderInv, Asking, Answering, Opened
<1>14. OverInv'
  BY <1>1, <1>5 DEF OverInv
<1>15. ManifestLast'
  BY <1>1 DEF ManifestLast, RunOver, Asking, Answering
<1> QED
  BY <1>10, <1>11, <1>12, <1>13, <1>14, <1>15 DEF TraceInv

\* The calls of a turn run in one group after the other, then they are answered.
LEMMA AnsweringKept ==
  ASSUME TraceInv, step = "execute", QuietlyKept,
         step' \in {"group", "execute", "turnEnd", "Interrupted"},
         proposed' = proposed, unanswered' \subseteq ToolCalls,
         runJson' = runJson, prompted' = prompted, ran' = ran, started' = started,
         IF step' = "Interrupted" THEN Ambiguous(emitted') ELSE Settled(emitted', "none")
  PROVE  TraceInv'
<1>1. /\ started = {} /\ runJson.state = "Running"
      /\ \A i \in Starts(emitted) : emitted[i].ids \subseteq ran \cup started
  BY DEF TraceInv, StartsRun, ManifestLast, Answering
<1>2. TraceTypeInv'
  BY DEF TraceInv, TraceTypeInv, QuietlyKept, TraceSteps, Asking, Answering, RunOver
<1>3. StartsOnDisk'
  BY <1>1 DEF QuietlyKept, StartsOnDisk
<1>4. StartsRun'
  BY <1>1 DEF QuietlyKept, StartsRun
<1>5. OrderInv'
  BY DEF QuietlyKept, OrderInv, Asking, Answering, Opened
<1>6. OverInv'
  BY <1>1 DEF OverInv
<1>7. ManifestLast'
  BY <1>1 DEF ManifestLast, RunOver, Answering, Asking
<1> QED
  BY <1>2, <1>3, <1>4, <1>5, <1>6, <1>7 DEF TraceInv

\* Hooks, and results before them.
HookEvents(ev) ==
  \/ ev = <<Begun("hook")>>
  \/ ev = <<Begun("hook"), Over("hook")>>
  \/ \E c \in ToolCalls : \/ ev = <<ToolResult(c), Begun("hook"), Over("hook")>>
                          \/ ev = <<ToolResult(c), Begun("hook")>>

LEMMA HooksAreQuiet ==
  ASSUME NEW ev, HookEvents(ev)
  PROVE  /\ ev \in Seq(Event) /\ AllQuiet(ev)
         /\ \A k \in 1..Len(ev) : ev[k].event \notin LastOps
<1> DEFINE E == {e \in Event : Quiet(e) /\ e.event \notin LastOps}
<1>1. /\ Begun("hook") \in E /\ Over("hook") \in E
      /\ \A c \in ToolCalls : ToolResult(c) \in E
  BY DEF Begun, Over, ToolResult, Event, Quiet, IsStart, LastOps
<1>2. E \subseteq Event /\ \A e \in E : Quiet(e) /\ e.event \notin LastOps
  OBVIOUS
<1> HIDE DEF E
<1>3. ev \in Seq(E)
  <2>1. ASSUME NEW a \in E, NEW b \in E, NEW c \in E
        PROVE  /\ <<a>> \in Seq(E) /\ <<a, b>> \in Seq(E) /\ <<a, b, c>> \in Seq(E)
    OBVIOUS
  <2> QED
    BY <1>1, <2>1 DEF HookEvents
<1>4. ev \in Seq(Event) /\ \A k \in 1..Len(ev) : ev[k] \in E
  <2>1. Len(ev) \in Nat /\ ev \in [1..Len(ev) -> E]
    BY ONLY <1>3
  <2>2. ev \in [1..Len(ev) -> Event]
    BY ONLY <1>2, <2>1
  <2>3. ev \in Seq(Event)
    BY ONLY <2>1, <2>2
  <2> QED
    BY <2>1, <2>3
<1> QED
  BY <1>2, <1>4 DEF AllQuiet

LEMMA CancelledHook ==
  ASSUME NEW t \in Seq(Event), NEW ev \in Seq(Event), NEW u, u = t \o ev,
         \/ ev = <<Begun("hook")>>
         \/ \E c \in ToolCalls : ev = <<ToolResult(c), Begun("hook")>>
  PROVE  Ambiguous(u)
<1>1. Len(ev) \in 1..Len(ev) /\ ev[Len(ev)] = Begun("hook")
  <2>1. CASE ev = <<Begun("hook")>>
    BY ONLY <2>1
  <2>2. ASSUME NEW c \in ToolCalls, ev = <<ToolResult(c), Begun("hook")>>
        PROVE  Len(ev) \in 1..Len(ev) /\ ev[Len(ev)] = Begun("hook")
    BY ONLY <2>2
  <2> QED
    BY <2>1, <2>2
<1>2. Len(u) = Len(t) + Len(ev) /\ u[Len(t) + Len(ev)] = ev[Len(ev)] /\ Len(u) > 0
  BY <1>1, Appended
<1>3. u # <<>>
  BY <1>2
<1> QED
  BY <1>1, <1>2, <1>3 DEF Ambiguous

LEMMA HookKeeps ==
  ASSUME TraceInv, step = "execute", NEW ev, HookEvents(ev), Emit(ev),
         step' \in {"group", "execute", "Interrupted"},
         step' = "Interrupted" => \/ ev = <<Begun("hook")>>
                                  \/ \E c \in ToolCalls : ev = <<ToolResult(c), Begun("hook")>>,
         proposed' = proposed, unanswered' \subseteq ToolCalls,
         runJson' = runJson, prompted' = prompted, ran' = ran, started' = started
  PROVE  TraceInv'
<1>1. /\ ev \in Seq(Event) /\ AllQuiet(ev)
      /\ \A k \in 1..Len(ev) : ev[k].event \notin LastOps
  BY HooksAreQuiet
<1>2. emitted \in Seq(Event) /\ Settled(emitted, "none") /\ emitted' = emitted \o ev
  BY DEF TraceInv, TraceTypeInv, OrderInv, Answering, Opened, Emit
<1>3. QuietlyKept
  BY <1>1, QuietStep
<1>4. Settled(emitted', "none")
  BY <1>1, <1>2, SettledBy
<1>5. step' = "Interrupted" => Ambiguous(emitted')
  BY <1>1, <1>2, CancelledHook
<1> QED
  BY <1>3, <1>4, <1>5, AnsweringKept

LEMMA BeforeToolsKeeps ==
  ASSUME TraceInv, BeforeTools
  PROVE  TraceInv'
<1>1. /\ step = "execute" /\ proposed' = proposed /\ unanswered' \subseteq ToolCalls
      /\ runJson' = runJson /\ prompted' = prompted /\ ran' = ran /\ started' = started
  BY DEF BeforeTools, files, batch, TraceInv, TraceTypeInv
<1>2. ASSUME NEW ev, ev = <<Begun("hook"), Over("hook")>>, Emit(ev), step' = "group"
      PROVE  TraceInv'
  BY <1>1, <1>2, HookKeeps DEF HookEvents
<1>3. ASSUME NEW ev, ev = <<Begun("hook")>>, Emit(ev), step' = "Interrupted"
      PROVE  TraceInv'
  BY <1>1, <1>3, HookKeeps DEF HookEvents
<1>4. \/ step' = "group" /\ Emit(<<Begun("hook"), Over("hook")>>)
      \/ step' = "Interrupted" /\ Emit(<<Begun("hook")>>)
  BY DEF BeforeTools, End
<1> QED
  BY <1>2, <1>3, <1>4

LEMMA AnswerToolsKeeps ==
  ASSUME TraceInv, AnswerTools
  PROVE  TraceInv'
<1>1. /\ step = "execute" /\ proposed' = proposed /\ unanswered \subseteq ToolCalls
      /\ unanswered' \subseteq ToolCalls
      /\ runJson' = runJson /\ prompted' = prompted /\ ran' = ran /\ started' = started
  BY DEF AnswerTools, files, TraceInv, TraceTypeInv
<1>2. CASE emitted' = emitted /\ onDisk' = onDisk /\ step' = "turnEnd"
  <2>1. QuietlyKept
    BY <1>2, SilentStep
  <2>2. Settled(emitted', "none")
    BY <1>1, <1>2 DEF TraceInv, OrderInv, Answering, Opened
  <2> QED
    BY <1>1, <1>2, <2>1, <2>2, AnsweringKept
<1>3. ASSUME NEW c \in ToolCalls, NEW ev, ev = <<ToolResult(c), Begun("hook"), Over("hook")>>,
             Emit(ev), step' = "execute"
      PROVE  TraceInv'
  BY <1>1, <1>3, HookKeeps DEF HookEvents
<1>4. ASSUME NEW c \in ToolCalls, NEW ev, ev = <<ToolResult(c), Begun("hook")>>,
             Emit(ev), step' = "Interrupted"
      PROVE  TraceInv'
  BY <1>1, <1>4, HookKeeps DEF HookEvents
<1>5. \/ emitted' = emitted /\ onDisk' = onDisk /\ step' = "turnEnd"
      \/ \E c \in ToolCalls :
           \/ step' = "execute" /\ Emit(<<ToolResult(c), Begun("hook"), Over("hook")>>)
           \/ step' = "Interrupted" /\ Emit(<<ToolResult(c), Begun("hook")>>)
  BY <1>1 DEF AnswerTools, End
<1> QED
  BY <1>2, <1>3, <1>4, <1>5

LEMMA StartToolsKeeps ==
  ASSUME TraceInv, StartTools
  PROVE  TraceInv'
<1>1. PICK group \in (SUBSET proposed.execute) \ {{}} :
        /\ EmitAndFlush(SetToSeq({ToolExecutionStarted(c) : c \in group}))
        /\ started' = group
        /\ proposed' = [proposed EXCEPT !.execute = @ \ group]
  BY DEF StartTools
<1> PICK ev : ev = SetToSeq({ToolExecutionStarted(c) : c \in group})
  OBVIOUS
<1> PICK t : t = emitted
  OBVIOUS
<1> PICK u : u = emitted'
  OBVIOUS
<1>2. /\ t \in Seq(Event) /\ Ordered(t) /\ Settled(t, "none") /\ group \subseteq ToolCalls
      /\ group # {} /\ started = {} /\ runJson.state = "Running"
      /\ \A i \in Starts(t) : t[i].ids \subseteq ran \cup started
      /\ step = "group" /\ step' = "running" /\ runJson' = runJson /\ ran' = ran
      /\ unanswered' = unanswered /\ prompted' = prompted
  BY DEF TraceInv, TraceTypeInv, OrderInv, StartsRun, ManifestLast, Answering, Opened, StartTools,
         files
<1>3. /\ ev \in Seq(Event) /\ Len(ev) \in Nat /\ Len(ev) > 0
      /\ \A k \in 1..Len(ev) : \E c \in group : ev[k] = ToolExecutionStarted(c)
      /\ \A c \in group : \E k \in 1..Len(ev) : ev[k] = ToolExecutionStarted(c)
  <2>1. StartsOf(ev, group)
    BY <1>2, GroupStarts
  <2> QED
    BY <2>1 DEF StartsOf
<1>4. u = t \o ev /\ onDisk' = Len(u)
  BY <1>1 DEF EmitAndFlush
<1>5. /\ u \in Seq(Event) /\ Len(u) = Len(t) + Len(ev) /\ Len(t) \in Nat
      /\ DOMAIN u = 1..Len(u)
      /\ \A i \in 1..Len(t) : u[i] = t[i]
      /\ \A k \in 1..Len(ev) : u[Len(t) + k] = ev[k]
      /\ \A i \in 1..Len(u) : i > Len(t) => i - Len(t) \in 1..Len(ev) /\ u[i] = ev[i - Len(t)]
  BY <1>2, <1>3, <1>4, Appended
<1>6. \A k \in 1..Len(ev) : IsStart(ev[k])
  <2>1. \A c \in group : IsStart(ToolExecutionStarted(c))
    BY DEF IsStart, ToolExecutionStarted
  <2> QED
    BY <1>3, <2>1
<1>7. Ordered(u) /\ Settled(u, "none")
  BY <1>2, <1>3, <1>4, <1>6, StartsOrder
<1>8. EmittedWell
  BY <1>1, <1>3, EmitTypes
<1>9. Ambiguous(u)
  <2>1. Len(ev) \in 1..Len(ev)
    BY <1>3
  <2>2. PICK c \in group : ev[Len(ev)] = ToolExecutionStarted(c)
    BY <1>3, <2>1
  <2>3. u[Len(u)] = ev[Len(ev)]
    BY <1>5, <2>1
  <2>4. Len(u) > 0
    BY ONLY <1>3, <1>5
  <2>5. u # <<>>
    BY ONLY <2>4
  <2>6. c \in ToolCalls
    BY <1>2
  <2> QED
    BY <2>2, <2>3, <2>5, <2>6 DEF Ambiguous
<1>10. TraceTypeInv'
  <2>1. /\ proposed' \in [{"policy", "confirm", "execute"} -> SUBSET ToolCalls]
        /\ started' \subseteq ToolCalls
    BY <1>1, <1>2 DEF TraceInv, TraceTypeInv
  <2> QED
    BY <1>2, <1>8, <2>1 DEF TraceInv, TraceTypeInv, EmittedWell, TraceSteps, Answering
<1>11. StartsOnDisk'
  <2> SUFFICES ASSUME NEW c \in ran \cup group
               PROVE  \E i \in 1..Len(u) : u[i] = ToolExecutionStarted(c)
    BY <1>1, <1>2, <1>4 DEF StartsOnDisk
  <2>1. CASE c \in ran
    BY <1>4, <1>8, <2>1 DEF EmittedWell
  <2>2. CASE c \in group
    <3>1. PICK k \in 1..Len(ev) : ev[k] = ToolExecutionStarted(c)
      BY <1>3, <2>2
    <3>2. Len(t) + k \in 1..Len(u)
      BY <1>3, <1>5, <3>1
    <3> QED
      BY <1>5, <3>1, <3>2
  <2> QED
    BY <2>1, <2>2
<1>12. StartsRun'
  <2>1. ASSUME NEW i \in Starts(u)
        PROVE  u[i].ids \subseteq ran \cup group
    <3>1. i \in 1..Len(u) /\ IsStart(u[i])
      BY <1>5, <2>1 DEF Starts
    <3>2. CASE i <= Len(t)
      <4>1. i \in 1..Len(t)
        BY <1>5, <3>1, <3>2
      <4>2. i \in Starts(t) /\ u[i] = t[i]
        BY <1>2, <1>5, <3>1, <4>1 DEF Starts
      <4> QED
        BY <1>2, <4>2
    <3>3. CASE i > Len(t)
      <4>1. i - Len(t) \in 1..Len(ev) /\ u[i] = ev[i - Len(t)]
        BY <1>5, <3>1, <3>3
      <4>2. PICK c \in group : u[i] = ToolExecutionStarted(c)
        BY <1>3, <4>1
      <4> QED
        BY <4>2 DEF ToolExecutionStarted
    <3> QED
      BY <1>5, <3>1, <3>2, <3>3
  <2> QED
    BY <1>1, <1>2, <2>1 DEF StartsRun
<1>13. OrderInv'
  BY <1>2, <1>7 DEF OrderInv, Asking, Opened
<1>14. OverInv'
  BY <1>2, <1>9 DEF OverInv
<1>15. ManifestLast'
  BY <1>2 DEF ManifestLast, RunOver
<1> QED
  BY <1>10, <1>11, <1>12, <1>13, <1>14, <1>15 DEF TraceInv

LEMMA ToolsRunKeeps ==
  ASSUME TraceInv, ToolsRun
  PROVE  TraceInv'
<1>1. /\ step = "running" /\ emitted' = emitted /\ onDisk' = onDisk /\ runJson' = runJson
      /\ proposed' = proposed /\ unanswered' = unanswered /\ prompted' = prompted
      /\ Ambiguous(emitted) /\ Settled(emitted, "none") /\ runJson.state = "Running"
      /\ \A i \in Starts(emitted) : emitted[i].ids \subseteq ran \cup started
      /\ step' \in {"running", "execute", "Interrupted"}
  BY DEF ToolsRun, RunTools, End, files, TraceInv, OrderInv, OverInv, ManifestLast, StartsRun,
         Answering, Opened
<1>2. /\ ran' \cup started' = ran \cup started
      /\ ran' \subseteq ToolCalls /\ started' \subseteq ToolCalls
      /\ step' = "execute" => started' = {}
  BY DEF ToolsRun, RunTools, End, TraceInv, TraceTypeInv
<1>3. TraceTypeInv'
  BY <1>1, <1>2 DEF TraceInv, TraceTypeInv, TraceSteps, Answering, RunOver
<1>4. StartsOnDisk'
  BY <1>1, <1>2 DEF TraceInv, StartsOnDisk
<1>5. StartsRun'
  BY <1>1, <1>2 DEF StartsRun, Asking, Answering
<1>6. OrderInv'
  BY <1>1 DEF TraceInv, OrderInv, Asking, Answering, Opened
<1>7. OverInv'
  BY <1>1 DEF OverInv
<1>8. ManifestLast'
  BY <1>1 DEF ManifestLast, RunOver, Asking, Answering
<1> QED
  BY <1>3, <1>4, <1>5, <1>6, <1>7, <1>8 DEF TraceInv

\* Steps that change only where the run is, what is on disk and run.json.
LEMMA FilesKeep ==
  ASSUME TraceInv, SaveManifest \/ FinishRun \/ Die \/ CancelToken \/ UNCHANGED traceVars
  PROVE  TraceInv'
<1>1. /\ emitted' = emitted /\ proposed' = proposed /\ unanswered' = unanswered
      /\ started' = started /\ ran' = ran /\ prompted' = prompted /\ prompted \in BOOLEAN
  BY DEF SaveManifest, FinishRun, Die, CancelToken, traceVars, batch, files, TraceInv, TraceTypeInv
<1>2. /\ emitted \in Seq(Event) /\ onDisk \in 0..Len(emitted) /\ Len(emitted) \in Nat
      /\ runJson \in [state : {"absent", "torn", "Running"} \cup RunOver, snapshot : BOOLEAN]
  BY DEF TraceInv, TraceTypeInv
<1>3. ASSUME step' = step, onDisk' = onDisk, runJson' = runJson
      PROVE  TraceInv'
  BY <1>1, <1>3 DEF TraceInv, TraceTypeInv, StartsOnDisk, StartsRun, OrderInv, Opened, OverInv,
                    ManifestLast
<1>4. CASE SaveManifest
  <2>1. /\ onDisk' = onDisk
        /\ step \in {"new", "saving"} /\ step' \in {"saving", "begin"}
        /\ runJson'.state \in {"torn", "Running"}
        /\ runJson' \in [state : {"absent", "torn", "Running"} \cup RunOver, snapshot : BOOLEAN]
        /\ step' = "begin" => runJson'.state = "Running"
    <3>1. CASE step = "new" /\ step' = "saving" /\ runJson' = [runJson EXCEPT !.state = "torn"]
      BY <1>2, <1>4, <3>1 DEF SaveManifest
    <3>2. CASE /\ step = "saving" /\ step' = "begin"
               /\ runJson' = [state |-> "Running", snapshot |-> FALSE]
      <4>1. runJson'.state = "Running"
        BY <3>2
      <4>2. runJson' \in [state : {"absent", "torn", "Running"} \cup RunOver, snapshot : BOOLEAN]
        BY <3>2
      <4>3. onDisk' = onDisk
        BY <1>4 DEF SaveManifest
      <4> QED
        BY <3>2, <4>1, <4>2, <4>3
    <3> QED
      BY <1>4, <3>1, <3>2 DEF SaveManifest
  <2>2. TraceTypeInv'
    BY <1>1, <2>1 DEF TraceInv, TraceTypeInv, TraceSteps
  <2>3. StartsOnDisk' /\ StartsRun' /\ OrderInv'
    BY <1>1, <2>1 DEF TraceInv, StartsOnDisk, StartsRun, OrderInv, Asking, Answering
  <2>4. OverInv' /\ ManifestLast'
    BY <1>1, <2>1 DEF OverInv, ManifestLast, RunOver, Asking, Answering
  <2> QED
    BY <2>2, <2>3, <2>4 DEF TraceInv
<1>5. CASE Die
  <2>1. onDisk' = onDisk /\ runJson' = runJson /\ step' = "dead" /\ step # "over"
    BY <1>5 DEF Die, Alive, files
  <2>2. runJson.state \notin {"Completed", "Interrupted"}
    BY <2>1 DEF TraceInv, ManifestLast
  <2>3. TraceTypeInv'
    BY <1>1, <2>1 DEF TraceInv, TraceTypeInv, TraceSteps
  <2>4. StartsOnDisk' /\ StartsRun' /\ OrderInv'
    BY <1>1, <2>1 DEF TraceInv, StartsOnDisk, StartsRun, OrderInv, Asking, Answering
  <2>5. OverInv' /\ ManifestLast'
    BY <1>1, <2>1, <2>2 DEF OverInv, ManifestLast, RunOver, Asking, Answering
  <2> QED
    BY <2>3, <2>4, <2>5 DEF TraceInv
<1>6. CASE FinishRun
  <2>1. step \in RunOver
    BY <1>6 DEF FinishRun, Finish
  <2>2. CASE step' = step /\ runJson' = runJson /\ onDisk < Len(emitted) /\ onDisk' = Len(emitted)
    <3>1. StartsOnDisk'
      <4> SUFFICES ASSUME NEW c \in ran \cup started
                   PROVE  \E i \in 1..Len(emitted) : emitted[i] = ToolExecutionStarted(c)
        BY <1>1, <2>2 DEF StartsOnDisk
      <4>1. PICK i \in 1..onDisk : emitted[i] = ToolExecutionStarted(c)
        BY DEF TraceInv, StartsOnDisk
      <4>2. i \in 1..Len(emitted)
        BY <1>2, <4>1
      <4> QED
        BY <4>1, <4>2
    <3>2. TraceTypeInv'
      BY <1>1, <1>2, <2>2 DEF TraceInv, TraceTypeInv
    <3>3. StartsRun' /\ OrderInv' /\ OverInv' /\ ManifestLast'
      BY <1>1, <2>1, <2>2 DEF TraceInv, StartsRun, OrderInv, Opened, OverInv, ManifestLast
    <3> QED
      BY <3>1, <3>2, <3>3 DEF TraceInv
  <2>3. CASE /\ step' = step /\ onDisk' = onDisk /\ onDisk = Len(emitted)
             /\ runJson' = [runJson EXCEPT !.state = "torn"]
    <3>1. /\ runJson'.state = "torn"
          /\ runJson' \in [state : {"absent", "torn", "Running"} \cup RunOver, snapshot : BOOLEAN]
      BY <1>2, <2>3
    <3>2. TraceTypeInv'
      BY <1>1, <2>3, <3>1 DEF TraceInv, TraceTypeInv
    <3>3. StartsOnDisk' /\ StartsRun' /\ OrderInv'
      BY <1>1, <2>3 DEF TraceInv, StartsOnDisk, StartsRun, OrderInv, Opened
    <3>4. OverInv'
      BY <1>1, <2>3, <3>1 DEF TraceInv, OverInv
    <3>5. ManifestLast'
      BY <1>1, <2>1, <2>3, <3>1 DEF ManifestLast, RunOver, Asking, Answering
    <3> QED
      BY <3>2, <3>3, <3>4, <3>5 DEF TraceInv
  <2>4. CASE /\ step' = "over" /\ onDisk' = onDisk /\ runJson.state = "torn"
             /\ runJson' = [state |-> step, snapshot |-> prompted]
    <3>1. runJson'.state = step
      BY <2>4
    <3>2. onDisk = Len(emitted)
      BY <2>1, <2>4 DEF TraceInv, ManifestLast
    <3>3. TraceTypeInv'
      BY <1>1, <2>1, <2>4 DEF TraceInv, TraceTypeInv, TraceSteps
    <3>4. StartsOnDisk' /\ StartsRun' /\ OrderInv'
      BY <1>1, <2>4 DEF TraceInv, StartsOnDisk, StartsRun, OrderInv, Asking, Answering
    <3>5. OverInv'
      BY <1>1, <2>4, <3>1 DEF TraceInv, OverInv
    <3>6. ManifestLast'
      BY <1>1, <2>1, <2>4, <3>1, <3>2 DEF ManifestLast, RunOver, Asking, Answering
    <3> QED
      BY <3>3, <3>4, <3>5, <3>6 DEF TraceInv
  <2> QED
    BY <1>6, <2>2, <2>3, <2>4 DEF FinishRun, Finish
<1>7. CASE CancelToken \/ UNCHANGED traceVars
  BY <1>3, <1>7 DEF CancelToken, traceVars, files
<1> QED
  BY <1>4, <1>5, <1>6, <1>7

LEMMA TraceInitKeeps ==
  ASSUME TraceInit
  PROVE  TraceInv
<1>1. emitted = <<>> /\ Starts(emitted) = {} /\ CheckpointsOf(emitted) = {} /\ emitted \in Seq(Event)
  BY DEF TraceInit, Starts, CheckpointsOf
<1>2. TraceTypeInv
  <2>1. proposed \in [{"policy", "confirm", "execute"} -> SUBSET ToolCalls]
    BY DEF TraceInit, NoCalls
  <2>2. /\ runJson \in [state : {"absent", "torn", "Running"} \cup RunOver, snapshot : BOOLEAN]
        /\ onDisk \in 0..Len(emitted) /\ step \in TraceSteps
    BY <1>1 DEF TraceInit, TraceSteps
  <2> QED
    BY <1>1, <2>1, <2>2 DEF TraceInit, TraceTypeInv
<1>3. Ordered(emitted)
  BY <1>1 DEF Ordered, CheckpointsKnow, ToolsComeLast, OverBeforeTools
<1>4. StartsOnDisk /\ StartsRun /\ OrderInv /\ OverInv /\ ManifestLast
  BY <1>1, <1>3 DEF TraceInit, StartsOnDisk, StartsRun, OrderInv, OverInv, ManifestLast, Asking,
                    Answering, RunOver
<1> QED
  BY <1>2, <1>4 DEF TraceInv

\* Wherever the process dies, and whatever part of the trace is on disk then, a run that
\* the analysis lets be resumed or continued goes on from a history that knows of every
\* tool that has run, or may have (trace/resume.rs, run.rs).
THEOREM ResumesRepeatNothing == TraceSpec => []ResumeRepeatsNothing
<1>1. TraceInit => TraceInv
  BY TraceInitKeeps
<1>2. TraceInv /\ [TraceNext]_traceVars => TraceInv'
  <2> SUFFICES ASSUME TraceInv, [TraceNext]_traceVars
               PROVE  TraceInv'
    OBVIOUS
  <2>1. CASE BeginRun \/ TurnEnd
    BY <2>1, CheckpointKeeps DEF BeginRun, TurnEnd, End, files, batch
  <2>2. CASE LoopTop \/ BuildContext \/ AskProvider \/ Stream
    BY <2>2, LoopTopKeeps, BuildContextKeeps, AskProviderKeeps, StreamKeeps
  <2>3. CASE PolicyStarts \/ PolicyDecides \/ RequestApproval \/ ApprovalArrives
    BY <2>3, PolicyStartsKeeps, PolicyDecidesKeeps, RequestApprovalKeeps, ApprovalArrivesKeeps
  <2>4. CASE BeforeTools \/ StartTools \/ ToolsRun \/ AnswerTools
    BY <2>4, BeforeToolsKeeps, StartToolsKeeps, ToolsRunKeeps, AnswerToolsKeeps
  <2>5. CASE SaveManifest \/ FinishRun \/ CancelToken \/ Die \/ UNCHANGED traceVars
    BY <2>5, FilesKeep
  <2> QED
    BY <2>1, <2>2, <2>3, <2>4, <2>5 DEF TraceNext
<1>3. TraceInv => ResumeRepeatsNothing
  BY Safe
<1> QED
  BY <1>1, <1>2, <1>3, PTL DEF TraceSpec

-----------------------------------------------------------------------------
(* FilePatch: what a document means. *)

Files == [FileNames -> Contents \cup {Missing}]
Proposals == [path : FileNames, content : Contents]
JobStates ==
  [pc : {"idle", "plan", "stage", "commit", "succeeded", "failed", "torn"},
   tool : {"none", "patch", "write"}, dry : BOOLEAN]

FilePatchType ==
  /\ onFile \in Files /\ base \in Files
  /\ temps \subseteq Proposals /\ writes \subseteq Proposals
  /\ deletes \subseteq FileNames
  /\ operations \in Seq(PatchOperation)
  /\ job \in JobStates
  /\ edits \in Nat

\* The files after each operation, one after the other.
IsTrail(trail) ==
  /\ trail \in [0..Len(operations) -> Files]
  /\ trail[0] = base
  /\ \A i \in 1..Len(operations) : trail[i] = After(trail[i - 1], operations[i])

LEMMA OperationType ==
  ASSUME NEW o \in PatchOperation
  PROVE  /\ o.op \in {"Add", "Update", "Delete", "Move"} /\ o.path \in FileNames
         /\ o.op \in {"Add", "Update"} => o.content \in Contents
         /\ o.op = "Update" => o.search \in Contents
         /\ o.op = "Move" => o.to \in FileNames
BY DEF PatchOperation

LEMMA AfterType ==
  ASSUME NEW fs \in Files, NEW o \in PatchOperation
  PROVE  After(fs, o) \in Files
<1>1. o.op \in {"Add", "Update", "Delete", "Move"} /\ o.path \in FileNames
  BY OperationType
<1>2. CASE ~Applies(fs, o)
  BY <1>2 DEF After
<1>3. CASE Applies(fs, o) /\ o.op \in {"Add", "Update"}
  <2>1. After(fs, o) = [fs EXCEPT ![o.path] = o.content] /\ o.content \in Contents
    BY <1>3, OperationType DEF After
  <2> QED  BY <1>1, <2>1 DEF Files
<1>4. CASE Applies(fs, o) /\ o.op = "Delete"
  <2>1. After(fs, o) = [fs EXCEPT ![o.path] = Missing]
    BY <1>4 DEF After
  <2> QED  BY <1>1, <2>1 DEF Files
<1>5. CASE Applies(fs, o) /\ o.op = "Move"
  <2>1. /\ After(fs, o) = [fs EXCEPT ![o.path] = Missing, ![o.to] = fs[o.path]]
        /\ o.to \in FileNames
    BY <1>5, OperationType DEF After
  <2> QED  BY <1>1, <2>1 DEF Files
<1> QED  BY <1>1, <1>2, <1>3, <1>4, <1>5

\* The meaning of a document is where its trail ends.
LEMMA TrailEnds ==
  ASSUME operations \in Seq(PatchOperation), NEW trail, IsTrail(trail)
  PROVE  Meaning = trail[Len(operations)]
<1> DEFINE n == Len(operations)
           Next(f) == [i \in 0..n |-> IF i = 0 THEN base ELSE After(f[i - 1], operations[i])]
           after == FilesAfter
<1>1. n \in Nat
  OBVIOUS
<1>2. trail = Next(trail)
  <2>1. trail = [i \in 0..n |-> trail[i]]
    BY DEF IsTrail
  <2>2. \A i \in 0..n : trail[i] = IF i = 0 THEN base ELSE After(trail[i - 1], operations[i])
    BY <1>1 DEF IsTrail
  <2> QED  BY <2>1, <2>2
<1>3. after = CHOOSE f : f = Next(f)
  BY DEF FilesAfter
<1> HIDE DEF after
<1>4. after = Next(after)
  <2> HIDE DEF Next
  <2> QED  BY <1>2, <1>3
<1> DEFINE Differ == {i \in 0..n : after[i] # trail[i]}
<1>5. Differ = {}
  <2> SUFFICES ASSUME Differ # {} PROVE FALSE
    OBVIOUS
  <2>1. PICK i \in Differ : \A j \in Differ : i <= j
    <3>1. Differ \subseteq Nat
      BY <1>1
    <3> HIDE DEF Differ
    <3> QED  BY <3>1, LeastIndex
  <2>2. i \in 0..n /\ after[i] # trail[i]
    OBVIOUS
  <2>3. CASE i = 0
    <3>1. after[0] = base
      BY <1>1, <1>4
    <3> QED  BY <2>2, <2>3, <3>1 DEF IsTrail
  <2>4. CASE i # 0
    <3>1. i - 1 \in 0..n /\ i - 1 \notin Differ
      BY <1>1, <2>1, <2>2, <2>4
    <3>2. after[i - 1] = trail[i - 1]
      BY <3>1
    <3>3. after[i] = After(after[i - 1], operations[i])
      BY <1>4, <2>2, <2>4
    <3>4. trail[i] = After(trail[i - 1], operations[i])
      BY <1>2, <2>2, <2>4
    <3> QED  BY <2>2, <3>2, <3>3, <3>4
  <2> QED  BY <2>3, <2>4
<1>6. after[n] = trail[n]
  BY <1>1, <1>5
<1> QED  BY <1>6 DEF Meaning, after

\* One more operation continues the trail.
LEMMA TrailGrows ==
  ASSUME operations \in Seq(PatchOperation), NEW trail, IsTrail(trail),
         NEW o \in PatchOperation, operations' = Append(operations, o), base' = base
  PROVE  \E longer : /\ IsTrail(longer)'
                     /\ longer[Len(operations')] = After(trail[Len(operations)], o)
<1> DEFINE n == Len(operations)
           next == After(trail[n], o)
<1>0. PICK longer : longer = [i \in 0..(n + 1) |-> IF i = n + 1 THEN next ELSE trail[i]]
  OBVIOUS
<1>1. /\ n \in Nat /\ Len(operations') = n + 1 /\ operations'[n + 1] = o
      /\ \A i \in 1..n : operations'[i] = operations[i]
  OBVIOUS
<1>2. next \in Files
  <2>1. trail[n] \in Files
    BY <1>1 DEF IsTrail
  <2> QED  BY <2>1, AfterType
<1>3. longer \in [0..(n + 1) -> Files]
  BY <1>0, <1>1, <1>2 DEF IsTrail
<1>4. longer[0] = base' /\ longer[n + 1] = next
  BY <1>0, <1>1 DEF IsTrail
<1>5. ASSUME NEW i \in 1..(n + 1) PROVE longer[i] = After(longer[i - 1], operations'[i])
  <2>1. longer[i - 1] = trail[i - 1]
    BY <1>0, <1>1
  <2>2. CASE i = n + 1
    <3>1. i - 1 = n
      BY <1>1, <2>2
    <3> QED  BY <1>1, <1>4, <2>1, <2>2, <3>1
  <2>3. CASE i # n + 1
    <3>1. i \in 1..n /\ longer[i] = trail[i]
      BY <1>0, <1>1, <2>3
    <3> QED  BY <1>1, <2>1, <3>1 DEF IsTrail
  <2> QED  BY <2>2, <2>3
<1>6. IsTrail(longer)'
  BY <1>1, <1>3, <1>4, <1>5 DEF IsTrail
<1> QED  BY <1>1, <1>4, <1>6

-----------------------------------------------------------------------------
(* FilePatch: the inductive invariant. *)

\* What is proposed of a plan gives the files the meaning m of its operations.
PlanMeans(m) ==
  /\ \A w \in writes : m[w.path] = w.content
  /\ \A f \in FileNames : Written(f) = {} =>
       m[f] = IF f \in deletes THEN Missing ELSE base[f]

\* The paths that operations remove.
RemovedPaths ==
  {f \in FileNames : \E i \in DOMAIN operations :
     operations[i].op \in {"Delete", "Move"} /\ operations[i].path = f}

\* What has been done to each file while a plan is committed.
CommitMeans(m) ==
  /\ \A w \in temps : m[w.path] = w.content
  /\ \A f \in FileNames :
       /\ onFile[f] \in {base[f], m[f]} \cup (IF f \in RemovedPaths THEN {Missing} ELSE {})
       /\ (\E w \in temps : w.path = f) \/ (IF f \in deletes THEN m[f] = Missing ELSE onFile[f] = m[f])

\* A patch with the meaning m, which nobody else disturbs.
DocumentInv(m) ==
  /\ job.pc \in {"plan", "stage"} => PlanMeans(m) /\ onFile = base
  /\ job.pc = "plan" => temps = {}
  /\ job.pc = "stage" => temps \subseteq writes /\ ~job.dry
  /\ job.pc = "commit" => CommitMeans(m) /\ ~job.dry
  /\ job.pc = "failed" => onFile = base
  /\ job.pc = "succeeded" => onFile = IF job.dry THEN base ELSE m
  /\ job.pc = "torn" =>
       \A f \in FileNames :
         onFile[f] \in {base[f], m[f]} \cup (IF f \in RemovedPaths THEN {Missing} ELSE {})
  /\ job.pc # "idle" /\ deletes \subseteq RemovedPaths

Undisturbed == job.tool = "patch" /\ edits = 0

FilePatchInv ==
  /\ FilePatchType
  /\ job = NoJob => /\ onFile = base /\ temps = {} /\ operations = <<>>
                    /\ writes = {} /\ deletes = {}
  /\ \E trail : /\ IsTrail(trail)
                /\ Undisturbed => DocumentInv(trail[Len(operations)])

\* What a step that plans no operation has to keep.
LEMMA TrailStays ==
  ASSUME FilePatchInv, FilePatchType', job' # NoJob, operations' = operations, base' = base,
         \A m \in Files : (Undisturbed => DocumentInv(m)) => (Undisturbed => DocumentInv(m))'
  PROVE  FilePatchInv'
<1>1. PICK trail : IsTrail(trail) /\ (Undisturbed => DocumentInv(trail[Len(operations)]))
  BY DEF FilePatchInv
<1>2. PICK m : m = trail[Len(operations)]
  OBVIOUS
<1>3. m \in Files
  BY <1>1, <1>2 DEF IsTrail, FilePatchInv, FilePatchType
<1>4. IsTrail(trail)'
  BY <1>1 DEF IsTrail
<1>5. (Undisturbed => DocumentInv(m))'
  BY <1>1, <1>2, <1>3
<1>6. trail[Len(operations')] = m
  BY <1>2
<1>7. (Undisturbed => DocumentInv(trail[Len(operations)]))'
  BY <1>5, <1>6
<1> QED  BY <1>4, <1>7 DEF FilePatchInv

\* What a document finds at a path that it has not removed is what it means so far.
LEMMA FoundIsMeant ==
  ASSUME FilePatchType, NEW m \in Files, PlanMeans(m), onFile = base,
         NEW f \in FileNames
  PROVE  /\ f \notin deletes => Found(f) = m[f]
         /\ ~Occupied(f) => m[f] = Missing
<1>1. ASSUME Written(f) # {} PROVE Found(f) = m[f]
  <2> DEFINE w == CHOOSE w \in Written(f) : TRUE
  <2>1. w \in Written(f)
    BY <1>1
  <2>2. w \in writes /\ w.path = f
    BY <2>1 DEF Written
  <2> QED  BY <1>1, <2>2 DEF Found, PlanMeans
<1>2. ASSUME Written(f) = {}, f \notin deletes PROVE Found(f) = m[f]
  BY <1>2 DEF Found, PlanMeans
<1>3. ASSUME ~Occupied(f) PROVE m[f] = Missing
  BY <1>3 DEF Occupied, Exists, PlanMeans
<1> QED  BY <1>1, <1>2, <1>3

\* Planning an operation gives its meaning to what is proposed.
LEMMA PlanStepMeans ==
  ASSUME FilePatchType, NEW m \in Files, PlanMeans(m), onFile = base, base' = base,
         NEW o \in PatchOperation, Plannable(o), writes' = PlannedWrites(o),
         deletes' = IF o.op \in {"Delete", "Move"} THEN deletes \cup {o.path} ELSE deletes
  PROVE  PlanMeans(After(m, o))'
<1>1. /\ o.op \in {"Add", "Update", "Delete", "Move"} /\ o.path \in FileNames
      /\ o.op \in {"Add", "Update"} => o.content \in Contents
      /\ o.op = "Move" => o.to \in FileNames
  BY OperationType
<1>2. /\ o.path \notin deletes => Found(o.path) = m[o.path]
      /\ ~Occupied(o.path) => m[o.path] = Missing
      /\ o.op = "Move" /\ ~Occupied(o.to) => m[o.to] = Missing
  BY <1>1, FoundIsMeant
<1>3. Applies(m, o)
  BY <1>1, <1>2 DEF Plannable, Applies
<1>4. writes \subseteq Proposals
  BY DEF FilePatchType
<1>5. PICK r : r = After(m, o)
  OBVIOUS
<1>6. CASE o.op \in {"Add", "Update"}
  <2>1. r = [m EXCEPT ![o.path] = o.content]
    BY <1>3, <1>5, <1>6 DEF After
  <2>2. /\ r[o.path] = o.content
        /\ \A f \in FileNames : f # o.path => r[f] = m[f]
    BY <1>1, <2>1 DEF Files
  <2>3. writes' = (writes \ Written(o.path)) \cup {[path |-> o.path, content |-> o.content]}
    BY <1>6 DEF PlannedWrites, With
  <2>4. deletes' = deletes
    BY <1>6
  <2>5. ASSUME NEW w \in writes' PROVE r[w.path] = w.content
    <3>1. CASE w = [path |-> o.path, content |-> o.content]
      BY <2>2, <3>1
    <3>2. CASE w \in writes /\ w \notin Written(o.path)
      <4>1. w.path \in FileNames /\ w.path # o.path
        BY <1>4, <3>2 DEF Written, Proposals
      <4> QED  BY <2>2, <3>2, <4>1 DEF PlanMeans
    <3> QED  BY <2>3, <3>1, <3>2
  <2>6. ASSUME NEW f \in FileNames, Written(f)' = {}
        PROVE  r[f] = IF f \in deletes' THEN Missing ELSE base[f]
    <3>1. f # o.path
      BY <2>3, <2>6 DEF Written
    <3>2. Written(f) = {}
      BY <2>3, <2>6, <3>1 DEF Written
    <3> QED  BY <2>2, <2>4, <3>1, <3>2 DEF PlanMeans
  <2> QED  BY <1>5, <2>5, <2>6 DEF PlanMeans
<1>7. CASE o.op = "Delete"
  <2>1. r = [m EXCEPT ![o.path] = Missing]
    BY <1>3, <1>5, <1>7 DEF After
  <2>2. /\ r[o.path] = Missing
        /\ \A f \in FileNames : f # o.path => r[f] = m[f]
    BY <1>1, <2>1 DEF Files
  <2>3. writes' = writes \ Written(o.path) /\ deletes' = deletes \cup {o.path}
    BY <1>7 DEF PlannedWrites
  <2>4. ASSUME NEW w \in writes' PROVE r[w.path] = w.content
    <3>1. w \in writes /\ w.path \in FileNames /\ w.path # o.path
      BY <1>4, <2>3 DEF Written, Proposals
    <3> QED  BY <2>2, <3>1 DEF PlanMeans
  <2>5. ASSUME NEW f \in FileNames, Written(f)' = {}
        PROVE  r[f] = IF f \in deletes' THEN Missing ELSE base[f]
    <3>1. CASE f = o.path
      BY <2>2, <2>3, <3>1
    <3>2. CASE f # o.path
      <4>1. Written(f) = {}
        BY <2>3, <2>5, <3>2 DEF Written
      <4> QED  BY <2>2, <2>3, <3>2, <4>1 DEF PlanMeans
    <3> QED  BY <3>1, <3>2
  <2> QED  BY <1>5, <2>4, <2>5 DEF PlanMeans
<1>8. CASE o.op = "Move"
  <2>1. /\ ~Occupied(o.to) /\ o.path \notin deletes /\ Found(o.path) # Missing
        /\ m[o.path] = Found(o.path) /\ m[o.to] = Missing /\ o.path # o.to
    BY <1>1, <1>2, <1>8 DEF Plannable
  <2>2. r = [m EXCEPT ![o.path] = Missing, ![o.to] = m[o.path]]
    BY <1>3, <1>5, <1>8 DEF After
  <2>3. /\ r[o.path] = Missing /\ r[o.to] = Found(o.path)
        /\ \A f \in FileNames : f # o.path /\ f # o.to => r[f] = m[f]
    BY <1>1, <1>8, <2>1, <2>2 DEF Files
  <2> DEFINE new == [path |-> o.to, content |-> Found(o.path)]
  <2>4. /\ writes' = ((writes \ Written(o.to)) \cup {new}) \ Written(o.path)
        /\ deletes' = deletes \cup {o.path}
    BY <1>8 DEF PlannedWrites, With
  <2>5. new \notin Written(o.path) /\ new.path = o.to /\ new.content = Found(o.path)
    BY <2>1 DEF Written
  <2> HIDE DEF new
  <2>6. ASSUME NEW w \in writes' PROVE r[w.path] = w.content
    <3>1. CASE w = new
      BY <2>3, <2>5, <3>1
    <3>2. CASE w # new
      <4>1. w \in writes /\ w \notin Written(o.path) /\ w \notin Written(o.to)
        BY <2>4, <3>2
      <4>2. w.path \in FileNames /\ w.path # o.path /\ w.path # o.to
        BY <1>4, <4>1 DEF Written, Proposals
      <4> QED  BY <2>3, <4>1, <4>2 DEF PlanMeans
    <3> QED  BY <3>1, <3>2
  <2>7. ASSUME NEW f \in FileNames, Written(f)' = {}
        PROVE  r[f] = IF f \in deletes' THEN Missing ELSE base[f]
    <3>1. CASE f = o.path
      BY <2>3, <2>4, <3>1
    <3>2. CASE f # o.path
      <4>1. f # o.to
        BY <2>4, <2>5, <2>7 DEF Written
      <4>2. Written(f) = {}
        BY <2>4, <2>7, <3>2, <4>1 DEF Written
      <4> QED  BY <2>3, <2>4, <3>2, <4>1, <4>2 DEF PlanMeans
    <3> QED  BY <3>1, <3>2
  <2> QED  BY <1>5, <2>6, <2>7 DEF PlanMeans
<1> QED  BY <1>1, <1>6, <1>7, <1>8

LEMMA GotoType ==
  ASSUME job \in JobStates, NEW pc \in {"plan", "stage", "commit", "succeeded", "failed", "torn"},
         Goto(pc)
  PROVE  /\ job' \in JobStates /\ job'.pc = pc /\ job'.tool = job.tool /\ job'.dry = job.dry
         /\ job' # NoJob
BY DEF Goto, JobStates, NoJob

LEMMA PatchBeginsKeeps == ASSUME FilePatchInv, PatchBegins PROVE FilePatchInv'
<1>1. PICK primary \in FileNames, expected \in Contents \cup {Missing}, dry \in BOOLEAN :
        job' = [pc |-> IF expected # Missing /\ onFile[primary] # expected
                       THEN "failed" ELSE "plan",
                tool |-> "patch", dry |-> dry]
  BY DEF PatchBegins
<1>2. /\ job' \in JobStates /\ job'.pc \in {"failed", "plan"} /\ job' # NoJob
  BY <1>1 DEF JobStates, NoJob
<1>3. UNCHANGED <<onFile, temps, operations, writes, deletes, base, edits>>
  BY DEF PatchBegins, plan
<1>4. /\ onFile = base /\ temps = {} /\ operations = <<>> /\ writes = {} /\ deletes = {}
  BY DEF PatchBegins, FilePatchInv
<1>5. FilePatchType'
  BY <1>2, <1>3 DEF FilePatchInv, FilePatchType
<1>6. PICK trail : IsTrail(trail)
  BY DEF FilePatchInv
<1>7. PICK m : m = base
  OBVIOUS
<1>8. trail[Len(operations')] = m /\ IsTrail(trail)'
  BY <1>3, <1>4, <1>6, <1>7 DEF IsTrail
<1>9. PlanMeans(m)'
  BY <1>3, <1>4, <1>7 DEF PlanMeans
<1>10. DocumentInv(m)'
  BY <1>2, <1>3, <1>4, <1>9 DEF DocumentInv
<1>11. (Undisturbed => DocumentInv(trail[Len(operations)]))'
  BY <1>8, <1>10
<1> QED  BY <1>2, <1>5, <1>8, <1>11 DEF FilePatchInv

LEMMA PlanOperationKeeps ==
  ASSUME FilePatchInv, NEW o \in PatchOperation, PlanOperation(o)
  PROVE  FilePatchInv'
<1>1. /\ FilePatchType /\ operations \in Seq(PatchOperation)
      /\ job \in JobStates /\ job.pc = "plan" /\ job.tool = "patch"
      /\ operations' = Append(operations, o)
      /\ UNCHANGED <<onFile, temps, base, edits>>
  BY DEF PlanOperation, FilePatchInv, FilePatchType
<1>2. PICK trail : IsTrail(trail) /\ (Undisturbed => DocumentInv(trail[Len(operations)]))
  BY DEF FilePatchInv
<1>3. PICK m : m = trail[Len(operations)]
  OBVIOUS
<1>4. m \in Files
  BY <1>1, <1>2, <1>3 DEF IsTrail
<1>5. PICK longer : IsTrail(longer)' /\ longer[Len(operations')] = After(m, o)
  BY <1>1, <1>2, <1>3, TrailGrows
<1>6. After(m, o) \in Files
  BY <1>4, AfterType
<1>7. operations' \in Seq(PatchOperation)
  BY <1>1
<1>8. RemovedPaths \subseteq RemovedPaths'
  <2>1. /\ DOMAIN operations \subseteq DOMAIN operations'
        /\ \A i \in DOMAIN operations : operations'[i] = operations[i]
    BY <1>1
  <2> QED  BY <2>1 DEF RemovedPaths
<1>9. CASE ~Plannable(o)
  <2>1. Goto("failed") /\ writes' = writes /\ deletes' = deletes
    BY <1>9 DEF PlanOperation
  <2>2. /\ job' \in JobStates /\ job'.pc = "failed" /\ job'.tool = job.tool
        /\ job'.dry = job.dry /\ job' # NoJob
    BY <1>1, <2>1, GotoType
  <2>3. FilePatchType'
    BY <1>1, <1>7, <2>1, <2>2 DEF FilePatchType
  <2>4. ASSUME Undisturbed' PROVE DocumentInv(After(m, o))'
    <3>1. Undisturbed /\ DocumentInv(m)
      BY <1>1, <1>2, <1>3, <2>2, <2>4 DEF Undisturbed
    <3> QED  BY <1>1, <1>8, <2>1, <2>2, <3>1 DEF DocumentInv
  <2>5. (Undisturbed => DocumentInv(longer[Len(operations)]))'
    BY <1>5, <2>4
  <2> QED  BY <1>5, <2>2, <2>3, <2>5 DEF FilePatchInv
<1>10. CASE Plannable(o)
  <2>1. /\ writes' = PlannedWrites(o) /\ job' = job
        /\ deletes' = IF o.op \in {"Delete", "Move"} THEN deletes \cup {o.path} ELSE deletes
    BY <1>10 DEF PlanOperation
  <2>2. /\ o.op \in {"Add", "Update", "Delete", "Move"} /\ o.path \in FileNames
        /\ o.op \in {"Add", "Update"} => o.content \in Contents
        /\ o.op = "Move" => o.to \in FileNames
    BY OperationType
  <2>3. writes' \subseteq Proposals
    <3>1. writes \subseteq Proposals
      BY <1>1 DEF FilePatchType
    <3>2. o.op = "Move" => Found(o.path) \in Contents
      <4> SUFFICES ASSUME o.op = "Move" PROVE Found(o.path) \in Contents
        OBVIOUS
      <4>1. Found(o.path) # Missing
        BY <1>10 DEF Plannable
      <4>2. CASE Written(o.path) # {}
        <5> DEFINE w == CHOOSE w \in Written(o.path) : TRUE
        <5>1. w \in Written(o.path)
          BY <4>2
        <5>2. w \in Proposals
          BY <3>1, <5>1 DEF Written
        <5>3. Found(o.path) = w.content
          BY <4>2 DEF Found
        <5> HIDE DEF w
        <5> QED  BY <5>2, <5>3 DEF Proposals
      <4>3. CASE Written(o.path) = {}
        <5>1. Found(o.path) = onFile[o.path] /\ onFile \in Files
          BY <1>1, <4>3 DEF Found, FilePatchType
        <5> QED  BY <2>2, <4>1, <5>1 DEF Files
      <4> QED  BY <4>2, <4>3
    <3>3. CASE o.op \in {"Add", "Update"}
      <4>1. writes' = (writes \ Written(o.path)) \cup {[path |-> o.path, content |-> o.content]}
        BY <2>1, <3>3 DEF PlannedWrites, With
      <4> QED  BY <2>2, <3>1, <3>3, <4>1 DEF Proposals
    <3>4. CASE o.op = "Delete"
      BY <2>1, <3>1, <3>4 DEF PlannedWrites
    <3>5. CASE o.op = "Move"
      <4>1. writes' \subseteq writes \cup {[path |-> o.to, content |-> Found(o.path)]}
        BY <2>1, <3>5 DEF PlannedWrites, With
      <4>2. [path |-> o.to, content |-> Found(o.path)] \in Proposals
        BY <2>2, <3>2, <3>5 DEF Proposals
      <4> QED  BY <3>1, <4>1, <4>2
    <3> QED  BY <2>2, <3>3, <3>4, <3>5
  <2>4. deletes' \subseteq FileNames
    BY <1>1, <2>1, <2>2 DEF FilePatchType
  <2>5. FilePatchType' /\ job' # NoJob
    BY <1>1, <1>7, <2>1, <2>3, <2>4 DEF FilePatchType, NoJob
  <2>6. ASSUME Undisturbed' PROVE DocumentInv(After(m, o))'
    <3>1. Undisturbed /\ DocumentInv(m)
      BY <1>1, <1>2, <1>3, <2>1, <2>6 DEF Undisturbed
    <3>2. PlanMeans(m) /\ onFile = base /\ temps = {} /\ deletes \subseteq RemovedPaths
      BY <1>1, <3>1 DEF DocumentInv
    <3>3. PlanMeans(After(m, o))'
      BY <1>1, <1>4, <1>10, <2>1, <3>2, PlanStepMeans
    <3>4. o.op \in {"Delete", "Move"} => o.path \in RemovedPaths'
      <4>1. Len(operations) + 1 \in DOMAIN operations' /\ operations'[Len(operations) + 1] = o
        BY <1>1
      <4> QED  BY <2>2, <4>1 DEF RemovedPaths
    <3>5. deletes' \subseteq RemovedPaths'
      BY <1>8, <2>1, <3>2, <3>4
    <3> QED  BY <1>1, <2>1, <3>2, <3>3, <3>5 DEF DocumentInv
  <2>7. (Undisturbed => DocumentInv(longer[Len(operations)]))'
    BY <1>5, <2>6
  <2> QED  BY <1>5, <2>5, <2>7 DEF FilePatchInv
<1> QED  BY <1>9, <1>10

LEMMA PlannedKeeps == ASSUME FilePatchInv, Planned PROVE FilePatchInv'
<1>1. /\ job \in JobStates /\ job.pc = "plan"
      /\ UNCHANGED <<onFile, temps, operations, writes, deletes, base, edits>>
      /\ Goto(IF job.dry THEN "succeeded" ELSE "stage")
  BY DEF Planned, plan, FilePatchInv, FilePatchType
<1>2. /\ job' \in JobStates /\ job'.pc = (IF job.dry THEN "succeeded" ELSE "stage")
      /\ job'.tool = job.tool /\ job'.dry = job.dry /\ job' # NoJob
  <2>1. CASE job.dry
    BY <1>1, <2>1, GotoType
  <2>2. CASE ~job.dry
    BY <1>1, <2>2, GotoType
  <2> QED  BY <2>1, <2>2
<1>3. FilePatchType'
  BY <1>1, <1>2 DEF FilePatchInv, FilePatchType
<1>4. ASSUME NEW m \in Files, Undisturbed', Undisturbed => DocumentInv(m) PROVE DocumentInv(m)'
  <2>1. DocumentInv(m)
    BY <1>1, <1>2, <1>4 DEF Undisturbed
  <2>2. PlanMeans(m) => PlanMeans(m)'
    BY <1>1 DEF PlanMeans, Written
  <2>3. RemovedPaths' = RemovedPaths
    BY <1>1 DEF RemovedPaths
  <2>4. CASE job.dry
    BY <1>1, <1>2, <2>1, <2>3, <2>4 DEF DocumentInv
  <2>5. CASE ~job.dry
    BY <1>1, <1>2, <2>1, <2>2, <2>3, <2>5 DEF DocumentInv
  <2> QED  BY <2>4, <2>5
<1> QED  BY <1>1, <1>2, <1>3, <1>4, TrailStays

LEMMA WriteBeginsKeeps == ASSUME FilePatchInv, WriteBegins PROVE FilePatchInv'
<1>1. PICK name \in FileNames, content \in Contents, expected \in Contents \cup {Missing},
           dry \in BOOLEAN, pc \in {"failed", "succeeded", "stage"} :
        /\ job' = [pc |-> pc, tool |-> "write", dry |-> dry]
        /\ writes' = With(name, content)
  BY DEF WriteBegins
<1>2. job' \in JobStates /\ job' # NoJob /\ ~Undisturbed'
  BY <1>1 DEF JobStates, NoJob, Undisturbed
<1>3. writes' \subseteq Proposals
  <2>1. writes \subseteq Proposals /\ [path |-> name, content |-> content] \in Proposals
    BY DEF FilePatchInv, FilePatchType, Proposals
  <2> QED  BY <1>1, <2>1 DEF With
<1>4. UNCHANGED <<onFile, temps, operations, deletes, base, edits>>
  BY DEF WriteBegins
<1>5. FilePatchType'
  BY <1>2, <1>3, <1>4 DEF FilePatchInv, FilePatchType
<1> QED  BY <1>2, <1>4, <1>5, TrailStays

LEMMA StageKeeps == ASSUME FilePatchInv, Stage PROVE FilePatchInv'
<1>1. /\ job \in JobStates /\ job.pc = "stage"
      /\ UNCHANGED <<onFile, operations, writes, deletes, base, edits>>
      /\ temps \subseteq Proposals /\ writes \subseteq Proposals
  BY DEF Stage, plan, FilePatchInv, FilePatchType
<1>2. RemovedPaths' = RemovedPaths
  BY <1>1 DEF RemovedPaths
<1>3. ASSUME NEW w \in writes \ temps, temps' = temps \cup {w}, job' = job PROVE FilePatchInv'
  <2>1. FilePatchType' /\ job' # NoJob
    BY <1>1, <1>3 DEF FilePatchInv, FilePatchType, NoJob
  <2>2. ASSUME NEW m \in Files, Undisturbed', Undisturbed => DocumentInv(m)
        PROVE  DocumentInv(m)'
    <3>1. DocumentInv(m)
      BY <1>1, <1>3, <2>2 DEF Undisturbed
    <3>2. PlanMeans(m) => PlanMeans(m)'
      BY <1>1 DEF PlanMeans, Written
    <3> QED  BY <1>1, <1>2, <1>3, <3>1, <3>2 DEF DocumentInv
  <2> QED  BY <1>1, <2>1, <2>2, TrailStays
<1>4. ASSUME NEW w \in writes \ temps, temps' \in {{}, {w}}, Goto("failed") PROVE FilePatchInv'
  <2>1. /\ job' \in JobStates /\ job'.pc = "failed" /\ job'.tool = job.tool
        /\ job'.dry = job.dry /\ job' # NoJob
    BY <1>1, <1>4, GotoType
  <2>2. FilePatchType'
    BY <1>1, <1>4, <2>1 DEF FilePatchInv, FilePatchType
  <2>3. ASSUME NEW m \in Files, Undisturbed', Undisturbed => DocumentInv(m)
        PROVE  DocumentInv(m)'
    <3>1. DocumentInv(m)
      BY <1>1, <2>1, <2>3 DEF Undisturbed
    <3> QED  BY <1>1, <1>2, <2>1, <3>1 DEF DocumentInv
  <2> QED  BY <1>1, <2>1, <2>2, <2>3, TrailStays
<1>5. ASSUME writes \subseteq temps, Goto("commit"), temps' = temps PROVE FilePatchInv'
  <2>1. /\ job' \in JobStates /\ job'.pc = "commit" /\ job'.tool = job.tool
        /\ job'.dry = job.dry /\ job' # NoJob
    BY <1>1, <1>5, GotoType
  <2>2. FilePatchType'
    BY <1>1, <1>5, <2>1 DEF FilePatchInv, FilePatchType
  <2>3. ASSUME NEW m \in Files, Undisturbed', Undisturbed => DocumentInv(m)
        PROVE  DocumentInv(m)'
    <3>1. DocumentInv(m)
      BY <1>1, <2>1, <2>3 DEF Undisturbed
    <3>2. PlanMeans(m) /\ onFile = base /\ temps \subseteq writes /\ ~job.dry
      BY <1>1, <3>1 DEF DocumentInv
    <3>3. CommitMeans(m)
      <4>1. \A w \in temps : m[w.path] = w.content
        BY <3>2 DEF PlanMeans
      <4>2. ASSUME NEW f \in FileNames, ~\E w \in temps : w.path = f
            PROVE  IF f \in deletes THEN m[f] = Missing ELSE onFile[f] = m[f]
        <5>1. Written(f) = {}
          BY <1>5, <4>2 DEF Written
        <5> QED  BY <3>2, <4>2, <5>1 DEF PlanMeans
      <4> QED  BY <3>2, <4>1, <4>2 DEF CommitMeans
    <3>4. CommitMeans(m)'
      BY <1>1, <1>2, <1>5, <3>3 DEF CommitMeans
    <3> QED  BY <1>1, <1>2, <2>1, <3>1, <3>2, <3>4 DEF DocumentInv
  <2> QED  BY <1>1, <2>1, <2>2, <2>3, TrailStays
<1> QED  BY <1>3, <1>4, <1>5 DEF Stage

LEMMA CommitDeleteKeeps == ASSUME FilePatchInv, CommitDelete PROVE FilePatchInv'
<1>1. /\ job \in JobStates /\ job.pc = "commit"
      /\ UNCHANGED <<temps, operations, writes, base, edits>>
      /\ onFile \in Files /\ deletes \subseteq FileNames
  BY DEF CommitDelete, FilePatchInv, FilePatchType
<1>2. RemovedPaths' = RemovedPaths
  BY <1>1 DEF RemovedPaths
<1>3. ASSUME NEW path \in deletes, onFile' = [onFile EXCEPT ![path] = Missing],
             deletes' = deletes \ {path}, job' = job
      PROVE  FilePatchInv'
  <2>1. path \in FileNames
    BY <1>1
  <2>2. onFile' \in Files
    BY <1>1, <1>3, <2>1 DEF Files
  <2>3. FilePatchType' /\ job' # NoJob
    BY <1>1, <1>3, <2>2 DEF FilePatchInv, FilePatchType, NoJob
  <2>4. ASSUME NEW m \in Files, Undisturbed', Undisturbed => DocumentInv(m)
        PROVE  DocumentInv(m)'
    <3>1. DocumentInv(m)
      BY <1>1, <1>3, <2>4 DEF Undisturbed
    <3>2. CommitMeans(m) /\ deletes \subseteq RemovedPaths /\ ~job.dry
      BY <1>1, <3>1 DEF DocumentInv
    <3>3. /\ onFile'[path] = Missing
          /\ \A f \in FileNames : f # path => onFile'[f] = onFile[f]
      BY <1>1, <1>3, <2>1 DEF Files
    <3>4. ASSUME ~\E w \in temps : w.path = path PROVE m[path] = Missing
      BY <2>1, <3>2, <3>4 DEF CommitMeans
    <3>5. CommitMeans(m)'
      BY <1>1, <1>2, <1>3, <2>1, <3>2, <3>3, <3>4 DEF CommitMeans
    <3> QED  BY <1>1, <1>2, <1>3, <3>2, <3>5 DEF DocumentInv
  <2> QED  BY <1>1, <2>3, <2>4, TrailStays
<1>4. ASSUME Goto("torn"), onFile' = onFile, deletes' = deletes PROVE FilePatchInv'
  <2>1. /\ job' \in JobStates /\ job'.pc = "torn" /\ job'.tool = job.tool
        /\ job'.dry = job.dry /\ job' # NoJob
    BY <1>1, <1>4, GotoType
  <2>2. FilePatchType'
    BY <1>1, <1>4, <2>1 DEF FilePatchInv, FilePatchType
  <2>3. ASSUME NEW m \in Files, Undisturbed', Undisturbed => DocumentInv(m)
        PROVE  DocumentInv(m)'
    <3>1. DocumentInv(m)
      BY <1>1, <2>1, <2>3 DEF Undisturbed
    <3> QED  BY <1>1, <1>2, <1>4, <2>1, <3>1 DEF DocumentInv, CommitMeans
  <2> QED  BY <1>1, <2>1, <2>2, <2>3, TrailStays
<1> QED  BY <1>3, <1>4 DEF CommitDelete

LEMMA CommitRenameKeeps == ASSUME FilePatchInv, CommitRename PROVE FilePatchInv'
<1>1. /\ job \in JobStates /\ job.pc = "commit" /\ deletes = {}
      /\ UNCHANGED <<operations, writes, deletes, base, edits>>
      /\ onFile \in Files /\ temps \subseteq Proposals
  BY DEF CommitRename, RenameIsDue, plan, FilePatchInv, FilePatchType
<1>2. RemovedPaths' = RemovedPaths
  BY <1>1 DEF RemovedPaths
<1>3. ASSUME NEW w \in temps, onFile' = [onFile EXCEPT ![w.path] = w.content],
             temps' = temps \ {w}, job' = job
      PROVE  FilePatchInv'
  <2>1. w \in Proposals
    BY <1>1
  <2>2. w.path \in FileNames /\ w.content \in Contents
    BY <2>1 DEF Proposals
  <2>3. onFile' \in Files
    BY <1>1, <1>3, <2>2 DEF Files
  <2>4. FilePatchType' /\ job' # NoJob
    BY <1>1, <1>3, <2>3 DEF FilePatchInv, FilePatchType, NoJob
  <2>5. ASSUME NEW m \in Files, Undisturbed', Undisturbed => DocumentInv(m)
        PROVE  DocumentInv(m)'
    <3>1. DocumentInv(m)
      BY <1>1, <1>3, <2>5 DEF Undisturbed
    <3>2. CommitMeans(m) /\ ~job.dry
      BY <1>1, <3>1 DEF DocumentInv
    <3>3. /\ onFile'[w.path] = m[w.path]
          /\ \A f \in FileNames : f # w.path => onFile'[f] = onFile[f]
      BY <1>1, <1>3, <2>2, <3>2 DEF Files, CommitMeans
    <3>4. ASSUME NEW f \in FileNames, f # w.path, ~\E v \in temps' : v.path = f
          PROVE  onFile'[f] = m[f]
      <4>1. ~\E v \in temps : v.path = f
        BY <1>3, <3>4
      <4> QED  BY <1>1, <3>2, <3>3, <3>4, <4>1 DEF CommitMeans
    <3>5. \A v \in temps' : m[v.path] = v.content
      BY <1>3, <3>2 DEF CommitMeans
    <3>6. ASSUME NEW f \in FileNames
          PROVE  onFile'[f] \in {base[f], m[f]} \cup (IF f \in RemovedPaths THEN {Missing} ELSE {})
      BY <3>2, <3>3 DEF CommitMeans
    <3>7. CommitMeans(m)'
      BY <1>1, <1>2, <3>3, <3>4, <3>5, <3>6 DEF CommitMeans
    <3> QED  BY <1>1, <1>2, <1>3, <3>1, <3>2, <3>7 DEF DocumentInv
  <2> QED  BY <1>1, <2>4, <2>5, TrailStays
<1>4. ASSUME job.tool = "write", temps' = {}, Goto("failed"), onFile' = onFile
      PROVE  FilePatchInv'
  <2>1. job' \in JobStates /\ job'.tool = job.tool /\ job' # NoJob
    BY <1>1, <1>4, GotoType
  <2>2. FilePatchType' /\ ~Undisturbed'
    BY <1>1, <1>4, <2>1 DEF FilePatchInv, FilePatchType, Undisturbed
  <2> QED  BY <1>1, <2>1, <2>2, TrailStays
<1>5. ASSUME temps' = temps, Goto("torn"), onFile' = onFile PROVE FilePatchInv'
  <2>1. /\ job' \in JobStates /\ job'.pc = "torn" /\ job'.tool = job.tool
        /\ job'.dry = job.dry /\ job' # NoJob
    BY <1>1, <1>5, GotoType
  <2>2. FilePatchType'
    BY <1>1, <1>5, <2>1 DEF FilePatchInv, FilePatchType
  <2>3. ASSUME NEW m \in Files, Undisturbed', Undisturbed => DocumentInv(m)
        PROVE  DocumentInv(m)'
    <3>1. DocumentInv(m)
      BY <1>1, <2>1, <2>3 DEF Undisturbed
    <3> QED  BY <1>1, <1>2, <1>5, <2>1, <3>1 DEF DocumentInv, CommitMeans
  <2> QED  BY <1>1, <2>1, <2>2, <2>3, TrailStays
<1> QED  BY <1>3, <1>4, <1>5 DEF CommitRename

LEMMA CommittedKeeps == ASSUME FilePatchInv, Committed PROVE FilePatchInv'
<1>1. /\ job \in JobStates /\ job.pc = "commit" /\ deletes = {} /\ temps = {}
      /\ UNCHANGED <<onFile, temps, operations, writes, deletes, base, edits>>
      /\ Goto("succeeded") /\ onFile \in Files
  BY DEF Committed, plan, FilePatchInv, FilePatchType
<1>2. /\ job' \in JobStates /\ job'.pc = "succeeded" /\ job'.tool = job.tool
      /\ job'.dry = job.dry /\ job' # NoJob
  BY <1>1, GotoType
<1>3. FilePatchType'
  BY <1>1, <1>2 DEF FilePatchInv, FilePatchType
<1>4. ASSUME NEW m \in Files, Undisturbed', Undisturbed => DocumentInv(m) PROVE DocumentInv(m)'
  <2>1. DocumentInv(m)
    BY <1>1, <1>2, <1>4 DEF Undisturbed
  <2>2. CommitMeans(m) /\ ~job.dry
    BY <1>1, <2>1 DEF DocumentInv
  <2>3. \A f \in FileNames : onFile[f] = m[f]
    BY <1>1, <2>2 DEF CommitMeans
  <2>4. onFile = m
    BY <1>1, <2>3 DEF Files
  <2> QED  BY <1>1, <1>2, <2>2, <2>4 DEF DocumentInv
<1> QED  BY <1>1, <1>2, <1>3, <1>4, TrailStays

LEMMA EditByOtherKeeps == ASSUME FilePatchInv, EditByOther PROVE FilePatchInv'
<1>1. /\ job # NoJob /\ onFile \in Files /\ edits \in Nat /\ edits' = edits + 1
      /\ UNCHANGED <<temps, job, operations, writes, deletes, base>>
  BY DEF EditByOther, plan, FilePatchInv, FilePatchType
<1>2. PICK f \in FileNames, content \in Contents \cup {Missing} :
        onFile' = [onFile EXCEPT ![f] = content]
  BY DEF EditByOther
<1>3. onFile' \in Files
  BY <1>1, <1>2 DEF Files
<1>4. FilePatchType' /\ ~Undisturbed'
  BY <1>1, <1>3 DEF FilePatchInv, FilePatchType, Undisturbed
<1> QED  BY <1>1, <1>4, TrailStays

LEMMA InitFilePatchInv == FilePatchInit => FilePatchInv
<1> SUFFICES ASSUME FilePatchInit PROVE FilePatchInv
  OBVIOUS
<1>1. /\ onFile \in Files /\ base = onFile /\ temps = {} /\ operations = <<>>
      /\ writes = {} /\ deletes = {} /\ job = NoJob /\ edits = 0
  BY DEF FilePatchInit, Files
<1>2. job \in JobStates /\ operations \in Seq(PatchOperation) /\ ~Undisturbed
  BY <1>1 DEF NoJob, JobStates, Undisturbed
<1>3. FilePatchType
  BY <1>1, <1>2 DEF FilePatchType
<1>4. IsTrail([i \in 0..0 |-> base])
  BY <1>1 DEF IsTrail
<1> QED  BY <1>1, <1>2, <1>3, <1>4 DEF FilePatchInv

LEMMA FilePatchInvHolds == FilePatchSpec => []FilePatchInv
<1>1. FilePatchInv /\ [FilePatchNext]_filePatchVars => FilePatchInv'
  <2> SUFFICES ASSUME FilePatchInv, [FilePatchNext]_filePatchVars PROVE FilePatchInv'
    OBVIOUS
  <2>1. CASE UNCHANGED filePatchVars
    <3>1. UNCHANGED <<onFile, temps, job, operations, writes, deletes, base, edits>>
      BY <2>1 DEF filePatchVars, plan
    <3>2. FilePatchType'
      BY <3>1 DEF FilePatchInv, FilePatchType
    <3>3. CASE job # NoJob
      <4>1. ASSUME NEW m \in Files, Undisturbed', Undisturbed => DocumentInv(m)
            PROVE  DocumentInv(m)'
        <5>1. DocumentInv(m)
          BY <3>1, <4>1 DEF Undisturbed
        <5>2. PlanMeans(m) => PlanMeans(m)'
          BY <3>1 DEF PlanMeans, Written
        <5>3. RemovedPaths' = RemovedPaths
          BY <3>1 DEF RemovedPaths
        <5>4. CommitMeans(m) => CommitMeans(m)'
          BY <3>1, <5>3 DEF CommitMeans
        <5> QED  BY <3>1, <5>1, <5>2, <5>3, <5>4 DEF DocumentInv
      <4> QED  BY <3>1, <3>2, <3>3, <4>1, TrailStays
    <3>4. CASE job = NoJob
      <4>1. PICK trail : IsTrail(trail)
        BY DEF FilePatchInv
      <4>2. IsTrail(trail)' /\ ~Undisturbed'
        BY <3>1, <3>4, <4>1 DEF IsTrail, Undisturbed, NoJob
      <4> QED  BY <3>1, <3>2, <4>2 DEF FilePatchInv
    <3> QED  BY <3>3, <3>4
  <2>2. ASSUME NEW o \in PatchOperation, PlanOperation(o) PROVE FilePatchInv'
    BY <2>2, PlanOperationKeeps
  <2> QED
    BY <2>1, <2>2, PatchBeginsKeeps, WriteBeginsKeeps, PlannedKeeps, StageKeeps,
       CommitDeleteKeeps, CommitRenameKeeps, CommittedKeeps, EditByOtherKeeps
    DEF FilePatchNext
<1> QED  BY InitFilePatchInv, <1>1, PTL DEF FilePatchSpec

\* A patch that nobody disturbs and that succeeds has done what its operations say one after
\* the other, and wherever it fails each file has its old or its new content, or was to be
\* removed (patch.rs: PatchTool::execute), for every document, set of files and order in which
\* the files are staged and committed.
THEOREM PatchesAreAsWritten == FilePatchSpec => []PatchAsWritten
<1>1. FilePatchInv => PatchAsWritten
  <2> SUFFICES ASSUME FilePatchInv, job.tool = "patch", edits = 0
               PROVE  /\ job.pc = "succeeded" => onFile = IF job.dry THEN base ELSE Meaning
                      /\ job.pc = "failed" => onFile = base
                      /\ \A f \in FileNames :
                           onFile[f] \in {base[f], Meaning[f]}
                             \cup IF \E i \in DOMAIN operations :
                                       operations[i].op \in {"Delete", "Move"}
                                         /\ operations[i].path = f
                                  THEN {Missing} ELSE {}
    BY DEF PatchAsWritten
  <2>1. PICK trail : IsTrail(trail) /\ DocumentInv(trail[Len(operations)])
    BY DEF FilePatchInv, Undisturbed
  <2>2. operations \in Seq(PatchOperation) /\ job \in JobStates
    BY DEF FilePatchInv, FilePatchType
  <2>3. Meaning = trail[Len(operations)]
    BY <2>1, <2>2, TrailEnds
  <2>4. DocumentInv(Meaning)
    BY <2>1, <2>3
  <2>5. job.pc \in {"plan", "stage", "commit", "succeeded", "failed", "torn"}
    BY <2>2, <2>4 DEF DocumentInv, JobStates
  <2>6. ASSUME NEW f \in FileNames
        PROVE  onFile[f] \in {base[f], Meaning[f]}
                 \cup (IF f \in RemovedPaths THEN {Missing} ELSE {})
    BY <2>4, <2>5 DEF DocumentInv, CommitMeans
  <2>7. \A f \in FileNames : f \in RemovedPaths <=>
          \E i \in DOMAIN operations :
            operations[i].op \in {"Delete", "Move"} /\ operations[i].path = f
    BY DEF RemovedPaths
  <2>8. /\ job.pc = "succeeded" => onFile = IF job.dry THEN base ELSE Meaning
        /\ job.pc = "failed" => onFile = base
    BY <2>4 DEF DocumentInv
  <2> QED  BY <2>6, <2>7, <2>8
<1> QED  BY <1>1, FilePatchInvHolds, PTL

-----------------------------------------------------------------------------
(* ContextManagement: the inductive invariant. *)

ChatMessage == [role : {"user", "assistant", "result"}, size : Nat, calls : Nat, owner : Nat,
                clearable : BOOLEAN]

UsersOf(c) == {i \in DOMAIN c : c[i].role = "user"}

\* As many turns of the user follow message i as the policy keeps.
IsOld(c, i) == Cardinality({u \in UsersOf(c) : u > i}) >= KeepRecentTurns

\* A result follows the message that called for it.
ChatInv(c) ==
  /\ c \in Seq(ChatMessage)
  /\ \A i \in DOMAIN c : c[i].role = "result" =>
       /\ c[i].owner \in 1..(i - 1)
       /\ c[c[i].owner].role = "assistant" /\ c[c[i].owner].calls > 0

\* The first messages of the history, and no call without its results.
IsWhole(c, upto) ==
  /\ upto \in 1..Len(c)
  /\ \A i \in DOMAIN c : c[i].role = "result" => (i <= upto <=> c[i].owner <= upto)

\* A checkpoint summarises the messages before the turns that are kept, and all of them.
SummaryInv(c, checkpoint) ==
  checkpoint # <<>> =>
    /\ IsWhole(c, checkpoint[1].upto)
    /\ checkpoint[1].heard = 1..checkpoint[1].upto
    /\ IsOld(c, checkpoint[1].upto)

ClearingInv(c, cleared) == \A i \in cleared : i \in DOMAIN c /\ IsOld(c, i)

\* The projection: one item for the first `covered` messages if `offset` is one, and one for
\* each of the messages that follow.
IsProjection(items, c, offset, covered) ==
  /\ offset \in {0, 1} /\ covered \in 0..Len(c) /\ (offset = 0 => covered = 0)
  /\ Len(items) = offset + Len(c) - covered
  /\ DOMAIN items = 1..(offset + Len(c) - covered)
  /\ offset = 1 => /\ items[1].kind = "checkpoint"
                   /\ items[1].from = 1 /\ items[1].upto = covered
  /\ \A p \in (offset + 1)..(offset + Len(c) - covered) :
       /\ items[p].kind \in {"canonical", "tombstone"}
       /\ items[p].from = covered + (p - offset) /\ items[p].upto = covered + (p - offset)

MasksOnly(items, cleared) ==
  \A p \in DOMAIN items : items[p].kind = "tombstone" => items[p].from \in cleared

OffsetOf(checkpoint) == IF checkpoint = <<>> THEN 0 ELSE 1
CoveredBy(checkpoint) == IF checkpoint = <<>> THEN 0 ELSE checkpoint[1].upto

PacketInv(items, c, checkpoint, cleared) ==
  /\ IsProjection(items, c, OffsetOf(checkpoint), CoveredBy(checkpoint))
  /\ MasksOnly(items, cleared)

ContextInv ==
  /\ ChatInv(chat)
  /\ SummaryInv(chat, activeCheckpoint)
  /\ ClearingInv(chat, clearedIds)
  /\ phase = "reply" /\ managed => PacketInv(packet, chat, activeCheckpoint, clearedIds)

-----------------------------------------------------------------------------
(* The turns that are kept. *)

\* A history that goes on from another.
GoesOnFrom(c, d) ==
  /\ c \in Seq(ChatMessage) /\ d \in Seq(ChatMessage)
  /\ Len(c) <= Len(d) /\ \A i \in DOMAIN c : d[i] = c[i]

LEMMA UsersAfter ==
  ASSUME NEW c \in Seq(ChatMessage), NEW i \in Int
  PROVE  IsFiniteSet({u \in UsersOf(c) : u > i})
<1>1. Len(c) \in Nat /\ DOMAIN c = 1..Len(c)
  OBVIOUS
<1>2. IsFiniteSet(1..Len(c))
  BY <1>1, FS_Interval
<1>3. {u \in UsersOf(c) : u > i} \in SUBSET (1..Len(c))
  BY <1>1 DEF UsersOf
<1> QED  BY <1>2, <1>3, FS_Subset

\* What is old stays so, and so is what came before it.
LEMMA OldStaysOld ==
  ASSUME NEW c, NEW d, GoesOnFrom(c, d), NEW i \in Int, NEW j \in Int, j <= i, IsOld(c, i)
  PROVE  IsOld(d, j)
<1> DEFINE S == {u \in UsersOf(c) : u > i}
           T == {u \in UsersOf(d) : u > j}
<1>1. c \in Seq(ChatMessage) /\ d \in Seq(ChatMessage)
  BY DEF GoesOnFrom
<1>2. IsFiniteSet(S) /\ IsFiniteSet(T)
  BY <1>1, UsersAfter
<1>3. S \in SUBSET T
  BY DEF GoesOnFrom, UsersOf
<1>4. Cardinality(S) <= Cardinality(T)
  BY <1>2, <1>3, FS_Subset
<1>5. Cardinality(S) \in Nat /\ Cardinality(T) \in Nat
  BY <1>2, FS_CardinalityType
<1>6. Cardinality(S) >= KeepRecentTurns
  BY DEF IsOld
<1>7. Cardinality(T) >= KeepRecentTurns
  BY <1>4, <1>5, <1>6, ContextAssumption
<1> QED  BY <1>7 DEF IsOld

LEMMA OldBefore ==
  ASSUME NEW c \in Seq(ChatMessage), NEW i \in Int, NEW j \in Int, j <= i, IsOld(c, i)
  PROVE  IsOld(c, j)
<1>1. GoesOnFrom(c, c)
  BY DEF GoesOnFrom
<1> QED  BY <1>1, OldStaysOld

\* Among finitely many positions there is one from which on there are just n.
LEMMA NthFromTheEnd ==
  ASSUME NEW S, S \subseteq Nat, IsFiniteSet(S), NEW n \in Nat \ {0}, Cardinality(S) >= n
  PROVE  \E p \in S : Cardinality({q \in S : q >= p}) = n
<1> DEFINE From(p) == {q \in S : q >= p}
           f == [p \in S |-> Cardinality(From(p))]
<1>1. ASSUME NEW p \in S
      PROVE  IsFiniteSet(From(p)) /\ Cardinality(From(p)) \in 1..Cardinality(S)
  <2>1. From(p) \in SUBSET S /\ p \in From(p)
    OBVIOUS
  <2>2. IsFiniteSet(From(p)) /\ Cardinality(From(p)) <= Cardinality(S)
    BY <2>1, FS_Subset
  <2>3. Cardinality(From(p)) \in Nat /\ Cardinality(S) \in Nat
    BY <2>2, FS_CardinalityType
  <2>4. Cardinality(From(p)) # 0
    BY <2>1, <2>2, FS_EmptySet
  <2> QED  BY <2>2, <2>3, <2>4
<1>2. ASSUME NEW a \in S, NEW b \in S, a < b
      PROVE  f[a] # f[b]
  <2>1. From(b) \in SUBSET From(a)
    <3>1. \A q \in S : q >= b => q >= a
      BY <1>2
    <3> QED  BY <3>1
  <2>2. a \in From(a) /\ a \notin From(b)
    BY <1>2
  <2>3. IsFiniteSet(From(a))
    BY <1>1
  <2>4. f[a] = Cardinality(From(a)) /\ f[b] = Cardinality(From(b))
    OBVIOUS
  <2> HIDE DEF From, f
  <2>5. Cardinality(From(a)) = Cardinality(From(b)) => From(a) = From(b)
    BY <2>1, <2>3, FS_Subset
  <2> QED  BY <2>2, <2>4, <2>5
<1>3. \A a, b \in S : f[a] = f[b] => a = b
  <2> SUFFICES ASSUME NEW a \in S, NEW b \in S, a # b PROVE f[a] # f[b]
    OBVIOUS
  <2>1. a < b \/ b < a
    OBVIOUS
  <2> HIDE DEF f
  <2> QED  BY <2>1, <1>2
<1>4. f \in [S -> 1..Cardinality(S)]
  BY <1>1
<1>5. Cardinality(S) \in Nat
  BY FS_CardinalityType
<1>6. f \in Injection(S, 1..Cardinality(S))
  <2> HIDE DEF f
  <2> QED  BY <1>3, <1>4, Zenon DEF Injection, IsInjective
<1>7. IsFiniteSet(1..Cardinality(S)) /\ Cardinality(1..Cardinality(S)) = Cardinality(S)
  BY <1>5, FS_Interval
<1>8. f \in Surjection(S, 1..Cardinality(S))
  <2> HIDE DEF f
  <2> QED  BY <1>6, <1>7, FS_Injection
<1>9. \A k \in 1..Cardinality(S) : \E p \in S : f[p] = k
  <2> HIDE DEF f
  <2> QED  BY <1>8, Zenon DEF Surjection
<1>10. n \in 1..Cardinality(S)
  BY <1>5
<1> QED  BY <1>9, <1>10

-----------------------------------------------------------------------------
(* What stays out of the recent window is old. *)

UserPositions(items) == {p \in DOMAIN items : RoleOf(items[p]) = "user"}

\* Where the window starts: at its oldest turn, unless there is none to spare.
LEMMA RecentStarts ==
  ASSUME NEW items, Len(items) \in Nat, DOMAIN items = 1..Len(items)
  PROVE  /\ RecentProtectedStart(items) \in Nat
         /\ RecentProtectedStart(items) <= RecentWindowStart(items)
         /\ KeepRecentTurns # 0 /\ RecentWindowStart(items) # 1 =>
              /\ RecentWindowStart(items) \in UserPositions(items)
              /\ Cardinality({q \in UserPositions(items) : q >= RecentWindowStart(items)})
                   = KeepRecentTurns
<1> DEFINE S == {Len(items) + 1} \cup
                {p \in DOMAIN items : TokensFrom(items, p, Len(items)) <= KeepRecentTokens}
           users == UserPositions(items)
           IsNth(s) == Cardinality({q \in users : q >= s}) = KeepRecentTurns
<1>1. S \subseteq Nat /\ S # {}
  OBVIOUS
<1>2. TailStart(items) = Min(S)
  BY DEF TailStart
<1>3. Min(S) \in S
  <2> HIDE DEF S
  <2> QED  BY <1>1, LeastIndex DEF Min
<1>4. TailStart(items) \in Nat
  BY ONLY <1>1, <1>2, <1>3
<1>5. IsFiniteSet(users) /\ users \subseteq Nat
  <2>1. users \in SUBSET (1..Len(items))
    BY DEF UserPositions
  <2>2. IsFiniteSet(1..Len(items))
    BY FS_Interval
  <2>3. \A q \in users : q \in Nat
    BY DEF UserPositions
  <2> QED  BY <2>1, <2>2, <2>3, FS_Subset
<1>6. Cardinality(users) \in Nat
  BY <1>5, FS_CardinalityType
<1>7. \/ KeepRecentTurns = 0 /\ RecentWindowStart(items) \in Nat
      \/ RecentWindowStart(items) = 1
      \/ RecentWindowStart(items) \in users /\ IsNth(RecentWindowStart(items))
  <2>1. CASE KeepRecentTurns = 0
    BY <2>1 DEF RecentWindowStart
  <2>2. CASE KeepRecentTurns # 0 /\ Cardinality(users) < KeepRecentTurns
    BY <2>2 DEF RecentWindowStart, UserPositions
  <2>3. CASE KeepRecentTurns # 0 /\ ~(Cardinality(users) < KeepRecentTurns)
    <3>1. RecentWindowStart(items) = CHOOSE s \in users : IsNth(s)
      BY <2>3, Zenon DEF RecentWindowStart, UserPositions
    <3>2. KeepRecentTurns \in Nat \ {0} /\ Cardinality(users) >= KeepRecentTurns
      BY <1>6, <2>3, ContextAssumption
    <3>3. \E s \in users : IsNth(s)
      <4> HIDE DEF users
      <4> QED  BY <1>5, <3>2, NthFromTheEnd
    <3> HIDE DEF users, IsNth
    <3> QED  BY <3>1, <3>3, Zenon
  <2> QED  BY <2>1, <2>2, <2>3
<1>8. RecentWindowStart(items) \in Nat
  BY <1>5, <1>7
<1>9. /\ RecentProtectedStart(items) \in Nat
      /\ RecentProtectedStart(items) <= RecentWindowStart(items)
  BY <1>4, <1>8 DEF RecentProtectedStart, Least
<1> QED  BY <1>7, <1>9

LEMMA ProjectedRole ==
  ASSUME NEW items, NEW offset, NEW covered, ChatInv(chat),
         IsProjection(items, chat, offset, covered), NEW p \in DOMAIN items
  PROVE  /\ p > offset => /\ IsMessage(items[p]) /\ RoleOf(items[p]) = chat[items[p].from].role
                          /\ items[p].from \in DOMAIN chat
                          /\ items[p].from = covered + (p - offset)
                          /\ items[p].upto = items[p].from
         /\ p <= offset => ~IsMessage(items[p]) /\ RoleOf(items[p]) = "system"
<1>1. Len(chat) \in Nat /\ DOMAIN chat = 1..Len(chat)
  BY DEF ChatInv
<1>2. offset \in {0, 1} /\ covered \in 0..Len(chat)
      /\ DOMAIN items = 1..(offset + Len(chat) - covered)
  BY DEF IsProjection
<1>3. CASE p > offset
  <2>1. p \in (offset + 1)..(offset + Len(chat) - covered)
    BY <1>1, <1>2, <1>3
  <2>2. /\ items[p].kind \in {"canonical", "tombstone"}
        /\ items[p].from = covered + (p - offset) /\ items[p].upto = covered + (p - offset)
    BY <2>1 DEF IsProjection
  <2>3. items[p].from \in DOMAIN chat
    BY <1>1, <1>2, <2>1, <2>2
  <2> QED  BY <1>3, <2>2, <2>3, <1>2 DEF IsMessage, RoleOf
<1>4. CASE p <= offset
  <2>1. p = 1 /\ offset = 1
    BY <1>1, <1>2, <1>4
  <2>2. items[p].kind = "checkpoint"
    BY <2>1 DEF IsProjection
  <2> QED  BY <1>2, <1>4, <2>2 DEF IsMessage, RoleOf
<1> QED  BY <1>1, <1>2, <1>3, <1>4

LEMMA BeforeTheWindow ==
  ASSUME NEW items, NEW offset, NEW covered, ChatInv(chat),
         IsProjection(items, chat, offset, covered),
         NEW p \in DOMAIN items, p > offset, p < RecentProtectedStart(items)
  PROVE  IsOld(chat, items[p].from)
<1> DEFINE users == {q \in DOMAIN items : RoleOf(items[q]) = "user"}
           From(s) == {q \in users : q >= s}
           later == {u \in UsersOf(chat) : u > items[p].from}
<1>1. Len(chat) \in Nat /\ DOMAIN chat = 1..Len(chat) /\ chat \in Seq(ChatMessage)
  BY DEF ChatInv
<1>2. /\ offset \in {0, 1} /\ covered \in 0..Len(chat)
      /\ Len(items) \in Nat /\ DOMAIN items = 1..Len(items)
  BY <1>1 DEF IsProjection
<1>3. items[p].from \in Int
  BY <1>1, ProjectedRole
<1>4. IsFiniteSet(later)
  BY <1>1, <1>3, UsersAfter
<1>5. Cardinality(later) \in Nat
  BY <1>4, FS_CardinalityType
<1>6. CASE KeepRecentTurns = 0
  BY <1>5, <1>6 DEF IsOld
<1>7. CASE KeepRecentTurns # 0
  <2>1. /\ RecentProtectedStart(items) \in Nat
        /\ RecentProtectedStart(items) <= RecentWindowStart(items)
        /\ RecentWindowStart(items) # 1 =>
             /\ RecentWindowStart(items) \in users
             /\ Cardinality(From(RecentWindowStart(items))) = KeepRecentTurns
    BY <1>2, <1>7, RecentStarts DEF UserPositions
  <2>2. RecentWindowStart(items) # 1
    BY <1>2, <2>1
  <2>3. PICK start \in users : Cardinality(From(start)) = KeepRecentTurns
                               /\ RecentWindowStart(items) = start
    BY <2>1, <2>2
  <2>4. p < start /\ KeepRecentTurns \in Nat
    BY <1>2, <2>1, <2>3, ContextAssumption
  \* Each of them is a later message of the user.
  <2> DEFINE f == [q \in From(start) |-> items[q].from]
  <2>5. ASSUME NEW q \in From(start)
        PROVE  items[q].from \in later /\ items[q].from = covered + (q - offset) /\ q \in Nat
    <3>1. q \in DOMAIN items /\ RoleOf(items[q]) = "user" /\ q >= start /\ q \in Nat
      BY <1>2
    <3>2. q > offset /\ q > p
      BY <1>2, <2>4, <3>1
    <3>3. /\ chat[items[q].from].role = "user"
          /\ items[q].from \in DOMAIN chat
          /\ items[q].from = covered + (q - offset)
      BY <3>1, <3>2, ProjectedRole
    <3>4. items[p].from = covered + (p - offset)
      BY ProjectedRole
    <3>5. items[q].from > items[p].from
      BY <1>2, <3>1, <3>2, <3>3, <3>4
    <3> QED  BY <3>1, <3>3, <3>5 DEF UsersOf
  <2>6. f \in Injection(From(start), later)
    <3>1. f \in [From(start) -> later]
      BY <2>5
    <3>2. \A a, b \in From(start) : f[a] = f[b] => a = b
      BY <1>2, <2>5
    <3> HIDE DEF f, From, later
    <3> QED  BY <3>1, <3>2, Zenon DEF Injection, IsInjective
  <2>7. Cardinality(From(start)) <= Cardinality(later)
    <3> HIDE DEF f, From, later
    <3> QED  BY <1>4, <2>6, FS_Injection
  <2>8. Cardinality(later) >= KeepRecentTurns
    BY <1>5, <2>3, <2>4, <2>7
  <2> QED  BY <2>8 DEF IsOld
<1> QED  BY <1>6, <1>7

-----------------------------------------------------------------------------
(* The projection, as it is built, cleared and compacted. *)

LEMMA Joined ==
  ASSUME NEW S, NEW s \in Seq(S), NEW t \in Seq(S)
  PROVE  /\ s \o t \in Seq(S) /\ Len(s \o t) = Len(s) + Len(t)
         /\ DOMAIN (s \o t) = 1..(Len(s) + Len(t))
         /\ \A i \in 1..(Len(s) + Len(t)) :
              (s \o t)[i] = IF i <= Len(s) THEN s[i] ELSE t[i - Len(s)]
OBVIOUS

LEMMA ItemFields ==
  ASSUME NEW i
  PROVE  /\ Tombstone(i).kind = "tombstone" /\ Tombstone(i).from = i /\ Tombstone(i).upto = i
         /\ Canonical(i).kind = "canonical" /\ Canonical(i).from = i /\ Canonical(i).upto = i
BY DEF Tombstone, Canonical

LEMMA AppliedFacts ==
  ASSUME ContextInv
  PROVE  /\ Applied = <<>> \/ Applied = activeCheckpoint
         /\ SummaryInv(chat, Applied)
         /\ OffsetOf(Applied) \in {0, 1} /\ CoveredBy(Applied) \in 0..Len(chat)
         /\ OffsetOf(Applied) = 0 => CoveredBy(Applied) = 0
<1>1. Len(chat) \in Nat
  BY DEF ContextInv, ChatInv
<1>2. Applied = <<>> \/ Applied = activeCheckpoint
  BY DEF Applied
<1>3. SummaryInv(chat, Applied)
  BY <1>2 DEF ContextInv, SummaryInv
<1>4. Applied # <<>> => Applied[1].upto \in 1..Len(chat)
  BY <1>3 DEF SummaryInv, IsWhole
<1> QED  BY <1>1, <1>2, <1>3, <1>4 DEF OffsetOf, CoveredBy

LEMMA ProjectedShows ==
  ASSUME ContextInv
  PROVE  PacketInv(Projected, chat, Applied, clearedIds)
<1> DEFINE item(i) == IF i \in clearedIds THEN Tombstone(i) ELSE Canonical(i)
<1> PICK offset, covered : offset = OffsetOf(Applied) /\ covered = CoveredBy(Applied)
  OBVIOUS
<1> PICK n : n = Len(chat)
  OBVIOUS
<1> PICK head : head = IF Applied = <<>> THEN <<>> ELSE <<CheckpointItem(Applied[1])>>
  OBVIOUS
<1> PICK tail : tail = [k \in 1..(n - covered) |-> item(covered + k)]
  OBVIOUS
<1> PICK T : T = {CheckpointItem(Applied[1])} \cup {item(i) : i \in 1..n}
  OBVIOUS
<1>1. n \in Nat /\ DOMAIN chat = 1..n
  BY DEF ContextInv, ChatInv
<1>2. offset \in {0, 1} /\ covered \in 0..n /\ (offset = 0 => covered = 0)
  BY AppliedFacts
<1>3. Projected = head \o tail
  BY DEF Projected, CoveredBy
<1>4. tail \in Seq(T) /\ Len(tail) = n - covered
  <2>1. \A k \in 1..(n - covered) : item(covered + k) \in T
    <3>1. \A k \in 1..(n - covered) : covered + k \in 1..n
      BY <1>1, <1>2
    <3> HIDE DEF item
    <3> QED  BY <3>1
  <2>2. n - covered \in Nat
    BY <1>1, <1>2
  <2> HIDE DEF item
  <2> QED  BY <2>1, <2>2
<1>5. head \in Seq(T) /\ Len(head) = offset
  <2>1. CASE Applied = <<>>
    <3>1. head = <<>> /\ offset = 0
      BY <2>1 DEF OffsetOf
    <3> QED  BY ONLY <3>1
  <2>2. CASE Applied # <<>>
    <3> PICK e : e = CheckpointItem(Applied[1])
      OBVIOUS
    <3>1. head = <<e>> /\ offset = 1 /\ e \in T
      BY <2>2 DEF OffsetOf
    <3> QED  BY ONLY <3>1
  <2> QED  BY <2>1, <2>2
<1>6. /\ Len(Projected) = offset + n - covered
      /\ DOMAIN Projected = 1..(offset + n - covered)
      /\ \A p \in 1..(offset + n - covered) :
           Projected[p] = IF p <= offset THEN head[p] ELSE tail[p - offset]
  <2>1. /\ Len(head \o tail) = Len(head) + Len(tail)
        /\ DOMAIN (head \o tail) = 1..(Len(head) + Len(tail))
        /\ \A p \in 1..(Len(head) + Len(tail)) :
             (head \o tail)[p] = IF p <= Len(head) THEN head[p] ELSE tail[p - Len(head)]
    BY ONLY <1>4, <1>5, Joined
  <2>2. Len(head) + Len(tail) = offset + n - covered
    BY <1>1, <1>2, <1>4, <1>5
  <2> QED  BY ONLY <1>3, <1>5, <2>1, <2>2
<1>7. offset = 1 => /\ Projected[1].kind = "checkpoint"
                    /\ Projected[1].from = 1 /\ Projected[1].upto = covered
  <2> SUFFICES ASSUME offset = 1 PROVE /\ Projected[1].kind = "checkpoint"
                    /\ Projected[1].from = 1 /\ Projected[1].upto = covered
    OBVIOUS
  <2>1. Applied # <<>> /\ covered = Applied[1].upto
    BY DEF OffsetOf, CoveredBy
  <2>2. 1 \in 1..(offset + n - covered)
    BY <1>1, <1>2
  <2>3. Projected[1] = head[1]
    BY <1>2, <1>6, <2>2
  <2>4. head[1] = CheckpointItem(Applied[1])
    BY <2>1
  <2> QED  BY <2>1, <2>3, <2>4 DEF CheckpointItem
<1>8. ASSUME NEW p \in (offset + 1)..(offset + n - covered)
      PROVE  Projected[p] = item(covered + (p - offset))
  <2>1. p \in 1..(offset + n - covered) /\ ~(p <= offset) /\ p - offset \in 1..(n - covered)
    BY <1>1, <1>2
  <2>2. Projected[p] = tail[p - offset]
    BY <1>6, <2>1
  <2> HIDE DEF item
  <2> QED  BY <2>1, <2>2
<1>9. \A p \in (offset + 1)..(offset + n - covered) :
        /\ Projected[p].kind \in {"canonical", "tombstone"}
        /\ Projected[p].from = covered + (p - offset)
        /\ Projected[p].upto = covered + (p - offset)
        /\ Projected[p].kind = "tombstone" => Projected[p].from \in clearedIds
  <2> SUFFICES ASSUME NEW p \in (offset + 1)..(offset + n - covered)
      PROVE  /\ Projected[p].kind \in {"canonical", "tombstone"}
             /\ Projected[p].from = covered + (p - offset)
             /\ Projected[p].upto = covered + (p - offset)
             /\ Projected[p].kind = "tombstone" => Projected[p].from \in clearedIds
    OBVIOUS
  <2> PICK i : i = covered + (p - offset)
    OBVIOUS
  <2>1. Projected[p] = IF i \in clearedIds THEN Tombstone(i) ELSE Canonical(i)
    BY <1>8
  <2>2. /\ Tombstone(i).kind = "tombstone" /\ Tombstone(i).from = i /\ Tombstone(i).upto = i
        /\ Canonical(i).kind = "canonical" /\ Canonical(i).from = i /\ Canonical(i).upto = i
    BY ItemFields
  <2> QED  BY <2>1, <2>2
<1>10. IsProjection(Projected, chat, offset, covered)
  BY <1>2, <1>6, <1>7, <1>9 DEF IsProjection
<1>11. MasksOnly(Projected, clearedIds)
  <2> SUFFICES ASSUME NEW p \in DOMAIN Projected, Projected[p].kind = "tombstone"
               PROVE  Projected[p].from \in clearedIds
    BY DEF MasksOnly
  <2>1. p \in 1..(offset + n - covered)
    BY <1>6
  <2>2. CASE p <= offset
    BY <1>2, <1>7, <2>1, <2>2
  <2>3. CASE p > offset
    BY <1>1, <1>2, <1>9, <2>1, <2>3
  <2> QED  BY <1>2, <2>1, <2>2, <2>3
<1> QED  BY <1>10, <1>11 DEF PacketInv

\* The results that are cleared come before the recent window.
LEMMA ToClearFacts ==
  ASSUME NEW items, NEW p \in ToClear(items)
  PROVE  /\ p \in DOMAIN items /\ RoleOf(items[p]) = "result"
         /\ p < RecentProtectedStart(items)
<1>1. p \in Clearable(items)
  BY DEF ToClear
<1>2. PICK a \in Callers(items) :
        /\ \A q \in ResultsOf(items, a) \cup {a} : q < RecentProtectedStart(items)
        /\ p \in ResultsOf(items, a)
  BY <1>1 DEF Clearable
<1> QED  BY <1>2 DEF ResultsOf

LEMMA ClearedShows ==
  ASSUME ContextInv
  PROVE  /\ PacketInv(AfterClearing, chat, Applied, ClearedNow)
         /\ ClearingInv(chat, ClearedNow)
         /\ AfterClearing \in Seq(Range(AfterClearing))
<1> PICK offset, covered : offset = OffsetOf(Applied) /\ covered = CoveredBy(Applied)
  OBVIOUS
<1> PICK items : items = Projected
  OBVIOUS
<1> PICK S : S = ToClear(items)
  OBVIOUS
<1> PICK n : n = offset + Len(chat) - covered
  OBVIOUS
<1>1. ChatInv(chat) /\ ClearingInv(chat, clearedIds)
  BY DEF ContextInv
<1>2. IsProjection(items, chat, offset, covered) /\ MasksOnly(items, clearedIds)
  BY ProjectedShows DEF PacketInv
<1>3. offset \in {0, 1} /\ covered \in 0..Len(chat) /\ Len(chat) \in Nat
      /\ Len(items) = n /\ DOMAIN items = 1..n /\ n \in Nat
  BY <1>1, <1>2 DEF IsProjection, ChatInv
<1>4. ASSUME NEW p \in S
      PROVE  /\ p \in DOMAIN items /\ p > offset
             /\ items[p].from \in DOMAIN chat /\ IsOld(chat, items[p].from)
  <2>1. p \in DOMAIN items /\ RoleOf(items[p]) = "result" /\ p < RecentProtectedStart(items)
    BY ToClearFacts
  <2>2. p > offset
    <3>1. p <= offset => RoleOf(items[p]) = "system"
      BY <1>1, <1>2, <2>1, ProjectedRole
    <3> QED  BY <1>3, <2>1, <3>1
  <2>3. items[p].from \in DOMAIN chat
    BY <1>1, <1>2, <2>1, <2>2, ProjectedRole
  <2>4. IsOld(chat, items[p].from)
    BY <1>1, <1>2, <2>1, <2>2, BeforeTheWindow
  <2> QED  BY <2>1, <2>2, <2>3, <2>4
<1>5. ClearedNow = clearedIds \cup {items[p].from : p \in S}
  BY DEF ClearedNow
<1>6. ClearingInv(chat, ClearedNow)
  BY <1>1, <1>4, <1>5 DEF ClearingInv
<1> PICK after : after = AfterClearing
  OBVIOUS
<1>7. after = [p \in 1..n |-> IF p \in S THEN Tombstone(items[p].from) ELSE items[p]]
  BY <1>3 DEF AfterClearing, Cleared
<1>8. Len(after) = n /\ DOMAIN after = 1..n
  BY <1>3, <1>7
<1>9. ASSUME NEW p \in 1..n
      PROVE  after[p] = IF p \in S THEN Tombstone(items[p].from) ELSE items[p]
  BY <1>7
<1>10. IsProjection(after, chat, offset, covered)
  <2>1. offset = 1 => after[1] = items[1]
    <3> SUFFICES ASSUME offset = 1 PROVE after[1] = items[1]
      OBVIOUS
    <3>1. 1 \in 1..n
      BY <1>3
    <3>2. 1 \notin S
      BY <1>3, <1>4
    <3> QED  BY <1>9, <3>1, <3>2
  <2>2. ASSUME NEW p \in (offset + 1)..(offset + Len(chat) - covered)
        PROVE  /\ after[p].kind \in {"canonical", "tombstone"}
               /\ after[p].from = covered + (p - offset)
               /\ after[p].upto = covered + (p - offset)
    <3>1. p \in 1..n
      BY <1>3
    <3>2. /\ items[p].kind \in {"canonical", "tombstone"}
          /\ items[p].from = covered + (p - offset) /\ items[p].upto = covered + (p - offset)
      BY <1>2 DEF IsProjection
    <3> PICK i : i = items[p].from
      OBVIOUS
    <3>3. Tombstone(i).kind = "tombstone" /\ Tombstone(i).from = i /\ Tombstone(i).upto = i
      BY ItemFields
    <3>4. after[p] = Tombstone(i) \/ after[p] = items[p]
      BY <1>9, <3>1
    <3> QED  BY <3>2, <3>3, <3>4
  <2> QED  BY <1>2, <1>8, <2>1, <2>2 DEF IsProjection
<1>11. MasksOnly(after, ClearedNow)
  <2> SUFFICES ASSUME NEW p \in 1..n, after[p].kind = "tombstone"
               PROVE  after[p].from \in ClearedNow
    BY <1>8 DEF MasksOnly
  <2>1. CASE p \in S
    <3> PICK i : i = items[p].from
      OBVIOUS
    <3>1. after[p] = Tombstone(i) /\ i \in ClearedNow
      BY <1>5, <1>9, <2>1
    <3>2. Tombstone(i).from = i
      BY ItemFields
    <3> QED  BY <3>1, <3>2
  <2>2. CASE p \notin S
    BY <1>2, <1>3, <1>5, <1>9, <2>2 DEF MasksOnly
  <2> QED  BY <2>1, <2>2
<1>12. after \in Seq(Range(after))
  <2>1. \A p \in 1..n : after[p] \in Range(after)
    BY <1>8 DEF Range
  <2>2. after = [p \in 1..n |-> after[p]]
    BY <1>7
  <2> QED  BY <1>3, <2>1, <2>2
<1> QED  BY <1>6, <1>10, <1>11, <1>12 DEF PacketInv

LEMMA LargestNumber ==
  ASSUME NEW n \in Nat, NEW S, S \subseteq 0..n, S # {}
  PROVE  Max(S) \in S
<1> DEFINE T == {n - i : i \in S}
<1>1. T \subseteq Nat /\ T # {}
  <2>1. \A i \in S : i \in 0..n
    OBVIOUS
  <2>2. \A i \in S : n - i \in Nat
    BY <2>1
  <2> QED  BY <2>2
<1>2. PICK t \in T : \A u \in T : t <= u
  <2> HIDE DEF T
  <2> QED  BY <1>1, LeastIndex
<1>3. PICK i \in S : t = n - i
  OBVIOUS
<1>4. \A j \in S : i >= j
  <2> SUFFICES ASSUME NEW j \in S PROVE i >= j
    OBVIOUS
  <2>1. n - j \in T
    OBVIOUS
  <2>2. n - i <= n - j
    BY <1>2, <1>3, <2>1
  <2>3. i \in 0..n /\ j \in 0..n
    OBVIOUS
  <2> QED  BY <2>2, <2>3
<1> QED  BY <1>4 DEF Max

\* Where a compaction starts and ends.
LEMMA CompactionFacts ==
  ASSUME NEW items, NEW offset, NEW covered, ChatInv(chat),
         IsProjection(items, chat, offset, covered), CanCompact(items)
  PROVE  /\ CompactionStart(items) = 1
         /\ CompactionEnd(items) \in 2..(Len(items) + 1)
         /\ CompactionEnd(items) <= RecentProtectedStart(items)
         /\ RecentProtectedStart(items) \in Nat
         /\ KeepsExchanges(items, 1, CompactionEnd(items))
<1> DEFINE found == {p \in DOMAIN items : items[p].kind = "checkpoint"}
           limit == Least(RecentProtectedStart(items), Len(items) + 1)
           fits == {e \in 1..limit : TokensFrom(items, 1, e - 1) <= UsableLimit}
           S == {1} \cup {e \in fits : KeepsExchanges(items, 1, e)}
<1>1. Len(chat) \in Nat
  BY DEF ChatInv
<1>2. offset \in {0, 1} /\ covered \in 0..Len(chat)
      /\ Len(items) \in Nat /\ DOMAIN items = 1..Len(items)
  BY <1>1 DEF IsProjection
<1>3. CompactionStart(items) = 1
  <2>1. \A p \in found : p = 1
    <3>1. \A p \in DOMAIN items : p > offset => items[p].kind # "checkpoint"
      BY ProjectedRole DEF IsMessage
    <3> QED  BY <1>2, <3>1
  <2>2. CASE found = {}
    BY <2>2 DEF CompactionStart
  <2>3. CASE found # {}
    <3>1. found = {1}
      BY <2>1, <2>3
    <3>2. Min({1}) = 1
      BY DEF Min
    <3> QED  BY <2>3, <3>1, <3>2 DEF CompactionStart
  <2> QED  BY <2>2, <2>3
<1>4. RecentProtectedStart(items) \in Nat
  BY <1>2, RecentStarts
<1>5. /\ limit \in Nat
      /\ limit <= RecentProtectedStart(items) /\ limit <= Len(items) + 1
  BY <1>2, <1>4 DEF Least
<1>6. CompactionEnd(items) = IF fits = {} THEN 1 ELSE Max(S)
  BY <1>3 DEF CompactionEnd
<1>7. CompactionEnd(items) > 1
  BY <1>3 DEF CanCompact
<1>8. fits # {} /\ CompactionEnd(items) = Max(S)
  <2> HIDE DEF fits, S
  <2> QED  BY <1>6, <1>7
<1>9. Max(S) \in S
  <2>1. S # {}
    OBVIOUS
  <2>2. S \subseteq 0..(limit + 1)
    BY <1>5
  <2>3. limit + 1 \in Nat
    BY <1>5
  <2> HIDE DEF S, limit
  <2> QED  BY <2>1, <2>2, <2>3, LargestNumber
<1> PICK end : end = CompactionEnd(items)
  OBVIOUS
<1>10. end \in fits /\ KeepsExchanges(items, 1, end)
  <2>1. end \in S /\ end # 1
    <3> HIDE DEF S
    <3> QED  BY <1>7, <1>8, <1>9
  <2> QED  BY <2>1
<1>11. end \in 1..limit /\ end > 1
  BY <1>7, <1>10
<1>12. end \in 2..(Len(items) + 1) /\ end <= RecentProtectedStart(items)
  <2> HIDE DEF limit
  <2> QED  BY <1>2, <1>4, <1>5, <1>11
<1> QED  BY <1>3, <1>4, <1>10, <1>12

CoversRange(items, covered, end, upto) ==
  /\ items[end - 1].upto = upto
  /\ IsWhole(chat, upto)
  /\ IsOld(chat, upto)
  /\ UNION {items[p].from..items[p].upto :
              p \in {q \in 1..(end - 1) : IsMessage(items[q])}} = (covered + 1)..upto

\* What a summary stands for, item by item: `upto` is the last message of the range that
\* ends before `end`.
LEMMA SummarisedRange ==
  ASSUME NEW items, NEW offset \in Nat, NEW covered \in Nat, NEW n \in Nat,
         NEW end \in Nat, NEW upto \in Nat,
         ChatInv(chat), Len(chat) = n, IsProjection(items, chat, offset, covered),
         offset = 1 => covered >= 1 /\ IsWhole(chat, covered) /\ IsOld(chat, covered),
         end >= 2, end <= offset + n - covered + 1, upto = covered + (end - 1 - offset),
         KeepsExchanges(items, 1, end),
         RecentProtectedStart(items) \in Nat, end <= RecentProtectedStart(items)
  PROVE  CoversRange(items, covered, end, upto)
<1>1. n = Len(chat) /\ DOMAIN chat = 1..n /\ chat \in Seq(ChatMessage)
  BY DEF ChatInv
<1>2. /\ offset = 0 \/ offset = 1
      /\ covered <= n /\ (offset = 0 => covered = 0)
      /\ Len(items) = offset + n - covered /\ DOMAIN items = 1..(offset + n - covered)
  <2>1. offset \in {0, 1} /\ covered \in 0..n /\ (offset = 0 => covered = 0)
        /\ Len(items) = offset + n - covered /\ DOMAIN items = 1..(offset + n - covered)
    BY DEF IsProjection
  <2> QED  BY ONLY <2>1
<1>3. covered <= upto /\ upto <= n /\ upto >= 1 /\ end - 1 \in 1..(offset + n - covered)
  BY ONLY <1>2, end >= 2, end <= offset + n - covered + 1, upto = covered + (end - 1 - offset),
          offset = 1 => covered >= 1, offset \in Nat, covered \in Nat, n \in Nat, end \in Nat,
          upto \in Nat
\* The place of a message among the items,
<1>4. ASSUME NEW i \in Nat, i > covered, i <= n
      PROVE  \E p \in DOMAIN items :
               /\ p \in Nat /\ p > offset /\ p = offset + i - covered
               /\ items[p].from = i /\ items[p].upto = i
               /\ IsMessage(items[p]) /\ RoleOf(items[p]) = chat[i].role
               /\ (p < end <=> i <= upto)
  <2> PICK p : p = offset + i - covered
    OBVIOUS
  <2>1. /\ p \in Nat /\ p > offset /\ p \in 1..(offset + n - covered)
        /\ covered + (p - offset) = i
        /\ (p < end <=> i <= upto)
    BY ONLY <1>2, <1>4, p = offset + i - covered, i \in Nat, offset \in Nat, covered \in Nat,
            n \in Nat, end \in Nat, upto \in Nat, upto = covered + (end - 1 - offset)
  <2>2. p \in DOMAIN items
    BY <1>2, <2>1
  <2>3. /\ IsMessage(items[p]) /\ RoleOf(items[p]) = chat[items[p].from].role
        /\ items[p].from = covered + (p - offset)
        /\ items[p].upto = items[p].from
    <3>1. p > offset => /\ IsMessage(items[p]) /\ RoleOf(items[p]) = chat[items[p].from].role
                        /\ items[p].from \in DOMAIN chat
                        /\ items[p].from = covered + (p - offset)
                        /\ items[p].upto = items[p].from
      BY ONLY <2>2, ProjectedRole, ChatInv(chat), IsProjection(items, chat, offset, covered)
    <3> QED  BY <2>1, <3>1
  <2> QED  BY <2>1, <2>2, <2>3
\* and the message of an item.
<1>5. ASSUME NEW p \in DOMAIN items, IsMessage(items[p])
      PROVE  /\ p \in Nat /\ items[p].from = covered + (p - offset)
             /\ items[p].upto = items[p].from
             /\ items[p].from \in Nat /\ items[p].from > covered /\ items[p].from <= n
             /\ (p < end <=> items[p].from <= upto)
  <2>1. p \in Nat /\ p >= 1 /\ p <= offset + n - covered
    BY <1>2
  <2>2. p > offset
    <3>1. p <= offset => ~IsMessage(items[p])
      BY ProjectedRole
    <3> QED  BY ONLY <1>5, <2>1, <3>1, offset \in Nat
  <2>3. items[p].from = covered + (p - offset) /\ items[p].upto = items[p].from
    BY <2>2, ProjectedRole
  <2> PICK from : from = items[p].from
    OBVIOUS
  <2>4. from \in Nat /\ from > covered /\ from <= n /\ (p < end <=> from <= upto)
    <3>1. from = covered + (p - offset) /\ covered <= n
      BY <1>2, <2>3
    <3>2. from \in Nat /\ from > covered /\ from <= n
      BY ONLY <2>1, <2>2, <3>1, offset \in Nat, covered \in Nat, n \in Nat
    <3>3. p < end <=> from <= upto
      BY ONLY <2>1, <3>1, offset \in Nat, covered \in Nat, end \in Nat, upto \in Nat,
              upto = covered + (end - 1 - offset)
    <3> QED  BY <3>2, <3>3
  <2> QED  BY <2>1, <2>3, <2>4
<1>6. end - 1 \in DOMAIN items
  BY <1>2, <1>3
<1>7. ASSUME IsMessage(items[end - 1])
      PROVE  items[end - 1].upto = upto /\ IsOld(chat, upto)
  <2>1. items[end - 1].from = covered + ((end - 1) - offset)
        /\ items[end - 1].upto = items[end - 1].from
    BY <1>5, <1>6, <1>7
  <2>2. items[end - 1].from = upto
    BY <2>1
  <2>3. end - 1 > offset
    <3>1. ~(end - 1 <= offset)
      BY <1>6, <1>7, ProjectedRole
    <3> QED  BY ONLY <3>1, end \in Nat, offset \in Nat
  <2>4. end - 1 < RecentProtectedStart(items)
    OBVIOUS
  <2>5. IsOld(chat, items[end - 1].from)
    BY <1>6, <2>3, <2>4, BeforeTheWindow
  <2> QED  BY <2>1, <2>2, <2>5
<1>8. ASSUME ~IsMessage(items[end - 1])
      PROVE  items[end - 1].upto = upto /\ IsOld(chat, upto)
  <2>1. ~(end - 1 > offset)
    BY <1>6, <1>8, ProjectedRole
  <2>2. end - 1 = 1 /\ offset = 1 /\ upto = covered
    BY ONLY <1>2, <1>3, <2>1, end \in Nat, offset \in Nat, covered \in Nat, n \in Nat,
            upto = covered + (end - 1 - offset)
  <2>3. items[1].upto = covered
    BY <2>2 DEF IsProjection
  <2> QED  BY <2>2, <2>3
<1>9. items[end - 1].upto = upto /\ IsOld(chat, upto)
  BY <1>7, <1>8
<1>10. ASSUME NEW i \in DOMAIN chat, chat[i].role = "result"
       PROVE  i <= upto <=> chat[i].owner <= upto
  <2> PICK o : o = chat[i].owner
    OBVIOUS
  <2>1. o \in 1..(i - 1) /\ chat[o].role = "assistant" /\ chat[o].calls > 0
    BY <1>10 DEF ChatInv
  <2>2. i \in Nat /\ o \in Nat /\ o < i /\ i <= n /\ o >= 1
    BY ONLY <1>1, <2>1, i \in DOMAIN chat, n \in Nat
  <2>3. i <= covered <=> o <= covered
    <3>1. CASE offset = 1
      BY <1>10, <3>1 DEF IsWhole
    <3>2. CASE offset = 0
      BY ONLY <1>2, <2>2, <3>2
    <3> QED  BY <1>2, <3>1, <3>2
  <2>4. ASSUME i > covered, o <= upto
        PROVE  i <= upto
    <3>1. o > covered
      BY ONLY <2>2, <2>3, <2>4, covered \in Nat
    <3>2. PICK a \in DOMAIN items : /\ items[a].from = o /\ RoleOf(items[a]) = chat[o].role
                                    /\ a < end /\ a \in Nat /\ a > offset
      <4>1. o <= n
        BY ONLY <2>2, n \in Nat
      <4> QED  BY <1>4, <2>2, <2>4, <3>1, <4>1
    <3>3. PICK p \in DOMAIN items : /\ items[p].from = i /\ RoleOf(items[p]) = chat[i].role
                                    /\ (p < end <=> i <= upto)
      BY <1>4, <2>2, <2>4
    <3>4. a \in Callers(items)
      BY <2>1, <3>2 DEF Callers
    <3>5. p \in ResultsOf(items, a)
      BY <1>10, <3>2, <3>3 DEF ResultsOf
    <3>6. a \in 1..(end - 1)
      BY ONLY <3>2, end \in Nat, offset \in Nat
    <3>7. p < end
      BY <3>4, <3>5, <3>6 DEF KeepsExchanges
    <3> QED  BY <3>3, <3>7
  <2>5. i <= upto <=> o <= upto
    BY ONLY <1>3, <2>2, <2>3, <2>4, covered \in Nat, upto \in Nat
  <2> QED  BY <2>5
<1>11. IsWhole(chat, upto)
  <2>1. upto \in 1..Len(chat)
    BY <1>1, <1>3
  <2> QED  BY <1>10, <2>1 DEF IsWhole
<1> PICK heard : heard = UNION {items[p].from..items[p].upto :
                                  p \in {q \in 1..(end - 1) : IsMessage(items[q])}}
  OBVIOUS
<1>12. ASSUME NEW i \in heard
       PROVE  i \in (covered + 1)..upto
  <2>1. PICK p \in 1..(end - 1) : IsMessage(items[p]) /\ i \in items[p].from..items[p].upto
    OBVIOUS
  <2>2. p \in DOMAIN items /\ p < end
    BY <1>2, <1>3, <2>1
  <2>3. /\ items[p].upto = items[p].from /\ items[p].from \in Nat
        /\ items[p].from > covered /\ items[p].from <= upto
    BY <1>5, <2>1, <2>2
  <2> QED  BY ONLY <2>1, <2>3, covered \in Nat, upto \in Nat
<1>13. ASSUME NEW i \in (covered + 1)..upto
       PROVE  i \in heard
  <2>1. i \in Nat /\ i > covered /\ i <= upto /\ i <= n
    BY <1>3
  <2>2. PICK p \in DOMAIN items : /\ p \in Nat /\ p > offset /\ p < end /\ IsMessage(items[p])
                                  /\ items[p].from = i /\ items[p].upto = i
    BY <1>4, <2>1
  <2>3. p \in 1..(end - 1) /\ i \in items[p].from..items[p].upto
    BY <2>1, <2>2
  <2> QED  BY <2>2, <2>3
<1>14. heard = (covered + 1)..upto
  BY <1>12, <1>13
<1> QED  BY <1>9, <1>11, <1>14 DEF CoversRange

LEMMA CompactedShows ==
  ASSUME NEW items, NEW checkpoint, NEW cleared, NEW summary, NEW end,
         ChatInv(chat), SummaryInv(chat, checkpoint),
         PacketInv(items, chat, checkpoint, cleared),
         items \in Seq(Range(items)), CanCompact(items), end = CompactionEnd(items),
         summary.upto = items[end - 1].upto,
         summary.heard = HeardOf(items, end)
                           \cup (IF checkpoint = <<>> THEN {} ELSE checkpoint[1].heard)
  PROVE  /\ SummaryInv(chat, <<summary>>)
         /\ PacketInv(<<CheckpointItem(summary)>> \o SubSeq(items, end, Len(items)), chat,
                      <<summary>>, cleared)
<1> PICK n : n = Len(chat)
  OBVIOUS
<1> PICK offset : offset = OffsetOf(checkpoint)
  OBVIOUS
<1> PICK covered : covered = CoveredBy(checkpoint)
  OBVIOUS
<1>1. IsProjection(items, chat, offset, covered) /\ MasksOnly(items, cleared)
  BY DEF PacketInv
<1>2. n \in Nat /\ covered \in 0..n /\ offset \in {0, 1} /\ (offset = 0 => covered = 0)
      /\ Len(items) = offset + n - covered /\ DOMAIN items = 1..(offset + n - covered)
  BY <1>1 DEF IsProjection, ChatInv
<1>3. offset \in Nat /\ covered \in Nat /\ n \in Nat /\ covered <= n /\ Len(items) \in Nat
  BY ONLY <1>2
<1>4. /\ offset = 1 => /\ covered >= 1 /\ IsWhole(chat, covered) /\ IsOld(chat, covered)
                       /\ checkpoint # <<>> /\ checkpoint[1].heard = 1..covered
      /\ offset = 0 => checkpoint = <<>>
  <2>1. offset = 0 => checkpoint = <<>>
    BY DEF OffsetOf
  <2>2. offset = 1 => checkpoint # <<>> /\ covered = checkpoint[1].upto
    BY DEF OffsetOf, CoveredBy
  <2>3. offset = 1 => /\ IsWhole(chat, covered) /\ IsOld(chat, covered)
                      /\ checkpoint[1].heard = 1..covered
    BY <2>2 DEF SummaryInv
  <2>4. offset = 1 => covered >= 1
    BY <1>2, <2>3 DEF IsWhole
  <2> QED  BY <2>1, <2>2, <2>3, <2>4
<1>5. /\ CompactionStart(items) = 1
      /\ end \in 2..(Len(items) + 1)
      /\ end <= RecentProtectedStart(items)
      /\ RecentProtectedStart(items) \in Nat
      /\ KeepsExchanges(items, 1, end)
  BY <1>1, CompactionFacts
<1>6. end \in Nat /\ end >= 2 /\ end <= offset + n - covered + 1
  BY ONLY <1>2, <1>3, <1>5
<1> PICK upto : upto = covered + (end - 1 - offset)
  OBVIOUS
<1>7. upto \in Nat /\ upto >= covered /\ upto <= n
  BY ONLY <1>2, <1>3, <1>6, upto = covered + (end - 1 - offset)
<1>8. CoversRange(items, covered, end, upto)
  <2>1. Len(chat) = n /\ ChatInv(chat)
    OBVIOUS
  <2>2. offset = 1 => covered >= 1 /\ IsWhole(chat, covered) /\ IsOld(chat, covered)
    BY <1>4
  <2> QED
    BY ONLY <1>1, <1>3, <1>5, <1>6, <1>7, <2>1, <2>2, upto = covered + (end - 1 - offset),
            SummarisedRange
<1>9. HeardOf(items, end) = (covered + 1)..upto
  BY <1>5, <1>8 DEF HeardOf, CoversRange
<1>10. summary.upto = upto /\ IsWhole(chat, upto) /\ IsOld(chat, upto)
  BY <1>8 DEF CoversRange
<1>11. summary.heard = 1..upto
  <2>1. (IF checkpoint = <<>> THEN {} ELSE checkpoint[1].heard) = 1..covered
    <3>1. offset = 1 \/ offset = 0
      BY <1>2
    <3>2. offset = 0 => 1..covered = {}
      BY <1>2
    <3> QED  BY <1>4, <3>1, <3>2
  <2>2. ((covered + 1)..upto) \cup (1..covered) = 1..upto
    BY ONLY <1>3, <1>7
  <2> QED  BY <1>9, <2>1, <2>2
<1>12. SummaryInv(chat, <<summary>>)
  BY <1>10, <1>11 DEF SummaryInv
<1> PICK head : head = CheckpointItem(summary)
  OBVIOUS
<1> PICK kept : kept = SubSeq(items, end, Len(items))
  OBVIOUS
<1> PICK packed : packed = <<head>> \o kept
  OBVIOUS
<1>13. /\ Len(kept) = n - upto /\ kept \in Seq(Range(items))
       /\ \A k \in 1..(n - upto) : kept[k] = items[end + k - 1]
  <2>1. /\ kept \in Seq(Range(items)) /\ Len(kept) = Len(items) - end + 1
        /\ \A k \in 1..(Len(items) - end + 1) : kept[k] = items[end + k - 1]
    BY ONLY <1>3, <1>5, <1>6, items \in Seq(Range(items)), kept = SubSeq(items, end, Len(items))
  <2>2. Len(items) - end + 1 = n - upto
    BY ONLY <1>2, <1>3, <1>6, <1>7, upto = covered + (end - 1 - offset)
  <2> QED  BY ONLY <2>1, <2>2
<1>14. /\ Len(packed) = 1 + n - upto /\ DOMAIN packed = 1..(1 + n - upto)
       /\ packed[1] = head
       /\ \A p \in 2..(1 + n - upto) : packed[p] = kept[p - 1]
  <2> PICK T : T = Range(items) \cup {head}
    OBVIOUS
  <2>1. <<head>> \in Seq(T) /\ Len(<<head>>) = 1 /\ <<head>>[1] = head
    OBVIOUS
  <2>2. kept \in Seq(T)
    BY ONLY <1>13, T = Range(items) \cup {head}
  <2>3. /\ Len(packed) = 1 + Len(kept) /\ DOMAIN packed = 1..(1 + Len(kept))
        /\ \A p \in 1..(1 + Len(kept)) :
             packed[p] = IF p <= 1 THEN <<head>>[p] ELSE kept[p - 1]
    BY ONLY <2>1, <2>2, packed = <<head>> \o kept, Joined
  <2>4. 1 + Len(kept) = 1 + n - upto /\ 1 \in 1..(1 + Len(kept))
    BY ONLY <1>3, <1>7, <1>13
  <2> QED  BY ONLY <1>3, <1>7, <2>1, <2>3, <2>4
<1>15. ASSUME NEW p \in 2..(1 + n - upto)
       PROVE  /\ packed[p].kind \in {"canonical", "tombstone"}
              /\ packed[p].from = upto + (p - 1) /\ packed[p].upto = upto + (p - 1)
              /\ packed[p].kind = "tombstone" => packed[p].from \in cleared
  <2> PICK q : q = end + (p - 1) - 1
    OBVIOUS
  <2>1. /\ q \in (offset + 1)..(offset + n - covered) /\ q \in 1..(offset + n - covered)
        /\ covered + (q - offset) = upto + (p - 1) /\ p - 1 \in 1..(n - upto)
    BY ONLY <1>2, <1>3, <1>6, <1>7, q = end + (p - 1) - 1, upto = covered + (end - 1 - offset),
            p \in 2..(1 + n - upto)
  <2>2. packed[p] = items[q]
    BY <1>13, <1>14, <2>1
  <2>3. /\ items[q].kind \in {"canonical", "tombstone"}
        /\ items[q].from = covered + (q - offset) /\ items[q].upto = covered + (q - offset)
    BY <1>1, <2>1 DEF IsProjection
  <2>4. items[q].kind = "tombstone" => items[q].from \in cleared
    BY <1>1, <1>2, <2>1 DEF MasksOnly
  <2> QED  BY ONLY <2>1, <2>2, <2>3, <2>4
<1>16. packed[1].kind = "checkpoint" /\ packed[1].from = 1 /\ packed[1].upto = upto
  BY <1>10, <1>14 DEF CheckpointItem
<1>17. IsProjection(packed, chat, 1, upto)
  <2> PICK one : one = 1
    OBVIOUS
  <2>1. one \in {0, 1} /\ upto \in 0..Len(chat) /\ (one = 0 => upto = 0)
    BY <1>7
  <2>2. ASSUME NEW p \in (one + 1)..(one + Len(chat) - upto)
        PROVE  /\ packed[p].kind \in {"canonical", "tombstone"}
               /\ packed[p].from = upto + (p - one) /\ packed[p].upto = upto + (p - one)
    <3>1. p \in 2..(1 + n - upto)
      OBVIOUS
    <3> QED  BY <1>15, <3>1
  <2>3. /\ Len(packed) = one + Len(chat) - upto
        /\ DOMAIN packed = 1..(one + Len(chat) - upto)
    BY <1>14
  <2>4. one = 1 => /\ packed[1].kind = "checkpoint"
                   /\ packed[1].from = 1 /\ packed[1].upto = upto
    BY <1>16
  <2>5. IsProjection(packed, chat, one, upto)
    BY ONLY <2>1, <2>2, <2>3, <2>4 DEF IsProjection
  <2> QED  BY <2>5
<1>18. MasksOnly(packed, cleared)
  <2> SUFFICES ASSUME NEW p \in 1..(1 + n - upto), packed[p].kind = "tombstone"
               PROVE  packed[p].from \in cleared
    BY <1>14 DEF MasksOnly
  <2>1. p # 1
    BY <1>16
  <2>2. p \in 2..(1 + n - upto)
    BY ONLY <1>3, <1>7, <2>1, p \in 1..(1 + n - upto)
  <2> QED  BY <1>15, <2>2
<1>19. OffsetOf(<<summary>>) = 1 /\ CoveredBy(<<summary>>) = upto
  BY <1>10 DEF OffsetOf, CoveredBy
<1> QED  BY <1>12, <1>17, <1>18, <1>19 DEF PacketInv

\* Under the invariant, what is out tells the provider the whole conversation.
LEMMA InvIsFaithful ==
  ASSUME ContextInv
  PROVE  PacketFaithful
<1> SUFFICES ASSUME phase = "reply", managed
             PROVE  PacketFaithful
  BY DEF PacketFaithful
<1> PICK n : n = Len(chat)
  OBVIOUS
<1> PICK offset : offset = OffsetOf(activeCheckpoint)
  OBVIOUS
<1> PICK covered : covered = CoveredBy(activeCheckpoint)
  OBVIOUS
<1> PICK shown : shown = {packet[p].from : p \in {q \in DOMAIN packet : IsMessage(packet[q])}}
  OBVIOUS
<1> PICK heard : heard = IF activeCheckpoint = <<>> THEN {} ELSE activeCheckpoint[1].heard
  OBVIOUS
<1> PICK summarised : summarised = {p \in DOMAIN packet : ~IsMessage(packet[p])}
  OBVIOUS
<1>1. /\ IsProjection(packet, chat, offset, covered) /\ MasksOnly(packet, clearedIds)
      /\ ChatInv(chat) /\ SummaryInv(chat, activeCheckpoint) /\ ClearingInv(chat, clearedIds)
  BY DEF ContextInv, PacketInv
<1>2. n \in Nat /\ covered \in 0..n /\ offset \in {0, 1} /\ (offset = 0 => covered = 0)
      /\ DOMAIN packet = 1..(offset + n - covered) /\ DOMAIN chat = 1..n
      /\ chat \in Seq(ChatMessage)
  BY <1>1 DEF IsProjection, ChatInv
<1>3. offset \in Nat /\ covered \in Nat /\ n \in Nat /\ covered <= n
  BY ONLY <1>2
<1>4. /\ offset = 1 => /\ IsWhole(chat, covered) /\ IsOld(chat, covered) /\ covered >= 1
      /\ heard = 1..covered
  <2>1. CASE activeCheckpoint = <<>>
    BY <1>3, <2>1 DEF OffsetOf, CoveredBy
  <2>2. CASE activeCheckpoint # <<>>
    <3>1. covered = activeCheckpoint[1].upto /\ heard = activeCheckpoint[1].heard
      BY <2>2 DEF CoveredBy
    <3>2. IsWhole(chat, covered) /\ IsOld(chat, covered) /\ heard = 1..covered
      BY <1>1, <2>2, <3>1 DEF SummaryInv
    <3> QED  BY <1>2, <3>2 DEF IsWhole
  <2> QED  BY <2>1, <2>2
<1>5. ASSUME NEW p \in DOMAIN packet
      PROVE  /\ p \in Nat
             /\ IsMessage(packet[p]) <=> p > offset
             /\ p > offset => /\ packet[p].from = covered + (p - offset)
                              /\ packet[p].from \in Nat /\ packet[p].from > covered
                              /\ packet[p].from <= n
                              /\ packet[p].kind \in {"canonical", "tombstone"}
             /\ p <= offset => packet[p].from = 1 /\ offset = 1
  <2>1. p \in 1..(offset + n - covered) /\ p \in Nat
    BY <1>2
  <2>2. p > offset => IsMessage(packet[p]) /\ packet[p].from = covered + (p - offset)
    BY <1>1, ProjectedRole
  <2>3. p <= offset => ~IsMessage(packet[p])
    BY <1>1, ProjectedRole
  <2>4. p <= offset => p = 1 /\ offset = 1
    BY ONLY <1>2, <2>1
  <2>5. p <= offset => packet[p].from = 1
    BY <1>1, <2>4 DEF IsProjection
  <2>6. p > offset => p \in (offset + 1)..(offset + n - covered)
    BY ONLY <1>3, <2>1
  <2>7. p > offset => packet[p].kind \in {"canonical", "tombstone"}
    BY <1>1, <2>6 DEF IsProjection
  <2>8. p > offset \/ p <= offset
    BY ONLY <1>3, <2>1
  <2>9. p > offset => /\ packet[p].from \in Nat /\ packet[p].from > covered
                      /\ packet[p].from <= n
    BY ONLY <1>3, <2>1, <2>2
  <2> QED  BY <2>1, <2>2, <2>3, <2>4, <2>5, <2>7, <2>8, <2>9
<1>6. ASSUME NEW i \in Nat, i > covered, i <= n
      PROVE  i \in shown
  <2> PICK p : p = offset + i - covered
    OBVIOUS
  <2>1. p \in 1..(offset + n - covered) /\ p > offset /\ covered + (p - offset) = i
    BY ONLY <1>3, <1>6, i \in Nat, p = offset + i - covered
  <2>2. p \in DOMAIN packet
    BY <1>2, <2>1
  <2>3. IsMessage(packet[p]) /\ packet[p].from = i
    BY <1>5, <2>1, <2>2
  <2> QED  BY <2>2, <2>3
<1>7. ASSUME NEW i \in shown
      PROVE  i \in Nat /\ i > covered /\ i <= n
  <2>1. PICK p \in DOMAIN packet : IsMessage(packet[p]) /\ i = packet[p].from
    OBVIOUS
  <2> QED  BY <1>5, <2>1
<1>8. shown = (covered + 1)..n
  <2>1. ASSUME NEW i \in shown
        PROVE  i \in (covered + 1)..n
    <3>1. i \in Nat /\ i > covered /\ i <= n
      BY <1>7
    <3> QED  BY ONLY <1>3, <3>1
  <2>2. ASSUME NEW i \in (covered + 1)..n
        PROVE  i \in shown
    <3>1. i \in Nat /\ i > covered /\ i <= n
      BY ONLY <1>3, i \in (covered + 1)..n
    <3> QED  BY <1>6, <3>1
  <2> QED  BY <2>1, <2>2
<1>9. shown \cap heard = {}
  BY ONLY <1>3, <1>4, <1>8
<1>10. shown \cup (IF summarised = {} THEN {} ELSE heard) = DOMAIN chat
  <2>1. summarised = {} => covered = 0
    <3> SUFFICES ASSUME offset = 1 PROVE summarised # {}
      BY <1>2
    <3>1. 1 \in DOMAIN packet
      BY <1>2, <1>3
    <3>2. ~IsMessage(packet[1])
      BY <1>5, <3>1
    <3> QED  BY <3>1, <3>2
  <2>2. ((covered + 1)..n) \cup (1..covered) = 1..n
    BY ONLY <1>3
  <2>3. covered = 0 => (covered + 1)..n = 1..n
    OBVIOUS
  <2> QED  BY <1>2, <1>4, <1>8, <2>1, <2>2, <2>3
<1>11. ASSUME NEW i \in DOMAIN chat, chat[i].role = "result"
       PROVE  i \in shown <=> chat[i].owner \in shown
  <2> PICK o : o = chat[i].owner
    OBVIOUS
  <2>1. o \in 1..(i - 1)
    BY <1>1, <1>11 DEF ChatInv
  <2>2. i \in Nat /\ o \in Nat /\ o < i /\ i <= n /\ o >= 1
    BY ONLY <1>2, <2>1, i \in DOMAIN chat
  <2>3. i <= covered <=> o <= covered
    <3>1. CASE offset = 1
      BY <1>4, <1>11, <3>1 DEF IsWhole
    <3>2. CASE offset = 0
      BY ONLY <1>2, <2>2, <3>2
    <3> QED  BY <1>2, <3>1, <3>2
  <2>4. i \in (covered + 1)..n <=> o \in (covered + 1)..n
    BY ONLY <1>3, <2>2, <2>3
  <2> QED  BY <1>8, <2>4
<1>12. ASSUME NEW p \in DOMAIN packet,
              ~ IsOld(chat, packet[p].from),
              NEW q \in p..Len(packet)
       PROVE  packet[q].kind = "canonical"
  <2>1. Len(packet) = offset + n - covered
    BY <1>1 DEF IsProjection
  <2>2. p \in Nat /\ p >= 1
    BY <1>2
  <2>3. q \in Nat /\ p <= q /\ q \in DOMAIN packet
    BY <1>2, <1>3, <2>1, <2>2
  <2>4. p > offset
    <3> SUFFICES ASSUME p <= offset PROVE FALSE
      BY <1>3, <2>2
    <3>1. packet[p].from = 1 /\ offset = 1
      BY <1>5
    <3>2. IsOld(chat, covered) /\ 1 <= covered
      BY <1>3, <1>4, <3>1
    <3>3. IsOld(chat, 1)
      <4>1. covered \in Int /\ 1 \in Int
        BY <1>3
      <4> QED  BY <1>2, <3>2, <4>1, OldBefore
    <3> QED  BY <1>12, <3>1, <3>3
  <2>5. q > offset
    BY ONLY <1>3, <2>2, <2>3, <2>4
  <2>6. packet[p].from = covered + (p - offset) /\ packet[p].from \in Int
    BY <1>5, <2>4
  <2>7. packet[q].from = covered + (q - offset) /\ packet[q].from \in Int
        /\ packet[q].kind \in {"canonical", "tombstone"}
    BY <1>5, <2>3, <2>5
  <2>8. packet[p].from <= packet[q].from
    BY ONLY <1>3, <2>2, <2>3, <2>6, <2>7
  <2>9. ~ IsOld(chat, packet[q].from)
    BY <1>2, <1>12, <2>6, <2>7, <2>8, OldBefore
  <2>10. packet[q].kind # "tombstone"
    <3> SUFFICES ASSUME packet[q].kind = "tombstone" PROVE FALSE
      OBVIOUS
    <3>1. packet[q].from \in clearedIds
      BY <1>1, <2>3 DEF MasksOnly
    <3> QED  BY <1>1, <2>9, <3>1 DEF ClearingInv
  <2> QED  BY <2>7, <2>10
<1> PICK users : users = {i \in DOMAIN chat : chat[i].role = "user"}
  OBVIOUS
<1>13. ASSUME NEW p \in DOMAIN packet,
              Cardinality({u \in users : u > packet[p].from}) < KeepRecentTurns
       PROVE  ~ IsOld(chat, packet[p].from)
  <2>1. packet[p].from \in Int
    BY <1>5, <1>3
  <2> PICK later : later = {u \in users : u > packet[p].from}
    OBVIOUS
  <2>2. later = {u \in UsersOf(chat) : u > packet[p].from}
    BY DEF UsersOf
  <2>3. IsFiniteSet(later)
    BY <1>2, <2>1, <2>2, UsersAfter
  <2>4. Cardinality(later) \in Nat /\ KeepRecentTurns \in Nat
    BY <2>3, FS_CardinalityType, ContextAssumption
  <2>5. ~(Cardinality(later) >= KeepRecentTurns)
    BY <1>13, <2>4
  <2> QED  BY <2>2, <2>5 DEF IsOld
<1>14. \A p \in DOMAIN packet :
         /\ packet[p].from \in users
         /\ Cardinality({u \in users : u > packet[p].from}) < KeepRecentTurns
         => \A q \in p..Len(packet) : packet[q].kind = "canonical"
  BY <1>12, <1>13
<1> QED  BY <1>9, <1>10, <1>11, <1>14 DEF PacketFaithful

-----------------------------------------------------------------------------
(* ContextManagement: the steps. *)

\* What is added to the history: its results belong to what is added with them.
ComesWhole(c, d) ==
  /\ GoesOnFrom(c, d)
  /\ \A i \in (Len(c) + 1)..Len(d) : d[i].role = "result" =>
       /\ d[i].owner \in (Len(c) + 1)..(i - 1)
       /\ d[d[i].owner].role = "assistant" /\ d[d[i].owner].calls > 0

LEMMA GrowthKeeps ==
  ASSUME NEW c, NEW d, NEW checkpoint, NEW cleared,
         ChatInv(c), SummaryInv(c, checkpoint), ClearingInv(c, cleared), ComesWhole(c, d)
  PROVE  ChatInv(d) /\ SummaryInv(d, checkpoint) /\ ClearingInv(d, cleared)
<1> PICK m, n : m = Len(c) /\ n = Len(d)
  OBVIOUS
<1>1. /\ c \in Seq(ChatMessage) /\ d \in Seq(ChatMessage) /\ m <= n
      /\ DOMAIN c = 1..m /\ DOMAIN d = 1..n /\ m \in Nat /\ n \in Nat
      /\ GoesOnFrom(c, d) /\ \A i \in 1..m : d[i] = c[i]
  BY DEF ComesWhole, GoesOnFrom
<1>2. ASSUME NEW i \in 1..n, d[i].role = "result"
      PROVE  /\ i > m => d[i].owner \in (m + 1)..(i - 1)
             /\ i <= m => d[i].owner \in 1..(i - 1) /\ c[i].role = "result"
                          /\ c[i].owner = d[i].owner
             /\ d[d[i].owner].role = "assistant" /\ d[d[i].owner].calls > 0
  <2>1. i > m => i \in (m + 1)..n
    BY <1>1
  <2>2. i <= m => i \in 1..m
    BY <1>1
  <2>3. ASSUME i > m
        PROVE  /\ d[i].owner \in (m + 1)..(i - 1)
               /\ d[d[i].owner].role = "assistant" /\ d[d[i].owner].calls > 0
    BY <1>2, <2>1, <2>3 DEF ComesWhole
  <2>4. ASSUME i <= m
        PROVE  /\ d[i].owner \in 1..(i - 1) /\ c[i].role = "result" /\ c[i].owner = d[i].owner
               /\ d[d[i].owner].role = "assistant" /\ d[d[i].owner].calls > 0
    <3>1. d[i] = c[i] /\ i \in DOMAIN c
      BY <1>1, <2>2, <2>4
    <3> PICK o : o = c[i].owner
      OBVIOUS
    <3>2. o \in 1..(i - 1) /\ c[o].role = "assistant" /\ c[o].calls > 0
      BY <1>2, <3>1 DEF ChatInv
    <3>3. o \in 1..m
      BY ONLY <1>1, <2>2, <2>4, <3>2
    <3>4. d[o] = c[o]
      BY <1>1, <3>3
    <3> QED  BY <1>2, <3>1, <3>2, <3>4
  <2>5. i > m \/ i <= m
    BY <1>1
  <2> QED  BY <2>3, <2>4, <2>5
<1>3. ChatInv(d)
  <2> SUFFICES ASSUME NEW i \in 1..n, d[i].role = "result"
               PROVE  d[i].owner \in 1..(i - 1)
    BY <1>1, <1>2 DEF ChatInv
  <2>1. i > m => d[i].owner \in (m + 1)..(i - 1)
    BY <1>2
  <2>2. i <= m => d[i].owner \in 1..(i - 1)
    BY <1>2
  <2> QED  BY <1>1, <2>1, <2>2
<1>4. SummaryInv(d, checkpoint)
  <2> SUFFICES ASSUME checkpoint # <<>>
               PROVE  /\ IsWhole(d, checkpoint[1].upto)
                      /\ checkpoint[1].heard = 1..checkpoint[1].upto
                      /\ IsOld(d, checkpoint[1].upto)
    BY DEF SummaryInv
  <2> PICK upto : upto = checkpoint[1].upto
    OBVIOUS
  <2>1. IsWhole(c, upto) /\ IsOld(c, upto) /\ checkpoint[1].heard = 1..upto
    BY DEF SummaryInv
  <2>2. upto \in 1..m
    BY <2>1 DEF IsWhole
  <2>3. upto \in Int /\ upto \in Nat /\ upto <= m
    BY <1>1, <2>2
  <2>4. IsOld(d, upto)
    <3>1. upto <= upto
      BY <2>3
    <3> QED  BY ONLY <1>1, <2>1, <2>3, <3>1, OldStaysOld
  <2>5. ASSUME NEW i \in 1..n, d[i].role = "result"
        PROVE  i <= upto <=> d[i].owner <= upto
    <3>1. /\ i > m => d[i].owner \in (m + 1)..(i - 1)
          /\ i <= m => c[i].role = "result" /\ c[i].owner = d[i].owner
      BY <1>2, <2>5
    <3>2. i > m => ~(i <= upto) /\ ~(d[i].owner <= upto)
      BY <1>1, <2>3, <3>1
    <3>3. i <= m => i \in DOMAIN c
      BY <1>1
    <3>4. i <= m => (i <= upto <=> c[i].owner <= upto)
      BY <2>1, <3>1, <3>3 DEF IsWhole
    <3>5. i > m \/ i <= m
      BY <1>1
    <3> QED  BY <3>1, <3>2, <3>4, <3>5
  <2>6. upto \in 1..Len(d)
    BY <1>1, <2>3, <2>2
  <2>7. IsWhole(d, upto)
    BY <1>1, <2>5, <2>6 DEF IsWhole
  <2> QED  BY <2>1, <2>4, <2>7
<1>5. ClearingInv(d, cleared)
  <2> SUFFICES ASSUME NEW i \in cleared PROVE i \in DOMAIN d /\ IsOld(d, i)
    BY DEF ClearingInv
  <2>1. i \in DOMAIN c /\ IsOld(c, i)
    BY DEF ClearingInv
  <2>2. i \in DOMAIN d /\ i \in Int /\ i <= i
    BY <1>1, <2>1
  <2>3. IsOld(d, i)
    BY ONLY <1>1, <2>1, <2>2, OldStaysOld
  <2> QED  BY <2>2, <2>3
<1> QED  BY <1>3, <1>4, <1>5

\* A step that adds to the history sends nothing.
LEMMA TurnKeeps ==
  ASSUME ContextInv, ComesWhole(chat, chat'), phase' # "reply",
         activeCheckpoint' = activeCheckpoint, clearedIds' = clearedIds
  PROVE  ContextInv'
<1>1. ChatInv(chat) /\ SummaryInv(chat, activeCheckpoint) /\ ClearingInv(chat, clearedIds)
  BY DEF ContextInv
<1> PICK d : d = chat'
  OBVIOUS
<1>2. ChatInv(d) /\ SummaryInv(d, activeCheckpoint) /\ ClearingInv(d, clearedIds)
  <2>1. ComesWhole(chat, d)
    OBVIOUS
  <2> QED  BY ONLY <1>1, <2>1, GrowthKeeps
<1>3. ChatInv(chat')
  BY <1>2
<1>4. SummaryInv(chat', activeCheckpoint') /\ ClearingInv(chat', clearedIds')
  BY <1>2
<1> QED  BY <1>3, <1>4 DEF ContextInv

\* One message that answers nothing.
LEMMA AppendedWhole ==
  ASSUME NEW c \in Seq(ChatMessage), NEW m \in ChatMessage, m.role # "result"
  PROVE  ComesWhole(c, Append(c, m))
<1> PICK d : d = Append(c, m)
  OBVIOUS
<1>1. /\ d \in Seq(ChatMessage) /\ Len(d) = Len(c) + 1 /\ Len(c) \in Nat
      /\ d[Len(c) + 1] = m /\ \A i \in 1..Len(c) : d[i] = c[i]
  OBVIOUS
<1>2. GoesOnFrom(c, d)
  BY <1>1 DEF GoesOnFrom
<1>3. \A i \in (Len(c) + 1)..Len(d) : d[i].role # "result"
  BY <1>1
<1> QED  BY <1>2, <1>3 DEF ComesWhole

LEMMA MessageTypes ==
  ASSUME NEW size \in Nat, NEW calls \in Nat, NEW owner \in Nat, NEW clearable \in BOOLEAN
  PROVE  /\ User(size) \in ChatMessage /\ User(size).role = "user"
         /\ Assistant(calls) \in ChatMessage /\ Assistant(calls).role = "assistant"
         /\ Assistant(calls).calls = calls
         /\ ResultItem(owner, size, clearable) \in ChatMessage
         /\ ResultItem(owner, size, clearable).role = "result"
         /\ ResultItem(owner, size, clearable).owner = owner
BY DEF ChatMessage, User, Assistant, ResultItem

\* An assistant message with its results.
LEMMA ExchangeWhole ==
  ASSUME NEW c \in Seq(ChatMessage), NEW calls \in 1..2, NEW clearable \in BOOLEAN,
         NEW sizes \in [1..calls -> ResultSizes]
  PROVE  ComesWhole(c, Append(c, Assistant(calls))
                         \o [k \in 1..calls |-> ResultItem(Len(c) + 1, sizes[k], clearable)])
<1> PICK n : n = Len(c)
  OBVIOUS
<1> PICK head : head = Append(c, Assistant(calls))
  OBVIOUS
<1> PICK tail : tail = [k \in 1..calls |-> ResultItem(n + 1, sizes[k], clearable)]
  OBVIOUS
<1> PICK d : d = head \o tail
  OBVIOUS
<1>1. n \in Nat /\ calls \in Nat /\ calls >= 1 /\ n + 1 \in Nat
  OBVIOUS
<1>2. Assistant(calls) \in ChatMessage /\ Assistant(calls).role = "assistant"
      /\ Assistant(calls).calls = calls
  BY <1>1, MessageTypes
<1>3. ASSUME NEW k \in 1..calls
      PROVE  tail[k] \in ChatMessage /\ tail[k].owner = n + 1
  <2> PICK size : size = sizes[k]
    OBVIOUS
  <2>1. size \in Nat
    BY ContextAssumption
  <2>2. tail[k] = ResultItem(n + 1, size, clearable)
    OBVIOUS
  <2>3. /\ ResultItem(n + 1, size, clearable) \in ChatMessage
        /\ ResultItem(n + 1, size, clearable).owner = n + 1
    BY <1>1, <2>1, MessageTypes
  <2> QED  BY <2>2, <2>3
<1>4. tail \in Seq(ChatMessage) /\ Len(tail) = calls
  BY <1>1, <1>3
<1>5. /\ head \in Seq(ChatMessage) /\ Len(head) = n + 1 /\ head[n + 1] = Assistant(calls)
      /\ \A i \in 1..n : head[i] = c[i]
  <2> PICK m : m = Assistant(calls)
    OBVIOUS
  <2>1. m \in ChatMessage /\ head = Append(c, m) /\ n = Len(c) /\ c \in Seq(ChatMessage)
    BY <1>2
  <2>2. /\ head \in Seq(ChatMessage) /\ Len(head) = n + 1 /\ head[n + 1] = m
        /\ \A i \in 1..n : head[i] = c[i]
    BY ONLY <2>1
  <2> QED  BY <2>2
<1>6. /\ d \in Seq(ChatMessage) /\ Len(d) = n + 1 + calls
      /\ \A i \in 1..(n + 1 + calls) : d[i] = IF i <= n + 1 THEN head[i] ELSE tail[i - (n + 1)]
  BY ONLY <1>4, <1>5, d = head \o tail, Joined
<1>7. GoesOnFrom(c, d)
  <2>1. \A i \in 1..n : d[i] = c[i]
    BY ONLY <1>1, <1>5, <1>6
  <2>2. n <= n + 1 + calls
    BY <1>1
  <2> QED  BY <1>6, <2>1, <2>2 DEF GoesOnFrom
<1>8. d[n + 1] = Assistant(calls)
  BY ONLY <1>1, <1>5, <1>6
<1>9. ASSUME NEW i \in (n + 1)..(n + 1 + calls), d[i].role = "result"
      PROVE  d[i].owner = n + 1 /\ i > n + 1
  <2>1. i # n + 1
    BY <1>2, <1>8, <1>9
  <2>2. i > n + 1 /\ i - (n + 1) \in 1..calls /\ ~(i <= n + 1) /\ i \in 1..(n + 1 + calls)
    BY ONLY <1>1, <2>1, i \in (n + 1)..(n + 1 + calls)
  <2>3. d[i] = tail[i - (n + 1)]
    BY ONLY <1>6, <2>2
  <2> QED  BY <1>3, <2>2, <2>3
<1>10. ASSUME NEW i \in (n + 1)..Len(d), d[i].role = "result"
       PROVE  /\ d[i].owner \in (n + 1)..(i - 1)
              /\ d[d[i].owner].role = "assistant" /\ d[d[i].owner].calls > 0
  <2>1. d[i].owner = n + 1 /\ i > n + 1
    BY <1>6, <1>9, <1>10
  <2>2. n + 1 \in (n + 1)..(i - 1)
    BY ONLY <1>1, <1>6, <2>1, i \in (n + 1)..Len(d)
  <2>3. d[n + 1].role = "assistant" /\ d[n + 1].calls > 0
    BY <1>1, <1>2, <1>8
  <2> QED  BY ONLY <2>1, <2>2, <2>3
<1> QED  BY <1>7, <1>10 DEF ComesWhole

LEMMA SendsKeep ==
  ASSUME ContextInv, NEW items, NEW checkpoint, NEW cleared,
         Sends(items, checkpoint, cleared),
         SummaryInv(chat, checkpoint), ClearingInv(chat, cleared),
         managed => PacketInv(items, chat, checkpoint, cleared)
  PROVE  ContextInv'
<1>1. /\ packet' = items /\ activeCheckpoint' = checkpoint /\ clearedIds' = cleared
      /\ chat' = chat /\ managed' = managed
  BY DEF Sends
<1>2. ChatInv(chat')
  BY <1>1 DEF ContextInv
<1>3. SummaryInv(chat', activeCheckpoint') /\ ClearingInv(chat', clearedIds')
  BY <1>1
<1>4. managed' => PacketInv(packet', chat', activeCheckpoint', clearedIds')
  BY <1>1
<1> QED  BY <1>2, <1>3, <1>4 DEF ContextInv

LEMMA FailsKeeps ==
  ASSUME ContextInv, Fails
  PROVE  ContextInv'
BY DEF ContextInv, Fails

LEMMA CompactKeeps ==
  ASSUME ContextInv, Compact
  PROVE  ContextInv'
<1> PICK items : items = AfterClearing
  OBVIOUS
<1> PICK end : end = CompactionEnd(items)
  OBVIOUS
<1>1. PICK size \in 1..3, written \in BOOLEAN :
        LET stored == written /\ durability \in {"Required", "BestEffort"}
            summary == Summary(items, end, size, stored)
            compacted == <<CheckpointItem(summary)>> \o SubSeq(items, end, Len(items))
        IN IF \/ TokensOf(compacted) > UsableLimit
              \/ size >= SourceTokens(summary.upto)
              \/ durability = "Required" /\ ~written
             THEN Fails
             ELSE Sends(compacted, <<summary>>, ClearedNow)
  BY DEF Compact
<1> DEFINE stored == written /\ durability \in {"Required", "BestEffort"}
<1> PICK summary : summary = Summary(items, end, size, stored)
  OBVIOUS
<1> PICK compacted :
      compacted = <<CheckpointItem(summary)>> \o SubSeq(items, end, Len(items))
  OBVIOUS
<1>2. Fails \/ Sends(compacted, <<summary>>, ClearedNow)
  BY <1>1
<1>3. CASE Fails
  BY <1>3, FailsKeeps
<1>4. CASE Sends(compacted, <<summary>>, ClearedNow)
  <2>1. /\ PacketInv(items, chat, Applied, ClearedNow) /\ ClearingInv(chat, ClearedNow)
        /\ items \in Seq(Range(items))
    BY ClearedShows
  <2>2. CanCompact(items)
    BY DEF Compact, Compacts
  <2>3. SummaryInv(chat, Applied) /\ ChatInv(chat)
    BY AppliedFacts DEF ContextInv
  <2>4. /\ summary.upto = items[end - 1].upto
        /\ summary.heard = HeardOf(items, end)
                             \cup (IF Applied = <<>> THEN {} ELSE Applied[1].heard)
    BY DEF Summary
  <2> PICK checkpoint, cleared : checkpoint = Applied /\ cleared = ClearedNow
    OBVIOUS
  <2>5. /\ SummaryInv(chat, <<summary>>)
        /\ PacketInv(compacted, chat, <<summary>>, cleared)
    <3>1. /\ PacketInv(items, chat, checkpoint, cleared) /\ SummaryInv(chat, checkpoint)
          /\ summary.heard = HeardOf(items, end)
                               \cup (IF checkpoint = <<>> THEN {} ELSE checkpoint[1].heard)
      BY <2>1, <2>3, <2>4
    <3>2. /\ SummaryInv(chat, <<summary>>)
          /\ PacketInv(<<CheckpointItem(summary)>> \o SubSeq(items, end, Len(items)), chat,
                       <<summary>>, cleared)
      BY ONLY <2>1, <2>2, <2>3, <2>4, <3>1, end = CompactionEnd(items), CompactedShows
    <3> QED  BY <3>2
  <2> QED  BY <1>4, <2>1, <2>5, SendsKeep
<1> QED  BY <1>2, <1>3, <1>4

LEMMA InitContextInv == ContextInit => ContextInv
<1> SUFFICES ASSUME ContextInit PROVE ContextInv
  OBVIOUS
<1>1. chat = <<>> /\ activeCheckpoint = <<>> /\ clearedIds = {} /\ phase # "reply"
  BY DEF ContextInit
<1>2. chat \in Seq(ChatMessage) /\ DOMAIN chat = {}
  BY <1>1
<1>3. ChatInv(chat)
  BY <1>2 DEF ChatInv
<1> QED  BY <1>1, <1>3 DEF ContextInv, SummaryInv, ClearingInv

LEMMA NextContextInv ==
  ASSUME ContextInv, [ContextNext]_contextVars
  PROVE  ContextInv'
<1> PICK c : c = chat
  OBVIOUS
<1>1. c \in Seq(ChatMessage)
  BY DEF ContextInv, ChatInv
<1>2. CASE AddUser
  <2>1. User(2) \in ChatMessage /\ User(2).role # "result"
    BY MessageTypes
  <2>2. ComesWhole(chat, chat')
    <3> PICK m : m = User(2)
      OBVIOUS
    <3>1. chat' = Append(c, m)
      BY <1>2 DEF AddUser
    <3>2. ComesWhole(c, Append(c, m))
      BY <1>1, <2>1, AppendedWhole
    <3> QED  BY <3>1, <3>2
  <2> QED  BY <1>2, <2>2, TurnKeeps DEF AddUser
<1>3. CASE AddText
  <2>1. Assistant(0) \in ChatMessage /\ Assistant(0).role # "result"
    BY MessageTypes
  <2>2. ComesWhole(chat, chat')
    <3> PICK m : m = Assistant(0)
      OBVIOUS
    <3>1. chat' = Append(c, m)
      BY <1>3 DEF AddText
    <3>2. ComesWhole(c, Append(c, m))
      BY <1>1, <2>1, AppendedWhole
    <3> QED  BY <3>1, <3>2
  <2> QED  BY <1>3, <2>2, TurnKeeps DEF AddText
<1>4. CASE AddExchange
  <2>1. PICK calls \in 1..2, clearable \in BOOLEAN : \E sizes \in [1..calls -> ResultSizes] :
          chat' = Append(chat, Assistant(calls))
                    \o [k \in 1..calls |-> ResultItem(Len(chat) + 1, sizes[k], clearable)]
    BY <1>4 DEF AddExchange
  <2>2. PICK sizes \in [1..calls -> ResultSizes] :
          chat' = Append(chat, Assistant(calls))
                    \o [k \in 1..calls |-> ResultItem(Len(chat) + 1, sizes[k], clearable)]
    BY <2>1
  <2>3. ComesWhole(c, Append(c, Assistant(calls))
                        \o [k \in 1..calls |-> ResultItem(Len(c) + 1, sizes[k], clearable)])
    BY <1>1, ExchangeWhole
  <2>4. ComesWhole(chat, chat')
    BY <2>2, <2>3
  <2> QED  BY <1>4, <2>4, TurnKeeps DEF AddExchange
<1>5. CASE CutExchange
  <2>1. Assistant(1) \in ChatMessage /\ Assistant(1).role # "result"
    BY MessageTypes
  <2>2. ComesWhole(chat, chat')
    <3> PICK m : m = Assistant(1)
      OBVIOUS
    <3>1. chat' = Append(c, m)
      BY <1>5 DEF CutExchange
    <3>2. ComesWhole(c, Append(c, m))
      BY <1>1, <2>1, AppendedWhole
    <3> QED  BY <3>1, <3>2
  <2> QED  BY <1>5, <2>2, TurnKeeps DEF CutExchange
<1>6. CASE ChangeModel
  BY <1>6 DEF ContextInv, ChangeModel, SummaryInv, ClearingInv
<1>7. CASE \/ LoadCheckpointFails \/ PersistenceFails \/ Exhausted \/ CompactorFails
  <2>1. Fails
    BY <1>7 DEF LoadCheckpointFails, PersistenceFails, Exhausted, CompactorFails
  <2> QED  BY <2>1, FailsKeeps
<1>8. SummaryInv(chat, Applied) /\ ClearingInv(chat, clearedIds)
  BY AppliedFacts DEF ContextInv
<1>9. CASE SendBounded
  BY <1>8, <1>9, SendsKeep DEF SendBounded
<1>10. CASE SendWhole
  BY <1>8, <1>10, ProjectedShows, SendsKeep DEF SendWhole
<1>11. CASE SendCleared
  BY <1>8, <1>11, ClearedShows, SendsKeep DEF SendCleared
<1>12. CASE Compact
  BY <1>12, CompactKeeps
<1>13. CASE UNCHANGED contextVars
  BY <1>13 DEF ContextInv, contextVars
<1> QED
  BY <1>2, <1>3, <1>4, <1>5, <1>6, <1>7, <1>9, <1>10, <1>11, <1>12, <1>13 DEF ContextNext

LEMMA ContextInvHolds == ContextSpec => []ContextInv
<1>1. ContextInit => ContextInv
  BY InitContextInv
<1>2. ContextInv /\ [ContextNext]_contextVars => ContextInv'
  BY NextContextInv
<1> QED  BY <1>1, <1>2, PTL DEF ContextSpec

\* For every policy of clearing and compaction and every conversation, a request under
\* context management shows each message or has it summarised, keeps calls and results
\* together, and leaves the last turns word for word (RuntimeContextPipeline).
THEOREM PacketsAreFaithful == ContextSpec => []PacketFaithful
<1>1. ContextInv => PacketFaithful
  BY InvIsFaithful
<1> QED  BY <1>1, ContextInvHolds, PTL
=============================================================================
