----------------------------- MODULE ToolPolicy -----------------------------
(***************************************************************************)
(* What decides whether a tool call runs, over the turns of concurrent     *)
(* runs of one AgentRuntime: the skills that are active                    *)
(* (crates/gestalt-runtime/src/skills), the hooks of the host and the      *)
(* lifecycle clients of the extensions (composition_hooks.rs), and the     *)
(* policy engine (policy/mod.rs, policy/engine.rs).  The runs share one    *)
(* skill state; a command or a path is the first list of policies.toml     *)
(* that names it.                                                          *)
(***************************************************************************)
EXTENDS Naturals, FiniteSets

CONSTANTS
  Actors,            \* runs
  CatalogTools,
  Skills,
  Trusted,           \* skills with trust level Explicit or Workspace
  AllowedTools,      \* [Skills -> SUBSET AllowTokens], or Unrestricted
  Unrestricted,
  Vanishing,         \* skills whose SKILL.md may become unreadable
  Guards,            \* lifecycle registrations of a policy guard, 1..n
  BashDefault, NetworkDefault,  \* policies.toml: "Allow", "Confirm" or "Deny"
  AllowNetwork,
  MaxAgentTurns

\* A word of allowed-tools: a bare name such as read, or a canonical id such as builtin:read.
AllowTokens == {"name", "id"} \X CatalogTools
Bare(tool) == <<"name", tool>>
CanonicalId(tool) == <<"id", tool>>

ASSUME ToolPolicyAssumption ==
  /\ Trusted \subseteq Skills /\ Vanishing \subseteq Skills
  /\ \A s \in Skills : AllowedTools[s] \in (SUBSET AllowTokens) \cup {Unrestricted}
  /\ {BashDefault, NetworkDefault} \subseteq {"Allow", "Confirm", "Deny"}

Modes == {"Confirm", "Yolo", "Human", "DryRun", "Replay"}
Risks == {"Low", "Medium", "High", "Critical"}

VARIABLES
  mode,        \* the session mode of the runs
  activeSkills,\* SkillContributorState.active, shared by the runs
  readable,    \* skills whose body can be read now
  matching,    \* skills that the last user message of a run triggers
  turnOf,      \* [Actors -> state of the turn]
  ranCalls     \* calls that ran in the turns that are on, with what the turn knew of them

toolPolicyVars == <<mode, activeSkills, readable, matching, turnOf, ranCalls>>

NoTurn == [at |-> "top", turns |-> 0, prompt |-> {}, offered |-> {}, called |-> {}, held |-> {}]

-----------------------------------------------------------------------------
\* effective_tool_policy: what all the skills allow that restrict tools.

Restricting(skills) == {s \in skills : AllowedTools[s] # Unrestricted}

\* A tool that one of them allows.
AllowedByOne(skills, token) ==
  Restricting(skills) = {} \/ \E s \in Restricting(skills) : token \in AllowedTools[s]

Allows(skills, token) == \A s \in Restricting(skills) : token \in AllowedTools[s]

\* ToolCatalogPlanner::plan_descriptors compares names,
PlannedTools(skills) == {t \in CatalogTools : Allows(skills, Bare(t))}

\* RuntimePolicyEngine::evaluate what the executor passes on, the canonical id.
SkillsAdmit(skills, tool) == Allows(skills, CanonicalId(tool))

-----------------------------------------------------------------------------
\* MinimalPolicyEngine.  A request: the kind of tool, the first list that names its
\* argument in the order they are asked, and its risk.

ToolRequests ==
  [kind : {"read"}, listed : {"missing", "deny", "allow", "none"}, risk : Risks]
  \cup [kind : {"write"}, listed : {"missing", "memory", "deny", "allow", "none"}, risk : Risks]
  \cup [kind : {"bash"}, risk : Risks,
        listed : {"online", "always_deny", "always_confirm", "secret", "yolo_allow", "none"}]
  \cup [kind : {"web_fetch"}, listed : {"missing", "deny", "allow", "none"}, risk : Risks]
  \cup [kind : {"other"}, listed : {"none"}, risk : Risks]

Matrix(risk) ==
  IF mode \notin {"Confirm", "Yolo"} \/ risk = "Critical" THEN "Denied"
  ELSE IF risk = "High" \/ (risk = "Medium" /\ mode = "Confirm") THEN "Confirm"
  ELSE "Allowed"

PathDecision(r) ==
  CASE r.listed = "memory" -> "Confirm"
    [] r.listed = "allow" -> Matrix(r.risk)
    [] OTHER -> "Denied"

BashDecision(r) ==
  IF (r.listed = "online" /\ ~AllowNetwork) \/ r.listed \in {"always_deny", "secret"} THEN "Denied"
  ELSE IF r.listed = "always_confirm" THEN "Confirm"
  ELSE IF mode = "Yolo" THEN
    IF r.listed = "yolo_allow" /\ r.risk \in {"Low", "Medium"} THEN "Allowed" ELSE "Confirm"
  ELSE CASE BashDefault = "Allow" -> "Allowed"
         [] BashDefault = "Deny" -> "Denied"
         [] OTHER -> Matrix(r.risk)

NetworkDecision(r) ==
  IF r.listed \in {"missing", "deny"} THEN "Denied"
  ELSE IF r.listed = "allow" \/ NetworkDefault = "Allow" THEN Matrix(r.risk)
  ELSE IF NetworkDefault = "Confirm" THEN "Confirm" ELSE "Denied"

BaseDecision(r) ==
  CASE r.kind \in {"read", "write"} -> PathDecision(r)
    [] r.kind = "bash" -> BashDecision(r)
    [] r.kind = "web_fetch" -> NetworkDecision(r)
    [] OTHER -> Matrix(r.risk)

\* The chain of RuntimePolicyEngine::evaluate: the skills, the hook of the host, the
\* guards in their order, then the engine.  An answer that cannot be had denies.
HookAnswers == {"Continue", "Block", "fails"}
GuardAnswers == {"Allowed", "Confirm", "Denied", "fails"}

GuardsBlock(hook, guards) == hook # "Continue" \/ \E g \in Guards : guards[g] # "Allowed"

Judgement(tool, base, hook, guards) ==
  IF ~SkillsAdmit(activeSkills, tool) \/ GuardsBlock(hook, guards) THEN "Denied" ELSE base

-----------------------------------------------------------------------------

ToolPolicyInit ==
  /\ mode \in Modes
  /\ \E requested \in SUBSET Skills : activeSkills = requested
  /\ readable = Skills
  /\ matching \in [Actors -> SUBSET Skills]
  /\ turnOf = [a \in Actors |-> NoTurn]
  /\ ranCalls = {}

\* A SKILL.md goes away, or comes back.
BodyChanges ==
  /\ \E s \in Vanishing : readable' = IF s \in readable THEN readable \ {s} ELSE readable \cup {s}
  /\ UNCHANGED <<mode, activeSkills, matching, turnOf, ranCalls>>

\* ActivationEngine::resolve: what was active stays, what the task triggers is added.
Resolved(a) == activeSkills \cup (matching[a] \cap Trusted)

\* before_context_build: the skills of the turn are resolved, then the hook of the host and
\* the context providers run; one of them may block the run.
ResolveSkills(a) ==
  /\ turnOf[a].at = "top" /\ turnOf[a].turns < MaxAgentTurns
  /\ activeSkills' = Resolved(a)
  /\ \E outcome \in HookAnswers :
       turnOf' = [turnOf EXCEPT ![a].at = IF outcome = "Block" THEN "over" ELSE "contribute"]
  /\ UNCHANGED <<mode, readable, matching, ranCalls>>

\* ActiveSkillsContributor: the instructions of the skills whose body can be read; the
\* others are active no more.
Contribute(a) ==
  /\ turnOf[a].at = "contribute"
  /\ activeSkills' = activeSkills \cap readable
  /\ turnOf' = [turnOf EXCEPT ![a].at = "plan", ![a].prompt = activeSkills \cap readable]
  /\ UNCHANGED <<mode, readable, matching, ranCalls>>

\* build_request: the tools that are offered, and after_context_build.
OfferTools(a) ==
  /\ turnOf[a].at = "plan"
  /\ \E outcome \in HookAnswers :
       turnOf' = [turnOf EXCEPT ![a].at = IF outcome = "Block" THEN "over" ELSE "answer",
                            ![a].offered = PlannedTools(activeSkills)]
  /\ UNCHANGED <<mode, activeSkills, readable, matching, ranCalls>>

Verdicts(tool) ==
  {[status |-> Judgement(tool, base, hook, guards),
    objected |-> hook # "Continue" \/ \E g \in Guards : guards[g] # "Allowed"] :
     base \in {BaseDecision(r) : r \in ToolRequests}, hook \in HookAnswers,
     guards \in [Guards -> GuardAnswers]}

\* The model calls a tool, offered or not, and the call is judged.
JudgeCall(a) ==
  /\ turnOf[a].at = "answer"
  /\ \E tool \in CatalogTools \ turnOf[a].called : \E verdict \in Verdicts(tool) :
       LET confirm == verdict.status = "Confirm"
           call == [actor |-> a, tool |-> tool, prompt |-> turnOf[a].prompt, asked |-> FALSE,
                    objected |-> verdict.objected]
       IN /\ turnOf' = [turnOf EXCEPT ![a].called = @ \cup {tool},
                                     ![a].held = IF confirm THEN {call} ELSE {},
                                     ![a].at = IF confirm THEN "ask" ELSE "answer"]
          /\ ranCalls' = IF verdict.status = "Allowed" THEN ranCalls \cup {call} ELSE ranCalls
  /\ UNCHANGED <<mode, activeSkills, readable, matching>>

\* The user approves the call, or does not.
AnswerApproval(a) ==
  /\ turnOf[a].at = "ask"
  /\ ranCalls' \in {ranCalls, ranCalls \cup {[c EXCEPT !.asked = TRUE] : c \in turnOf[a].held}}
  /\ turnOf' = [turnOf EXCEPT ![a].at = "answer", ![a].held = {}]
  /\ UNCHANGED <<mode, activeSkills, readable, matching>>

\* prepare_next_turn: the turn is over, and the host or a router may end the run.
NextTurn(a) ==
  /\ turnOf[a].at = "answer"
  /\ \E outcome \in HookAnswers :
       turnOf' = [turnOf EXCEPT ![a] = [NoTurn EXCEPT !.turns = turnOf[a].turns + 1,
                                                !.at = IF outcome = "Block" THEN "over" ELSE "top"]]
  /\ ranCalls' = {c \in ranCalls : c.actor # a}
  /\ UNCHANGED <<mode, activeSkills, readable, matching>>

ToolPolicyNext ==
  \/ BodyChanges
  \/ \E a \in Actors :
       \/ ResolveSkills(a) \/ Contribute(a) \/ OfferTools(a)
       \/ JudgeCall(a) \/ AnswerApproval(a) \/ NextTurn(a)

ToolPolicySpec == ToolPolicyInit /\ [][ToolPolicyNext]_toolPolicyVars

-----------------------------------------------------------------------------

\* A tool ran only if every skill whose instructions the model had in that turn allows it,
\* no hook or guard objected or failed, and, in a mode that only plans, a user approved it.
\* The skills are shared: the turn of another run changes them between the prompt and the call.
RanWithinRules ==
  \A c \in ranCalls :
    /\ \A s \in Restricting(c.prompt) : AllowedTools[s] \cap {Bare(c.tool), CanonicalId(c.tool)} # {}
    /\ ~c.objected
    /\ mode \in {"Human", "DryRun", "Replay"} => c.asked

\* "Prompt shaping and runtime enforcement stay aligned" (docs/permissions-model.md:285): a
\* tool that was offered under the skills that are active is one the policy lets run.
OfferedIsAdmitted ==
  \A a \in Actors : turnOf[a].at = "answer" =>
    \A tool \in turnOf[a].offered : SkillsAdmit(activeSkills, tool)
=============================================================================
