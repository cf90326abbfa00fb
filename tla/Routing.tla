-------------------------------- MODULE Routing --------------------------------
(***************************************************************************)
(* How one request finds its workflow, from its task profile to the        *)
(* router's decision (app/main.py, _run_planner_pipeline and the part of   *)
(* invoke_agent between the plan and the contract), on the profiles of     *)
(* Catalog: the profile and the effective permissions, a validated plan    *)
(* that changes the profile and hints at a workflow, the hints of the      *)
(* planner memory, the matcher's scores and filters, and the balancer.     *)
(* The last three stages refine Router.                                    *)
(*                                                                         *)
(* Scores are in millionths, resource scores in ten-thousandths, rounded   *)
(* down where the code rounds to nearest; they are compared exactly, where *)
(* the code subtracts floats: a difference of just the tie threshold is    *)
(* within the band here, and may fall on either side of it there.          *)
(***************************************************************************)
EXTENDS Catalog, FiniteSets

CONSTANTS
    Requests,           \* what the requests, their API keys and the profile file may say
    PlannerEnabled,     \* task_planner_enabled
    PlanSteps,          \* sets of workflows that a plan may name
    MemoryBoosts,       \* score_boost of the matching route rules, after _safe_boost
    MaxRules,           \* bound: matching route rules
    Snapshots           \* what the runtime metrics of a workflow may say

\* A perfect score, MAX_MEMORY_ROUTE_BOOST, RESOURCE_TIE_THRESHOLD, and a perfect
\* resource score.
One == 1000000
MaxBoost == 200000
Tie == 50000
Whole == 10000

ASSUME RequestAssumption ==
    /\ Requests \subseteq
        [kind : Kinds,                  \* what the words of the text lead to
         media : {"image", "video"},    \* what the media workflow takes it for
         evidence : BOOLEAN \cup {None},        \* metadata.evidence_required
         asked : SUBSET Permissions, held : SUBSET Permissions,
         workflows : SUBSET (Workflows \cup {Wildcard}),    \* of the API key
         tools : SUBSET (Tools \cup {Wildcard}),            \* of the API key
         outage : SUBSET Workflows,     \* healthy = false in the profile file
         slo : Nat \ {0},               \* latency_slo_ms
         budget : {"low", "normal", "high"}]
    \* The workflow looks for the same words in fewer places.
    /\ \A r \in Requests : r.kind = "image" => r.media = "image"

ASSUME RoutingAssumption ==
    /\ PlannerEnabled \in BOOLEAN
    /\ PlanSteps \subseteq (SUBSET Workflows) \ {{}}
    /\ MemoryBoosts \subseteq 1..MaxBoost
    /\ MaxRules \in Nat
    /\ Snapshots \subseteq
          [ongoing : Nat, recent : [latency : Nat, error : 0..Whole] \cup {None}]
    /\ None \notin Workflows

VARIABLES
    request,    \* what the request, its API key and the profile file say
    profile,    \* the task profile
    granted,    \* the effective permissions
    plan,       \* the validated plan, None without one
    stage, hints, boosts, base, executable, match, target, selected

requestVars == <<request, profile, granted, plan>>
routerVars == <<stage, hints, boosts, base, executable, match, target, selected>>
vars == <<requestVars, routerVars>>

NoTarget == [resource |-> 0, latency |-> 0]

Plans == [type : TaskTypes, steps : PlanSteps, evidence : BOOLEAN]

ASSUME PlanAssumption == None \notin Plans

--------------------------------------------------------------------------------
(* Profile, permissions and plan *)

\* _effective_permissions: what both grant, where a wildcard grants everything.
Effective(asked, held) ==
    IF Wildcard \in held THEN asked
    ELSE IF Wildcard \in asked THEN held
    ELSE asked \cap held

Holds(scopes) == Wildcard \in granted \/ scopes \subseteq granted

\* ALLOWED_A2A_PATHS.
A2APaths == {<<Document, w>> : w \in {KnowledgeQA, LargeKnowledgeQA, Media}}

\* The workflow that PlanValidator._validate_a2a takes for the last: that of the
\* primary task type, else the one that composes a document, else the last step,
\* from which no path leads.
FinalOf(p) ==
    LET primary == {w \in p.steps \ {KnowledgeQA, LargeKnowledgeQA} : SupportedTask[w] = p.type}
    IN  IF primary # {} THEN CHOOSE w \in primary : TRUE
        ELSE IF Document \in p.steps THEN Document ELSE None

\* PlanValidator.validate, for steps that name their workflow and leave task type
\* and tools open.  It does not ask whether the workflow serves the primary type.
Validated(p) ==
    /\ \A w \in p.steps : Holds(RequiredScope[w])
    /\ Cardinality(p.steps) > 1 =>
          \A w \in p.steps \ {FinalOf(p)} : <<FinalOf(p), w>> \in A2APaths

\* _planned_selected_workflow: the step that composes, else the only one.
Planned(p) ==
    IF Document \in p.steps THEN Document ELSE CHOOSE w \in p.steps : TRUE

\* _apply_plan_to_task_profile: tools, permissions and risk stay those of the
\* inferred task type.
Applied(p) ==
    [profile EXCEPT
        !.task = p.type,
        !.capabilities = @ \cup (IF LargeKnowledgeQA \in p.steps THEN DeepCapabilities ELSE {}),
        !.evidence = @ \/ p.evidence]

--------------------------------------------------------------------------------
(* WorkflowMatcher *)

Hundred(b) == IF b THEN One ELSE 0

\* _match_ratio.
Ratio(required, provided) ==
    IF required = {} THEN One
    ELSE (One * Cardinality(required \cap provided)) \div Cardinality(required)

PermissionMatch(w) == Holds(profile.scope \cup RequiredScope[w])

WorkflowMatch(w) == request.workflows \cap {Wildcard, w} # {}

ToolMatch ==
    \/ profile.tools = {}
    \/ Wildcard \in request.tools
    \/ profile.tools \subseteq request.tools

\* _risk_fit.
RiskFit(w) ==
    LET missing == Cardinality({"evidence_check", "citation", "permission_check"} \ Capabilities[w])
    IN  IF profile.risk # "high" \/ missing = 0 THEN One
        ELSE IF missing = 1 THEN 400000 ELSE 0

\* score_profile: the weighted sum.
MatchScore(w) ==
    (30 * Ratio(profile.capabilities, Capabilities[w])
     + 15 * Ratio(profile.tools, AllowedTools[w])
     + 15 * Hundred(PermissionMatch(w))
     + 10 * Hundred(WorkflowMatch(w)) + 10 * Hundred(ToolMatch)
     + 10 * SeedMetrics[w].success
     + 5 * (IF profile.evidence THEN SeedMetrics[w].citation ELSE One)
     + 5 * RiskFit(w)) \div 100

\* Mutant: exactly half the capabilities are not enough.
CapableEnough_MoreThanHalf(w) == Ratio(profile.capabilities, Capabilities[w]) > One \div 2

\* Mutant: a third of the capabilities is enough.
CapableEnough_AThird(w) == Ratio(profile.capabilities, Capabilities[w]) > One \div 4

\* The filter on capability_match.
CapableEnough(w) == Ratio(profile.capabilities, Capabilities[w]) >= One \div 2

\* Mutant: the tools of the API key are not looked at.
Executable_AnyTool(w) ==
    /\ w \notin request.outage
    /\ profile.task = SupportedTask[w]
    /\ WorkflowMatch(w) /\ PermissionMatch(w)
    /\ CapableEnough(w)
    /\ profile.evidence => {"evidence_check", "citation"} \subseteq Capabilities[w]

\* _exclusion_reason is None.
Executable(w) ==
    /\ w \notin request.outage
    /\ profile.task = SupportedTask[w]
    /\ WorkflowMatch(w) /\ ToolMatch /\ PermissionMatch(w)
    /\ CapableEnough(w)
    /\ profile.evidence => {"evidence_check", "citation"} \subseteq Capabilities[w]

--------------------------------------------------------------------------------
(* ResourceBalancer *)

CostScore(w) ==
    CASE SeedMetrics[w].cost = "low" -> Whole
      [] SeedMetrics[w].cost = "normal" -> 7000
      [] SeedMetrics[w].cost = "high" -> IF request.budget = "low" THEN 2000 ELSE 4000

\* resource_score with the snapshot s: what was recently measured replaces the seed, a
\* latency only if it is not zero.
Target(w, s) ==
    LET latency == IF s.recent = None \/ s.recent.latency = 0
                   THEN SeedMetrics[w].latency ELSE s.recent.latency
        error == IF s.recent = None THEN SeedMetrics[w].error ELSE s.recent.error
        late == (Whole * latency) \div request.slo
    IN  [resource |-> (45 * (IF late > Whole THEN 0 ELSE Whole - late)
                       + 25 * (Whole - error)
                       + 20 * (Whole \div (1 + s.ongoing))
                       + 10 * CostScore(w)) \div 100,
         latency |-> latency]

\* Mutant: the least loaded executable workflow, whatever the match.
InBand_Everyone(w) == w \in executable

\* The tie band.
InBand(w) == w \in executable /\ \A v \in executable : match[v] - match[w] <= Tie

\* The key of the sort, first one first.
First(w, t) ==
    \A v \in {u \in executable : InBand(u)} \ {w} :
        \/ t[w].resource > t[v].resource
        \/ /\ t[w].resource = t[v].resource
           /\ \/ t[w].latency < t[v].latency
              \/ t[w].latency = t[v].latency /\ Position[w] < Position[v]

--------------------------------------------------------------------------------
(* The request *)

Init ==
    /\ request \in Requests
    /\ profile = None /\ plan = None
    /\ granted = {}
    /\ stage = "new" /\ hints = 0
    /\ boosts = [w \in Workflows |-> 0]
    /\ base = [w \in Workflows |-> 0] /\ match = [w \in Workflows |-> 0]
    /\ executable = {}
    /\ target = [w \in Workflows |-> NoTarget]
    /\ selected = None

\* TaskProfileBuilder.build, and the effective permissions.
BuildProfile ==
    /\ stage = "new"
    /\ stage' = "profiled"
    /\ profile' = LET seed == ProfileSeed(request.kind)
                  IN  [seed EXCEPT !.evidence = IF request.evidence = None
                                                THEN @ ELSE request.evidence]
    /\ granted' = Effective(request.asked, request.held)
    /\ UNCHANGED <<request, plan, hints, boosts, base, executable, match, target, selected>>

\* PlannerPolicy asks for no plan; it does for every document.
Bypass ==
    /\ stage = "profiled"
    /\ PlannerEnabled => profile.task # "document_writing"
    /\ stage' = "hints"
    /\ UNCHANGED <<requestVars, hints, boosts, base, executable, match, target, selected>>

\* A plan fails its validation, and so does its repair: the request is refused.
\* Gateway.tla has the calls.
PlanFails ==
    /\ stage = "profiled" /\ PlannerEnabled
    /\ stage' = "refused"
    /\ UNCHANGED <<requestVars, hints, boosts, base, executable, match, target, selected>>

\* Mutant: the hints are capped one by one, their sum is not.
Hint_Uncapped(w, b) ==
    /\ hints' = hints + 1
    /\ boosts' = [boosts EXCEPT ![w] = @ + b]

\* _memory_boosts, one hint.
Hint(w, b) ==
    /\ hints' = hints + 1
    /\ boosts' = [boosts EXCEPT ![w] = IF @ + b > MaxBoost THEN MaxBoost ELSE @ + b]

\* A plan passes: it changes the profile and hints at the workflow it ends with.
Plan(p) ==
    /\ stage = "profiled" /\ PlannerEnabled
    /\ Validated(p)
    /\ stage' = "hints"
    /\ plan' = p
    /\ profile' = Applied(p)
    /\ Hint(Planned(p), MaxBoost)
    /\ UNCHANGED <<request, granted, base, executable, match, target, selected>>

\* MemoryPlanner.plan_route, one matching route rule: its hint comes after the
\* plan's.
MemoryHint(w, b) ==
    /\ stage = "hints" /\ hints < MaxRules + (IF plan = None THEN 0 ELSE 1)
    /\ Hint(w, b)
    /\ UNCHANGED <<requestVars, stage, base, executable, match, target, selected>>

\* The loop of AgenticRouter.select.
Match ==
    /\ stage = "hints"
    /\ stage' = "matched"
    /\ base' = [w \in Workflows |-> MatchScore(w)]
    /\ executable' = {w \in Workflows : Executable(w)}
    /\ match' = [w \in Workflows |->
                    IF w \in executable' /\ base'[w] + boosts[w] > One THEN One
                    ELSE base'[w] + (IF w \in executable' THEN boosts[w] ELSE 0)]
    /\ UNCHANGED <<requestVars, hints, boosts, target, selected>>

\* ResourceBalancer.select, with the runtime metrics of this moment.
Balance ==
    /\ stage = "matched"
    /\ stage' = "routed"
    /\ \E metrics \in [executable -> Snapshots] :
          LET t == [w \in Workflows |->
                       IF w \in executable THEN Target(w, metrics[w]) ELSE NoTarget]
          IN  /\ target' = t
              /\ \/ executable = {} /\ selected' = None
                 \/ \E w \in executable : InBand(w) /\ First(w, t) /\ selected' = w
    /\ UNCHANGED <<requestVars, hints, boosts, base, executable, match>>

Next ==
    \/ BuildProfile \/ Bypass \/ PlanFails
    \/ \E p \in Plans : Plan(p)
    \/ \E w \in Workflows, b \in MemoryBoosts : MemoryHint(w, b)
    \/ Match
    \/ Balance

Spec == Init /\ [][Next]_vars

--------------------------------------------------------------------------------
(* Properties *)

\* Every variable has its type: in particular the weighted scores stay within one,
\* and so do the boosts within their cap when a plan and a rule hint at once.
TypeOK ==
    /\ request \in Requests
    /\ plan \in Plans \cup {None}
    /\ profile # None => profile.task \in TaskTypes /\ profile.tools \subseteq Tools
    /\ stage \in {"new", "profiled", "refused", "hints", "matched", "routed"}
    /\ boosts \in [Workflows -> 0..MaxBoost]
    /\ \A w \in Workflows :
          /\ base[w] \in 0..One /\ match[w] \in 0..One
          /\ target[w].resource \in 0..Whole /\ target[w].latency \in Nat
    /\ executable \subseteq Workflows
    /\ selected \in executable \cup {None}

\* The task type that the request itself was taken for.
Inferred == ProfileSeed(request.kind).task

Retyped == plan # None /\ plan.type # Inferred

\* is_allowed of the tool service, for the permissions and tools that the gateway
\* sends with the invocation.
MayCall(t) ==
    /\ Holds({Scope[t]})
    /\ request.tools # {} => request.tools \cap {Wildcard, t} # {}

\* What a workflow calls itself: all of its tools, but the media workflow that of its own
\* _media_type, which reads metadata.media_type and the input only.
Calls(w) ==
    IF w # Media THEN AllowedTools[w]
    ELSE IF request.media = "video" THEN {"video_generation_tool"}
    ELSE {"image_generation_tool"}

\* The words for a video are in other metadata: the profile asks for the one tool, the
\* workflow calls the other.
Misread == request.kind = "video" /\ request.media = "image"

\* Two checks on the same keys, written apart: a workflow is only selected if every tool it
\* calls itself passes is_allowed of the tool service (permissions.py), with two exceptions.
\* A plan that changed the task type leaves the tools of the profile behind, and a media
\* request that profile and workflow read differently is checked for the wrong tool: under
\* a key for the video tool alone it is routed, and then denied the image tool.
RoutedCanUseItsTools ==
    selected # None /\ ~Retyped /\ ~Misread => \A t \in Calls(selected) : MayCall(t)

\* A plan that changes the task type is only ever executed by the large knowledge
\* workflow: the capabilities of the inferred type keep all others out, whoever
\* asks (_apply_plan_to_task_profile and the filter on capability_match).
RetypedOnlyToLarge ==
    selected # None /\ Retyped => selected = LargeKnowledgeQA

Granted(w) == WorkflowMatch(w) /\ ToolMatch /\ PermissionMatch(w) /\ w \notin request.outage

\* A question that asks for depth gets the large workflow whatever the load, unless
\* a hint speaks for the ordinary one (the deep capabilities of _profile_seed
\* outweigh the tie band).
DeepGoesLarge ==
    /\ stage = "routed" /\ request.kind = "deep" /\ ~Retyped
    /\ Granted(LargeKnowledgeQA) /\ boosts[KnowledgeQA] = 0
    => selected = LargeKnowledgeQA

\* With the large workflow down the ordinary one still answers it: half of the
\* capabilities is just enough.
DeepStillAnswered ==
    /\ stage = "routed" /\ request.kind = "deep" /\ ~Retyped
    /\ LargeKnowledgeQA \in request.outage /\ Granted(KnowledgeQA)
    => selected = KnowledgeQA

\* A request for a document, planned as a document, is routed to the document
\* workflow when it is up and everything is permitted: what
\* data/planner_eval_cases.jsonl expects of its cases.
PlannedDocumentRouted ==
    /\ stage = "routed" /\ plan # None /\ plan.type = "document_writing" /\ ~Retyped
    /\ Planned(plan) = Document /\ Granted(Document)
    => selected = Document

--------------------------------------------------------------------------------
(* Refinement *)

\* The stages up to the match are the hints of Router.
Router == INSTANCE Router WITH
    stage <- IF stage \in {"matched", "routed"} THEN stage ELSE "hints",
    Boosts <- MemoryBoosts \cup {MaxBoost},
    Matches <- 0..One,
    Resources <- 0..Whole,
    Latencies <- Nat,
    MaxHints <- MaxRules + 1

\* The routing of a request is one call of select, on the scores of the catalog: what
\* is proved of Router holds of it.
ImplementsRouter == Router!Init /\ [][Router!Next]_(Router!routerVars)

================================================================================
