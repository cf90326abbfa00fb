# A TLA+ model of SemGate

SemGate is a gateway in front of agent workflows.  A client posts a request to
the gateway; the gateway authenticates and rate-limits it, may ask a model for a
plan, routes it to one of five workflows, writes a task contract, lets the agent
orchestrator run the workflow, verifies the result against the contract, and
answers.  This directory holds TLA+ modules for the parts of it that keep state
or decide something, TLC runs on small instances, and TLAPS proofs of what holds
for every instance.  Line numbers below are those of the modelled commit.

## The system

| component | state it keeps | operations | interacts with |
|---|---|---|---|
| Gateway, `app/main.py` | one coroutine per request | `/v1/invoke` (every await is a point where requests interleave); `/v1/preview` (no state) | everything below |
| Auth, `app/auth.py` | none (reads a file per request) | `verify_api_key` | gateway |
| RateLimiter, `app/rate_limit.py` | a token bucket per consumer key, a lock | `check` | gateway |
| RuntimeMetricsStore, `app/runtime_metrics.py` | per workflow: `ongoing_count`, two deques with maxlen | `start`, `finish`, `snapshot` | gateway writes, router reads |
| TaskProfileBuilder, `app/task_profile.py` | none | `build`, `resolve_user_permissions` | gateway |
| TaskPlanner, PlannerPolicy, PlannerContext, PlanValidator | none | one model call, at most one repair call, validation | gateway, planner model |
| PlannerMemoryStore, MemoryPlanner | two JSON rule files, rewritten by a script or by hand | `load`, `plan_route`, `plan_contract` | gateway, `scripts/update_planner_memory.py` |
| AgenticRouter, `app/agentic_router.py` | none (reads the metrics) | hard filters, match score, boosts, tie band, resource balancing | gateway, metrics |
| TaskContractBuilder, `app/task_contract.py` | none | `build` | gateway |
| VerificationGate, `app/verification.py` | none (reads the tool audit log) | `verify` | gateway, audit log |
| TraceCollector, logs | events of a request, files | `add`, `flush` | gateway |
| Agent orchestrator, `services/agent_orchestrator` | one state per job | five workflows with bounded retry and repair loops | gateway, tool service, model backend |
| Tool service, `services/tool_service` | the tool audit log | `invoke`: permission, schema, execution, one audit record | workflows, RAG service |
| RAG service, model backend | none | stubs | tools, workflows |
| `scripts/`, `eval/` | report files | offline | rule files |

What is hard to test here:

* a request gives up the event loop at three awaits only (planner, repair,
  orchestrator), but the orchestrator and the tools are other processes: their
  answers and audit records race the gateway's timeout and its verification;
* what `start` counted must be uncounted on every way out, of which there are
  five (verified answer, timeout, failure, an exception in the gate, a restart);
* the error window is filled in the order in which invocations end;
* rule files change under the running gateway;
* the workflows loop through tools and models (retry, repair, a workflow inside
  another), and what a later round replaces must not be vouched for by an
  earlier one;
* a tool call may be denied, fail, raise or hang half-way through a workflow,
  while the tool service, another process, goes on with it;
* the same facts (tools, node names, permissions, what kind of media) are decided
  in several components that have to agree.

What makes each component correct is stated under "Modules" with the property
that says it; `PROJECT.json` lists the hazards at their lines.

## Modules

### RateLimiter

`TokenBucketRateLimiter.check`.  `Enter` is line 63 (the clock is read, outside
the lock), `Admit` and `Deny` are the body of the lock, `Tick` is time.  Floats
become integers by counting tokens in units such that one tick replenishes
`Rate` of them.  One element in `Callers` is the gateway's event loop.  Several
are threads, for which the class has its lock, though nothing in the repository uses
it so.  History variables record when admissions happened, by how much
`updated_at` was moved back, and when refused clients were told to come back.

* `WindowBound`: whatever two admissions are picked, everything admitted between
  them is paid for by one burst and the replenishment of the time in between
  (plus what was rewound: with threads the code really pays some time twice).
* `NoTickPaidTwice`: on one event loop nothing is ever rewound.
* `RetryHonest`: what `Retry-After` is worth.  The header is truncated to seconds
  (`main.py:247`), so a client that obeys it may find less than it needs, but lacks
  less than one second's replenishment, however many refusals there were in between;
  where a second pays for a request, as by default, it lacks nothing.  The run has a
  second that does not pay for one, so that the truncation shows; the theorem is for
  both.  A burst below a request, which the constructor does not rule out, never admits
  anything: the client then finds a full bucket.

### Gateway and InvokeService

`Gateway` is `/v1/invoke` for a set of concurrent requests.  An action is the
code between two awaits: `Unauthorized`, `RateLimited`, `Admitted`,
`PlannerReplies`, `Complete`, `VerifyRaises`, `CallTimesOut`, `CallFails`.  The
orchestrator's job of a request (`CallTool`, `JobAnswers`, `JobCrashes`), the
tool service's record (`RecordTool`), the edited rule files (`EditRules`) and a
restart of the gateway (`Restart`) are the environment, and none of it is
synchronised with the gateway.

| state | code |
|---|---|
| `phase`, `reply` | where the coroutine of a request is, what the client got |
| `flushes`, `logged` | `trace.flush()` calls and `_log_agentic_request` lines of a request |
| `chosen`, `contract` | the routed workflow; the criteria that ask for more than the response |
| `ongoing`, `errors` | `ongoing_count` and `error_flags` of `_WorkflowRuntimeMetrics` |
| `rules` | the rule files: valid, invalid (warned about), garbled (not UTF-8), lax (accepted, and the gate raises) |
| `job`, `audit` | the run in the orchestrator; `tool_audit.jsonl` |
| `leaked`, `finished` | history: starts without a finish, the order of finishes |

Routing, the plan and the contract are choices here (which workflow, which
demands): what the router decides is the subject of `Router` and `Routing`, what a
contract demands and what a job does are those of `Contract` and `Orchestrator`.  A
criterion on the response itself is the Boolean
`complete`; a demand for a tool is looked up in the audit log as the code does,
last `AuditLimit` records only.  The rate limiter's decision is a choice too.

* `GaugeExact`: the load the router reads is the number of invocations in
  flight, plus the ones whose verification raised.
* `ErrorRateExact`: the error window is that of the last invocations that ended.
* `OneRecordPerReply`: every reply but 401 and 500 has one flush and one log line with
  the client's status.  A rejected key, a request whose gate raised and one that a
  restart lost have neither.
* `SuccessIsEarned`: success only for a complete response, and a demanded tool
  succeeded for this very request.
* `NoFalseRejection`: no success is rejected for a tool call that is recorded when the
  gate decides, while the scan reaches back to the first record.  A success that has
  scrolled out of the last `AuditLimit` lines (2000 in the code) is rejected.
* `DecisionStands`: nothing about a closed request changes, although its job may
  go on.
* `EventuallyAnswered`: every request that is handled is answered, or lost in a
  restart.
* `ImplementsService`: `Gateway` refines `InvokeService`, the abstract
  specification: decided at most once, accepted only under a contract whose
  demand is met, no decision lost in a restart.

### Router

`AgenticRouter.select` for any profiles and any scores, one call after another:
`TakeHint` is one round of `_memory_boosts`, `Match` the loop over the profiles,
`Balance` is `ResourceBalancer.select`, `Return` the end of the call.  What the
matcher scores, which workflows its filters exclude and what the runtime metrics
say are inputs.  The sort with two keys, `reverse=True` and Python's stability
(`reverse` keeps equal keys in their order) is the total order `Before`.

* `HardFiltersWin`: the code says so of itself in `score_breakdown`; no hint and
  no tie band selects an excluded workflow.
* `WithinReach`: by the matcher's own score the selected workflow is at most a
  full boost and a tie band behind any executable one, however many hints there
  are and wherever they come from.
* `Undominated`: none is passed over that is as good in everything and better in
  resource score or latency.
* `BoostHelps`: a hint for the selected workflow never costs it the selection,
  although it moves the tie band.

### Catalog and Routing

`Catalog` is what the repository is configured with: the five profiles, the
scopes of the tools, the profile seeds.  `Routing` takes one request from
`TaskProfileBuilder.build` through the plan and the hints to the routed
workflow, with the filters and weights of `WorkflowMatcher` and
`ResourceBalancer` computed on the catalog.

| action | code |
|---|---|
| `BuildProfile` | `TaskProfileBuilder.build`, `_effective_permissions` |
| `Bypass`, `PlanFails`, `Plan` | `PlannerPolicy.decide`, `PlanValidator.validate`, `_apply_plan_to_task_profile`, `_route_hints_from_plan` |
| `MemoryHint` | one matching rule of `MemoryPlanner.plan_route` |
| `Match`, `Balance` | `AgenticRouter.select` |

The kind of request (what the keywords of its text lead to) is an input, and so is what
the media workflow will take it for (`media`: `_media_type` of the workflow looks for the
same words in fewer places); so are
permissions, the lists of an API key, health, load, and what has been measured.
Scores are floored integers where the code rounds to six decimals, and compared exactly
where it subtracts floats, in which 0.9 - 0.85 exceeds the tie threshold of 0.05.  A plan
is a
primary type, a set of workflows and the flag `requires_external_evidence`: step
tools, step types and dependencies, which only make a plan invalid, are left
out.

* `RoutedCanUseItsTools`: the keys are checked twice, by the router for the tools of
  the profile and by the tool service for the tools that are called; what is routed may
  call what its workflow calls, with two exceptions.  A plan that changes the task type
  leaves the tools of the profile behind (`Retyped`).  And the media workflow picks its
  tool from its own reading of the request: a video mentioned only in other metadata
  (`Misread`) is routed under a key for the video tool alone, and then denied the image
  tool.
* `RetypedOnlyToLarge`: a plan may change the task type of a profile made for
  another one; the only workflow that then passes the capability filter is the
  large knowledge workflow.
* `DeepGoesLarge`, `DeepStillAnswered`: a deep question gets the large workflow
  whatever the load, and the ordinary one when the large one is down (at exactly
  half of the capabilities, the filter's threshold).
* `ImplementsRouter`: the routing of a request is one call of `Router`, so what is
  proved of `Router` holds of the configured system.

### ToolService, Workflow and AgentJob

The agent orchestrator is modelled for one job: jobs share nothing but the audit
log, where each finds its records by trace id.

`ToolService` is `POST /invoke` of the tool service, as a job meets it.  A call
sits in a slot (one, or one for each search of a deep question):

| `calls[s].at` | code |
|---|---|
| `sent` | `ToolClient.invoke` has posted it (`Posted`) |
| `executing` | `invoke` awaits the tool, that is the RAG service (`Receive`, then `Execute`) |
| `answered` | the record is in `tool_audit.jsonl`, the reply is out (`Reply`) |
| `broken` | the record could not be written: 500 |

`granted` is the set of tools that `is_allowed` lets through for the permissions
sent along; `audit` is the set of records (tool and status) of this job.  What
`doc_search_tool` finds and whether `evidence_check_tool` finds support are
arbitrary: the RAG service is behind a URL, and the stub in the repository, which
always answers the same, is only one of its answers.  Arguments that do not fit
the schemas do not occur, since the workflows send fixed shapes.

`Workflow` has what the five graphs share: the record `state` is `AgentState`,
plus the next node (`at`) and the number of steps.  A node that awaits nothing is
one action, a node that calls a tool is two, so that the service, a timeout and a
crash can come between.  `ClientRaises` is a timeout, a lost connection or a 500:
the job is over, the call is not.  Strings are abstracted to what the properties
tell apart: which queries the evidence was found with and which one the check was
about (`basis`, `supported`: the question, the rewritten query, or one of the `Parts`
that `_split_subquestions` makes of the question), what kind of answer there is, good, empty and
unsafe drafts.  Evidence items are citable or not (`Citation` takes them),
readable or not (`evidence_refs` calls `float` on the score), and have a key for
`_dedupe_evidence`.

`AgentJob` is the abstract specification of a job, as the gateway sees it: it
ends once, answered or crashed, and a success stands on recorded tool successes.
Records may come after the end.

### KnowledgeQA

Both graphs of `workflows/knowledge_qa.py`, one action per node
(`RetrieveEvidence`, `EvidenceCheck`, `RewriteQuery`, ... have the names that the
trace events carry) with the edge after it: the corrective graph with one retry
on a rewritten query and one repair of the citations, the deep graph with its
searches in parallel (`SendSearches`, `ParallelRetrieveEvidence`), deduplication
and a single check.

* `SuccessIsGrounded`: a job succeeds exactly if it cites something; it cites what
  it retrieved; both tools' successes are on record; and its evidence is `Backed`.  In
  the corrective graph this means that a check for the very query that found the evidence
  came out supported, not one of the round before.  The deep graph gives less: its
  evidence is what was found for subquestions, and it is the question itself that the
  check, a search of its own, came out supported for.
* `StepsBounded`: the loops end in twelve steps, half of LangGraph's limit of 25.
* `DeniedIsRefused`: a job that lacks the permission for one of its two tools is
  refused and answers and cites nothing.  Without the search it finds nothing, retries
  nothing and has nothing but denied searches on record.  Without the check, the
  corrective graph takes the denial for missing support, rewrites and searches once more,
  and is refused then; the check is on record as denied only.
* `ImplementsJob`: the workflow refines `AgentJob` with both knowledge tools.

### MediaGeneration, Coding and DocumentWriting

The nodes of the other three graphs, in the same manner.  They have no
specification of their own: `Orchestrator` runs them.  `Coding.Channels` are the
keys of `AgentState`; LangGraph drops anything else that a node returns.
`DocumentWriting` runs a workflow inside two of its nodes, on a request derived
from its own: `KnowledgeRuns` and `PicturesRun` are the nodes of `KnowledgeQA` and
`MediaGeneration`, instantiated with `child` for `state`; their calls go to the
same tool service under the same trace id.

### Contract and Orchestrator

`Contract` is `TaskContractBuilder.build` (template, plan, memory patches) and the
verdict of `VerificationGate.verify` on a response.  `Orchestrator` is one job from
the contract to the verdict: `Init` chooses the request, the kind that the gateway
took it for and the contract; `Work` is the selected graph; `Verify` is the
gate's verdict on what it returned.

* `SuccessIsAccepted`: gate and workflows name nodes and tools independently of
  each other (`_required_nodes`, the graphs); they agree, so that a success under
  a contract that this workflow can satisfy is always accepted.
* `OnlyTheseSlipThrough`: no criterion is about the status, yet only three kinds
  of refused or failed responses pass the gate: coding output that failed its
  check twice, a document without its knowledge, an answer without citations
  where none were demanded.
* `DocumentBorrows`: a document's citations are those of the knowledge workflow
  inside it, it reports no tool but the inspection, and it succeeds only with the
  knowledge it needs.
* `SuccessIsChecked`: what a success was checked for holds of what is returned,
  not of an earlier round: the draft is good, the document inspected, the evidence
  `Backed` as in `KnowledgeQA`.
* `BlockedReachesNoBackend`: a blocked prompt reaches no media backend, neither
  directly nor as an illustration of a document.
* `NothingLeftBehind`: when a job is answered, no call of it is under way.
* `JoinsOnlyWhenDenied`: `",".join(True)` in `document_verification` takes a job
  that may not use `inspection_tool`, and the router (`RoutedCanUseItsTools`, whose
  exceptions are not about documents) does not let one through.
* `EveryJobEnds`: although the tool service may hang; and before LangGraph would give
  up on a graph, which `TypeOK` says of all of them.
* `ImplementsJob`: as above, for all workflows and for those inside others.

## Runs

| run | instance | what it shows |
|---|---|---|
| `limiter_loop` | 1 caller, 2 keys | the exact bucket bound, no tick paid twice, what a truncated Retry-After is worth |
| `gateway_core` | 2 requests, 2 workflows, 1 tool call each, window 1, audit scan 2 | timeouts, late records, a raising gate |
| `gateway_restarts` | 2 requests, 1 workflow, planner with repair, all rule files, 1 restart, fairness | restarts, the planner, edited rule files; the refinement; liveness |
| `router_select` | 3 workflows, 2 hints, scores in twentieths | what hints and load can do to a selection |
| `routing` | the configured profiles: all kinds of request, 3 x 3 permission sets, workflow and tool lists of keys, images and videos read alike and differently, plans; and a plan and a rule that hint at once, outages, 4 loads per workflow | who is routed where, and may call its tools; deep questions; refinement of `Router` |
| `knowledge_qa` | both graphs, 3 permission sets, 4 searches at once with a text each, 3 evidence items | what answers are backed by, bounded loops, denials; refinement of `AgentJob` |
| `orchestrator` | all five workflows, 2 searches at once, 3 evidence items, 3 plans, 2 sets of patches, fairness | gate against workflow, documents, what is left behind; refinement; liveness |
| `gateway_unverified`, `gateway_bad_rules` | 1 request | the first two findings below |
| `routing_planned_document` | full permissions, a plan | the third |
| `orchestrator_media`, `orchestrator_repair` | one workflow, template contracts | the last two |

Gateway: two requests are enough for every race the code has: all shared state is
per workflow or a log that is scanned, and a request only ever meets one other in
it.  Window 1 makes the deque overflow at the second finish; an audit scan of 2
is as long as the log of two requests with one call each, so that `..._OneShort`
is told apart.  `MaxCalls`, `MaxRestarts` and `MaxClock` bound counters.
Seven ticks are what a bucket needs to overflow again after an admission.

Router: the scores are chosen around the constants: with a boost of four
twentieths and a tie band of one there are matches inside the band, at its edge,
outside, lifted into it and capped at one; three workflows are enough for a
selected one, a better match and a boosted third.

Workflows: nothing bounds the steps of a job but its own counters.  Of the three
items one is citable, one is the same chunk without a score (deduplication may
keep either, so citations may get lost), one cannot be read.  Four searches are
what the code sends; in `orchestrator`, where they run inside documents, two are
enough for one that fails beside one that does not.  The plans of `orchestrator`
are none, a document with demands for it and for its helpers, and one that asks
for a node of another graph; the patches add a demand and a ban.  Requests that
the router would not let through are included, since `POST /invoke` does not
check.

A routing and a job end, so their configurations switch the deadlock check off;
`Router` goes on with the next call.  Symmetry (`RequestSymmetry`, `KeySymmetry`)
permutes requests or keys in runs that check no liveness.

Fairness: `Gateway!FairSpec` assumes only that a call of the planner ends and that
the httpx timeout of the orchestrator call fires.  The code has both (a timeout in
`TaskPlanner`, an `except Exception` around it, `httpx.AsyncClient(timeout=...)`).
`Orchestrator!FairSpec` assumes that the event loop runs a node that can
run and that the timeout of `ToolClient` fires (`AGENT_TOOL_TIMEOUT_S`).  Nothing
is assumed of the orchestrator by the gateway, nor of the tool service, the RAG
service or the rule files by anyone: they may hang.  A call of the model is one
step that ends or raises, as `ModelClient` has a timeout too.

## What the runs found

* A refused or failed workflow output whose verification failed is returned
  unchanged (`main.py:999`), although README.md says that the gate keeps results
  that were not accepted from the user.
* A rule that `MemoryPlanner._valid_patch` accepts can make the gate raise
  (`verification.py:82`, `int("two")`): 500, no trace, no log, and the workflow
  stays counted as busy until a restart.
* A plan that asks for external evidence (`main.py:842`) makes the router exclude
  the document workflow (`agentic_router.py:271`): its profile has no
  `evidence_check`, since the evidence comes from the knowledge workflow it
  calls.  The request is refused; `data/planner_eval_cases.jsonl:4` expects it to
  succeed.
* The gateway looks for the words of a video in the metadata too
  (`task_profile.py:275`), the media workflow only in the input
  (`media_generation.py:251`): such a request gets an image and a contract that
  demands the video tool, and can never be accepted.  The router has checked the API
  key for the video tool, too: under a key for that tool alone the request is routed,
  and its call denied.
* The repair instruction of the coding workflow (`coding.py:171`) is not a key of
  `AgentState`, so LangGraph drops it, and the prompt of the repair
  (`coding.py:70`) says `none`, as the first one did.

Two observations beside these, without a run of their own: a plan that changes the
task type leaves the tools of the inferred type in the profile (`main.py:838`), so
that a document planned as a deep question is executed under a contract that
demands the success of `inspection_tool`, which its workflow never calls
(`RetypedOnlyToLarge` says that this is the only case); and the gate never looks at
the status of a response (`verification.py:23`), `OnlyTheseSlipThrough` being what
that comes to.

## Proofs

The proof modules prove, for every value of the constants that the assumptions of
their components allow (`ConfigAssumption`, `GatewayAssumption`, `RouterAssumption`;
`RequestAssumption`, `RoutingAssumption` and `PlanAssumption`;
`ToolServiceAssumption`, `WorkflowAssumption`, `NoneAssumption` and
`VerdictAssumption`):

* `RateLimiterProofs`: `TypeCorrect`, `WindowBounded`, `LoopPaysOnce` (one
  caller), `RetryIsHonest`, for every configuration that the constructor accepts.
  `WindowBound` is not inductive: the strengthening says that the tokens of a bucket, plus what every
  window that ends now has admitted, never exceed a burst and the replenishment
  since the window began.
* `GatewayProofs`: `TypeCorrect`, `GaugeIsExact`, `ErrorRateIsExact`,
  `SuccessesAreEarned`, `RepliesAreRecorded` (but 401 and 500), the action properties
  `DecisionsStand` and `RejectionsAreJustified` (up to the limit of the scan), and `GatewayImplementsService`, all from one
  inductive invariant `IInv`: types, `Shape` (how phase, workflow, contract, job and
  reply of a request fit together), `GaugeExact`, `SuccessIsEarned`,
  `OneRecordPerReply`, `FinishedAreClosed` and `ErrorRateExact`.  The gauge needs
  `Shape` to know that a finishing request had a workflow, and the refinement needs
  it to know that an accepted request was agreed before.  The error rate is a
  statement about the replies of requests that finished long ago: it survives the
  next steps because those requests are closed (`FinishedAreClosed`) and decisions
  stand, and a full window moves by exactly one (`Shifted`).
* `RouterProofs`: `TypeCorrect`, `FiltersAreHard`, `ReachIsBounded`,
  `NobodyBetterIsPassedOver`, `HintsOnlyHelp`.  The invariant `RouterInv` adds to
  the types that a match is the boosted score of the matcher (`MatchIsBoosted`) and
  that a selected workflow is the one that comes first in the tie band
  (`SelectedWins`); the four properties are arithmetic and the order `Before` on
  top of these two.

* `RoutingProofs`, on the profiles of `Catalog`, for any requests, plans, hints and
  metrics: `TypeCorrect` (weighted means of scores are scores), `RoutedIsServed`,
  `RetypedGoesLarge`, `DeepIsLarge`, `DeepIsAnswered`, `RoutingImplementsRouter`,
  and with the last `RoutingInheritsRouter`: what `RouterProofs` proves of any call of
  `select` holds of the one that a request makes.  The properties speak of a selected
  workflow, the reasons are in its profile and the seed of the request, several stages
  before: the invariant `RoutingInv` says that the profile is the seed with what a plan
  may change (`ProfileFits`), that the scores are those of the formulas (`Scored`), and
  that the selected workflow is executable and in the tie band (`SelectedFits`).
  `ReadAlike` is where the media workflow's own choice of a tool meets the profile's.
  `OthersAreIncapable` counts capabilities: of what a request of one type asks for, a
  workflow of another type has less than a half.  `DeepMargin` compares two scores: half
  of the capabilities is worth more than a tie band and the better success rate of the
  smaller workflow.
* `KnowledgeQAProofs`: `TypeCorrect`, `SuccessesAreGrounded`, `LoopsAreBounded`,
  `DeniedJobsAreRefused` and `QAImplementsJob`, for any requests, any evidence and any
  number of searches.  None of the four properties is inductive: they are about the end of a job, and
  the reasons lie steps before.  The inductive invariant `QAInv` adds to the types
  - `Counted`: at each node, what `steps`, `retry` and `repair` can be: the graph's
    loops as arithmetic;
  - `CallsFit`: which calls may be under way at which node, of which tool and with
    which query, so that a reply is taken for what it is;
  - `Recorded`: a call answered with success has its record, as the service writes
    the record first: without it a verdict would not lead to `Proven`;
  - `Grounded`: at each node, which queries the evidence and the check are about.
  `DeniedJobsAreRefused` adds `Barred` and `Unchecked`: how far a job comes whose
  searches, or whose checks, are denied.
  For the gate there are two more invariants, `Visited` (which nodes a job has run, and
  that it never joins) and `AsksKnowledge` (its calls are of the two knowledge tools,
  also after a crash).
* `WorkflowProofs` and `MediaGenerationProofs` have the lemmas that the others share.
  In `WorkflowProofs` are what a step of the tool service does (`Serves`, `Honest`: what
  is permitted is executed, what is not is denied) and what a node does to calls
  (`Moves`); in `MediaGenerationProofs` the invariant `MediaInv` of the media workflow.
* `OrchestratorProofs`: `TypeCorrect`, `SuccessesAreChecked`, `BlockedStayOut`,
  `NothingIsLeft`, `JoinsTakeADenial`, `DocumentsBorrow`, `SuccessesAreAccepted`,
  `NothingElseSlipsThrough` and `OrchestratorImplementsJob`, for any requests, evidence,
  plans and patches, and any number of searches: every property of the run
  `orchestrator` but `EveryJobEnds`.  The inductive invariant `OrchInv` is
  - `Agreed`: the contract demands at least the nodes and tools of the profile, and
    citations only of a workflow that brings them: what the gate may conclude from a
    verdict;
  - `Judged`: the verdict is the gate's on a job that has ended.  It stays so because
    nothing is left under way then (`EndRests`), so the tool service adds no record;
  - per workflow its own invariant: `QAInv` with `Visited` and `AsksKnowledge`, `MediaInv`,
    `CodeInv` and `DocumentInv`, each with the nodes that have been run at each node;
  - for a document also the invariant of the workflow inside it, which is the same
    module on another request and another state.  The proof modules of `KnowledgeQA` and
    `MediaGeneration` are therefore instantiated twice, as `QA` and `MG` of the job and
    as `ChildQA` and `ChildMG` of the child, and their lemmas are cited, not repeated.
    When the child ends, its invariant is all that the document knows of it: so
    `DocumentsBorrow` rests on `SuccessIsGrounded` of the child.
  `BlockedStayOut` and `NothingElseSlipsThrough` need two invariants more, about calls
  that a crash leaves to the service: `NoPicture` (no call for a blocked prompt is of a
  media tool) and `Unproven` (a media job that failed has no success on record, as the
  record is written before the answer is read, and only then).

TLC has checked these invariants on the instances of the runs as well: 
`QAInv`, `Barred`, `Unchecked`, `Visited` and `AsksKnowledge` on that of `knowledge_qa`,
`RoutingInv` on that of `routing`, `OrchInv`, `NoPicture` and `Unproven` on that of
`orchestrator`.

The properties of `RateLimiter` are proved for any number of callers, so also for
threads whose checks overlap; the run has the one event loop of the gateway.

Only model-checked: `EventuallyAnswered` and `EveryJobEnds`, as liveness is out of the
prover's reach, and the properties of the runs that expect a violation, which do not
hold.

## Not modelled

* Latencies and percentiles, token and cost estimates, redaction, the layout of
  traces and logs, failing writes of logs and traces in the gateway.
* The text heuristics of `TaskProfileBuilder` and of the workflows (which words ask
  for depth, pictures, knowledge): their outcomes are inputs.
* `refine_prompt` of the media workflow: `_asset_metadata` always sets the two keys
  that `media_output_check` looks for, so no request reaches it.  The stub for an
  unknown workflow and the tool service's answers to unknown tools and to arguments
  that do not fit: nothing in the system sends either.
* The criteria `citation_source_required` and `metadata_required`, which only a
  patch written by hand asks for, and the gate without an audit log; in `Gateway`
  they are part of the Boolean `complete`.
* The language of planner-memory rules beyond what a request tells apart
  (`RuleStates`), plan dependencies and step types, the planner's prompt.
* The stubs (RAG, model backend), which have no state; `/v1/preview`, which changes
  none; the offline scripts and the evaluation, but for what
  `update_planner_memory.py` writes.

## Plan

1. `RateLimiter`, then `Gateway` over `InvokeService`, with proofs (done).
2. `Router` with proofs, `Catalog` and `Routing` over it (done).
3. `ToolService`, `Workflow` and the five graphs, `KnowledgeQA` with proofs (done).
4. `Contract` and `Orchestrator`: a job between contract and verdict (done).
5. `PlannerMemory`: the rule language, the writer of the rule files and its readers.
6. The gateway with an orchestrator instead of the arbitrary jobs of `Gateway`:
   `ImplementsJob` is the half of it that is done.

Theorems to come: invariants of the gateway over the orchestrator of step 6, where
`ImplementsJob` takes the place of the arbitrary jobs.
