------------------------------ MODULE Orchestrator ------------------------------
(***************************************************************************)
(* services/agent_orchestrator/main.py for one job, between the contract   *)
(* that the gateway has written for it and the gateway's verdict: POST     *)
(* /invoke runs the selected workflow, whose tool calls end in the audit   *)
(* log that the gate reads.                                                *)
(***************************************************************************)
EXTENDS DocumentWriting, Contract

CONSTANTS Plans,    \* plans of the task planner: nodes, and steps with their tools
          Patches   \* sets of contract patches of the planner memory

ASSUME OrchestratorAssumption ==
    LET Step == [workflow : Workflows, required : SUBSET Tools, forbidden : SUBSET Tools]
    IN  /\ \A p \in Plans : /\ p.steps \subseteq Step
                            \* PlanValidator asks this of every step.
                            /\ \A s \in p.steps : s.required \subseteq AllowedTools[s.workflow]
        /\ \A q \in Patches : \A p \in q : p.required \cup p.forbidden \subseteq Tools

ASSUME VerdictAssumption == None \notin {"passed", "failed"}

VARIABLES kind,         \* what TaskProfileBuilder took the request for
          contract,     \* the task contract
          verdict       \* of the gate, None before

gatewayVars == <<kind, contract, verdict>>
vars == <<request, state, serviceVars, documentVars, gatewayVars>>

Answers == INSTANCE KnowledgeQA
Generation == INSTANCE MediaGeneration
Code == INSTANCE Coding

\* The router selects a workflow for the task type of the profile; it must bring evidence
\* if the profile requires some.  A profile for a video may be one for an image to the
\* workflow: the gateway finds its words in the metadata too.  Requests may have fewer
\* permissions than the router asks for: POST /invoke does not ask.
Routed(k, evidence) ==
    /\ ProfileSeed(k).task = SupportedTask[request.flow]
    /\ evidence => {"evidence_check", "citation"} \subseteq Capabilities[request.flow]
    /\ k = "image" => request.media = "image"

Init ==
    /\ request \in Requests
    /\ kind \in Kinds
    /\ \E evidence \in BOOLEAN, plan \in Plans, patches \in Patches :
          /\ Routed(kind, evidence)
          /\ contract = Contract([ProfileSeed(kind) EXCEPT !.evidence = evidence],
                                 request.flow, plan, patches)
    /\ state = InitialState
    /\ ServiceInit
    /\ child = NoChild /\ context = NoContext
    /\ verdict = None

\* The graph of the selected workflow.
Work ==
    /\ UNCHANGED gatewayVars
    /\ \/ Answers!Node /\ UNCHANGED documentVars
       \/ Generation!Node /\ UNCHANGED documentVars
       \/ Code!Node /\ UNCHANGED documentVars
       \/ Node

Raises ==
    /\ UNCHANGED gatewayVars
    /\ \/ ~Writes /\ ClientRaises /\ UNCHANGED documentVars
       \/ DocumentClientRaises

ToolServiceStep == ServiceStep /\ UNCHANGED <<documentVars, gatewayVars>>

\* The response goes to the gateway, which verifies it.  A job that crashed has none.
Verify ==
    /\ state.at = "end" /\ verdict = None
    /\ verdict' = IF Accepts(contract, state, Proven) THEN "passed" ELSE "failed"
    /\ UNCHANGED <<request, state, serviceVars, documentVars, kind, contract>>

Next == Work \/ Raises \/ ToolServiceStep \/ Verify

Spec == Init /\ [][Next]_vars

\* Nodes run, and the clients' timeouts fire; the tool service may hang.
FairSpec == Spec /\ WF_vars(Work) /\ WF_vars(Raises) /\ WF_vars(Verify)

--------------------------------------------------------------------------------
(* Properties *)

\* Every variable has its type: in particular each workflow retries and repairs at most
\* once, and ends, alone or inside another, before LangGraph would give up on its graph.
TypeOK ==
    /\ request \in Requests /\ kind \in Kinds
    /\ StateTypeOK /\ ServiceTypeOK
    /\ state.steps < RecursionLimit /\ child.steps < RecursionLimit
    /\ child.retry \in 0..1 /\ child.repair \in 0..1
    /\ context.status \in {None, "success", "refused"}
    /\ context.refs \subseteq Citable /\ context.tools \subseteq Tools
    /\ verdict \in {None, "passed", "failed"}

\* The tools that a success of this job has used, itself or through another workflow.
Needed ==
    CASE request.flow \in {KnowledgeQA, LargeKnowledgeQA} -> KnowledgeTools
      [] request.flow = Coding -> {}
      [] request.flow = Media -> {Generation!TargetTool}
      [] request.flow = Document ->
            {"inspection_tool"} \cup (IF request.knowledge THEN KnowledgeTools ELSE {})

\* Nothing in the contract is beyond this workflow: no other nodes, no tools that it does
\* not use, none of its own forbidden.
Satisfiable ==
    /\ contract.nodes = RequiredNodes(ProfileSeed(kind).task, request.flow)
    /\ contract.tools \subseteq Needed
    /\ contract.forbidden \cap AllowedTools[request.flow] = {}

\* The gate and the workflows agree on nodes, tools and citations, though each names them
\* for itself (_required_nodes, the node names in workflows/*.py): a success under a
\* contract that the workflow can satisfy is accepted.
SuccessIsAccepted ==
    verdict # None /\ state.status = "success" /\ Satisfiable => verdict = "passed"

\* What the gate passes without being a success, since no criterion asks for the status:
\* code that failed its check, a document without its knowledge, and an answer without
\* citations where none were demanded.  Nothing else slips through.
OnlyTheseSlipThrough ==
    verdict = "passed" /\ state.status # "success" =>
        \/ request.flow = Coding /\ state.failure = "invalid_coding_output"
        \/ request.flow = Document /\ state.failure = "knowledge_context_failed"
        \/ /\ request.flow \in {KnowledgeQA, LargeKnowledgeQA}
           /\ state.failure = "missing_citation" /\ ~contract.citation

\* A document never has knowledge of its own (README: no direct access to RAG): its
\* citations are those of the knowledge workflow inside, it succeeds with them if it needs
\* any, and only that workflow's tools were used to get them.
DocumentBorrows ==
    Writes /\ state.at = "end" =>
        /\ state.citations = context.refs
        /\ state.tools = {"inspection_tool"}
        /\ state.status = "success" /\ request.knowledge =>
              state.citations # {} /\ KnowledgeTools \subseteq Proven
        /\ state.status # "success" => state.citations = {}

\* What a success was checked for holds of what is returned, not of an earlier round: the
\* draft is good, the document inspected, and the evidence that of the query that the
\* check found support for, or of subquestions of it (Backed of KnowledgeQA).
SuccessIsChecked ==
    state.at = "end" /\ state.status = "success" =>
        /\ request.flow = Coding => state.draft = "good"
        /\ request.flow = Document => state.inspected
        /\ request.flow \in {KnowledgeQA, LargeKnowledgeQA} => Answers!Backed

\* A prompt with a blocked word never reaches a media backend, neither on its own nor as
\* an illustration of a document (_blocked_prompt and the text of _subrequest).
BlockedReachesNoBackend ==
    request.blocked =>
        Proven \cap {"image_generation_tool", "video_generation_tool"} = {}

\* No call is under way when a job is answered, whatever it ran in parallel or inside: the
\* audit log has all that the gate will look for, and nothing is added afterwards.
NothingLeftBehind ==
    state.at = "end" => child = NoChild /\ \A s \in Slots : calls[s] = NoCall

\* document_verification joins a Boolean when the inspection failed twice and nothing else
\* is wrong: that takes a job without the permission to inspect, and such a job the router
\* does not let through (RoutedCanUseItsTools of Routing).
JoinsOnlyWhenDenied ==
    state.error = "type" => Writes /\ "inspection_tool" \notin request.granted

\* Every job ends, also with workflows inside others and a tool service that hangs.
EveryJobEnds == <>(state.at \in Ended)

\* Whenever gateway and workflow alone decide, a success passes: what README.md says of
\* the contract, that it can be executed and accepted.
TemplateAccepted ==
    /\ verdict # None /\ state.status = "success"
    /\ contract = Template([ProfileSeed(kind) EXCEPT !.evidence = contract.citation],
                           request.flow)
    => verdict = "passed"

\* The model that is asked to repair its output is told so: repair_prompt writes a
\* repair_instruction that the prompt of invoke_model has a line for.
RepairInstructed ==
    request.flow = Coding /\ state.at = "structure" /\ state.repair > 0 =>
        state.instruction # None

--------------------------------------------------------------------------------
(* Refinement *)

Outcome ==
    IF state.at = "end" THEN state.status
    ELSE IF state.at = "crashed" THEN "crashed" ELSE "running"

Job == INSTANCE AgentJob WITH
    AllTools <- Tools, outcome <- Outcome, proven <- Proven, needed <- Needed

\* A job of any workflow is one of AgentJob.
ImplementsJob == Job!Init /\ [][Job!Next]_(Job!vars)

================================================================================
