-------------------------------- MODULE Contract --------------------------------
(***************************************************************************)
(* app/task_contract.py and app/verification.py: the contract of a request *)
(* from the template of its workflow, the plan and the patches of the      *)
(* planner memory, and the verdict of the gate on a response.  Criteria of *)
(* one contract are told apart by type and target, so that they are sets   *)
(* here.  Criteria that a patch states in full are in Gateway.             *)
(***************************************************************************)
EXTENDS Catalog

\* _required_nodes.
RequiredNodes(task, w) ==
    CASE w = LargeKnowledgeQA ->
            {"ParseDeepQuestion", "BuildResearchBrief", "SplitSubQuestions",
             "ParallelRetrieveEvidence", "EvidenceAggregate", "SynthesizeAnswer",
             "CitationCheck"}
      [] w # LargeKnowledgeQA /\ task = "knowledge_qa" ->
            {"ParseQuestion", "PlanRetrieval", "RetrieveEvidence", "EvidenceCheck",
             "GenerateAnswer", "CitationCheck"}
      [] w # LargeKnowledgeQA /\ task = "coding" ->
            {"ParseCodingTask", "BuildCodeContext", "InvokeCodingModel",
             "StructurePatchOrAnswer", "CodingOutputCheck"}
      [] w # LargeKnowledgeQA /\ task = "media_generation" ->
            {"ParseMediaRequest", "PromptSafetyCheck", "BuildGenerationParams",
             "InvokeMediaBackend", "AssetMetadataBuild", "MediaOutputCheck"}
      [] w # LargeKnowledgeQA /\ task = "document_writing" ->
            {"ParseWritingTask", "BuildDocumentPlan", "NeedKnowledge", "NeedMedia",
             "ComposeDocument", "InspectionToolCheck", "DocumentVerification"}

\* _criteria and _forbidden_resources.
Template(profile, w) ==
    [nodes |-> RequiredNodes(profile.task, w),
     tools |-> profile.tools,
     citation |-> profile.evidence,
     forbidden |-> IF profile.task = "document_writing" THEN KnowledgeTools ELSE {}]

\* The steps of a plan that the selected workflow executes.
OwnSteps(plan, w) == {s \in plan.steps : s.workflow = w}

\* _apply_task_plan.
Planned(contract, plan, w) ==
    [contract EXCEPT
        !.nodes = @ \cup plan.nodes,
        !.tools = @ \cup UNION {s.required : s \in OwnSteps(plan, w)},
        !.forbidden = @ \cup UNION {s.forbidden : s \in OwnSteps(plan, w)}]

\* _apply_contract_patches: the patches apply to whatever workflow is selected.
Patched(contract, patches) ==
    [contract EXCEPT
        !.nodes = @ \cup UNION {p.nodes : p \in patches},
        !.tools = @ \cup UNION {p.required : p \in patches},
        !.forbidden = @ \cup UNION {p.forbidden : p \in patches}]

\* TaskContractBuilder.build.
Contract(profile, w, plan, patches) ==
    Patched(Planned(Template(profile, w), plan, w), patches)

\* Mutant: the citations are not counted.
Accepts_Uncited(contract, response, proven) ==
    /\ response.answer # None
    /\ contract.nodes \subseteq response.nodes
    /\ contract.tools \subseteq proven
    /\ contract.forbidden \cap response.tools = {}

\* VerificationGate.verify: every criterion is met.  proven are the tools whose success
\* the audit log has under the trace id of the response.
Accepts(contract, response, proven) ==
    /\ response.answer # None
    /\ contract.nodes \subseteq response.nodes
    /\ contract.tools \subseteq proven
    /\ contract.citation => response.citations # {}
    /\ contract.forbidden \cap response.tools = {}

================================================================================
