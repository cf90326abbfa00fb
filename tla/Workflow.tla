-------------------------------- MODULE Workflow --------------------------------
(***************************************************************************)
(* What the workflows of the agent orchestrator have in common: the        *)
(* request, the state that LangGraph hands from node to node               *)
(* (services/agent_orchestrator/state.py), the calls of the tool client    *)
(* and the helpers of workflows/common.py.                                 *)
(*                                                                         *)
(* A node that awaits nothing is one action.  A node that calls a tool is  *)
(* two: it sends the call, and it goes on when the reply is there.         *)
(***************************************************************************)
EXTENDS ToolService

CONSTANTS Requests,     \* what a job may be asked
          Citable,      \* items of evidence of which a Citation can be made
          Garbled,      \* items whose score is not a number
          KeyOf         \* per item: source, chunk and title

ASSUME WorkflowAssumption ==
    /\ Requests \subseteq
          [flow : Workflows,        \* selected_workflow
           granted : SUBSET Tools,  \* the tools that the permissions sent along open
           media : {"image", "video"},      \* what _media_type finds in the text
           blocked : BOOLEAN,       \* a word of _blocked_prompt is in it
           knowledge : BOOLEAN,     \* _needs_knowledge
           deep : BOOLEAN,          \* _deep_request
           pictures : BOOLEAN]      \* _needs_media
    /\ Citable \subseteq Items
    /\ Garbled \subseteq Items \ Citable
    /\ DOMAIN KeyOf = Items

\* The reasons for which a workflow refuses or fails; a media backend's failure is the
\* status of its tool.
Failures ==
    {"retrieval_failed", "insufficient_evidence", "missing_citation",
     "prompt_safety_blocked", "invalid_coding_output", "knowledge_context_failed"}
        \cup ToolStatuses

\* What an answer is made of.
Texts == {"notice", "draft", "evidence", "asset", "document"}

\* Why a job crashes: a call of the tool client or of the model raised, a score that
\* float does not take, a join of a Boolean.
Errors == {"client", "score", "model", "type"}

ASSUME NoneAssumption == None \notin Queries \cup Failures \cup Texts \cup Errors

VARIABLES request,  \* what this job is asked
          state     \* AgentState, and the next node

Ended == {"end", "crashed"}

\* The super-steps that LangGraph allows a graph by default.
RecursionLimit == 25

\* initial_state.  basis are the queries that found the evidence, supported is the query
\* that an evidence check found support for, both as the calls were posted; instruction is
\* a repair_instruction, answer says what the text is made of, error why the job crashed.
InitialState ==
    [at |-> "parse", steps |-> 0, status |-> "success", failure |-> None, answer |-> None,
     draft |-> None, instruction |-> None, evidence |-> {}, citations |-> {},
     query |-> None, basis |-> {}, supported |-> None, inspected |-> FALSE,
     error |-> None, retry |-> 0, repair |-> 0, tools |-> {}, nodes |-> {}]

\* A node has run: its trace event, and the edge to the next one.
Ran(node, next) == [state EXCEPT !.at = next, !.steps = @ + 1, !.nodes = @ \cup {node}]

\* A node that changes nothing that anyone reads.
Plain(here, node, next) ==
    /\ state.at = here
    /\ state' = Ran(node, next)
    /\ UNCHANGED <<request, serviceVars>>

\* A node awaits one call.
Sends(here, t, query) ==
    /\ state.at = here
    /\ calls[1] = NoCall
    /\ calls' = [calls EXCEPT ![1] = Posted(t, query, request.granted)]
    /\ UNCHANGED <<request, state, audit>>

\* The call that a node awaited has returned.
Returned(here) ==
    /\ state.at = here
    /\ calls[1].at = "answered"
    /\ calls' = [calls EXCEPT ![1] = NoCall]
    /\ UNCHANGED <<request, audit>>

\* tool_succeeded.
Succeeded(s) == calls[s].status = "success"

\* An exception leaves the graph, and the job is answered 500.
Crashes(error) == state' = [state EXCEPT !.at = "crashed", !.error = error]

\* Mutant: without a timeout.
ClientRaises_NoTimeout ==
    /\ state.at \notin Ended
    /\ \E s \in Slots : calls[s].at = "broken"
    /\ Crashes("client")
    /\ UNCHANGED <<request, serviceVars>>

\* A call of the tool client raises: 500, a lost connection, or no answer within
\* AGENT_TOOL_TIMEOUT_S.  The service goes on with what it has.
ClientRaises ==
    /\ state.at \notin Ended
    /\ \E s \in Slots : calls[s].at \in {"sent", "executing", "broken"}
    /\ Crashes("client")
    /\ UNCHANGED <<request, serviceVars>>

\* evidence_refs raises on a score that is not a number.
Readable(evidence) == evidence \cap Garbled = {}

\* evidence_to_citations skips what Citation does not take.
Cited(evidence) == evidence \cap Citable

\* finalize: the answer, or else a notice that there is none.
Final(next) == [Ran("Finalize", next) EXCEPT !.answer = IF @ = None THEN "notice" ELSE @]

\* The service works on while the job waits or is gone.
ServiceStep == Serve /\ UNCHANGED <<request, state>>

\* The nodes of the five graphs, as the graphs call them and as their trace events do.
Places ==
    {"parse", "plan", "retrieve", "check", "rewrite", "generate", "citation", "repair",
     "brief", "split", "aggregate", "synthesize", "safety", "params", "invoke", "asset",
     "context", "model", "structure", "need_knowledge", "knowledge", "need_media", "media",
     "compose", "inspect", "verify", "finalize", "none"} \cup Ended
NodeNames ==
    {"ParseQuestion", "PlanRetrieval", "RetrieveEvidence", "EvidenceCheck", "RewriteQuery",
     "GenerateAnswer", "CitationCheck", "RepairWithEvidence", "ParseDeepQuestion",
     "BuildResearchBrief", "SplitSubQuestions", "ParallelRetrieveEvidence",
     "EvidenceAggregate", "SynthesizeAnswer", "ParseMediaRequest", "PromptSafetyCheck",
     "BuildGenerationParams", "InvokeMediaBackend", "AssetMetadataBuild",
     "MediaOutputCheck", "ParseCodingTask", "BuildCodeContext", "InvokeCodingModel",
     "StructurePatchOrAnswer", "CodingOutputCheck", "RepairStructuredOutput",
     "ParseWritingTask", "BuildDocumentPlan", "NeedKnowledge", "A2AKnowledgeRequest",
     "NeedMedia", "A2AMediaRequest", "ComposeDocument", "InspectionToolCheck",
     "DocumentVerification", "RepairDocument", "Finalize"}

\* AgentState.
State ==
    [at : Places, steps : Nat, status : {"success", "refused", "failed"},
     failure : Failures \cup {None},
     answer : Texts \cup {None},
     draft : {None, "good", "empty", "unsafe"}, instruction : {None, "instructed"},
     evidence : SUBSET Items, citations : SUBSET Citable,
     query : Queries \cup {None}, basis : SUBSET Queries,
     supported : Queries \cup {None}, inspected : BOOLEAN,
     error : Errors \cup {None},
     retry : 0..1, repair : 0..1, tools : SUBSET Tools, nodes : SUBSET NodeNames]

StateTypeOK == state \in State /\ (state.error # None) = (state.at = "crashed")

================================================================================
