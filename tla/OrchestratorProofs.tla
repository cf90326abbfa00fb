---------------------------- MODULE OrchestratorProofs ----------------------------
(***************************************************************************)
(* Theorems about Orchestrator, for any requests, plans, patches and       *)
(* evidence.  A job is one of four workflows; the invariants of two of     *)
(* them, proved in modules of their own, are used twice here: of the job   *)
(* itself, and of the workflow that runs inside a document.                *)
(***************************************************************************)
EXTENDS Orchestrator, WorkflowProofs

\* Whatever a job may be asked, by a client or by a document.
Asks ==
    [flow : Workflows, granted : SUBSET Tools, media : {"image", "video"},
     blocked : BOOLEAN, knowledge : BOOLEAN, deep : BOOLEAN, pictures : BOOLEAN]

QA == INSTANCE KnowledgeQAProofs WITH Requests <- Asks
MG == INSTANCE MediaGenerationProofs WITH Requests <- Asks
ChildQA == INSTANCE KnowledgeQAProofs WITH
    Requests <- Asks, request <- KnowledgeRequest, state <- child
ChildMG == INSTANCE MediaGenerationProofs WITH
    Requests <- Asks, request <- MediaRequest, state <- child

Questions == request.flow \in {KnowledgeQA, LargeKnowledgeQA}
Codes == request.flow = Coding
Generates == request.flow = Media

QuestionInv == QA!QAInv /\ QA!Visited /\ QA!AsksKnowledge
ChildQuestionInv ==
    ChildQA!QAInv /\ ChildQA!Visited /\ ChildQA!AsksKnowledge

--------------------------------------------------------------------------------
(* The invariant of the coding workflow *)

CodeNodes == {"parse", "context", "model", "structure", "check", "repair", "finalize"}

CodePath ==
    {"ParseCodingTask", "BuildCodeContext", "InvokeCodingModel", "StructurePatchOrAnswer",
     "CodingOutputCheck"}

CodeCounted ==
    /\ state.at \in CodeNodes \cup Ended /\ state.retry = 0
    /\ Before("parse", 0, {})
    /\ Before("context", 1, {"ParseCodingTask"})
    /\ Before("model", 2, {"ParseCodingTask", "BuildCodeContext"})
    /\ Before("structure", 3, {"ParseCodingTask", "BuildCodeContext", "InvokeCodingModel"})
    /\ Before("check", 4, CodePath \ {"CodingOutputCheck"})
    /\ Before("repair", 5, CodePath) /\ Before("finalize", 5, CodePath)
    /\ Before("end", 6, CodePath) /\ Before("crashed", 6, {})
    /\ state.at = "repair" => state.repair = 0

\* A success is of the draft that there is now; coding calls no tool.
CodeJudged ==
    /\ state.at \in {"finalize", "end"} =>
          IF state.status = "success" THEN state.draft = "good"
          ELSE state.failure = "invalid_coding_output"
    /\ state.at \in {"check", "repair", "finalize", "end"} => state.answer # None
    /\ state.citations = {} /\ state.tools = {} /\ state.error # "type"
    /\ Idle

CodeInv == CodeCounted /\ CodeJudged

--------------------------------------------------------------------------------
(* The invariant of the document workflow *)

DocumentNodes ==
    {"parse", "plan", "need_knowledge", "knowledge", "need_media", "media", "compose",
     "inspect", "verify", "repair", "finalize"}

DocumentPath ==
    {"ParseWritingTask", "BuildDocumentPlan", "NeedKnowledge", "NeedMedia",
     "ComposeDocument", "InspectionToolCheck", "DocumentVerification"}

Planning == {"ParseWritingTask", "BuildDocumentPlan"}

DocumentCounted ==
    /\ state.at \in DocumentNodes \cup Ended /\ state.retry = 0
    /\ Before("parse", 0, {})
    /\ Before("plan", 1, {"ParseWritingTask"})
    /\ Before("need_knowledge", 2, Planning)
    /\ Before("knowledge", 3, Planning \cup {"NeedKnowledge"})
    /\ Before("need_media", 4, Planning \cup {"NeedKnowledge"})
    /\ Before("media", 5, Planning \cup {"NeedKnowledge", "NeedMedia"})
    /\ Before("compose", 6, Planning \cup {"NeedKnowledge", "NeedMedia"})
    /\ Before("inspect", 7, DocumentPath \ {"InspectionToolCheck", "DocumentVerification"})
    /\ Before("verify", 8, DocumentPath \ {"DocumentVerification"})
    /\ Before("repair", 9, DocumentPath) /\ Before("finalize", 9, DocumentPath)
    /\ Before("end", 10, DocumentPath) /\ Before("crashed", 9, {})
    /\ state.at = "repair" => state.repair = 0

\* A workflow runs inside one of two nodes, and keeps its own invariant there; without one
\* only the inspection is awaited.
DocumentFits ==
    /\ child # NoChild => state.at \in {"knowledge", "media", "crashed"}
    /\ state.at \notin {"inspect", "crashed"} /\ child = NoChild => Idle
    /\ state.at = "inspect" => Awaits("inspection_tool")
    /\ state.at = "knowledge" /\ child # NoChild => ChildQuestionInv
    /\ state.at = "media" /\ child # NoChild => ChildMG!MediaInv

\* What has become of a workflow inside is bounded, and it never joins.
ChildTyped ==
    child # NoChild =>
        /\ child \in State /\ child.steps < RecursionLimit /\ child.error # "type"

\* The knowledge of a document, and what is made of it and of the inspection.
Borrowed ==
    /\ context \in [status : {None, "success", "refused"}, refs : SUBSET Citable,
                    tools : SUBSET Tools]
    /\ state.citations = context.refs
    /\ IF context.status = "success" THEN context.refs # {} /\ KnowledgeTools \subseteq Proven
       ELSE context.refs = {}

Inspected ==
    /\ state.inspected => "inspection_tool" \in Proven
    /\ state.at = "verify" => state.inspected \/ "inspection_tool" \notin request.granted
    /\ state.error = "type" => "inspection_tool" \notin request.granted
    /\ state.tools \subseteq {"inspection_tool"}
    /\ state.at \in {"verify", "repair", "finalize", "end"} =>
          "inspection_tool" \in state.tools
    /\ state.at \in {"inspect", "verify", "repair", "finalize", "end"} => state.answer # None
    /\ state.at \in {"finalize", "end"} =>
          IF KnowledgeFailed
          THEN state.status = "failed" /\ state.failure = "knowledge_context_failed"
          ELSE state.status = "success" /\ state.inspected

DocumentInv == DocumentCounted /\ DocumentFits /\ ChildTyped /\ Borrowed /\ Inspected

--------------------------------------------------------------------------------
(* The invariant *)

\* What the contract says goes back to the profile of the request and to the router.
Agreed ==
    /\ request \in Requests /\ kind \in Kinds
    /\ ProfileSeed(kind).task = SupportedTask[request.flow]
    /\ kind = "image" => request.media = "image"
    /\ contract.citation => Questions
    /\ RequiredNodes(ProfileSeed(kind).task, request.flow) \subseteq contract.nodes
    /\ ProfileSeed(kind).tools \subseteq contract.tools

\* The gate looks at a job that has ended, and what it saw stays so.
Judged ==
    /\ verdict \in {None, "passed", "failed"}
    /\ verdict # None =>
          state.at = "end" /\ (verdict = "passed" <=> Accepts(contract, state, Proven))

\* Nobody asks for a picture that has a blocked word.
PictureTools == {"image_generation_tool", "video_generation_tool"}
NoPicture ==
    request.blocked =>
        /\ Proven \cap PictureTools = {}
        /\ \A s \in Slots : calls[s].tool \notin PictureTools

\* A media job has at most the success of its own tool on record, and none if it failed; the
\* call that a crash leaves behind is of that tool too.
Unproven ==
    Generates =>
        /\ Proven \subseteq {MG!TargetTool} /\ Awaits(MG!TargetTool)
        /\ MG!TargetTool \in Proven =>
              \/ state.at = "invoke" /\ calls[1].at = "answered" /\ calls[1].status = "success"
              \/ state.at \in {"asset", "check", "finalize", "end"} /\ state.failure = None
              \/ state.at = "crashed"

OrchInv ==
    /\ Agreed /\ StateTypeOK /\ ServiceTypeOK /\ Recorded /\ Honest /\ Judged
    /\ Questions => QuestionInv
    /\ Codes => CodeInv
    /\ Generates => MG!MediaInv
    /\ Writes => DocumentInv
    /\ ~Writes => child = NoChild /\ context = NoContext

--------------------------------------------------------------------------------
(* The modules of the workflows speak of the same job *)

LEMMA QAAssumed ==
    /\ Subquestions \in Nat \ {0} /\ None \notin QA!Tools
    /\ DOMAIN Part = QA!Slots
    /\ \A s \in QA!Slots : Part[s] \notin {"asked", "rewritten"}
    /\ Asks \subseteq
          [flow : QA!Workflows, granted : SUBSET QA!Tools,
           media : {"image", "video"}, blocked : BOOLEAN, knowledge : BOOLEAN,
           deep : BOOLEAN, pictures : BOOLEAN]
    /\ Citable \subseteq Items /\ Garbled \subseteq Items \ Citable /\ DOMAIN KeyOf = Items
    /\ None \notin QA!Queries \cup QA!Failures \cup QA!Texts
                   \cup QA!Errors
  BY ToolServiceAssumption, WorkflowAssumption, NoneAssumption
  DEF QA!Tools, Tools, QA!Scope, Scope, QA!Workflows, Workflows, QA!KnowledgeQA,
      KnowledgeQA, QA!LargeKnowledgeQA, LargeKnowledgeQA, QA!Coding, Coding, QA!Media,
      Media, QA!Document, Document, QA!Queries, Queries, QA!Failures, Failures,
      QA!ToolStatuses, ToolStatuses, QA!Texts, Texts, QA!Errors, Errors, Asks, QA!Slots, Slots,
      QA!Parts, Parts

LEMMA QANodes == Answers!Node => QA!Node
  BY DEF Answers!Node, QA!Node, Answers!ParseQuestion, QA!ParseQuestion,
      Answers!PlanRetrieval, QA!PlanRetrieval, Answers!SendSearch, QA!SendSearch,
      Answers!RetrieveEvidence, QA!RetrieveEvidence, Answers!SendCheck, QA!SendCheck,
      Answers!EvidenceCheck, QA!EvidenceCheck, Answers!RewriteQuery, QA!RewriteQuery,
      Answers!GenerateAnswer, QA!GenerateAnswer, Answers!CitationCheck,
      QA!CitationCheck, Answers!RepairWithEvidence, QA!RepairWithEvidence,
      Answers!ParseDeepQuestion, QA!ParseDeepQuestion, Answers!BuildResearchBrief,
      QA!BuildResearchBrief, Answers!SplitSubQuestions, QA!SplitSubQuestions,
      Answers!SendSearches, QA!SendSearches, Answers!ParallelRetrieveEvidence,
      QA!ParallelRetrieveEvidence, Answers!SendAggregateCheck, QA!SendAggregateCheck,
      Answers!EvidenceAggregate, QA!EvidenceAggregate, Answers!SynthesizeAnswer,
      QA!SynthesizeAnswer, Answers!DeepCitationCheck, QA!DeepCitationCheck,
      Answers!Finalize, QA!Finalize, Answers!Plain, QA!Plain, Answers!Sends, QA!Sends,
      Answers!Returned, QA!Returned, Answers!Ran, QA!Ran, Answers!Corrective,
      QA!Corrective, Answers!Deep, QA!Deep, Answers!KnowledgeQA, QA!KnowledgeQA,
      Answers!LargeKnowledgeQA, QA!LargeKnowledgeQA, Answers!serviceVars,
      QA!serviceVars, Answers!NoCall, QA!NoCall, Answers!Posted, QA!Posted,
      Answers!Succeeded, QA!Succeeded, Answers!Readable, QA!Readable, Answers!Crashes,
      QA!Crashes, Answers!Checked, QA!Checked, Answers!Supports, QA!Supports,
      Answers!Cited, QA!Cited, Answers!Slots, QA!Slots, Answers!Gathered, QA!Gathered,
      Answers!Deduped, QA!Deduped, Answers!Final, QA!Final,
      Answers!Finders, QA!Finders

LEMMA ChildQAAssumed ==
    /\ Subquestions \in Nat \ {0} /\ None \notin ChildQA!Tools
    /\ DOMAIN Part = ChildQA!Slots
    /\ \A s \in ChildQA!Slots : Part[s] \notin {"asked", "rewritten"}
    /\ Asks \subseteq
          [flow : ChildQA!Workflows, granted : SUBSET ChildQA!Tools,
           media : {"image", "video"}, blocked : BOOLEAN, knowledge : BOOLEAN,
           deep : BOOLEAN, pictures : BOOLEAN]
    /\ Citable \subseteq Items /\ Garbled \subseteq Items \ Citable /\ DOMAIN KeyOf = Items
    /\ None \notin ChildQA!Queries \cup ChildQA!Failures \cup ChildQA!Texts
                   \cup ChildQA!Errors
  BY ToolServiceAssumption, WorkflowAssumption, NoneAssumption
  DEF ChildQA!Tools, Tools, ChildQA!Scope, Scope, ChildQA!Workflows, Workflows,
      ChildQA!KnowledgeQA, KnowledgeQA, ChildQA!LargeKnowledgeQA, LargeKnowledgeQA,
      ChildQA!Coding, Coding, ChildQA!Media, Media, ChildQA!Document, Document,
      ChildQA!Queries, Queries, ChildQA!Failures, Failures, ChildQA!ToolStatuses,
      ToolStatuses, ChildQA!Texts, Texts, ChildQA!Errors, Errors, Asks, ChildQA!Slots, Slots,
      ChildQA!Parts, Parts

LEMMA ChildQANodes == Knowledge!Node => ChildQA!Node
  BY DEF Knowledge!Node, ChildQA!Node, Knowledge!ParseQuestion, ChildQA!ParseQuestion,
      Knowledge!PlanRetrieval, ChildQA!PlanRetrieval, Knowledge!SendSearch,
      ChildQA!SendSearch, Knowledge!RetrieveEvidence, ChildQA!RetrieveEvidence,
      Knowledge!SendCheck, ChildQA!SendCheck, Knowledge!EvidenceCheck,
      ChildQA!EvidenceCheck, Knowledge!RewriteQuery, ChildQA!RewriteQuery,
      Knowledge!GenerateAnswer, ChildQA!GenerateAnswer, Knowledge!CitationCheck,
      ChildQA!CitationCheck, Knowledge!RepairWithEvidence, ChildQA!RepairWithEvidence,
      Knowledge!ParseDeepQuestion, ChildQA!ParseDeepQuestion,
      Knowledge!BuildResearchBrief, ChildQA!BuildResearchBrief,
      Knowledge!SplitSubQuestions, ChildQA!SplitSubQuestions, Knowledge!SendSearches,
      ChildQA!SendSearches, Knowledge!ParallelRetrieveEvidence,
      ChildQA!ParallelRetrieveEvidence, Knowledge!SendAggregateCheck,
      ChildQA!SendAggregateCheck, Knowledge!EvidenceAggregate,
      ChildQA!EvidenceAggregate, Knowledge!SynthesizeAnswer, ChildQA!SynthesizeAnswer,
      Knowledge!DeepCitationCheck, ChildQA!DeepCitationCheck, Knowledge!Finalize,
      ChildQA!Finalize, Knowledge!Plain, ChildQA!Plain, Knowledge!Sends,
      ChildQA!Sends, Knowledge!Returned, ChildQA!Returned, Knowledge!Ran, ChildQA!Ran,
      Knowledge!Corrective, ChildQA!Corrective, Knowledge!Deep, ChildQA!Deep,
      Knowledge!KnowledgeQA, ChildQA!KnowledgeQA, Knowledge!LargeKnowledgeQA,
      ChildQA!LargeKnowledgeQA, Knowledge!serviceVars, ChildQA!serviceVars,
      Knowledge!NoCall, ChildQA!NoCall, Knowledge!Posted, ChildQA!Posted,
      Knowledge!Succeeded, ChildQA!Succeeded, Knowledge!Readable, ChildQA!Readable,
      Knowledge!Crashes, ChildQA!Crashes, Knowledge!Checked, ChildQA!Checked,
      Knowledge!Supports, ChildQA!Supports, Knowledge!Cited, ChildQA!Cited,
      Knowledge!Slots, ChildQA!Slots, Knowledge!Gathered, ChildQA!Gathered,
      Knowledge!Deduped, ChildQA!Deduped, Knowledge!Final, ChildQA!Final,
      Knowledge!Finders, ChildQA!Finders

LEMMA MGAssumed ==
    /\ Subquestions \in Nat \ {0} /\ None \notin MG!Tools
    /\ DOMAIN Part = MG!Slots
    /\ \A s \in MG!Slots : Part[s] \notin {"asked", "rewritten"}
    /\ Asks \subseteq
          [flow : MG!Workflows, granted : SUBSET MG!Tools,
           media : {"image", "video"}, blocked : BOOLEAN, knowledge : BOOLEAN,
           deep : BOOLEAN, pictures : BOOLEAN]
    /\ Citable \subseteq Items /\ Garbled \subseteq Items \ Citable /\ DOMAIN KeyOf = Items
    /\ None \notin MG!Queries \cup MG!Failures \cup MG!Texts
                   \cup MG!Errors
  BY ToolServiceAssumption, WorkflowAssumption, NoneAssumption
  DEF MG!Tools, Tools, MG!Scope, Scope, MG!Workflows, Workflows, MG!KnowledgeQA,
      KnowledgeQA, MG!LargeKnowledgeQA, LargeKnowledgeQA, MG!Coding, Coding, MG!Media,
      Media, MG!Document, Document, MG!Queries, Queries, MG!Failures, Failures,
      MG!ToolStatuses, ToolStatuses, MG!Texts, Texts, MG!Errors, Errors, Asks, MG!Slots, Slots,
      MG!Parts, Parts

LEMMA MGNodes == Generation!Node => MG!Node
  BY DEF Generation!Node, MG!Node, Generation!ParseMediaRequest, MG!ParseMediaRequest,
      Generation!PromptSafetyCheck, MG!PromptSafetyCheck,
      Generation!BuildGenerationParams, MG!BuildGenerationParams,
      Generation!SendPrompt, MG!SendPrompt, Generation!InvokeMediaBackend,
      MG!InvokeMediaBackend, Generation!AssetMetadataBuild, MG!AssetMetadataBuild,
      Generation!MediaOutputCheck, MG!MediaOutputCheck, Generation!Finalize,
      MG!Finalize, Generation!Generates, MG!Generates, Generation!Media, MG!Media,
      Generation!TargetTool, MG!TargetTool, Generation!Plain, MG!Plain,
      Generation!Sends, MG!Sends, Generation!Returned, MG!Returned, Generation!Ran,
      MG!Ran, Generation!serviceVars, MG!serviceVars, Generation!NoCall, MG!NoCall,
      Generation!Posted, MG!Posted, Generation!Succeeded, MG!Succeeded

LEMMA ChildMGAssumed ==
    /\ Subquestions \in Nat \ {0} /\ None \notin ChildMG!Tools
    /\ DOMAIN Part = ChildMG!Slots
    /\ \A s \in ChildMG!Slots : Part[s] \notin {"asked", "rewritten"}
    /\ Asks \subseteq
          [flow : ChildMG!Workflows, granted : SUBSET ChildMG!Tools,
           media : {"image", "video"}, blocked : BOOLEAN, knowledge : BOOLEAN,
           deep : BOOLEAN, pictures : BOOLEAN]
    /\ Citable \subseteq Items /\ Garbled \subseteq Items \ Citable /\ DOMAIN KeyOf = Items
    /\ None \notin ChildMG!Queries \cup ChildMG!Failures \cup ChildMG!Texts
                   \cup ChildMG!Errors
  BY ToolServiceAssumption, WorkflowAssumption, NoneAssumption
  DEF ChildMG!Tools, Tools, ChildMG!Scope, Scope, ChildMG!Workflows, Workflows,
      ChildMG!KnowledgeQA, KnowledgeQA, ChildMG!LargeKnowledgeQA, LargeKnowledgeQA,
      ChildMG!Coding, Coding, ChildMG!Media, Media, ChildMG!Document, Document,
      ChildMG!Queries, Queries, ChildMG!Failures, Failures, ChildMG!ToolStatuses,
      ToolStatuses, ChildMG!Texts, Texts, ChildMG!Errors, Errors, Asks, ChildMG!Slots, Slots,
      ChildMG!Parts, Parts

LEMMA ChildMGNodes == Pictures!Node => ChildMG!Node
  BY DEF Pictures!Node, ChildMG!Node, Pictures!ParseMediaRequest,
      ChildMG!ParseMediaRequest, Pictures!PromptSafetyCheck,
      ChildMG!PromptSafetyCheck, Pictures!BuildGenerationParams,
      ChildMG!BuildGenerationParams, Pictures!SendPrompt, ChildMG!SendPrompt,
      Pictures!InvokeMediaBackend, ChildMG!InvokeMediaBackend,
      Pictures!AssetMetadataBuild, ChildMG!AssetMetadataBuild,
      Pictures!MediaOutputCheck, ChildMG!MediaOutputCheck, Pictures!Finalize,
      ChildMG!Finalize, Pictures!Generates, ChildMG!Generates, Pictures!Media,
      ChildMG!Media, Pictures!TargetTool, ChildMG!TargetTool, Pictures!Plain,
      ChildMG!Plain, Pictures!Sends, ChildMG!Sends, Pictures!Returned,
      ChildMG!Returned, Pictures!Ran, ChildMG!Ran, Pictures!serviceVars,
      ChildMG!serviceVars, Pictures!NoCall, ChildMG!NoCall, Pictures!Posted,
      ChildMG!Posted, Pictures!Succeeded, ChildMG!Succeeded

LEMMA QASteps ==
    /\ ServiceStep => QA!ServiceStep
    /\ ClientRaises => QA!ClientRaises
  BY DEF Serve, QA!Serve, Receive, QA!Receive, Execute, QA!Execute, Reply, QA!Reply,
      Slots, QA!Slots, KnowledgeTools, QA!KnowledgeTools, ServiceStep, QA!ServiceStep,
      ClientRaises, QA!ClientRaises, Ended, QA!Ended, Crashes, QA!Crashes,
      serviceVars, QA!serviceVars

LEMMA QAService ==
    /\ QA!ServiceTypeOK <=> ServiceTypeOK
    /\ QA!Recorded <=> Recorded
    /\ QA!Idle <=> Idle
  BY DEF QA!ServiceTypeOK, ServiceTypeOK, QA!Call, Call, QA!ToolStatuses, ToolStatuses,
      QA!Tools, Tools, QA!Scope, Scope, QA!Slots, Slots, QA!Recorded, Recorded,
      QA!NoCall, NoCall, QA!Idle, Idle,
      QA!Queries, Queries, QA!Parts, Parts

LEMMA QATypes == QA!StateTypeOK <=> StateTypeOK
  BY DEF QA!StateTypeOK, StateTypeOK, QA!State, State, QA!Places, Places, QA!Ended,
      Ended, QA!Failures, Failures, QA!ToolStatuses, ToolStatuses, QA!Texts, Texts,
      QA!Queries, Queries, QA!Errors, Errors, QA!Tools, Tools, QA!Scope, Scope,
      QA!NodeNames, NodeNames,
      QA!Slots, Slots, QA!Parts, Parts

LEMMA QAMoves ==
    QA!Moves(QA!KnowledgeTools) => Moves(KnowledgeTools)
  BY DEF QA!Moves, Moves, QA!Call, Call, QA!ToolStatuses, ToolStatuses, QA!NoCall,
      NoCall, QA!Posted, Posted, QA!Slots, Slots, QA!KnowledgeTools, KnowledgeTools,
      QA!Tools, Tools, QA!Scope, Scope,
      QA!Queries, Queries, QA!Parts, Parts

LEMMA MGSteps ==
    /\ ServiceStep => MG!ServiceStep
    /\ ClientRaises => MG!ClientRaises
  BY DEF Serve, MG!Serve, Receive, MG!Receive, Execute, MG!Execute, Reply, MG!Reply,
      Slots, MG!Slots, KnowledgeTools, MG!KnowledgeTools, ServiceStep, MG!ServiceStep,
      ClientRaises, MG!ClientRaises, Ended, MG!Ended, Crashes, MG!Crashes,
      serviceVars, MG!serviceVars

LEMMA MGService ==
    /\ MG!ServiceTypeOK <=> ServiceTypeOK
    /\ MG!Recorded <=> Recorded
    /\ MG!Idle <=> Idle
  BY DEF MG!ServiceTypeOK, ServiceTypeOK, MG!Call, Call, MG!ToolStatuses, ToolStatuses,
      MG!Tools, Tools, MG!Scope, Scope, MG!Slots, Slots, MG!Recorded, Recorded,
      MG!NoCall, NoCall, MG!Idle, Idle,
      MG!Queries, Queries, MG!Parts, Parts

LEMMA MGTypes == MG!StateTypeOK <=> StateTypeOK
  BY DEF MG!StateTypeOK, StateTypeOK, MG!State, State, MG!Places, Places, MG!Ended,
      Ended, MG!Failures, Failures, MG!ToolStatuses, ToolStatuses, MG!Texts, Texts,
      MG!Queries, Queries, MG!Errors, Errors, MG!Tools, Tools, MG!Scope, Scope,
      MG!NodeNames, NodeNames,
      MG!Slots, Slots, MG!Parts, Parts

LEMMA MGHonest == MG!Honest <=> Honest
  BY DEF MG!Honest, Honest, MG!Slots, Slots, MG!NoCall, NoCall, MG!KnowledgeTools,
      KnowledgeTools, MG!ToolStatuses, ToolStatuses

LEMMA ChildQASteps ==
    /\ ServiceStep /\ UNCHANGED child => ChildQA!ServiceStep
    /\ Knowledge!ClientRaises => ChildQA!ClientRaises
  BY DEF Serve, ChildQA!Serve, Receive, ChildQA!Receive, Execute, ChildQA!Execute, Reply,
      ChildQA!Reply, Slots, ChildQA!Slots, KnowledgeTools, ChildQA!KnowledgeTools,
      ServiceStep, ChildQA!ServiceStep,
      KnowledgeRequest,
      Knowledge!Slots, Knowledge!ClientRaises, ChildQA!ClientRaises,
      Knowledge!Ended, ChildQA!Ended, Knowledge!Crashes, ChildQA!Crashes,
      Knowledge!serviceVars, ChildQA!serviceVars

LEMMA ChildQAService ==
    /\ ChildQA!ServiceTypeOK <=> ServiceTypeOK
    /\ ChildQA!Recorded <=> Recorded
    /\ ChildQA!Idle <=> Idle
  BY DEF ChildQA!ServiceTypeOK, ServiceTypeOK, ChildQA!Call, Call, ChildQA!ToolStatuses,
      ToolStatuses, ChildQA!Tools, Tools, ChildQA!Scope, Scope, ChildQA!Slots, Slots,
      ChildQA!Recorded, Recorded, ChildQA!NoCall, NoCall, ChildQA!Idle, Idle,
      ChildQA!Queries, Queries, ChildQA!Parts, Parts

LEMMA ChildQATypes == ChildQA!StateTypeOK => child \in State
  BY DEF ChildQA!StateTypeOK, StateTypeOK, ChildQA!State, State, ChildQA!Places, Places,
      ChildQA!Ended, Ended, ChildQA!Failures, Failures, ChildQA!ToolStatuses,
      ToolStatuses, ChildQA!Texts, Texts, ChildQA!Queries, Queries, ChildQA!Errors,
      Errors, ChildQA!Tools, Tools, ChildQA!Scope, Scope, ChildQA!NodeNames, NodeNames,
      ChildQA!Slots, Slots, ChildQA!Parts, Parts

LEMMA ChildQAMoves ==
    ChildQA!Moves(ChildQA!KnowledgeTools) /\ UNCHANGED request => Moves(KnowledgeTools)
<1>1. /\ ChildQA!Slots = Slots /\ ChildQA!Parts = Parts
      /\ ChildQA!KnowledgeTools = KnowledgeTools /\ ChildQA!NoCall = NoCall
  BY DEF ChildQA!Slots, Slots, ChildQA!Parts, Parts, ChildQA!KnowledgeTools,
      KnowledgeTools, ChildQA!NoCall, NoCall
<1>2. ChildQA!Queries = Queries
  BY <1>1 DEF ChildQA!Queries, Queries
<1>3. ASSUME NEW t, NEW query, NEW granted
      PROVE  ChildQA!Posted(t, query, granted) = Posted(t, query, granted)
  BY <1>1 DEF ChildQA!Posted, Posted
<1>4. ChildQA!Call = Call
  BY <1>2 DEF ChildQA!Call, Call, ChildQA!Tools, Tools, ChildQA!Scope, Scope,
      ChildQA!ToolStatuses, ToolStatuses
<1>5. KnowledgeRequest.granted = request.granted
  BY DEF KnowledgeRequest
<1> QED
  BY <1>1, <1>2, <1>3, <1>4, <1>5 DEF ChildQA!Moves, Moves

LEMMA ChildMGSteps ==
    /\ ServiceStep /\ UNCHANGED child => ChildMG!ServiceStep
  BY DEF Serve, ChildMG!Serve, Receive, ChildMG!Receive, Execute, ChildMG!Execute, Reply,
      ChildMG!Reply, Slots, ChildMG!Slots, KnowledgeTools, ChildMG!KnowledgeTools,
      ServiceStep, ChildMG!ServiceStep,
      MediaRequest

LEMMA ChildMGService ==
    /\ ChildMG!ServiceTypeOK <=> ServiceTypeOK
    /\ ChildMG!Recorded <=> Recorded
    /\ ChildMG!Idle <=> Idle
  BY DEF ChildMG!ServiceTypeOK, ServiceTypeOK, ChildMG!Call, Call, ChildMG!ToolStatuses,
      ToolStatuses, ChildMG!Tools, Tools, ChildMG!Scope, Scope, ChildMG!Slots, Slots,
      ChildMG!Recorded, Recorded, ChildMG!NoCall, NoCall, ChildMG!Idle, Idle,
      ChildMG!Queries, Queries, ChildMG!Parts, Parts

LEMMA ChildMGTypes == ChildMG!StateTypeOK => child \in State
  BY DEF ChildMG!StateTypeOK, StateTypeOK, ChildMG!State, State, ChildMG!Places, Places,
      ChildMG!Ended, Ended, ChildMG!Failures, Failures, ChildMG!ToolStatuses,
      ToolStatuses, ChildMG!Texts, Texts, ChildMG!Queries, Queries, ChildMG!Errors,
      Errors, ChildMG!Tools, Tools, ChildMG!Scope, Scope, ChildMG!NodeNames, NodeNames,
      ChildMG!Slots, Slots, ChildMG!Parts, Parts

LEMMA ChildMGHonest == ChildMG!Honest <=> Honest
  BY DEF ChildMG!Honest, Honest, ChildMG!Slots, Slots, ChildMG!NoCall, NoCall,
      ChildMG!KnowledgeTools, KnowledgeTools, ChildMG!ToolStatuses, ToolStatuses, MediaRequest

--------------------------------------------------------------------------------
(* What holds at the beginning *)

LEMMA Asked ==
    ASSUME request \in Requests
    PROVE  /\ request \in Asks /\ KnowledgeRequest \in Asks /\ MediaRequest \in Asks
           /\ request.granted \in SUBSET Tools /\ request.flow \in Workflows
           /\ KnowledgeRequest.granted = request.granted
           /\ MediaRequest.granted = request.granted
           /\ MediaRequest.flow = Media /\ MediaRequest.blocked = request.blocked
<1>1. request \in Asks
  BY WorkflowAssumption DEF Asks
<1>2. /\ request.granted \in SUBSET Tools /\ request.flow \in Workflows
  BY <1>1 DEF Asks
<1>3. KnowledgeRequest \in Asks /\ KnowledgeRequest.granted = request.granted
  BY <1>1 DEF Asks, KnowledgeRequest, Workflows
<1>4. /\ MediaRequest \in Asks /\ MediaRequest.granted = request.granted
      /\ MediaRequest.flow = Media /\ MediaRequest.blocked = request.blocked
  BY <1>1 DEF Asks, MediaRequest, Workflows
<1> QED
  BY <1>1, <1>2, <1>3, <1>4

\* A job is of one workflow.
LEMMA OneFlow ==
    ASSUME request \in Requests
    PROVE  /\ Questions \/ Codes \/ Generates \/ Writes
           /\ Questions => ~Codes /\ ~Generates /\ ~Writes
           /\ Codes => ~Generates /\ ~Writes
           /\ Generates => ~Writes
  BY Asked DEF Workflows, Questions, Codes, Generates, Writes, KnowledgeQA,
     LargeKnowledgeQA, Coding, Media, Document

\* A contract demands what the template does, and possibly more.
LEMMA ContractDemands ==
    ASSUME NEW profile, NEW w, NEW plan, NEW patches
    PROVE  LET c == Contract(profile, w, plan, patches)
           IN  /\ RequiredNodes(profile.task, w) \subseteq c.nodes
               /\ profile.tools \subseteq c.tools
               /\ c.citation = profile.evidence
<1> DEFINE t == Template(profile, w)
           p == Planned(t, plan, w)
           c == Patched(p, patches)
<1>1. /\ DOMAIN t = {"nodes", "tools", "citation", "forbidden"}
      /\ t.nodes = RequiredNodes(profile.task, w) /\ t.tools = profile.tools
      /\ t.citation = profile.evidence
  BY DEF Template
<1> HIDE DEF t
<1>2. /\ DOMAIN p = DOMAIN t /\ t.nodes \subseteq p.nodes /\ t.tools \subseteq p.tools
      /\ p.citation = t.citation
  BY <1>1 DEF Planned
<1> HIDE DEF p
<1>3. p.nodes \subseteq c.nodes /\ p.tools \subseteq c.tools /\ c.citation = p.citation
  BY <1>1, <1>2 DEF Patched
<1> QED
  BY <1>1, <1>2, <1>3 DEF Contract, t, p

\* Only the workflows for questions bring evidence.
LEMMA EvidenceCheckers ==
    \A w \in Workflows :
        "evidence_check" \in Capabilities[w] => w \in {KnowledgeQA, LargeKnowledgeQA}
  BY DEF Workflows, Capabilities, KnowledgeQA, LargeKnowledgeQA, Coding, Media, Document,
     KnowledgeCapabilities, DeepCapabilities

LEMMA SeedRecord ==
    ASSUME NEW k \in Kinds, NEW evidence
    PROVE  LET p == [ProfileSeed(k) EXCEPT !.evidence = evidence]
           IN  /\ p.task = ProfileSeed(k).task /\ p.tools = ProfileSeed(k).tools
               /\ p.evidence = evidence
  BY DEF Kinds, ProfileSeed, MediaSeed, Profiled

LEMMA InitAgreed == Init => Agreed
<1> SUFFICES ASSUME Init PROVE Agreed
  OBVIOUS
<1>1. PICK evidence \in BOOLEAN, plan \in Plans, patches \in Patches :
         /\ Routed(kind, evidence)
         /\ contract = Contract([ProfileSeed(kind) EXCEPT !.evidence = evidence],
                                request.flow, plan, patches)
  BY DEF Init
<1>2. request \in Requests /\ kind \in Kinds /\ request.flow \in Workflows
  BY Asked DEF Init
<1>3. evidence => Questions
  BY <1>1, <1>2, EvidenceCheckers DEF Routed, Questions
<1>4. /\ RequiredNodes(ProfileSeed(kind).task, request.flow) \subseteq contract.nodes
      /\ ProfileSeed(kind).tools \subseteq contract.tools /\ contract.citation = evidence
  <2> DEFINE profile == [ProfileSeed(kind) EXCEPT !.evidence = evidence]
  <2>1. /\ profile.task = ProfileSeed(kind).task /\ profile.tools = ProfileSeed(kind).tools
        /\ profile.evidence = evidence
    BY <1>2, SeedRecord
  <2>2. contract = Contract(profile, request.flow, plan, patches)
    BY <1>1
  <2> HIDE DEF profile
  <2> QED
    BY <2>1, <2>2, ContractDemands
<1> QED
  BY <1>1, <1>2, <1>3, <1>4 DEF Agreed, Routed

LEMMA OrchInit == Init => OrchInv /\ NoPicture /\ Unproven
<1> SUFFICES ASSUME Init PROVE OrchInv /\ NoPicture /\ Unproven
  OBVIOUS
<1>1. Agreed
  BY InitAgreed
<1>2. StateTypeOK
  <2>1. state \in State
    BY Names DEF Init, InitialState, State
  <2> QED
    BY <2>1 DEF Init, StateTypeOK, InitialState
<1>3. ServiceTypeOK /\ Idle /\ Recorded /\ Honest
  <2>1. NoCall \in Call
    BY DEF NoCall, Call
  <2> QED
    BY <2>1 DEF Init, ServiceInit, ServiceTypeOK, Idle, Recorded, Honest
<1>4. state = InitialState /\ audit = {} /\ child = NoChild /\ context = NoContext
  BY DEF Init, ServiceInit
<1>5. Questions => QuestionInv
  <2>1. QA!ServiceTypeOK /\ QA!Idle /\ state = QA!InitialState
    BY <1>3, <1>4, QAService DEF InitialState, QA!InitialState
  <2> QED
    BY <1>1, <2>1, Asked, QAAssumed, QA!QABegins DEF Agreed, QuestionInv
<1>6. Codes => CodeInv
  BY <1>3, <1>4, NoneAssumption DEF CodeInv, CodeCounted, CodeJudged, CodeNodes, Before,
     InitialState, Errors
<1>7. Generates => MG!MediaInv
  <2>1. MG!ServiceTypeOK /\ MG!Idle /\ MG!Recorded /\ MG!Honest /\ state = MG!InitialState
    BY <1>3, <1>4, MGService, MGHonest DEF InitialState, MG!InitialState
  <2>2. Generates => MG!Generates /\ request.granted \subseteq MG!Tools
    BY <1>1, Asked DEF Agreed, Generates, MG!Generates, MG!Media, Media, MG!Tools, MG!Scope,
       Tools, Scope
  <2> QED
    BY <2>1, <2>2, MGAssumed, MG!MediaBegins
<1>8. Writes => DocumentInv
  <2>1. /\ state.at = "parse" /\ state.steps = 0 /\ state.retry = 0 /\ state.repair = 0
        /\ state.citations = {} /\ state.tools = {} /\ state.inspected = FALSE
        /\ state.error = None /\ state.nodes = {}
    BY <1>4 DEF InitialState
  <2>2. /\ context.status = None /\ context.refs = {} /\ context.tools = {}
    BY <1>4 DEF NoContext
  <2>3. DocumentCounted
    BY <2>1 DEF DocumentCounted, DocumentNodes, Before
  <2>4. DocumentFits /\ ChildTyped
    BY <1>3, <1>4, <2>1 DEF DocumentFits, ChildTyped
  <2>5. Borrowed
    BY <1>4, <2>1, <2>2, NoneAssumption DEF Borrowed, NoContext, ToolStatuses, Failures
  <2>6. Inspected
    BY <2>1, NoneAssumption DEF Inspected, Errors
  <2> QED
    BY <2>3, <2>4, <2>5, <2>6 DEF DocumentInv
<1>9. Judged /\ NoPicture /\ Unproven
  <2>1. Proven = {} /\ verdict = None
    BY <1>4 DEF Init, Proven
  <2>2. None \notin PictureTools /\ 1 \in Slots
    BY ToolServiceAssumption DEF PictureTools, Tools, Scope, Slots
  <2>3. \A s \in Slots : calls[s] = NoCall
    BY <1>3 DEF Idle
  <2>4. Awaits(MG!TargetTool)
    BY <2>2, <2>3 DEF Awaits
  <2> QED
    BY <2>1, <2>2, <2>3, <2>4 DEF Judged, NoPicture, Unproven, NoCall
<1> QED
  BY <1>1, <1>2, <1>3, <1>4, <1>5, <1>6, <1>7, <1>8, <1>9 DEF OrchInv

--------------------------------------------------------------------------------
(* Steps of the job and of the tool service *)

\* An answered job has nothing under way, so the tool service has nothing to do.
LEMMA EndRests ==
    ASSUME OrchInv, state.at = "end"
    PROVE  Idle /\ child = NoChild
<1>1. CASE Questions
  BY <1>1, OneFlow DEF OrchInv, Agreed, QuestionInv, QA!QAInv, QA!CallsFit, QA!Slots, Slots,
     QA!NoCall, NoCall, Idle
<1>2. CASE Codes
  BY <1>2, OneFlow DEF OrchInv, Agreed, CodeInv, CodeJudged
<1>3. CASE Generates
  BY <1>3, OneFlow, MGService DEF OrchInv, Agreed, MG!MediaInv, MG!MediaFits
<1>4. CASE Writes
  BY <1>4 DEF OrchInv, DocumentInv, DocumentFits
<1> QED
  BY <1>1, <1>2, <1>3, <1>4, OneFlow DEF OrchInv, Agreed

LEMMA IdleServes == Idle => ~Serve
<1> SUFFICES ASSUME Idle, Serve PROVE FALSE
  OBVIOUS
<1>1. PICK s \in Slots : calls[s].at = "sent" \/ calls[s].at = "executing"
  BY DEF Serve, Receive, Execute
<1>2. calls[s].at = "idle"
  BY DEF Idle, NoCall
<1> QED
  BY <1>1, <1>2

\* A step of a job that is not answered keeps the invariant if it keeps its workflow's.
LEMMA StepKeeps ==
    ASSUME OrchInv, UNCHANGED <<request, gatewayVars>>, state.at # "end",
           StateTypeOK', ServiceTypeOK', Recorded', Honest',
           Questions => QuestionInv', Codes => CodeInv', Generates => MG!MediaInv',
           Writes => DocumentInv', ~Writes => UNCHANGED documentVars
    PROVE  OrchInv'
<1>1. /\ Questions' = Questions /\ Codes' = Codes /\ Generates' = Generates
      /\ Writes' = Writes
  BY DEF Questions, Codes, Generates, Writes
<1>2. Agreed'
  BY <1>1 DEF OrchInv, Agreed, gatewayVars
<1>3. Judged'
  BY DEF OrchInv, Judged, gatewayVars
<1> QED
  BY <1>1, <1>2, <1>3 DEF OrchInv, documentVars

LEMMA AnswersKeep ==
    ASSUME OrchInv, Answers!Node, UNCHANGED <<documentVars, gatewayVars>>
    PROVE  OrchInv' /\ Moves(KnowledgeTools) /\ state.at # "end"
<1>1. QA!Node /\ Questions /\ QuestionInv
  BY QANodes, QA!NodeOwns, QAAssumed DEF OrchInv, Questions, QA!Corrective, QA!Deep,
     QA!KnowledgeQA, QA!LargeKnowledgeQA, KnowledgeQA, LargeKnowledgeQA
<1>2. state.at # "end"
  BY <1>1, QA!NodeRuns, QAAssumed DEF QA!Ended
<1>3. Moves(KnowledgeTools)
  BY <1>1, QA!NodeMoves, QAMoves, QAAssumed DEF QuestionInv
<1>4. ServiceTypeOK' /\ Recorded' /\ Honest' /\ UNCHANGED request
  BY <1>3, MovesFit, KnownTools DEF OrchInv, Moves
<1>5. QuestionInv'
  BY <1>1, QA!QAStep, QA!VisitedStep, QA!AsksStep, QAAssumed DEF QuestionInv, QA!Next
<1>6. StateTypeOK'
  <2>1. QA!StateTypeOK'
    BY <1>5 DEF QuestionInv, QA!QAInv, QA!TypeOK
  <2> QED
    BY <2>1, QATypes, PTL
<1>7. ~Codes /\ ~Generates /\ ~Writes
  BY <1>1, OneFlow DEF OrchInv, Agreed
<1> QED
  BY <1>2, <1>3, <1>4, <1>5, <1>6, <1>7, StepKeeps

LEMMA GenerationKeeps ==
    ASSUME OrchInv, Generation!Node, UNCHANGED <<documentVars, gatewayVars>>
    PROVE  /\ OrchInv' /\ Generates /\ state.at # "end" /\ UNCHANGED <<request, audit>>
           /\ request.blocked => Idle'
<1>1. /\ MG!Node /\ Generates /\ MG!MediaInv /\ state.at # "end"
      /\ UNCHANGED <<request, audit>>
  BY MGNodes, MG!NodeOwns, MGAssumed DEF OrchInv, Generates, MG!Generates, MG!Media, Media,
     MG!Ended
<1>2. MG!MediaInv'
  BY <1>1, MG!MediaNode, MGAssumed
<1>3. MG!StateTypeOK' /\ MG!ServiceTypeOK' /\ MG!Recorded' /\ MG!Honest'
  BY <1>2 DEF MG!MediaInv
<1>4. StateTypeOK' /\ ServiceTypeOK' /\ Recorded' /\ Honest'
  BY <1>3, MGTypes, MGService, MGHonest, PTL
<1>5. ~Questions /\ ~Codes /\ ~Writes
  BY <1>1, OneFlow DEF OrchInv, Agreed
<1>6. request.blocked => MG!Idle'
  BY <1>1, <1>2 DEF MG!MediaInv, MG!MediaFits
<1>7. request.blocked => Idle'
  BY <1>6, MGService, PTL
<1> QED
  BY <1>1, <1>2, <1>4, <1>5, <1>7, StepKeeps

--------------------------------------------------------------------------------
(* Coding *)

\* Each node of the coding workflow, as what it does to the state.
CodeSteps ==
    \/ state.at = "parse" /\ state' = Ran("ParseCodingTask", "context")
    \/ state.at = "context" /\ state' = Ran("BuildCodeContext", "model")
    \/ /\ state.at = "model"
       /\ \E draft \in {"good", "empty", "unsafe"} :
             state' = [Ran("InvokeCodingModel", "structure") EXCEPT !.draft = draft]
    \/ state.at = "model" /\ Crashes("model")
    \/ /\ state.at = "structure"
       /\ state' = [Ran("StructurePatchOrAnswer", "check") EXCEPT !.answer = "draft"]
    \/ /\ state.at = "check" /\ state.draft = "good"
       /\ state' = [Ran("CodingOutputCheck", "finalize") EXCEPT !.status = "success"]
    \/ /\ state.at = "check" /\ state.repair < 1
       /\ state' = [Ran("CodingOutputCheck", "finalize") EXCEPT
                      !.at = "repair", !.status = "success"]
    \/ /\ state.at = "check" /\ state.draft # "good"
       /\ state' = [Ran("CodingOutputCheck", "finalize") EXCEPT
                      !.status = "failed", !.failure = "invalid_coding_output"]
    \/ /\ state.at = "repair"
       /\ \E instruction \in {"instructed", state.instruction} :
             state' = [Ran("RepairStructuredOutput", "model") EXCEPT
                         !.repair = @ + 1, !.instruction = instruction]
    \/ /\ state.at = "finalize"
       /\ state' = [Ran("Finalize", "end") EXCEPT
                      !.answer = IF @ = None THEN "notice" ELSE @]

LEMMA CodeTakes ==
    ASSUME StateTypeOK, Code!Node
    PROVE  Codes /\ UNCHANGED <<request, serviceVars>> /\ CodeSteps
<1>1. state \in State
  BY DEF StateTypeOK
<1>2. ASSUME Code!ParseCodingTask \/ Code!BuildCodeContext
      PROVE  Codes /\ UNCHANGED <<request, serviceVars>> /\ CodeSteps
  BY <1>2 DEF Code!ParseCodingTask, Code!BuildCodeContext, Code!Plain, Code!Codes, Code!Coding,
     Codes, Coding, Code!serviceVars, serviceVars, Code!Ran, Ran, CodeSteps
<1>3. ASSUME Code!InvokeCodingModel
      PROVE  Codes /\ UNCHANGED <<request, serviceVars>> /\ CodeSteps
  BY <1>3 DEF Code!InvokeCodingModel, Code!Codes, Code!Coding, Codes, Coding,
     Code!serviceVars, serviceVars, Code!Ran, Ran, Code!Crashes, Crashes, CodeSteps
<1>4. ASSUME Code!StructurePatchOrAnswer
      PROVE  Codes /\ UNCHANGED <<request, serviceVars>> /\ CodeSteps
  BY <1>4 DEF Code!StructurePatchOrAnswer, Code!Codes, Code!Coding, Codes, Coding,
     Code!serviceVars, serviceVars, Code!Ran, Ran, CodeSteps
<1>5. ASSUME Code!CodingOutputCheck
      PROVE  Codes /\ UNCHANGED <<request, serviceVars>> /\ CodeSteps
  BY <1>5 DEF Code!CodingOutputCheck, Code!Codes, Code!Coding, Codes, Coding,
     Code!serviceVars, serviceVars, Code!Ran, Ran, CodeSteps
<1>6. ASSUME Code!RepairStructuredOutput
      PROVE  Codes /\ UNCHANGED <<request, serviceVars>> /\ CodeSteps
  BY <1>1, <1>6 DEF Code!RepairStructuredOutput, Code!Codes, Code!Coding, Codes, Coding,
     Code!serviceVars, serviceVars, Code!Ran, Ran, CodeSteps, State
<1>7. ASSUME Code!Finalize
      PROVE  Codes /\ UNCHANGED <<request, serviceVars>> /\ CodeSteps
  BY <1>7 DEF Code!Finalize, Code!Final, Code!Codes, Code!Coding, Codes, Coding,
     Code!serviceVars, serviceVars, Code!Ran, Ran, CodeSteps
<1> QED
  BY <1>2, <1>3, <1>4, <1>5, <1>6, <1>7 DEF Code!Node

\* What a node that only notes that it has run leaves for the one after it.
LEMMA RanFacts ==
    ASSUME state \in State, NEW node \in NodeNames, NEW next \in Places
    PROVE  LET r == Ran(node, next)
           IN  /\ r \in State /\ r.at = next /\ r.steps = state.steps + 1
               /\ r.nodes = state.nodes \cup {node}
               /\ r.retry = state.retry /\ r.repair = state.repair /\ r.error = state.error
               /\ r.status = state.status /\ r.failure = state.failure
               /\ r.citations = state.citations /\ r.tools = state.tools
               /\ r.answer = state.answer /\ r.draft = state.draft
               /\ r.inspected = state.inspected
  BY RanGoes, RanKeeps DEF Goes, SameLoops, SameVerdict

\* The edges of the coding graph.
CodeEdge(node, next, repairs) ==
    \/ /\ state.at = "parse" /\ node = "ParseCodingTask" /\ next = "context"
       /\ repairs = state.repair
    \/ /\ state.at = "context" /\ node = "BuildCodeContext" /\ next = "model"
       /\ repairs = state.repair
    \/ /\ state.at = "model" /\ node = "InvokeCodingModel" /\ next = "structure"
       /\ repairs = state.repair
    \/ /\ state.at = "structure" /\ node = "StructurePatchOrAnswer" /\ next = "check"
       /\ repairs = state.repair
    \/ /\ state.at = "check" /\ node = "CodingOutputCheck"
       /\ next = "finalize" \/ (next = "repair" /\ state.repair = 0)
       /\ repairs = state.repair
    \/ /\ state.at = "repair" /\ node = "RepairStructuredOutput" /\ next = "model"
       /\ repairs = state.repair + 1
    \/ /\ state.at = "finalize" /\ node = "Finalize" /\ next = "end"
       /\ repairs = state.repair

LEMMA CodeCounts ==
    ASSUME StateTypeOK, CodeInv, NEW node, NEW next, NEW repairs,
           CodeEdge(node, next, repairs), Did(node, next, repairs)
    PROVE  StateTypeOK' /\ CodeCounted'
<1>0. /\ state \in State /\ state.steps \in Nat /\ state.repair \in 0..1
      /\ (state.error # None) = (state.at = "crashed")
  BY DEF StateTypeOK, State
<1>1. StateTypeOK'
  BY <1>0 DEF Did, CodeEdge, StateTypeOK
<1>2. CodeCounted'
  BY <1>0 DEF Did, CodeEdge, CodeInv, CodeCounted, CodeNodes, CodePath, Ended, Before
<1> QED
  BY <1>1, <1>2

LEMMA CodeStepsKeep ==
    ASSUME StateTypeOK, CodeInv, CodeSteps, UNCHANGED <<request, serviceVars>>
    PROVE  StateTypeOK' /\ CodeInv'
<1>0. state \in State /\ state.repair \in 0..1
  BY DEF StateTypeOK, State
<1>1. Idle'
  BY DEF CodeInv, CodeJudged, Idle, serviceVars
<1>2. CASE \/ state.at = "parse" /\ state' = Ran("ParseCodingTask", "context")
           \/ state.at = "context" /\ state' = Ran("BuildCodeContext", "model")
  <2>1. PICK node \in NodeNames, next \in Places :
           /\ CodeEdge(node, next, state.repair) /\ state' = Ran(node, next)
           /\ next \in {"context", "model"}
    BY <1>2 DEF CodeEdge, NodeNames, Places
  <2>2. Did(node, next, state.repair) /\ Kept /\ SameVerdict(state')
    BY <1>0, <2>1, RanDid
  <2> QED
    BY <1>1, <2>1, <2>2, CodeCounts DEF CodeInv, CodeJudged, Did, Kept, SameVerdict
<1>3. ASSUME state.at = "model", NEW draft \in {"good", "empty", "unsafe"},
             state' = [Ran("InvokeCodingModel", "structure") EXCEPT !.draft = draft]
      PROVE  StateTypeOK' /\ CodeInv'
  <2> DEFINE ran == Ran("InvokeCodingModel", "structure")
  <2>1. /\ ran \in State /\ ran.at = "structure" /\ ran.steps = state.steps + 1
        /\ ran.nodes = state.nodes \cup {"InvokeCodingModel"} /\ ran.retry = state.retry
        /\ ran.repair = state.repair /\ ran.error = state.error
        /\ ran.citations = state.citations /\ ran.tools = state.tools
    BY <1>0, RanFacts DEF NodeNames, Places
  <2> HIDE DEF ran
  <2>2. /\ Did("InvokeCodingModel", "structure", state.repair)
        /\ state'.citations = state.citations /\ state'.tools = state.tools
    BY <1>3, <2>1 DEF ran, Did, State
  <2> QED
    BY <1>1, <1>3, <2>2, CodeCounts DEF CodeEdge, CodeInv, CodeJudged, Did
<1>4. CASE state.at = "model" /\ Crashes("model")
  <2>1. /\ StateTypeOK' /\ state'.at = "crashed" /\ state'.error = "model"
        /\ state'.steps = state.steps /\ SameLoops(state') /\ SameVerdict(state')
        /\ state'.tools = state.tools /\ state'.nodes = state.nodes
    BY <1>4, CrashedTyped DEF Errors
  <2>2. state.steps \in Nat /\ state'.repair \in 0..1
    BY <1>0, <2>1 DEF State, SameLoops
  <2>3. CodeCounted'
    BY <1>4, <2>1, <2>2 DEF CodeInv, CodeCounted, SameLoops, Before, Ended
  <2> QED
    BY <1>1, <2>1, <2>3 DEF CodeInv, CodeJudged, SameVerdict
<1>5. CASE /\ state.at = "structure"
           /\ state' = [Ran("StructurePatchOrAnswer", "check") EXCEPT !.answer = "draft"]
  <2> DEFINE ran == Ran("StructurePatchOrAnswer", "check")
  <2>1. /\ ran \in State /\ ran.at = "check" /\ ran.steps = state.steps + 1
        /\ ran.nodes = state.nodes \cup {"StructurePatchOrAnswer"}
        /\ ran.retry = state.retry
        /\ ran.repair = state.repair /\ ran.error = state.error
        /\ ran.citations = state.citations /\ ran.tools = state.tools
    BY <1>0, RanFacts DEF NodeNames, Places
  <2> HIDE DEF ran
  <2>2. /\ Did("StructurePatchOrAnswer", "check", state.repair)
        /\ state'.citations = state.citations /\ state'.tools = state.tools
        /\ state'.answer = "draft"
    BY <1>5, <2>1 DEF ran, Did, State, Texts
  <2> QED
    BY <1>1, <1>5, <2>2, CodeCounts, NoneAssumption
    DEF CodeEdge, CodeInv, CodeJudged, Did, Texts
<1>6. ASSUME state.at = "check", NEW next \in {"repair", "finalize"},
             NEW status \in {"success", "failed"},
             NEW failure \in {state.failure, "invalid_coding_output"},
             next = "repair" => state.repair = 0,
             next = "finalize" =>
                IF status = "success" THEN state.draft = "good"
                ELSE failure = "invalid_coding_output",
             state' = [Ran("CodingOutputCheck", "finalize") EXCEPT
                         !.at = next, !.status = status, !.failure = failure]
      PROVE  StateTypeOK' /\ CodeInv'
  <2> DEFINE ran == Ran("CodingOutputCheck", "finalize")
  <2>1. /\ ran \in State /\ ran.at = "finalize" /\ ran.steps = state.steps + 1
        /\ ran.nodes = state.nodes \cup {"CodingOutputCheck"} /\ ran.retry = state.retry
        /\ ran.repair = state.repair /\ ran.error = state.error
        /\ ran.citations = state.citations /\ ran.tools = state.tools
        /\ ran.answer = state.answer /\ ran.draft = state.draft
    BY <1>0, RanFacts DEF NodeNames, Places
  <2>a. next \in Places /\ failure \in Failures \cup {None}
    BY <1>0 DEF Places, Failures, State
  <2> HIDE DEF ran
  <2>2. /\ Did("CodingOutputCheck", next, state.repair)
        /\ state'.citations = state.citations /\ state'.tools = state.tools
        /\ state'.answer = state.answer /\ state'.draft = state.draft
        /\ state'.status = status /\ state'.failure = failure
    BY <1>6, <2>1, <2>a DEF ran, Did, State
  <2>3. CodeEdge("CodingOutputCheck", next, state.repair)
    BY <1>6 DEF CodeEdge
  <2>4. StateTypeOK' /\ CodeCounted'
    BY <2>2, <2>3, CodeCounts
  <2>5. CodeJudged'
    BY <1>1, <1>6, <2>2 DEF CodeInv, CodeJudged, Did
  <2> QED
    BY <2>4, <2>5 DEF CodeInv
<1>7. CASE /\ state.at = "check" /\ state.draft = "good"
           /\ state' = [Ran("CodingOutputCheck", "finalize") EXCEPT !.status = "success"]
  <2> DEFINE ran == Ran("CodingOutputCheck", "finalize")
  <2>1. ran \in State /\ ran.at = "finalize" /\ ran.failure = state.failure
    BY <1>0, RanFacts DEF NodeNames, Places
  <2> HIDE DEF ran
  <2>2. state' = [ran EXCEPT !.at = "finalize", !.status = "success",
                             !.failure = state.failure]
    BY <1>7, <2>1 DEF ran, State
  <2> QED
    BY <1>6, <1>7, <2>2 DEF ran
<1>8. CASE /\ state.at = "check" /\ state.repair < 1
           /\ state' = [Ran("CodingOutputCheck", "finalize") EXCEPT
                          !.at = "repair", !.status = "success"]
  <2> DEFINE ran == Ran("CodingOutputCheck", "finalize")
  <2>1. ran \in State /\ ran.failure = state.failure
    BY <1>0, RanFacts DEF NodeNames, Places
  <2> HIDE DEF ran
  <2>2. state' = [ran EXCEPT !.at = "repair", !.status = "success",
                             !.failure = state.failure]
    BY <1>8, <2>1 DEF ran, State
  <2> QED
    BY <1>0, <1>6, <1>8, <2>2 DEF ran
<1>9. CASE /\ state.at = "check" /\ state.draft # "good"
           /\ state' = [Ran("CodingOutputCheck", "finalize") EXCEPT
                          !.status = "failed", !.failure = "invalid_coding_output"]
  <2> DEFINE ran == Ran("CodingOutputCheck", "finalize")
  <2>1. ran \in State /\ ran.at = "finalize"
    BY <1>0, RanFacts DEF NodeNames, Places
  <2> HIDE DEF ran
  <2>2. state' = [ran EXCEPT !.at = "finalize", !.status = "failed",
                             !.failure = "invalid_coding_output"]
    BY <1>9, <2>1 DEF ran, State
  <2> QED
    BY <1>6, <1>9, <2>2 DEF ran
<1>10. ASSUME state.at = "repair", NEW instruction \in {"instructed", state.instruction},
              state' = [Ran("RepairStructuredOutput", "model") EXCEPT
                          !.repair = @ + 1, !.instruction = instruction]
       PROVE  StateTypeOK' /\ CodeInv'
  <2> DEFINE ran == Ran("RepairStructuredOutput", "model")
  <2>1. /\ ran \in State /\ ran.at = "model" /\ ran.steps = state.steps + 1
        /\ ran.nodes = state.nodes \cup {"RepairStructuredOutput"}
        /\ ran.retry = state.retry
        /\ ran.repair = state.repair /\ ran.error = state.error
        /\ ran.citations = state.citations /\ ran.tools = state.tools
    BY <1>0, RanFacts DEF NodeNames, Places
  <2>a. state.repair = 0 /\ instruction \in {None, "instructed"}
    BY <1>0, <1>10 DEF CodeInv, CodeCounted, State
  <2> HIDE DEF ran
  <2>b. state' = [ran EXCEPT !.repair = ran.repair + 1, !.instruction = instruction]
    BY <1>10 DEF ran
  <2>2. /\ Did("RepairStructuredOutput", "model", state.repair + 1)
        /\ state'.citations = state.citations /\ state'.tools = state.tools
    <3>1. ran.repair + 1 = 1 /\ 1 \in 0..1 /\ state.repair + 1 = 1
      BY <2>1, <2>a
    <3>2. state' = [ran EXCEPT !.repair = 1, !.instruction = instruction]
      BY <2>b, <3>1
    <3>3. state' \in State
      <4>1. ran \in State
        BY <2>1
      <4> DEFINE once == [ran EXCEPT !.repair = 1]
      <4>2. once \in State
        BY <4>1 DEF State
      <4>3. state' = [once EXCEPT !.instruction = instruction]
        BY <4>1, <3>2 DEF State
      <4> HIDE DEF once
      <4> QED
        BY <4>2, <4>3, <2>a DEF State
    <3>4. /\ state'.at = "model" /\ state'.steps = state.steps + 1
          /\ state'.retry = state.retry /\ state'.repair = 1 /\ state'.error = state.error
          /\ state'.nodes = state.nodes \cup {"RepairStructuredOutput"}
          /\ state'.citations = state.citations /\ state'.tools = state.tools
      BY <2>1, <3>2 DEF State
    <3> QED
      BY <3>1, <3>3, <3>4 DEF Did
  <2> QED
    BY <1>1, <1>10, <2>2, CodeCounts DEF CodeEdge, CodeInv, CodeJudged, Did
<1>11. CASE /\ state.at = "finalize"
            /\ state' = [Ran("Finalize", "end") EXCEPT
                           !.answer = IF @ = None THEN "notice" ELSE @]
  <2> DEFINE ran == Ran("Finalize", "end")
  <2>1. /\ ran \in State /\ ran.at = "end" /\ ran.steps = state.steps + 1
        /\ ran.nodes = state.nodes \cup {"Finalize"} /\ ran.retry = state.retry
        /\ ran.repair = state.repair /\ ran.error = state.error
        /\ ran.status = state.status /\ ran.failure = state.failure
        /\ ran.citations = state.citations /\ ran.tools = state.tools
        /\ ran.answer = state.answer /\ ran.draft = state.draft
    BY <1>0, RanFacts, Names DEF NodeNames
  <2> HIDE DEF ran
  <2>2. /\ Did("Finalize", "end", state.repair)
        /\ state'.citations = state.citations /\ state'.tools = state.tools
        /\ state'.status = state.status /\ state'.failure = state.failure
        /\ state'.draft = state.draft /\ state'.answer # None
    BY <1>11, <2>1, NoneAssumption DEF ran, Did, State, Texts
  <2> QED
    BY <1>1, <1>11, <2>2, CodeCounts DEF CodeEdge, CodeInv, CodeJudged, Did
<1> QED
  BY <1>2, <1>3, <1>4, <1>5, <1>7, <1>8, <1>9, <1>10, <1>11 DEF CodeSteps

LEMMA CodeKeeps ==
    ASSUME OrchInv, Code!Node, UNCHANGED <<documentVars, gatewayVars>>
    PROVE  OrchInv' /\ Codes /\ state.at # "end" /\ UNCHANGED <<request, serviceVars>>
<1>1. Codes /\ UNCHANGED <<request, serviceVars>> /\ CodeSteps
  BY CodeTakes DEF OrchInv
<1>2. StateTypeOK' /\ CodeInv' /\ state.at # "end"
  BY <1>1, CodeStepsKeep DEF OrchInv, CodeSteps
<1>3. ServiceTypeOK' /\ Recorded' /\ Honest'
  BY <1>1, RestMoves, MovesFit DEF OrchInv
<1>4. ~Questions /\ ~Generates /\ ~Writes
  BY <1>1, OneFlow DEF OrchInv, Agreed
<1> QED
  BY <1>1, <1>2, <1>3, <1>4, StepKeeps

--------------------------------------------------------------------------------
(* Documents: nodes that run alone *)

\* What the nodes may rely on.
LEMMA DocumentFacts ==
    ASSUME OrchInv, Writes
    PROVE  /\ state \in State /\ state.steps \in Nat /\ state.repair \in 0..1
           /\ (state.error # None) = (state.at = "crashed")
           /\ StateTypeOK /\ ServiceTypeOK /\ Recorded /\ Honest
           /\ request.granted \in SUBSET Tools
           /\ DocumentCounted /\ DocumentFits /\ ChildTyped /\ Borrowed /\ Inspected
           /\ ~Questions /\ ~Codes /\ ~Generates
  BY Asked, OneFlow DEF OrchInv, Agreed, StateTypeOK, State, DocumentInv

LEMMA NoChildAt == NoChild.at = "none"
  BY DEF NoChild, InitialState

\* The edges of the document graph.
DocumentEdge(node, next, repairs) ==
    \/ /\ state.at = "parse" /\ node = "ParseWritingTask" /\ next = "plan"
       /\ repairs = state.repair
    \/ /\ state.at = "plan" /\ node = "BuildDocumentPlan" /\ next = "need_knowledge"
       /\ repairs = state.repair
    \/ /\ state.at = "need_knowledge" /\ node = "NeedKnowledge"
       /\ next \in {"knowledge", "need_media"} /\ repairs = state.repair
    \/ /\ state.at = "knowledge" /\ node = "A2AKnowledgeRequest" /\ next = "need_media"
       /\ repairs = state.repair
    \/ /\ state.at = "need_media" /\ node = "NeedMedia" /\ next \in {"media", "compose"}
       /\ repairs = state.repair
    \/ /\ state.at = "media" /\ node = "A2AMediaRequest" /\ next = "compose"
       /\ repairs = state.repair
    \/ /\ state.at = "compose" /\ node = "ComposeDocument" /\ next = "inspect"
       /\ repairs = state.repair
    \/ /\ state.at = "inspect" /\ node = "InspectionToolCheck" /\ next = "verify"
       /\ repairs = state.repair
    \/ /\ state.at = "verify" /\ node = "DocumentVerification"
       /\ next = "finalize" \/ (next = "repair" /\ state.repair = 0)
       /\ repairs = state.repair
    \/ /\ state.at = "repair" /\ node = "RepairDocument" /\ next = "inspect"
       /\ repairs = state.repair + 1
    \/ /\ state.at = "finalize" /\ node = "Finalize" /\ next = "end"
       /\ repairs = state.repair

LEMMA DocumentCounts ==
    ASSUME OrchInv, Writes, NEW node, NEW next, NEW repairs,
           DocumentEdge(node, next, repairs), Did(node, next, repairs)
    PROVE  StateTypeOK' /\ DocumentCounted'
<1>1. StateTypeOK'
  BY DocumentFacts DEF Did, DocumentEdge, StateTypeOK
<1>2. DocumentCounted'
  BY DocumentFacts DEF Did, DocumentEdge, DocumentCounted, DocumentNodes, DocumentPath,
     Planning, Ended, Before
<1> QED
  BY <1>1, <1>2

\* A document crashes, in a node that has not yet run.
LEMMA DocumentCrashes ==
    ASSUME OrchInv, Writes, NEW error \in Errors, Crashes(error),
           state.at \in {"knowledge", "media", "compose", "inspect", "verify"}
    PROVE  /\ StateTypeOK' /\ DocumentCounted' /\ state'.at = "crashed"
           /\ state'.error = error /\ state'.citations = state.citations
           /\ state'.tools = state.tools /\ state'.inspected = state.inspected
<1>1. /\ StateTypeOK' /\ state'.at = "crashed" /\ state'.error = error
      /\ state'.steps = state.steps /\ SameLoops(state') /\ SameVerdict(state')
      /\ state'.tools = state.tools /\ state'.nodes = state.nodes
  BY DocumentFacts, CrashedTyped
<1>2. state'.inspected = state.inspected
  BY DocumentFacts DEF Crashes, State
<1>3. DocumentCounted'
  BY <1>1, DocumentFacts DEF DocumentCounted, DocumentNodes, SameLoops, Before, Ended
<1> QED
  BY <1>1, <1>2, <1>3 DEF SameVerdict

\* A node that awaits nothing has nothing under way.
LEMMA AloneFits ==
    ASSUME OrchInv, Writes, state.at \notin {"knowledge", "media", "inspect", "crashed"},
           UNCHANGED <<request, documentVars, serviceVars>>,
           state'.citations = state.citations
    PROVE  DocumentFits' /\ ChildTyped' /\ Borrowed'
<1>1. child = NoChild /\ Idle
  BY DocumentFacts DEF DocumentFits
<1>2. child' = NoChild /\ Idle' /\ 1 \in Slots
  BY <1>1, ToolServiceAssumption DEF documentVars, serviceVars, Idle, Slots
<1>3. DocumentFits' /\ ChildTyped'
  BY <1>2 DEF DocumentFits, ChildTyped, Idle, Awaits
<1>4. Borrowed'
  BY DocumentFacts DEF Borrowed, documentVars, serviceVars, Proven
<1> QED
  BY <1>3, <1>4

LEMMA AloneKeeps ==
    ASSUME OrchInv, Writes, state.at \notin {"knowledge", "media", "inspect", "end", "crashed"},
           UNCHANGED <<request, documentVars, serviceVars, gatewayVars>>,
           state'.citations = state.citations, StateTypeOK', DocumentCounted', Inspected'
    PROVE  OrchInv'
<1>1. ServiceTypeOK' /\ Recorded' /\ Honest'
  BY DocumentFacts, RestMoves, MovesFit
<1>2. DocumentInv'
  BY AloneFits DEF DocumentInv
<1> QED
  BY <1>1, <1>2, DocumentFacts, StepKeeps

LEMMA PlainDocument ==
    ASSUME OrchInv, UNCHANGED gatewayVars,
           ParseWritingTask \/ BuildDocumentPlan \/ NeedKnowledge \/ NeedMedia
    PROVE  OrchInv'
<1>1. Writes /\ UNCHANGED <<request, documentVars, serviceVars>>
  BY DEF ParseWritingTask, BuildDocumentPlan, NeedKnowledge, NeedMedia, Plain
<1>2. PICK node \in NodeNames, next \in Places :
         /\ DocumentEdge(node, next, state.repair) /\ state' = Ran(node, next)
         /\ state.at \in {"parse", "plan", "need_knowledge", "need_media"}
         /\ next \in {"plan", "need_knowledge", "knowledge", "need_media", "media", "compose"}
  <2>1. CASE ParseWritingTask
    BY <2>1 DEF ParseWritingTask, Plain, DocumentEdge, NodeNames, Places
  <2>2. CASE BuildDocumentPlan
    BY <2>2 DEF BuildDocumentPlan, Plain, DocumentEdge, NodeNames, Places
  <2>3. CASE NeedKnowledge
    BY <2>3 DEF NeedKnowledge, Plain, DocumentEdge, NodeNames, Places
  <2>4. CASE NeedMedia
    BY <2>4 DEF NeedMedia, Plain, DocumentEdge, NodeNames, Places
  <2> QED
    BY <2>1, <2>2, <2>3, <2>4
<1>3. Did(node, next, state.repair) /\ Kept /\ SameVerdict(state')
  BY <1>1, <1>2, DocumentFacts, RanDid
<1>4. StateTypeOK' /\ DocumentCounted'
  BY <1>1, <1>2, <1>3, DocumentCounts
<1>5. Inspected'
  BY <1>1, <1>2, <1>3, DocumentFacts DEF Did, Kept, Inspected, serviceVars, Proven
<1> QED
  BY <1>1, <1>2, <1>3, <1>4, <1>5, AloneKeeps DEF SameVerdict

LEMMA ComposeKeeps ==
    ASSUME OrchInv, UNCHANGED gatewayVars, ComposeDocument
    PROVE  OrchInv'
<1>1. Writes /\ state.at = "compose" /\ UNCHANGED <<request, documentVars, serviceVars>>
  BY DEF ComposeDocument
<1>2. CASE state' = [Ran("ComposeDocument", "inspect") EXCEPT !.answer = "document"]
  <2> DEFINE ran == Ran("ComposeDocument", "inspect")
  <2>1. /\ ran \in State /\ ran.at = "inspect" /\ ran.steps = state.steps + 1
        /\ ran.nodes = state.nodes \cup {"ComposeDocument"} /\ ran.retry = state.retry
        /\ ran.repair = state.repair /\ ran.error = state.error
        /\ ran.citations = state.citations /\ ran.tools = state.tools
        /\ ran.inspected = state.inspected
    BY <1>1, DocumentFacts, RanFacts DEF NodeNames, Places
  <2> HIDE DEF ran
  <2>2. /\ Did("ComposeDocument", "inspect", state.repair)
        /\ state'.citations = state.citations /\ state'.tools = state.tools
        /\ state'.inspected = state.inspected /\ state'.answer # None
    BY <1>2, <2>1, NoneAssumption DEF ran, Did, State, Texts
  <2>3. StateTypeOK' /\ DocumentCounted'
    BY <1>1, <2>2, DocumentCounts DEF DocumentEdge
  <2>4. Inspected'
    BY <1>1, <2>2, DocumentFacts DEF Did, Inspected, serviceVars, Proven
  <2> QED
    BY <1>1, <2>2, <2>3, <2>4, AloneKeeps
<1>3. CASE Crashes("model")
  <2>1. /\ StateTypeOK' /\ DocumentCounted' /\ state'.at = "crashed"
        /\ state'.error = "model" /\ state'.citations = state.citations
        /\ state'.tools = state.tools /\ state'.inspected = state.inspected
    BY <1>1, <1>3, DocumentCrashes DEF Errors
  <2>2. Inspected'
    BY <1>1, <2>1, DocumentFacts DEF Inspected, serviceVars, Proven
  <2> QED
    BY <1>1, <2>1, <2>2, AloneKeeps
<1> QED
  BY <1>2, <1>3 DEF ComposeDocument

LEMMA VerificationKeeps ==
    ASSUME OrchInv, UNCHANGED gatewayVars, DocumentVerification
    PROVE  OrchInv'
<1> DEFINE repairs == ~state.inspected /\ state.repair < 1
           next == IF repairs THEN "repair" ELSE "finalize"
           ran == Ran("DocumentVerification", next)
<1>1. /\ Writes /\ state.at = "verify" /\ UNCHANGED <<request, documentVars, serviceVars>>
      /\ \/ /\ KnowledgeFailed
            /\ state' = [ran EXCEPT !.status = "failed", !.failure = "knowledge_context_failed"]
         \/ /\ ~KnowledgeFailed /\ (state.inspected \/ repairs)
            /\ state' = [ran EXCEPT !.status = "success", !.failure = None]
         \/ /\ ~KnowledgeFailed /\ ~state.inspected
            /\ Crashes("type")
  BY DEF DocumentVerification
<1>2. next \in {"repair", "finalize"} /\ next \in Places
  BY DEF Places
<1>3. next = "repair" => state.repair = 0
  BY <1>1, DocumentFacts
<1>4. next = "finalize" /\ repairs => FALSE
  OBVIOUS
<1>5. /\ ran \in State /\ ran.at = next /\ ran.steps = state.steps + 1
      /\ ran.nodes = state.nodes \cup {"DocumentVerification"} /\ ran.retry = state.retry
      /\ ran.repair = state.repair /\ ran.error = state.error
      /\ ran.citations = state.citations /\ ran.tools = state.tools
      /\ ran.inspected = state.inspected /\ ran.answer = state.answer
  BY <1>1, <1>2, DocumentFacts, RanFacts DEF NodeNames
<1> HIDE DEF ran, next
<1>6. DocumentEdge("DocumentVerification", next, state.repair)
  BY <1>1, <1>2, <1>3 DEF DocumentEdge
<1>7. ASSUME NEW status \in {"success", "failed"}, NEW failure \in Failures \cup {None},
             state' = [ran EXCEPT !.status = status, !.failure = failure],
             IF KnowledgeFailed THEN status = "failed" /\ failure = "knowledge_context_failed"
             ELSE status = "success" /\ (state.inspected \/ repairs)
      PROVE  OrchInv'
  <2>1. /\ Did("DocumentVerification", next, state.repair)
        /\ state'.citations = state.citations /\ state'.tools = state.tools
        /\ state'.inspected = state.inspected /\ state'.answer = state.answer
        /\ state'.status = status /\ state'.failure = failure
    BY <1>5, <1>7 DEF Did, State
  <2>2. StateTypeOK' /\ DocumentCounted'
    BY <1>1, <1>6, <2>1, DocumentCounts
  <2>3. KnowledgeFailed' = KnowledgeFailed
    BY <1>1 DEF KnowledgeFailed, documentVars
  <2>4. Inspected'
    BY <1>1, <1>2, <1>4, <1>7, <2>1, <2>3, DocumentFacts DEF Did, Inspected, serviceVars, Proven
  <2> QED
    BY <1>1, <2>1, <2>2, <2>4, AloneKeeps
<1>8. CASE ~KnowledgeFailed /\ ~state.inspected /\ Crashes("type")
  <2>1. /\ StateTypeOK' /\ DocumentCounted' /\ state'.at = "crashed"
        /\ state'.error = "type" /\ state'.citations = state.citations
        /\ state'.tools = state.tools /\ state'.inspected = state.inspected
    BY <1>1, <1>8, DocumentCrashes DEF Errors
  <2>2. Inspected'
    BY <1>1, <1>8, <2>1, DocumentFacts DEF Inspected, serviceVars, Proven
  <2> QED
    BY <1>1, <2>1, <2>2, AloneKeeps
<1> QED
  BY <1>1, <1>7, <1>8 DEF Failures

LEMMA RepairKeeps ==
    ASSUME OrchInv, UNCHANGED gatewayVars, RepairDocument
    PROVE  OrchInv'
<1> DEFINE ran == Ran("RepairDocument", "inspect")
<1>1. /\ Writes /\ state.at = "repair" /\ UNCHANGED <<request, documentVars, serviceVars>>
      /\ state' = [ran EXCEPT !.repair = @ + 1]
  BY DEF RepairDocument
<1>2. /\ ran \in State /\ ran.at = "inspect" /\ ran.steps = state.steps + 1
      /\ ran.nodes = state.nodes \cup {"RepairDocument"} /\ ran.retry = state.retry
      /\ ran.repair = state.repair /\ ran.error = state.error
      /\ ran.citations = state.citations /\ ran.tools = state.tools
      /\ ran.inspected = state.inspected /\ ran.answer = state.answer
  BY <1>1, DocumentFacts, RanFacts DEF NodeNames, Places
<1> HIDE DEF ran
<1>3. ran.repair + 1 = 1 /\ state.repair + 1 = 1
  BY <1>1, <1>2, DocumentFacts DEF DocumentCounted
<1>4. state' = [ran EXCEPT !.repair = 1]
  BY <1>1, <1>3
<1>5. state' \in State
  <2>1. ran \in State
    BY <1>2
  <2> QED
    BY <1>4, <2>1 DEF State
<1>6. /\ state'.at = "inspect" /\ state'.steps = state.steps + 1
      /\ state'.retry = state.retry /\ state'.repair = 1 /\ state'.error = state.error
      /\ state'.nodes = state.nodes \cup {"RepairDocument"}
      /\ state'.citations = state.citations /\ state'.tools = state.tools
      /\ state'.inspected = state.inspected /\ state'.answer = state.answer
  BY <1>2, <1>4 DEF State
<1>7. Did("RepairDocument", "inspect", state.repair + 1)
  BY <1>3, <1>5, <1>6 DEF Did
<1>8. StateTypeOK' /\ DocumentCounted'
  BY <1>1, <1>7, DocumentCounts DEF DocumentEdge
<1>9. Inspected'
  BY <1>1, <1>6, DocumentFacts DEF Inspected, serviceVars, Proven
<1> QED
  BY <1>1, <1>6, <1>8, <1>9, AloneKeeps

LEMMA DocumentFinalizes ==
    ASSUME OrchInv, UNCHANGED gatewayVars, Finalize
    PROVE  OrchInv'
<1> DEFINE ran == Ran("Finalize", "end")
<1>1. /\ Writes /\ state.at = "finalize" /\ UNCHANGED <<request, documentVars, serviceVars>>
      /\ state' = [ran EXCEPT !.answer = IF @ = None THEN "notice" ELSE @]
  BY DEF Finalize, Final
<1>2. /\ ran \in State /\ ran.at = "end" /\ ran.steps = state.steps + 1
      /\ ran.nodes = state.nodes \cup {"Finalize"} /\ ran.retry = state.retry
      /\ ran.repair = state.repair /\ ran.error = state.error
      /\ ran.status = state.status /\ ran.failure = state.failure
      /\ ran.citations = state.citations /\ ran.tools = state.tools
      /\ ran.inspected = state.inspected
  BY <1>1, DocumentFacts, RanFacts, Names DEF NodeNames
<1> HIDE DEF ran
<1>3. /\ Did("Finalize", "end", state.repair)
      /\ state'.citations = state.citations /\ state'.tools = state.tools
      /\ state'.status = state.status /\ state'.failure = state.failure
      /\ state'.inspected = state.inspected /\ state'.answer # None
  BY <1>1, <1>2, NoneAssumption DEF Did, State, Texts
<1>4. StateTypeOK' /\ DocumentCounted'
  BY <1>1, <1>3, DocumentCounts DEF DocumentEdge
<1>5. KnowledgeFailed' = KnowledgeFailed
  BY <1>1 DEF KnowledgeFailed, documentVars
<1>6. Inspected'
  BY <1>1, <1>3, <1>5, DocumentFacts DEF Did, Inspected, serviceVars, Proven
<1> QED
  BY <1>1, <1>3, <1>4, <1>6, AloneKeeps

--------------------------------------------------------------------------------
(* Documents: the inspection *)

LEMMA InspectionSent ==
    ASSUME OrchInv, UNCHANGED gatewayVars, SendInspection
    PROVE  OrchInv' /\ Moves(KnowledgeTools \cup {"inspection_tool"})
<1>1. /\ Writes /\ Sends("inspect", "inspection_tool", None) /\ state.at = "inspect"
      /\ calls[1] = NoCall /\ UNCHANGED documentVars
  BY DEF SendInspection, Sends
<1>2. "inspection_tool" \in Tools
  BY DEF Tools, Scope
<1>3. Idle
  BY <1>1, DocumentFacts DEF DocumentFits, Awaits, Idle
<1>4. (\A tools : "inspection_tool" \in tools => Moves(tools)) /\ Awaits("inspection_tool")'
      /\ UNCHANGED state
  BY <1>1, <1>2, <1>3, DocumentFacts, SendsMoves
<1>5. /\ Moves(Tools) /\ Moves(KnowledgeTools \cup {"inspection_tool"})
      /\ UNCHANGED <<request, audit>>
  BY <1>2, <1>4 DEF Moves
<1>6. ServiceTypeOK' /\ Recorded' /\ Honest'
  BY <1>1, <1>5, DocumentFacts, MovesFit
<1>7. StateTypeOK' /\ DocumentCounted'
  BY <1>1, <1>4, DocumentFacts DEF StateTypeOK, DocumentCounted, Before
<1>8. child = NoChild
  BY <1>1, DocumentFacts DEF DocumentFits
<1>9. DocumentFits' /\ ChildTyped'
  BY <1>1, <1>4, <1>8 DEF DocumentFits, ChildTyped, documentVars
<1>10. Borrowed' /\ Inspected'
  BY <1>1, <1>4, <1>5, DocumentFacts DEF Borrowed, Inspected, documentVars, Proven, KnowledgeFailed
<1> QED
  BY <1>1, <1>5, <1>6, <1>7, <1>9, <1>10, DocumentFacts, StepKeeps DEF DocumentInv

\* An inspection that the job may ask for succeeds.
LEMMA InspectionKeeps ==
    ASSUME OrchInv, UNCHANGED gatewayVars, InspectionToolCheck
    PROVE  OrchInv' /\ Moves(KnowledgeTools \cup {"inspection_tool"})
<1> DEFINE ran == Ran("InspectionToolCheck", "verify")
           inspected == Succeeded(1) /\ calls[1].positive
<1>1. /\ Writes /\ Returned("inspect") /\ state.at = "inspect" /\ UNCHANGED documentVars
      /\ state' = [ran EXCEPT !.inspected = inspected, !.tools = @ \cup {"inspection_tool"}]
  BY DEF InspectionToolCheck, Returned
<1>2. Awaits("inspection_tool") /\ child = NoChild
  BY <1>1, DocumentFacts DEF DocumentFits
<1>3. /\ (\A tools : Moves(tools)) /\ Idle' /\ 1 \in Slots /\ calls[1] # NoCall
      /\ calls[1].at = "answered" /\ calls[1].tool = "inspection_tool"
  BY <1>1, <1>2, DocumentFacts, ReturnedMoves
<1>4. ServiceTypeOK' /\ Recorded' /\ Honest' /\ UNCHANGED <<request, audit>>
  BY <1>1, <1>3, DocumentFacts, MovesFit DEF Moves
<1>5. "inspection_tool" \in Tools /\ "inspection_tool" \notin KnowledgeTools
  BY DEF Tools, Scope, KnowledgeTools
<1>6. inspected => "inspection_tool" \in Proven
  BY <1>1, <1>3, <1>5, DocumentFacts DEF Recorded, Succeeded, Proven
<1>7. "inspection_tool" \in request.granted => inspected
  BY <1>1, <1>3, <1>5, DocumentFacts DEF Honest, Succeeded
<1>a. inspected \in BOOLEAN
  <2>1. calls[1].positive \in BOOLEAN
    BY <1>1, <1>3, DocumentFacts DEF ServiceTypeOK, Call
  <2> QED
    BY <2>1 DEF Succeeded
<1>8. /\ ran \in State /\ ran.at = "verify" /\ ran.steps = state.steps + 1
      /\ ran.nodes = state.nodes \cup {"InspectionToolCheck"} /\ ran.retry = state.retry
      /\ ran.repair = state.repair /\ ran.error = state.error
      /\ ran.citations = state.citations /\ ran.tools = state.tools
      /\ ran.answer = state.answer
  BY <1>1, DocumentFacts, RanFacts DEF NodeNames, Places
<1> HIDE DEF ran, inspected
<1>9. state' \in State /\ state'.inspected = inspected
  <2>1. ran \in State
    BY <1>8
  <2> QED
    BY <1>1, <1>a, <1>5, <2>1 DEF State
<1>10. /\ Did("InspectionToolCheck", "verify", state.repair)
       /\ state'.citations = state.citations
       /\ state'.tools = state.tools \cup {"inspection_tool"}
       /\ state'.answer = state.answer
  BY <1>1, <1>8, <1>9 DEF Did, State
<1>11. StateTypeOK' /\ DocumentCounted'
  BY <1>1, <1>10, DocumentCounts DEF DocumentEdge
<1>12. DocumentFits' /\ ChildTyped'
  BY <1>1, <1>2, <1>3, <1>10 DEF DocumentFits, ChildTyped, documentVars, Did
<1>13. Borrowed'
  BY <1>1, <1>4, <1>10, DocumentFacts DEF Borrowed, documentVars, Proven
<1>14. Inspected'
  <2>1. Proven' = Proven
    BY <1>4 DEF Proven
  <2> QED
    BY <1>1, <1>4, <1>6, <1>7, <1>9, <1>10, <2>1, DocumentFacts DEF Did, Inspected
<1> QED
  BY <1>1, <1>3, <1>4, <1>11, <1>12, <1>13, <1>14, DocumentFacts, StepKeeps DEF DocumentInv

--------------------------------------------------------------------------------
(* Documents: a workflow inside *)

\* What a workflow inside keeps of itself is enough for the document.
LEMMA ChildQAFacts ==
    ChildQuestionInv =>
        /\ child \in State /\ child.steps < RecursionLimit /\ child.error # "type"
        /\ (child.error # None) = (child.at = "crashed")
        /\ ServiceTypeOK
        /\ child.at \notin {"retrieve", "check", "aggregate", "crashed"} => Idle
<1> SUFFICES ASSUME ChildQuestionInv
             PROVE  /\ child \in State /\ child.steps < RecursionLimit /\ child.error # "type"
                    /\ (child.error # None) = (child.at = "crashed")
                    /\ ServiceTypeOK
                    /\ child.at \notin {"retrieve", "check", "aggregate", "crashed"} => Idle
  OBVIOUS
<1>1. ChildQA!StateTypeOK /\ ChildQA!ServiceTypeOK
  BY DEF ChildQuestionInv, ChildQA!QAInv, ChildQA!TypeOK
<1>2. child \in State /\ ServiceTypeOK /\ (child.error # None) = (child.at = "crashed")
  BY <1>1, ChildQATypes, ChildQAService DEF ChildQA!StateTypeOK
<1>3. child.steps < RecursionLimit
  <2>1. ChildQA!StepsBounded
    BY ChildQA!StaysBounded, ChildQAAssumed DEF ChildQuestionInv
  <2> QED
    BY <2>1 DEF ChildQA!StepsBounded, ChildQA!RecursionLimit, RecursionLimit
<1>4. child.error # "type"
  BY DEF ChildQuestionInv, ChildQA!Visited
<1>5. child.at \notin {"retrieve", "check", "aggregate", "crashed"} => Idle
  BY DEF ChildQuestionInv, ChildQA!QAInv, ChildQA!CallsFit, ChildQA!Slots, ChildQA!NoCall,
     Slots, NoCall, Idle
<1> QED
  BY <1>2, <1>3, <1>4, <1>5

LEMMA ChildMGFacts ==
    ChildMG!MediaInv =>
        /\ child \in State /\ child.steps < RecursionLimit /\ child.error # "type"
        /\ (child.error # None) = (child.at = "crashed")
        /\ ServiceTypeOK /\ Recorded /\ Honest
        /\ child.at \notin {"invoke", "crashed"} => Idle
        /\ MediaRequest.blocked => Idle
        /\ child.tools \subseteq Tools
<1> SUFFICES ASSUME ChildMG!MediaInv
             PROVE  /\ child \in State /\ child.steps < RecursionLimit /\ child.error # "type"
                    /\ (child.error # None) = (child.at = "crashed")
                    /\ ServiceTypeOK /\ Recorded /\ Honest
                    /\ child.at \notin {"invoke", "crashed"} => Idle
                    /\ MediaRequest.blocked => Idle
                    /\ child.tools \subseteq Tools
  OBVIOUS
<1>1. /\ ChildMG!StateTypeOK /\ ChildMG!ServiceTypeOK /\ ChildMG!Recorded
      /\ ChildMG!Honest /\ ChildMG!MediaCounted /\ ChildMG!MediaFits /\ ChildMG!MediaJudged
  BY DEF ChildMG!MediaInv
<1>2. /\ child \in State /\ (child.error # None) = (child.at = "crashed")
      /\ ServiceTypeOK /\ Recorded /\ Honest
  BY <1>1, ChildMGTypes, ChildMGService, ChildMGHonest DEF ChildMG!StateTypeOK
<1>3. child.steps < RecursionLimit
  <2>1. child.steps \in Nat /\ child.repair = 0
    BY <1>1, <1>2 DEF State, ChildMG!MediaCounted
  <2> QED
    BY <1>1, <2>1 DEF ChildMG!MediaCounted, ChildMG!Before, ChildMG!MediaNodes, ChildMG!Ended,
       RecursionLimit
<1>4. child.error # "type"
  BY <1>1 DEF ChildMG!MediaJudged
<1>5. /\ child.at \notin {"invoke", "crashed"} => Idle
      /\ MediaRequest.blocked => Idle
  BY <1>1, ChildMGService DEF ChildMG!MediaFits
<1>6. child.tools \subseteq Tools
  BY <1>2 DEF State
<1> QED
  BY <1>2, <1>3, <1>4, <1>5, <1>6

LEMMA ChildQATyped ==
    ChildQuestionInv /\ request \in Requests => ChildTyped /\ child # NoChild
<1> SUFFICES ASSUME ChildQuestionInv, request \in Requests
             PROVE  ChildTyped /\ child # NoChild
  OBVIOUS
<1>1. ChildQA!Corrective \/ ChildQA!Deep
  <2>1. request \in Asks
    BY Asked
  <2>2. KnowledgeRequest.flow \in {KnowledgeQA, LargeKnowledgeQA}
    BY <2>1 DEF Asks, KnowledgeRequest
  <2> QED
    BY <2>2 DEF ChildQA!Corrective, ChildQA!Deep, ChildQA!KnowledgeQA,
       ChildQA!LargeKnowledgeQA, KnowledgeQA, LargeKnowledgeQA
<1>2. child.at # "none"
  BY <1>1 DEF ChildQuestionInv, ChildQA!QAInv, ChildQA!Counted, ChildQA!CorrectiveNodes,
     ChildQA!DeepNodes, ChildQA!Ended
<1> QED
  BY <1>2, NoChildAt, ChildQAFacts DEF ChildTyped

LEMMA ChildMGTyped == ChildMG!MediaInv => ChildTyped /\ child # NoChild
<1> SUFFICES ASSUME ChildMG!MediaInv PROVE ChildTyped /\ child # NoChild
  OBVIOUS
<1>1. child.at # "none"
  BY DEF ChildMG!MediaInv, ChildMG!MediaCounted, ChildMG!MediaNodes, ChildMG!Ended
<1> QED
  BY <1>1, NoChildAt, ChildMGFacts DEF ChildTyped

\* A node in which a workflow runs goes on if that workflow does.
LEMMA InsideKeeps ==
    ASSUME OrchInv, Writes, state.at \in {"knowledge", "media"},
           UNCHANGED <<request, state, context, gatewayVars>>, audit \subseteq audit',
           ServiceTypeOK', Recorded', Honest',
           state.at = "knowledge" => ChildQuestionInv',
           state.at = "media" => ChildMG!MediaInv'
    PROVE  OrchInv'
<1>1. StateTypeOK' /\ DocumentCounted'
  BY DocumentFacts DEF StateTypeOK, DocumentCounted, Before
<1>2. ChildTyped' /\ child' # NoChild
  <2>1. (request \in Requests)'
    BY DEF OrchInv, Agreed
  <2>2. CASE state.at = "knowledge"
    <3>1. ChildTyped' /\ (child # NoChild)'
      BY <2>1, <2>2, ChildQATyped, PTL
    <3> QED
      BY <3>1 DEF NoChild, InitialState
  <2>3. CASE state.at = "media"
    <3>1. ChildTyped' /\ (child # NoChild)'
      BY <2>3, ChildMGTyped, PTL
    <3> QED
      BY <3>1 DEF NoChild, InitialState
  <2> QED
    BY <2>2, <2>3
<1>3. DocumentFits'
  <2>1. NoChild' = NoChild
    BY DEF NoChild, InitialState
  <2> QED
    BY <1>2, <2>1 DEF DocumentFits
<1>4. Proven \subseteq Proven'
  BY DEF Proven
<1>5. Borrowed' /\ Inspected'
  BY <1>4, DocumentFacts DEF Borrowed, Inspected
<1> QED
  BY <1>1, <1>2, <1>3, <1>5, DocumentFacts, StepKeeps DEF DocumentInv, documentVars

\* A workflow that begins inside a node.
Fresh ==
    /\ child = InitialState /\ request \in Requests
    /\ ServiceTypeOK /\ Recorded /\ Honest /\ Idle

LEMMA FreshQuestion == Fresh => ChildQuestionInv
<1> SUFFICES ASSUME Fresh PROVE ChildQuestionInv
  OBVIOUS
<1>1. ChildQA!ServiceTypeOK /\ ChildQA!Idle /\ child = ChildQA!InitialState
  BY ChildQAService DEF Fresh, InitialState, ChildQA!InitialState
<1>2. KnowledgeRequest \in Asks
  BY Asked DEF Fresh
<1> QED
  BY <1>1, <1>2, ChildQA!QABegins, ChildQAAssumed DEF ChildQuestionInv

LEMMA FreshPicture == Fresh => ChildMG!MediaInv
<1> SUFFICES ASSUME Fresh PROVE ChildMG!MediaInv
  OBVIOUS
<1>1. /\ ChildMG!ServiceTypeOK /\ ChildMG!Recorded /\ ChildMG!Honest /\ ChildMG!Idle
      /\ child = ChildMG!InitialState
  BY ChildMGService, ChildMGHonest DEF Fresh, InitialState, ChildMG!InitialState
<1>2. ChildMG!Generates /\ MediaRequest.granted \subseteq ChildMG!Tools
  BY Asked DEF Fresh, ChildMG!Generates, ChildMG!Media, Media, ChildMG!Tools, ChildMG!Scope,
     Tools, Scope
<1> QED
  BY <1>1, <1>2, ChildMG!MediaBegins, ChildMGAssumed

LEMMA ChildStarts ==
    ASSUME OrchInv, UNCHANGED gatewayVars, StartChild
    PROVE  OrchInv' /\ Moves(KnowledgeTools \cup {"inspection_tool"})
<1>1. /\ Writes /\ state.at \in {"knowledge", "media"} /\ child = NoChild
      /\ child' = InitialState /\ UNCHANGED <<request, state, context, serviceVars>>
  BY DEF StartChild
<1>2. Idle
  BY <1>1, DocumentFacts DEF DocumentFits
<1>3. /\ ServiceTypeOK' /\ Recorded' /\ Honest' /\ Idle' /\ UNCHANGED audit
      /\ Moves(KnowledgeTools \cup {"inspection_tool"})
  BY <1>1, <1>2, DocumentFacts, RestMoves, MovesFit DEF serviceVars
<1>4. Fresh'
  BY <1>1, <1>3 DEF OrchInv, Agreed, Fresh
<1>5. ChildQuestionInv' /\ ChildMG!MediaInv'
  BY <1>4, FreshQuestion, FreshPicture, PTL
<1> QED
  BY <1>1, <1>3, <1>5, InsideKeeps

LEMMA KnowledgeKeeps ==
    ASSUME OrchInv, UNCHANGED gatewayVars, KnowledgeRuns
    PROVE  OrchInv' /\ Moves(KnowledgeTools \cup {"inspection_tool"})
<1>1. /\ Writes /\ state.at = "knowledge" /\ UNCHANGED <<request, state, context>>
      /\ ChildQA!Node
  BY ChildQANodes DEF KnowledgeRuns
<1>2. child # NoChild
  BY <1>1, NoChildAt, ChildQA!NodeRuns, ChildQAAssumed
<1>3. ChildQuestionInv
  BY <1>1, <1>2, DocumentFacts DEF DocumentFits
<1>4. Moves(KnowledgeTools)
  BY <1>1, <1>3, ChildQA!NodeMoves, ChildQAMoves, ChildQAAssumed DEF ChildQuestionInv
<1>5. ServiceTypeOK' /\ Recorded' /\ Honest' /\ UNCHANGED audit
  BY <1>1, <1>4, DocumentFacts, MovesFit, KnownTools DEF Moves
<1>6. ChildQuestionInv'
  BY <1>1, <1>3, ChildQA!QAStep, ChildQA!VisitedStep, ChildQA!AsksStep, ChildQAAssumed
  DEF ChildQuestionInv, ChildQA!Next
<1> QED
  BY <1>1, <1>4, <1>5, <1>6, InsideKeeps DEF Moves

\* Without the answer of an illustration, nothing is awaited for a blocked prompt.
LEMMA PicturesKeep ==
    ASSUME OrchInv, UNCHANGED gatewayVars, PicturesRun
    PROVE  OrchInv' /\ UNCHANGED <<request, audit>> /\ (request.blocked => Idle')
<1>1. /\ Writes /\ state.at = "media" /\ UNCHANGED <<request, state, context>>
      /\ ChildMG!Node
  BY ChildMGNodes DEF PicturesRun
<1>2. child.at # "none" /\ UNCHANGED audit
  BY <1>1, ChildMG!NodeOwns, ChildMGAssumed
<1>3. ChildMG!MediaInv
  BY <1>1, <1>2, NoChildAt, DocumentFacts DEF DocumentFits
<1>4. ChildMG!MediaInv'
  BY <1>3, <1>1, ChildMG!MediaNode, ChildMGAssumed
<1>5. ServiceTypeOK' /\ Recorded' /\ Honest'
  <2>1. /\ ChildMG!ServiceTypeOK' /\ ChildMG!Recorded' /\ ChildMG!Honest'
    BY <1>4 DEF ChildMG!MediaInv
  <2> QED
    BY <2>1, ChildMGService, ChildMGHonest, PTL
<1>6. request.blocked => Idle'
  <2>1. request.blocked = MediaRequest.blocked /\ MediaRequest' = MediaRequest
    BY <1>1, Asked DEF OrchInv, Agreed, MediaRequest
  <2>2. MediaRequest.blocked => ChildMG!Idle'
    BY <1>4, <2>1 DEF ChildMG!MediaInv, ChildMG!MediaFits
  <2>3. ChildMG!Idle' => Idle'
    BY ChildMGService, PTL
  <2> QED
    BY <2>1, <2>2, <2>3
<1> QED
  BY <1>1, <1>2, <1>4, <1>5, <1>6, InsideKeeps

\* The document takes over what the knowledge workflow has cited: nothing, if that was
\* refused.
LEMMA KnowledgeTaken ==
    ASSUME OrchInv, UNCHANGED gatewayVars, A2AKnowledgeRequest
    PROVE  OrchInv' /\ UNCHANGED <<request, serviceVars>>
<1> DEFINE ran == Ran("A2AKnowledgeRequest", "need_media")
<1>1. /\ Writes /\ state.at = "knowledge" /\ child.at = "end"
      /\ state' = [ran EXCEPT !.citations = child.citations]
      /\ context' = [context EXCEPT !.status = child.status, !.refs = child.citations,
                                    !.tools = @ \cup child.tools]
      /\ child' = NoChild /\ UNCHANGED <<request, serviceVars>>
  BY DEF A2AKnowledgeRequest
<1>2. ChildQuestionInv
  BY <1>1, NoChildAt, DocumentFacts DEF DocumentFits
<1>3. child \in State /\ Idle
  BY <1>1, <1>2, ChildQAFacts
<1>4. /\ child.status \in {"success", "refused"}
      /\ (child.status = "success") = (child.citations # {})
      /\ child.status = "success" => KnowledgeTools \subseteq Proven
  <2>1. ChildQA!SuccessIsGrounded /\ ChildQA!QAInv
    BY <1>2, ChildQA!EndsGrounded, ChildQAAssumed DEF ChildQuestionInv
  <2>2. child.status \in {"success", "refused"}
    BY <1>1, <2>1 DEF ChildQA!QAInv, ChildQA!Grounded
  <2>3. ChildQA!Proven = Proven /\ ChildQA!KnowledgeTools = KnowledgeTools
    BY DEF ChildQA!Proven, Proven, ChildQA!Tools, Tools, ChildQA!Scope, Scope,
       ChildQA!KnowledgeTools, KnowledgeTools
  <2> QED
    BY <1>1, <2>1, <2>2, <2>3 DEF ChildQA!SuccessIsGrounded
<1>5. /\ ran \in State /\ ran.at = "need_media" /\ ran.steps = state.steps + 1
      /\ ran.nodes = state.nodes \cup {"A2AKnowledgeRequest"} /\ ran.retry = state.retry
      /\ ran.repair = state.repair /\ ran.error = state.error
      /\ ran.tools = state.tools /\ ran.inspected = state.inspected
  BY <1>1, DocumentFacts, RanFacts DEF NodeNames, Places
<1> HIDE DEF ran
<1>6. child.citations \in SUBSET Citable /\ child.tools \in SUBSET Tools
  BY <1>3 DEF State
<1>7. /\ Did("A2AKnowledgeRequest", "need_media", state.repair)
      /\ state'.citations = child.citations /\ state'.tools = state.tools
      /\ state'.inspected = state.inspected
  BY <1>1, <1>5, <1>6 DEF Did, State
<1>8. StateTypeOK' /\ DocumentCounted'
  BY <1>1, <1>7, DocumentCounts DEF DocumentEdge
<1>9. ServiceTypeOK' /\ Recorded' /\ Honest' /\ Idle'
  BY <1>1, <1>3, DocumentFacts, RestMoves, MovesFit
<1>10. DocumentFits' /\ ChildTyped'
  <2>1. NoChild' = NoChild
    BY DEF NoChild, InitialState
  <2> QED
    BY <1>1, <1>7, <1>9, <2>1 DEF DocumentFits, ChildTyped, Did
<1>11. Borrowed'
  <2>1. Proven' = Proven
    BY <1>1 DEF Proven, serviceVars
  <2>2. /\ context \in [status : {None, "success", "refused"}, refs : SUBSET Citable,
                        tools : SUBSET Tools]
    BY <1>1, DocumentFacts DEF Borrowed
  <2>3. /\ context' \in [status : {None, "success", "refused"}, refs : SUBSET Citable,
                         tools : SUBSET Tools]
        /\ context'.status = child.status /\ context'.refs = child.citations
    BY <1>1, <1>4, <1>6, <2>2
  <2> QED
    BY <1>4, <1>7, <2>1, <2>3 DEF Borrowed
<1>12. Inspected'
  <2>1. Proven' = Proven
    BY <1>1 DEF Proven, serviceVars
  <2> QED
    BY <1>1, <1>7, <2>1, DocumentFacts DEF Did, Inspected
<1> QED
  BY <1>1, <1>8, <1>9, <1>10, <1>11, <1>12, DocumentFacts, StepKeeps DEF DocumentInv

LEMMA PictureTaken ==
    ASSUME OrchInv, UNCHANGED gatewayVars, A2AMediaRequest
    PROVE  OrchInv' /\ UNCHANGED <<request, serviceVars>>
<1>1. /\ Writes /\ state.at = "media" /\ child.at = "end"
      /\ state' = Ran("A2AMediaRequest", "compose")
      /\ context' = [context EXCEPT !.tools = @ \cup child.tools]
      /\ child' = NoChild /\ UNCHANGED <<request, serviceVars>>
  BY DEF A2AMediaRequest
<1>2. ChildMG!MediaInv
  BY <1>1, NoChildAt, DocumentFacts DEF DocumentFits
<1>3. child.tools \subseteq Tools /\ Idle
  BY <1>1, <1>2, ChildMGFacts
<1>4. Did("A2AMediaRequest", "compose", state.repair) /\ Kept /\ SameVerdict(state')
  BY <1>1, DocumentFacts, RanDid DEF NodeNames, Places
<1>5. StateTypeOK' /\ DocumentCounted'
  BY <1>1, <1>4, DocumentCounts DEF DocumentEdge
<1>6. ServiceTypeOK' /\ Recorded' /\ Honest' /\ Idle'
  BY <1>1, <1>3, DocumentFacts, RestMoves, MovesFit
<1>7. DocumentFits' /\ ChildTyped'
  <2>1. NoChild' = NoChild
    BY DEF NoChild, InitialState
  <2> QED
    BY <1>1, <1>4, <1>6, <2>1 DEF DocumentFits, ChildTyped, Did
<1>8. Proven' = Proven
  BY <1>1 DEF Proven, serviceVars
<1>9. Borrowed'
  <2>1. /\ context \in [status : {None, "success", "refused"}, refs : SUBSET Citable,
                        tools : SUBSET Tools]
    BY <1>1, DocumentFacts DEF Borrowed
  <2>2. /\ context' \in [status : {None, "success", "refused"}, refs : SUBSET Citable,
                         tools : SUBSET Tools]
        /\ context'.status = context.status /\ context'.refs = context.refs
    BY <1>1, <1>3, <2>1
  <2> QED
    BY <1>1, <1>4, <1>8, <2>2, DocumentFacts DEF Borrowed, SameVerdict
<1>10. Inspected'
  BY <1>1, <1>4, <1>8, DocumentFacts DEF Did, Kept, Inspected
<1> QED
  BY <1>1, <1>5, <1>6, <1>7, <1>9, <1>10, DocumentFacts, StepKeeps DEF DocumentInv

\* The exceptions of a workflow inside are of calls, scores and models, and no joins.
LEMMA ChildCrashesKeeps ==
    ASSUME OrchInv, UNCHANGED gatewayVars, ChildCrashes
    PROVE  OrchInv' /\ UNCHANGED <<request, serviceVars>>
<1>1. /\ Writes /\ child.at = "crashed" /\ state.at \in {"knowledge", "media"}
      /\ Crashes(child.error) /\ UNCHANGED <<request, documentVars, serviceVars>>
  BY DEF ChildCrashes
<1>2. child # NoChild
  BY <1>1, NoChildAt
<1>3. child.error \in Errors /\ child.error # "type"
  <2>1. /\ child \in State /\ child.error # "type"
        /\ (child.error # None) = (child.at = "crashed")
    BY <1>1, <1>2, DocumentFacts, ChildQAFacts, ChildMGFacts DEF DocumentFits
  <2> QED
    BY <1>1, <2>1 DEF State
<1>4. /\ StateTypeOK' /\ DocumentCounted' /\ state'.at = "crashed"
      /\ state'.error = child.error /\ state'.citations = state.citations
      /\ state'.tools = state.tools /\ state'.inspected = state.inspected
  BY <1>1, <1>3, DocumentCrashes
<1>5. ServiceTypeOK' /\ Recorded' /\ Honest'
  BY <1>1, DocumentFacts, RestMoves, MovesFit
<1>6. DocumentFits' /\ ChildTyped'
  <2>1. NoChild' = NoChild
    BY DEF NoChild, InitialState
  <2> QED
    BY <1>1, <1>4, <2>1, DocumentFacts DEF DocumentFits, ChildTyped, documentVars
<1>7. Proven' = Proven
  BY <1>1 DEF Proven, serviceVars
<1>8. Borrowed' /\ Inspected'
  BY <1>1, <1>3, <1>4, <1>7, DocumentFacts DEF Borrowed, Inspected, documentVars
<1> QED
  BY <1>1, <1>4, <1>5, <1>6, <1>8, DocumentFacts, StepKeeps DEF DocumentInv

--------------------------------------------------------------------------------
(* Steps of the orchestrator *)

Unpictured == KnowledgeTools \cup {"inspection_tool"}

\* What a node does to the calls: it asks for no picture if the prompt is blocked.
Innocent == Moves(Unpictured) \/ UNCHANGED serviceVars \/ (request.blocked => Idle')

\* The nodes are those of documents that have not ended.
LEMMA DocumentRuns == Node => Writes /\ state.at \notin Ended /\ UNCHANGED request
  BY DEF Node, ParseWritingTask, BuildDocumentPlan, NeedKnowledge, StartChild, KnowledgeRuns,
     A2AKnowledgeRequest, NeedMedia, PicturesRun, A2AMediaRequest, ChildCrashes,
     ComposeDocument, SendInspection, InspectionToolCheck, DocumentVerification,
     RepairDocument, Finalize, Plain, Sends, Returned, Ended

LEMMA DocumentKeeps ==
    ASSUME OrchInv, Node, UNCHANGED gatewayVars
    PROVE  OrchInv' /\ Writes /\ state.at \notin Ended /\ UNCHANGED <<request, audit>> /\ Innocent
<1>1. Writes /\ state.at \notin Ended /\ UNCHANGED request
  BY DocumentRuns
<1>2. CASE ParseWritingTask \/ BuildDocumentPlan \/ NeedKnowledge \/ NeedMedia
  <2>1. UNCHANGED serviceVars
    BY <1>2 DEF ParseWritingTask, BuildDocumentPlan, NeedKnowledge, NeedMedia, Plain
  <2> QED
    BY <1>1, <1>2, <2>1, PlainDocument DEF Innocent, serviceVars
<1>3. CASE ComposeDocument \/ DocumentVerification \/ RepairDocument \/ Finalize
  <2>1. UNCHANGED serviceVars
    BY <1>3 DEF ComposeDocument, DocumentVerification, RepairDocument, Finalize
  <2> QED
    BY <1>1, <1>3, <2>1, ComposeKeeps, VerificationKeeps, RepairKeeps, DocumentFinalizes
    DEF Innocent, serviceVars
<1>4. CASE StartChild \/ KnowledgeRuns \/ SendInspection \/ InspectionToolCheck
  <2>1. OrchInv' /\ Moves(Unpictured)
    BY <1>4, ChildStarts, KnowledgeKeeps, InspectionSent, InspectionKeeps DEF Unpictured
  <2> QED
    BY <1>1, <2>1 DEF Innocent, Moves
<1>5. CASE PicturesRun
  BY <1>1, <1>5, PicturesKeep DEF Innocent
<1>6. CASE A2AKnowledgeRequest \/ A2AMediaRequest \/ ChildCrashes
  BY <1>1, <1>6, KnowledgeTaken, PictureTaken, ChildCrashesKeeps DEF Innocent, serviceVars
<1> QED
  BY <1>2, <1>3, <1>4, <1>5, <1>6 DEF Node

LEMMA WorkKeeps ==
    ASSUME OrchInv, Work
    PROVE  OrchInv' /\ state.at # "end" /\ UNCHANGED <<request, audit>> /\ Innocent
<1>1. CASE Answers!Node /\ UNCHANGED <<documentVars, gatewayVars>>
  <2>1. OrchInv' /\ Moves(KnowledgeTools) /\ state.at # "end"
    BY <1>1, AnswersKeep
  <2> QED
    BY <2>1 DEF Moves, Innocent, Unpictured
<1>2. CASE Generation!Node /\ UNCHANGED <<documentVars, gatewayVars>>
  BY <1>2, GenerationKeeps DEF Innocent
<1>3. CASE Code!Node /\ UNCHANGED <<documentVars, gatewayVars>>
  BY <1>3, CodeKeeps DEF Innocent, serviceVars
<1>4. CASE Node /\ UNCHANGED gatewayVars
  BY <1>4, DocumentKeeps DEF Ended
<1> QED
  BY <1>1, <1>2, <1>3, <1>4 DEF Work

\* The tool service goes on with the call of a node, alone or of the workflow inside it.
LEMMA DocumentServed ==
    ASSUME OrchInv, Writes, ToolServiceStep
    PROVE  OrchInv'
<1>1. /\ ServiceStep /\ Serve /\ UNCHANGED <<request, state, documentVars, gatewayVars>>
  BY DEF ToolServiceStep, ServiceStep
<1>2. Serves
  BY <1>1, ServeServes, DocumentFacts
<1>3. ServiceTypeOK' /\ Recorded' /\ audit \subseteq audit' /\ Honest'
  BY <1>1, <1>2, ServeHonest, DocumentFacts DEF Serves
<1>4. state.at # "end" /\ ~Idle
  BY <1>1, EndRests, IdleServes
<1>5. CASE state.at \in {"knowledge", "media"}
  <2>1. child # NoChild /\ UNCHANGED child
    BY <1>1, <1>4, <1>5, DocumentFacts DEF DocumentFits, documentVars
  <2>2. CASE state.at = "knowledge"
    <3>1. ChildQuestionInv /\ ChildQA!Next
      BY <1>1, <2>1, <2>2, ChildQASteps, DocumentFacts DEF DocumentFits, ChildQA!Next
    <3>2. ChildQuestionInv'
      BY <3>1, ChildQA!QAStep, ChildQA!VisitedStep, ChildQA!AsksStep, ChildQAAssumed
      DEF ChildQuestionInv
    <3> QED
      BY <1>1, <1>3, <2>2, <3>2, InsideKeeps DEF documentVars
  <2>3. CASE state.at = "media"
    <3>1. ChildMG!MediaInv /\ ChildMG!ServiceStep
      BY <1>1, <2>1, <2>3, ChildMGSteps, DocumentFacts DEF DocumentFits
    <3>2. ChildMG!MediaInv'
      BY <3>1, ChildMG!MediaServed, ChildMGAssumed
    <3> QED
      BY <1>1, <1>3, <2>3, <3>2, InsideKeeps DEF documentVars
  <2> QED
    BY <1>5, <2>2, <2>3
<1>6. CASE state.at \notin {"knowledge", "media"}
  <2>1. StateTypeOK' /\ DocumentCounted'
    BY <1>1, DocumentFacts DEF StateTypeOK, DocumentCounted, Before
  <2>2. DocumentFits' /\ ChildTyped'
    <3>1. NoChild' = NoChild
      BY DEF NoChild, InitialState
    <3>2. Awaits("inspection_tool") => Awaits("inspection_tool")'
      BY <1>2, ServeAwaits
    <3> QED
      BY <1>1, <1>4, <1>6, <3>1, <3>2, DocumentFacts
      DEF DocumentFits, ChildTyped, documentVars
  <2>3. Borrowed' /\ Inspected'
    <3>1. Proven \subseteq Proven'
      BY <1>3 DEF Proven
    <3> QED
      BY <1>1, <3>1, DocumentFacts DEF Borrowed, Inspected, documentVars, KnowledgeFailed
  <2> QED
    BY <1>1, <1>3, <1>4, <2>1, <2>2, <2>3, DocumentFacts, StepKeeps DEF DocumentInv
<1> QED
  BY <1>5, <1>6

LEMMA ServiceKeeps == OrchInv /\ ToolServiceStep => OrchInv'
<1> SUFFICES ASSUME OrchInv, ToolServiceStep PROVE OrchInv'
  OBVIOUS
<1>1. /\ ServiceStep /\ Serve /\ UNCHANGED <<request, state, documentVars, gatewayVars>>
  BY DEF ToolServiceStep, ServiceStep
<1>2. Serves
  BY <1>1, ServeServes DEF OrchInv
<1>3. ServiceTypeOK' /\ Recorded' /\ Honest' /\ StateTypeOK'
  BY <1>1, <1>2, ServeHonest DEF OrchInv, Serves, StateTypeOK
<1>4. state.at # "end" /\ ~Idle
  BY <1>1, EndRests, IdleServes
<1>5. CASE Questions
  <2>1. QuestionInv /\ QA!Next
    BY <1>1, <1>5, QASteps DEF OrchInv, QA!Next
  <2>2. QuestionInv'
    BY <2>1, QA!QAStep, QA!VisitedStep, QA!AsksStep, QAAssumed DEF QuestionInv
  <2> QED
    BY <1>1, <1>3, <1>4, <1>5, <2>2, OneFlow, StepKeeps DEF OrchInv, Agreed
<1>6. CASE Codes
  BY <1>4, <1>6 DEF OrchInv, CodeInv, CodeJudged
<1>7. CASE Generates
  <2>1. MG!MediaInv'
    BY <1>1, <1>7, MGSteps, MG!MediaServed, MGAssumed DEF OrchInv
  <2> QED
    BY <1>1, <1>3, <1>4, <1>7, <2>1, OneFlow, StepKeeps DEF OrchInv, Agreed
<1>8. CASE Writes
  BY <1>8, DocumentServed
<1> QED
  BY <1>5, <1>6, <1>7, <1>8, OneFlow DEF OrchInv, Agreed

\* A call raises in the workflow inside a document: of pictures too, whose graph sees the
\* same exception.
LEMMA PictureRaises == Knowledge!ClientRaises => ChildMG!ClientRaises
  BY DEF Knowledge!ClientRaises, ChildMG!ClientRaises, Knowledge!Ended, ChildMG!Ended,
     Knowledge!Slots, ChildMG!Slots, Knowledge!Crashes, ChildMG!Crashes,
     Knowledge!serviceVars, ChildMG!serviceVars, KnowledgeRequest, MediaRequest

LEMMA DocumentRaises ==
    ASSUME OrchInv, DocumentClientRaises, UNCHANGED gatewayVars
    PROVE  OrchInv' /\ UNCHANGED <<request, serviceVars>> /\ state.at \notin Ended
<1>1. Writes
  BY DEF DocumentClientRaises
<1>2. CASE /\ state.at \in {"knowledge", "media"} /\ child # NoChild
           /\ UNCHANGED <<request, state, context>> /\ Knowledge!ClientRaises
  <2>1. UNCHANGED serviceVars /\ state.at \notin Ended
    BY <1>2 DEF Knowledge!ClientRaises, Knowledge!serviceVars, serviceVars, Ended
  <2>2. ServiceTypeOK' /\ Recorded' /\ Honest' /\ audit \subseteq audit'
    BY <1>1, <1>2, <2>1, DocumentFacts, RestMoves, MovesFit DEF serviceVars
  <2>3. state.at = "knowledge" => ChildQuestionInv'
    <3> SUFFICES ASSUME state.at = "knowledge" PROVE ChildQuestionInv'
      OBVIOUS
    <3>1. ChildQuestionInv /\ ChildQA!Next
      BY <1>1, <1>2, ChildQASteps, DocumentFacts DEF DocumentFits, ChildQA!Next
    <3> QED
      BY <3>1, ChildQA!QAStep, ChildQA!VisitedStep, ChildQA!AsksStep, ChildQAAssumed
      DEF ChildQuestionInv
  <2>4. state.at = "media" => ChildMG!MediaInv'
    <3> SUFFICES ASSUME state.at = "media" PROVE ChildMG!MediaInv'
      OBVIOUS
    <3>1. ChildMG!MediaInv /\ ChildMG!ClientRaises
      BY <1>1, <1>2, PictureRaises, DocumentFacts DEF DocumentFits
    <3> QED
      BY <3>1, ChildMG!MediaRaises, ChildMGAssumed
  <2> QED
    BY <1>1, <1>2, <2>1, <2>2, <2>3, <2>4, InsideKeeps
<1>3. CASE state.at = "inspect" /\ ClientRaises /\ UNCHANGED documentVars
  <2>1. Crashes("client") /\ UNCHANGED <<request, serviceVars>> /\ state.at \notin Ended
    BY <1>3 DEF ClientRaises
  <2>2. "client" \in Errors /\ "client" # "type"
    BY DEF Errors
  <2>3. /\ StateTypeOK' /\ DocumentCounted' /\ state'.at = "crashed"
        /\ state'.error = "client" /\ state'.citations = state.citations
        /\ state'.tools = state.tools /\ state'.inspected = state.inspected
    BY <1>1, <1>3, <2>1, <2>2, DocumentCrashes
  <2>4. ServiceTypeOK' /\ Recorded' /\ Honest'
    BY <1>1, <2>1, DocumentFacts, RestMoves, MovesFit
  <2>5. DocumentFits' /\ ChildTyped'
    <3>1. NoChild' = NoChild
      BY DEF NoChild, InitialState
    <3> QED
      BY <1>1, <1>3, <2>3, <3>1, DocumentFacts DEF DocumentFits, ChildTyped, documentVars
  <2>6. Borrowed' /\ Inspected'
    BY <1>1, <1>3, <2>1, <2>2, <2>3, DocumentFacts
    DEF Borrowed, Inspected, documentVars, Proven, serviceVars
  <2> QED
    BY <1>1, <1>3, <2>1, <2>3, <2>4, <2>5, <2>6, DocumentFacts, StepKeeps
    DEF DocumentInv, Ended
<1> QED
  BY <1>2, <1>3 DEF DocumentClientRaises

LEMMA RaisesKeep ==
    ASSUME OrchInv, Raises
    PROVE  OrchInv' /\ UNCHANGED <<request, serviceVars>> /\ state.at \notin Ended
<1>1. CASE DocumentClientRaises /\ UNCHANGED gatewayVars
  BY <1>1, DocumentRaises
<1>2. CASE ~Writes /\ ClientRaises /\ UNCHANGED <<documentVars, gatewayVars>>
  <2>1. /\ Crashes("client") /\ UNCHANGED <<request, serviceVars>> /\ state.at \notin Ended
        /\ ~Idle /\ "client" \in Errors
    BY <1>2 DEF ClientRaises, Idle, NoCall, Errors
  <2>2. ServiceTypeOK' /\ Recorded' /\ Honest' /\ StateTypeOK'
    BY <2>1, RestMoves, MovesFit, CrashedTyped DEF OrchInv
  <2>3. CASE Questions
    <3>1. QuestionInv /\ QA!Next
      BY <1>2, <2>3, QASteps DEF OrchInv, QA!Next
    <3>2. QuestionInv'
      BY <3>1, QA!QAStep, QA!VisitedStep, QA!AsksStep, QAAssumed DEF QuestionInv
    <3> QED
      BY <1>2, <2>1, <2>2, <2>3, <3>2, OneFlow, StepKeeps DEF OrchInv, Agreed, Ended
  <2>4. CASE Codes
    BY <2>1, <2>4 DEF OrchInv, CodeInv, CodeJudged
  <2>5. CASE Generates
    <3>1. MG!MediaInv'
      BY <1>2, <2>5, MGSteps, MG!MediaRaises, MGAssumed DEF OrchInv
    <3> QED
      BY <1>2, <2>1, <2>2, <2>5, <3>1, OneFlow, StepKeeps DEF OrchInv, Agreed, Ended
  <2> QED
    BY <1>2, <2>3, <2>4, <2>5, OneFlow DEF OrchInv, Agreed
<1> QED
  BY <1>1, <1>2 DEF Raises

\* What is left as it was keeps the invariants of the workflows.
LEMMA RestKeeps ==
    ASSUME OrchInv, UNCHANGED <<request, state, serviceVars, documentVars, kind, contract>>,
           Judged'
    PROVE  OrchInv'
<1>1. /\ Questions' = Questions /\ Codes' = Codes /\ Generates' = Generates
      /\ Writes' = Writes /\ NoChild' = NoChild /\ NoContext' = NoContext
  BY DEF Questions, Codes, Generates, Writes, NoChild, InitialState, NoContext
<1>2. Agreed' /\ StateTypeOK' /\ (Idle => Idle')
  BY <1>1 DEF OrchInv, Agreed, StateTypeOK, serviceVars, Idle
<1>3. ServiceTypeOK' /\ Recorded' /\ Honest'
  BY RestMoves, MovesFit DEF OrchInv
<1>4. Questions => QuestionInv'
  <2>1. UNCHANGED QA!vars
    BY DEF QA!vars, QA!serviceVars, serviceVars
  <2> QED
    BY <2>1, QA!QAStep, QA!VisitedStep, QA!AsksStep, QAAssumed DEF OrchInv, QuestionInv
<1>5. Codes => CodeInv'
  BY <1>2 DEF OrchInv, CodeInv, CodeCounted, CodeJudged, Before
<1>6. Generates => MG!MediaInv'
  <2>1. UNCHANGED <<request, state, MG!serviceVars>>
    BY DEF MG!serviceVars, serviceVars
  <2> QED
    BY <2>1, MG!MediaRests, MGAssumed DEF OrchInv
<1>7. Writes => DocumentInv'
  <2> SUFFICES ASSUME Writes PROVE DocumentInv'
    OBVIOUS
  <2>1. DocumentCounted' /\ ChildTyped' /\ Borrowed' /\ Inspected'
    BY <1>1, DocumentFacts DEF DocumentCounted, Before, ChildTyped, Borrowed, Inspected, Proven,
       KnowledgeFailed, documentVars, serviceVars
  <2>2. state.at = "knowledge" /\ child # NoChild => ChildQuestionInv'
    <3>1. UNCHANGED ChildQA!vars
      BY DEF ChildQA!vars, ChildQA!serviceVars, serviceVars, documentVars, KnowledgeRequest
    <3> QED
      BY <3>1, ChildQA!QAStep, ChildQA!VisitedStep, ChildQA!AsksStep, ChildQAAssumed,
         DocumentFacts DEF DocumentFits, ChildQuestionInv
  <2>3. state.at = "media" /\ child # NoChild => ChildMG!MediaInv'
    <3>1. UNCHANGED <<MediaRequest, child, ChildMG!serviceVars>>
      BY DEF ChildMG!serviceVars, serviceVars, documentVars, MediaRequest
    <3> QED
      BY <3>1, ChildMG!MediaRests, ChildMGAssumed, DocumentFacts DEF DocumentFits
  <2>4. Awaits("inspection_tool") => Awaits("inspection_tool")'
    BY DEF Awaits, serviceVars
  <2>5. DocumentFits'
    BY <1>1, <1>2, <2>2, <2>3, <2>4, DocumentFacts DEF DocumentFits, documentVars
  <2> QED
    BY <2>1, <2>5 DEF DocumentInv
<1> QED
  BY <1>1, <1>2, <1>3, <1>4, <1>5, <1>6, <1>7 DEF OrchInv, documentVars

LEMMA VerifyKeeps == OrchInv /\ Verify => OrchInv'
<1> SUFFICES ASSUME OrchInv, Verify PROVE OrchInv'
  OBVIOUS
<1>1. /\ state.at = "end"
      /\ verdict' = IF Accepts(contract, state, Proven) THEN "passed" ELSE "failed"
      /\ UNCHANGED <<request, state, serviceVars, documentVars, kind, contract>>
  BY DEF Verify
<1>2. Accepts(contract, state, Proven)' = Accepts(contract, state, Proven)
  BY <1>1 DEF Accepts, Proven, serviceVars
<1>3. Judged'
  BY <1>1, <1>2, VerdictAssumption DEF Judged
<1> QED
  BY <1>1, <1>3, RestKeeps

LEMMA OrchStep == OrchInv /\ [Next]_vars => OrchInv'
<1> SUFFICES ASSUME OrchInv, [Next]_vars PROVE OrchInv'
  OBVIOUS
<1>1. CASE UNCHANGED vars
  <2>1. UNCHANGED <<request, state, serviceVars, documentVars, kind, contract, verdict>>
    BY <1>1 DEF vars, gatewayVars
  <2>2. Judged'
    BY <2>1 DEF OrchInv, Judged, Accepts, Proven, serviceVars
  <2> QED
    BY <2>1, <2>2, RestKeeps
<1>2. CASE Work
  BY <1>2, WorkKeeps
<1>3. CASE Raises
  BY <1>3, RaisesKeep
<1>4. CASE ToolServiceStep
  BY <1>4, ServiceKeeps
<1>5. CASE Verify
  BY <1>5, VerifyKeeps
<1> QED
  BY <1>1, <1>2, <1>3, <1>4, <1>5 DEF Next

LEMMA OrchInvariant == Spec => []OrchInv
<1>1. Init => OrchInv
  BY OrchInit
<1> QED
  BY <1>1, OrchStep, PTL DEF Spec

--------------------------------------------------------------------------------
(* What is on record *)

LEMMA NoPictureStep == OrchInv /\ NoPicture /\ [Next]_vars => NoPicture'
<1> SUFFICES ASSUME OrchInv, NoPicture, [Next]_vars PROVE NoPicture'
  OBVIOUS
<1>1. CASE UNCHANGED vars \/ Raises \/ Verify
  <2>1. UNCHANGED <<request, serviceVars>>
    BY <1>1, RaisesKeep DEF vars, Verify
  <2> QED
    BY <2>1 DEF NoPicture, serviceVars, Proven
<1>2. CASE Work
  <2>1. UNCHANGED <<request, audit>> /\ Innocent
    BY <1>2, WorkKeeps
  <2>2. None \notin PictureTools /\ Unpictured \cap PictureTools = {}
    BY ToolServiceAssumption DEF PictureTools, Unpictured, KnowledgeTools, Tools, Scope
  <2>3. CASE UNCHANGED serviceVars
    BY <2>1, <2>3 DEF NoPicture, serviceVars, Proven
  <2>4. CASE request.blocked => Idle'
    BY <2>1, <2>2, <2>4 DEF NoPicture, Proven, Idle, NoCall
  <2>5. CASE Moves(Unpictured)
    <3>1. ASSUME NEW t, NEW query, NEW s \in Slots,
                 calls'[s] = Posted(t, query, request.granted)
          PROVE  calls'[s].tool = t
      BY <3>1 DEF Posted, NoCall
    <3> QED
      BY <2>1, <2>2, <2>5, <3>1 DEF Moves, NoPicture, Proven, NoCall
  <2> QED
    BY <2>1, <2>3, <2>4, <2>5 DEF Innocent
<1>3. CASE ToolServiceStep
  <2>1. Serve /\ Serves /\ UNCHANGED request
    BY <1>3, ServeServes DEF ToolServiceStep, ServiceStep, OrchInv
  <2>2. \/ UNCHANGED audit
        \/ \E s \in Slots, status \in ToolStatuses :
              audit' = audit \cup {<<calls[s].tool, status>>}
    BY <2>1, AuditGrows DEF OrchInv
  <2>3. request.blocked => Proven' \cap PictureTools = {}
    BY <2>2 DEF NoPicture, Proven
  <2> QED
    BY <2>1, <2>3 DEF NoPicture, Serves
<1> QED
  BY <1>1, <1>2, <1>3 DEF Next

\* The success of a media tool is on record before its answer is read, and only then.
LEMMA UnprovenServed ==
    ASSUME OrchInv, Unproven, Generates, ToolServiceStep
    PROVE  Unproven'
<1>1. /\ Serve /\ Serves /\ UNCHANGED <<request, state>> /\ MG!MediaInv
      /\ MG!TargetTool' = MG!TargetTool
  BY ServeServes DEF ToolServiceStep, ServiceStep, OrchInv, MG!TargetTool
<1>2. Generates' /\ Awaits(MG!TargetTool)'
  BY <1>1, ServeAwaits DEF Unproven, Generates
<1>3. state.at \in {"invoke", "crashed"}
  BY <1>1, MGService, IdleServes DEF MG!MediaInv, MG!MediaFits
<1>4. CASE UNCHANGED audit
  <2>1. Proven' = Proven
    BY <1>4 DEF Proven
  <2>2. CASE state.at = "invoke" /\ MG!TargetTool \in Proven
    <3>1. calls[1].at = "answered"
      BY <2>2 DEF Unproven
    <3>2. PICK s \in Slots : calls[s].at = "sent" \/ calls[s].at = "executing"
      BY <1>1 DEF Serve, Receive, Execute
    <3>3. s = 1
      BY <3>2 DEF Unproven, Awaits, NoCall
    <3> QED
      BY <3>1, <3>2, <3>3
  <2> QED
    BY <1>1, <1>2, <1>3, <2>1, <2>2 DEF Unproven
<1>5. ASSUME NEW s \in Slots, NEW status \in ToolStatuses, calls[s] # NoCall,
             audit' = audit \cup {<<calls[s].tool, status>>},
             calls'[s].at = "answered", calls'[s].status = status
      PROVE  Unproven'
  <2>1. s = 1 /\ calls[s].tool = MG!TargetTool
    BY <1>5 DEF Unproven, Awaits
  <2>2. Proven' \subseteq {MG!TargetTool}
    BY <1>5, <2>1 DEF Unproven, Proven
  <2>3. CASE state.at = "crashed"
    BY <1>1, <1>2, <2>2, <2>3 DEF Unproven
  <2>4. CASE state.at = "invoke"
    <3>1. PICK r \in Slots : calls[r].at = "sent" \/ calls[r].at = "executing"
      BY <1>1 DEF Serve, Receive, Execute
    <3>2. r = 1
      BY <3>1 DEF Unproven, Awaits, NoCall
    <3>3. MG!TargetTool \notin Proven
      BY <2>4, <3>1, <3>2 DEF Unproven
    <3>4. MG!TargetTool \in Proven' => status = "success"
      BY <1>5, <3>3 DEF Proven
    <3> QED
      BY <1>1, <1>2, <1>5, <2>1, <2>2, <2>4, <3>4 DEF Unproven
  <2> QED
    BY <1>3, <2>3, <2>4
<1> QED
  BY <1>1, <1>4, <1>5, AuditGrows DEF OrchInv

LEMMA UnprovenRuns ==
    ASSUME OrchInv, OrchInv', Unproven, Generates, MG!Node
    PROVE  Unproven'
<1>1. /\ UNCHANGED <<request, audit>> /\ MG!MediaInv /\ MG!MediaInv' /\ Generates'
      /\ MG!TargetTool' = MG!TargetTool /\ Proven' = Proven
  BY MG!NodeOwns, MGAssumed DEF OrchInv, Generates, MG!TargetTool, Proven
<1>2. /\ state \in State /\ state.error = None /\ state.at # "crashed"
  BY MG!NodeOwns, MGAssumed DEF OrchInv, StateTypeOK, MG!Ended
<1>3. Awaits(MG!TargetTool)'
  <2>1. state'.at # "crashed"
    BY <1>1, <1>2
    DEF MG!Node, MG!ParseMediaRequest, MG!PromptSafetyCheck, MG!BuildGenerationParams,
        MG!SendPrompt, MG!InvokeMediaBackend, MG!AssetMetadataBuild, MG!MediaOutputCheck,
        MG!Finalize, MG!Plain, MG!Sends, MG!Ran, State
  <2>2. CASE state'.at = "invoke"
    <3>1. MG!Awaits(MG!TargetTool)'
      BY <1>1, <2>2 DEF MG!MediaInv, MG!MediaFits
    <3> QED
      BY <3>1 DEF MG!Awaits, Awaits, MG!Slots, Slots, MG!NoCall, NoCall
  <2>3. CASE state'.at # "invoke"
    <3>1. MG!Idle' /\ 1 \in Slots
      BY <1>1, <2>1, <2>3, ToolServiceAssumption DEF MG!MediaInv, MG!MediaFits, Slots
    <3> QED
      BY <3>1 DEF MG!Idle, Awaits, MG!Slots, Slots, MG!NoCall, NoCall
  <2> QED
    BY <2>2, <2>3
<1>4. ASSUME MG!TargetTool \in Proven
      PROVE  state'.at \in {"asset", "check", "finalize", "end"} /\ state'.failure = None
  <2>1. \/ state.at = "invoke" /\ calls[1].at = "answered" /\ calls[1].status = "success"
        \/ state.at \in {"asset", "check", "finalize", "end"} /\ state.failure = None
    BY <1>2, <1>4 DEF Unproven
  <2>2. CASE MG!InvokeMediaBackend
    <3> DEFINE ran == MG!Ran("InvokeMediaBackend", "asset")
    <3>1. state.at = "invoke" /\ MG!Succeeded(1)
      BY <2>1, <2>2 DEF MG!InvokeMediaBackend, MG!Returned, MG!Succeeded
    <3>2. state' = [ran EXCEPT !.status = "success", !.failure = None,
                               !.tools = @ \cup {MG!TargetTool}]
      BY <2>2, <3>1 DEF MG!InvokeMediaBackend
    <3> QED
      BY <1>2, <3>2 DEF MG!Ran, State
  <2>3. CASE MG!AssetMetadataBuild \/ MG!MediaOutputCheck \/ MG!Finalize
    BY <1>2, <2>1, <2>3
    DEF MG!AssetMetadataBuild, MG!MediaOutputCheck, MG!Finalize, MG!Plain, MG!Ran, State
  <2>4. CASE MG!SendPrompt
    BY <2>1, <2>4 DEF MG!SendPrompt, MG!Sends, MG!NoCall
  <2>5. CASE MG!ParseMediaRequest \/ MG!PromptSafetyCheck \/ MG!BuildGenerationParams
    BY <2>1, <2>5
    DEF MG!ParseMediaRequest, MG!PromptSafetyCheck, MG!BuildGenerationParams, MG!Plain
  <2> QED
    BY <2>2, <2>3, <2>4, <2>5 DEF MG!Node
<1> QED
  BY <1>1, <1>3, <1>4 DEF Unproven

LEMMA UnprovenStep == OrchInv /\ OrchInv' /\ Unproven /\ [Next]_vars => Unproven'
<1> SUFFICES ASSUME OrchInv, OrchInv', Unproven, [Next]_vars, Generates' PROVE Unproven'
  BY DEF Unproven
<1>1. CASE UNCHANGED vars \/ Verify
  <2>1. UNCHANGED <<request, state, serviceVars>>
    BY <1>1 DEF vars, Verify
  <2> QED
    BY <2>1 DEF Unproven, Generates, MG!TargetTool, serviceVars, Proven, Awaits
<1>2. CASE Raises
  <2>1. UNCHANGED <<request, serviceVars>>
    BY <1>2, RaisesKeep
  <2>2. Generates /\ ~Writes
    BY <2>1, OneFlow DEF Generates, OrchInv, Agreed
  <2>3. state'.at = "crashed"
    BY <1>2, <2>2 DEF Raises, DocumentClientRaises, ClientRaises, Crashes, OrchInv, StateTypeOK,
       State
  <2> QED
    BY <2>1, <2>2, <2>3 DEF Unproven, MG!TargetTool, serviceVars, Proven, Awaits
<1>3. CASE ToolServiceStep
  BY <1>3, UnprovenServed DEF ToolServiceStep, ServiceStep, Generates
<1>4. CASE Work
  <2>1. UNCHANGED request
    BY <1>4, WorkKeeps
  <2>2. Generates /\ ~Questions /\ ~Codes /\ ~Writes
    BY <2>1, OneFlow DEF Generates, OrchInv, Agreed
  <2>3. CASE Generation!Node
    BY <2>2, <2>3, MGNodes, UnprovenRuns
  <2>4. CASE Answers!Node /\ UNCHANGED <<documentVars, gatewayVars>>
    BY <2>2, <2>4, QANodes, QA!NodeOwns, QAAssumed
    DEF Questions, QA!Corrective, QA!Deep, QA!KnowledgeQA, QA!LargeKnowledgeQA,
        KnowledgeQA, LargeKnowledgeQA
  <2>5. CASE Code!Node /\ UNCHANGED <<documentVars, gatewayVars>>
    BY <2>2, <2>5, CodeKeeps
  <2>6. CASE Node /\ UNCHANGED gatewayVars
    BY <2>2, <2>6, DocumentKeeps
  <2> QED
    BY <1>4, <2>3, <2>4, <2>5, <2>6 DEF Work
<1> QED
  BY <1>1, <1>2, <1>3, <1>4 DEF Next

LEMMA RecordsInvariant == Spec => [](OrchInv /\ NoPicture /\ Unproven)
<1>1. Init => OrchInv /\ NoPicture /\ Unproven
  BY OrchInit
<1> QED
  BY <1>1, OrchStep, NoPictureStep, UnprovenStep, PTL DEF Spec

--------------------------------------------------------------------------------
(* Jobs that have ended *)

\* The nodes that the contract of a workflow demands are those of its path.
LEMMA Demanded ==
    ASSUME Agreed
    PROVE  LET required == RequiredNodes(ProfileSeed(kind).task, request.flow)
           IN  /\ request.flow = KnowledgeQA => required = QA!CorrectivePath
               /\ request.flow = LargeKnowledgeQA => required = QA!DeepPath
               /\ Codes => required = CodePath
               /\ Generates => required = MG!Complete
               /\ Writes => required = DocumentPath
<1> DEFINE task == ProfileSeed(kind).task
<1>1. request.flow \in Workflows /\ task = SupportedTask[request.flow]
  BY Asked DEF Agreed
<1>2. /\ request.flow = KnowledgeQA => task = "knowledge_qa"
      /\ Codes => task = "coding"
      /\ Generates => task = "media_generation"
      /\ Writes => task = "document_writing"
  BY <1>1 DEF SupportedTask, Workflows, Codes, Generates, Writes, KnowledgeQA,
     LargeKnowledgeQA, Coding, Media, Document
<1> HIDE DEF task
<1>3. request.flow = KnowledgeQA => RequiredNodes(task, request.flow) = QA!CorrectivePath
  BY <1>2 DEF RequiredNodes, QA!CorrectivePath, KnowledgeQA, LargeKnowledgeQA
<1>4. request.flow = LargeKnowledgeQA => RequiredNodes(task, request.flow) = QA!DeepPath
  BY DEF RequiredNodes, QA!DeepPath, LargeKnowledgeQA
<1>5. Codes => RequiredNodes(task, request.flow) = CodePath
  BY <1>2 DEF RequiredNodes, Codes, CodePath, Coding, LargeKnowledgeQA
<1>6. Generates => RequiredNodes(task, request.flow) = MG!Complete
  BY <1>2 DEF RequiredNodes, Generates, MG!Complete, Media, LargeKnowledgeQA
<1>7. Writes => RequiredNodes(task, request.flow) = DocumentPath
  BY <1>2 DEF RequiredNodes, Writes, DocumentPath, Document, LargeKnowledgeQA
<1> QED
  BY <1>3, <1>4, <1>5, <1>6, <1>7 DEF task

\* The tools that a workflow needs, and those it may use.
LEMMA NeededTools ==
    ASSUME request \in Requests
    PROVE  /\ Questions => Needed = KnowledgeTools /\ AllowedTools[request.flow] = KnowledgeTools
           /\ Codes => Needed = {}
           /\ Generates => /\ Needed = {MG!TargetTool}
                           /\ MG!TargetTool \in AllowedTools[request.flow]
           /\ Writes =>
                 /\ Needed = {"inspection_tool"} \cup
                               (IF request.knowledge THEN KnowledgeTools ELSE {})
                 /\ AllowedTools[request.flow] = {"inspection_tool"}
<1>1. request.flow \in Workflows
  BY Asked
<1>2. CASE Questions
  BY <1>1, <1>2 DEF Questions, Codes, Generates, Writes, Needed, AllowedTools, KnowledgeQA,
     LargeKnowledgeQA, Coding, Media, Document
<1>3. CASE Codes
  BY <1>3 DEF Questions, Codes, Generates, Writes, Needed, KnowledgeQA, LargeKnowledgeQA,
     Coding, Media, Document
<1>4. CASE Generates
  BY <1>1, <1>4 DEF Questions, Codes, Generates, Writes, Needed, AllowedTools, KnowledgeQA,
     LargeKnowledgeQA, Coding, Media, Document, Generation!TargetTool, MG!TargetTool
<1>5. CASE Writes
  BY <1>1, <1>5 DEF Questions, Codes, Generates, Writes, Needed, AllowedTools, KnowledgeQA,
     LargeKnowledgeQA, Coding, Media, Document
<1> QED
  BY <1>2, <1>3, <1>4, <1>5, OneFlow

LEMMA QuestionEnds ==
    ASSUME OrchInv, Questions, state.at = "end"
    PROVE  /\ state.status = "success" =>
                 /\ state.citations # {} /\ KnowledgeTools \subseteq Proven
                 /\ Answers!Backed
                 /\ RequiredNodes(ProfileSeed(kind).task, request.flow) \subseteq state.nodes
           /\ state.status # "success" =>
                 /\ state.citations = {}
                 /\ \/ state.failure = "missing_citation"
                    \/ ~(RequiredNodes(ProfileSeed(kind).task, request.flow)
                            \subseteq state.nodes)
           /\ state.answer # None /\ state.tools \subseteq KnowledgeTools
<1>1. QA!QAInv /\ QA!Visited /\ Agreed
  BY DEF OrchInv, QuestionInv
<1>2. QA!SuccessIsGrounded
  BY <1>1, QA!EndsGrounded, QAAssumed
<1>3. QA!Proven = Proven /\ QA!KnowledgeTools = KnowledgeTools
  BY DEF QA!Proven, Proven, QA!Tools, Tools, QA!Scope, Scope, QA!KnowledgeTools, KnowledgeTools
<1>4. /\ IF state.failure \in {None, "missing_citation"}
         THEN RequiredNodes(ProfileSeed(kind).task, request.flow) \subseteq state.nodes
         ELSE ~(RequiredNodes(ProfileSeed(kind).task, request.flow) \subseteq state.nodes)
      /\ state.answer # None /\ state.tools \subseteq KnowledgeTools
  <2>1. CASE request.flow = KnowledgeQA
    <3>1. /\ RequiredNodes(ProfileSeed(kind).task, request.flow) = QA!CorrectivePath
          /\ QA!Corrective
      BY <1>1, <2>1, Demanded DEF QA!Corrective, QA!KnowledgeQA, KnowledgeQA
    <3>2. "GenerateAnswer" \in QA!CorrectivePath
      BY DEF QA!CorrectivePath
    <3> QED
      BY <1>1, <1>3, <3>1, <3>2 DEF QA!Visited
  <2>2. CASE request.flow = LargeKnowledgeQA
    <3>1. /\ RequiredNodes(ProfileSeed(kind).task, request.flow) = QA!DeepPath
          /\ QA!Deep
      BY <1>1, <2>2, Demanded DEF QA!Deep, QA!LargeKnowledgeQA, LargeKnowledgeQA
    <3>2. "SynthesizeAnswer" \in QA!DeepPath
      BY DEF QA!DeepPath
    <3> QED
      BY <1>1, <1>3, <3>1, <3>2 DEF QA!Visited
  <2> QED
    BY <2>1, <2>2 DEF Questions
<1>5. QA!Backed <=> Answers!Backed
  BY DEF QA!Backed, Answers!Backed, QA!Corrective, Answers!Corrective, QA!KnowledgeQA,
      Answers!KnowledgeQA, QA!Parts, Answers!Parts, QA!Slots, Answers!Slots
<1> QED
  BY <1>2, <1>3, <1>4, <1>5 DEF QA!SuccessIsGrounded

LEMMA MediaEnds ==
    ASSUME OrchInv, Generates, state.at = "end"
    PROVE  /\ state.status = "success" =>
                 /\ MG!TargetTool \in Proven
                 /\ RequiredNodes(ProfileSeed(kind).task, request.flow) \subseteq state.nodes
           /\ (state.status = "success") = (state.failure = None)
           /\ state.answer # None /\ state.tools \subseteq {MG!TargetTool}
<1>1. MG!MediaJudged /\ MG!TargetTool \in Tools
  BY MG!KnownTarget, MGAssumed DEF OrchInv, MG!MediaInv, MG!TargetTool, Tools, Scope
<1>2. MG!Proven = Proven
  BY DEF MG!Proven, Proven, MG!Tools, Tools, MG!Scope, Scope
<1>3. RequiredNodes(ProfileSeed(kind).task, request.flow) = MG!Complete
  BY Demanded DEF OrchInv
<1>4. None # "prompt_safety_blocked"
  BY NoneAssumption DEF Failures
<1> QED
  BY <1>1, <1>2, <1>3, <1>4 DEF MG!MediaJudged

LEMMA CodeEnds ==
    ASSUME OrchInv, Codes, state.at = "end"
    PROVE  /\ RequiredNodes(ProfileSeed(kind).task, request.flow) \subseteq state.nodes
           /\ state.status = "success" => state.draft = "good"
           /\ state.status # "success" => state.failure = "invalid_coding_output"
           /\ state.answer # None /\ state.tools = {}
<1>1. RequiredNodes(ProfileSeed(kind).task, request.flow) = CodePath
  BY Demanded DEF OrchInv
<1> QED
  BY <1>1 DEF OrchInv, CodeInv, CodeCounted, CodeJudged, Before

LEMMA DocumentEnds ==
    ASSUME OrchInv, Writes, state.at = "end"
    PROVE  /\ RequiredNodes(ProfileSeed(kind).task, request.flow) \subseteq state.nodes
           /\ state.citations = context.refs /\ state.tools = {"inspection_tool"}
           /\ state.status = "success" =>
                 /\ state.inspected /\ "inspection_tool" \in Proven
                 /\ request.knowledge => /\ state.citations # {}
                                         /\ KnowledgeTools \subseteq Proven
           /\ state.status # "success" =>
                 state.citations = {} /\ state.failure = "knowledge_context_failed"
           /\ state.answer # None
<1>1. RequiredNodes(ProfileSeed(kind).task, request.flow) = DocumentPath
  BY Demanded DEF OrchInv
<1>2. DocumentPath \subseteq state.nodes
  BY DocumentFacts DEF DocumentCounted, Before
<1> QED
  BY <1>1, <1>2, DocumentFacts DEF Borrowed, Inspected, KnowledgeFailed

\* A success has used what its workflow needs.
LEMMA SuccessNeeds ==
    ASSUME OrchInv, state.at = "end", state.status = "success"
    PROVE  Needed \subseteq Proven
<1>1. request \in Requests
  BY DEF OrchInv, Agreed
<1> QED
  BY <1>1, OneFlow, NeededTools, QuestionEnds, MediaEnds, CodeEnds, DocumentEnds

--------------------------------------------------------------------------------
(* Theorems *)

LEMMA StepsEnd == OrchInv => state.steps < RecursionLimit
<1> SUFFICES ASSUME OrchInv PROVE state.steps < RecursionLimit
  OBVIOUS
<1>1. state \in State /\ state.steps \in Nat /\ state.repair \in 0..1
  BY DEF OrchInv, StateTypeOK, State
<1>2. CASE Questions
  <2>1. QA!StepsBounded
    BY <1>2, QA!StaysBounded, QAAssumed DEF OrchInv, QuestionInv
  <2> QED
    BY <2>1 DEF QA!StepsBounded, QA!RecursionLimit, RecursionLimit
<1>3. CASE Codes
  BY <1>1, <1>3 DEF OrchInv, CodeInv, CodeCounted, CodeNodes, Ended, Before, RecursionLimit
<1>4. CASE Generates
  <2>1. MG!MediaCounted
    BY <1>4 DEF OrchInv, MG!MediaInv
  <2> QED
    BY <1>1, <2>1
    DEF MG!MediaCounted, MG!MediaNodes, MG!Ended, MG!Before, RecursionLimit
<1>5. CASE Writes
  BY <1>1, <1>5, DocumentFacts
  DEF DocumentCounted, DocumentNodes, Ended, Before, RecursionLimit
<1> QED
  BY <1>2, <1>3, <1>4, <1>5, OneFlow DEF OrchInv, Agreed

\* Every variable has its type, whatever workflow runs: no workflow, alone or inside
\* another, retries or repairs more than once or meets the limit of LangGraph.
THEOREM TypeCorrect == Spec => []TypeOK
<1>1. OrchInv => TypeOK
  <2> SUFFICES ASSUME OrchInv PROVE TypeOK
    OBVIOUS
  <2>1. /\ request \in Requests /\ kind \in Kinds /\ StateTypeOK /\ ServiceTypeOK
        /\ verdict \in {None, "passed", "failed"} /\ state.steps < RecursionLimit
    BY StepsEnd DEF OrchInv, Agreed, Judged
  <2>2. child.steps < RecursionLimit /\ child.retry \in 0..1 /\ child.repair \in 0..1
    <3>1. CASE child = NoChild
      BY <3>1 DEF NoChild, InitialState, RecursionLimit
    <3>2. CASE child # NoChild
      BY <3>2, DocumentFacts DEF OrchInv, ChildTyped, State
    <3> QED
      BY <3>1, <3>2
  <2>3. /\ context.status \in {None, "success", "refused"}
        /\ context.refs \subseteq Citable /\ context.tools \subseteq Tools
    BY DocumentFacts DEF OrchInv, Borrowed, NoContext
  <2> QED
    BY <2>1, <2>2, <2>3 DEF TypeOK
<1> QED
  BY <1>1, OrchInvariant, PTL

\* What a success was checked for holds of what is returned, not of an earlier round:
\* of the draft, of the document, and of evidence found with the query that was checked, or
\* with subquestions of it.
THEOREM SuccessesAreChecked == Spec => []SuccessIsChecked
<1>1. OrchInv => SuccessIsChecked
  <2> SUFFICES ASSUME OrchInv, state.at = "end", state.status = "success"
               PROVE  SuccessIsChecked
    BY DEF SuccessIsChecked
  <2> QED
    BY CodeEnds, DocumentEnds, QuestionEnds DEF SuccessIsChecked, Codes, Writes, Questions
<1> QED
  BY <1>1, OrchInvariant, PTL

\* A prompt with a blocked word reaches no media backend, neither of a media job nor of an
\* illustration, not even through a call that a crash has left to the tool service.
THEOREM BlockedStayOut == Spec => []BlockedReachesNoBackend
<1>1. NoPicture => BlockedReachesNoBackend
  BY DEF NoPicture, PictureTools, BlockedReachesNoBackend
<1> QED
  BY <1>1, RecordsInvariant, PTL

\* When a job is answered no call is under way and no workflow runs inside: what the gate
\* will look for is in the audit log.
THEOREM NothingIsLeft == Spec => []NothingLeftBehind
<1>1. OrchInv => NothingLeftBehind
  BY EndRests DEF NothingLeftBehind, Idle
<1> QED
  BY <1>1, OrchInvariant, PTL

\* The TypeError of document_verification takes a job without the permission to inspect.
THEOREM JoinsTakeADenial == Spec => []JoinsOnlyWhenDenied
<1>1. OrchInv => JoinsOnlyWhenDenied
  <2> SUFFICES ASSUME OrchInv PROVE JoinsOnlyWhenDenied
    OBVIOUS
  <2>1. CASE Questions
    BY <2>1 DEF OrchInv, QuestionInv, QA!Visited, JoinsOnlyWhenDenied
  <2>2. CASE Codes
    BY <2>2 DEF OrchInv, CodeInv, CodeJudged, JoinsOnlyWhenDenied
  <2>3. CASE Generates
    BY <2>3 DEF OrchInv, MG!MediaInv, MG!MediaJudged, JoinsOnlyWhenDenied
  <2>4. CASE Writes
    BY <2>4, DocumentFacts DEF Inspected, JoinsOnlyWhenDenied
  <2> QED
    BY <2>1, <2>2, <2>3, <2>4, OneFlow DEF OrchInv, Agreed
<1> QED
  BY <1>1, OrchInvariant, PTL

\* A document has no citations but those of the knowledge workflow inside it, and succeeds
\* with them if it needs any.
THEOREM DocumentsBorrow == Spec => []DocumentBorrows
<1>1. OrchInv => DocumentBorrows
  BY DocumentEnds DEF DocumentBorrows
<1> QED
  BY <1>1, OrchInvariant, PTL

\* A success under a contract that its workflow can satisfy passes the gate.
THEOREM SuccessesAreAccepted == Spec => []SuccessIsAccepted
<1>1. OrchInv => SuccessIsAccepted
  <2> SUFFICES ASSUME OrchInv, verdict # None, state.status = "success", Satisfiable
               PROVE  verdict = "passed"
    BY DEF SuccessIsAccepted
  <2>1. state.at = "end" /\ request \in Requests
    BY DEF OrchInv, Judged, Agreed
  <2>2. contract.tools \subseteq Proven
    BY <2>1, SuccessNeeds DEF Satisfiable
  <2>3. state.answer # None /\ contract.nodes \subseteq state.nodes
    BY <2>1, OneFlow, QuestionEnds, MediaEnds, CodeEnds, DocumentEnds DEF Satisfiable
  <2>4. contract.forbidden \cap state.tools = {}
    BY <2>1, OneFlow, NeededTools, QuestionEnds, MediaEnds, CodeEnds, DocumentEnds
    DEF Satisfiable
  <2>5. contract.citation => state.citations # {}
    BY <2>1, QuestionEnds DEF OrchInv, Agreed
  <2>6. Accepts(contract, state, Proven)
    BY <2>2, <2>3, <2>4, <2>5 DEF Accepts
  <2> QED
    BY <2>6 DEF OrchInv, Judged
<1> QED
  BY <1>1, OrchInvariant, PTL

\* What passes the gate without a success is code that failed its check, a document
\* without its knowledge, or an answer without citations that were not demanded.
THEOREM NothingElseSlipsThrough == Spec => []OnlyTheseSlipThrough
<1>1. OrchInv /\ Unproven => OnlyTheseSlipThrough
  <2> SUFFICES ASSUME OrchInv, Unproven, verdict = "passed", state.status # "success"
               PROVE  OnlyTheseSlipThrough
    BY DEF OnlyTheseSlipThrough
  <2>1. state.at = "end" /\ Accepts(contract, state, Proven) /\ Agreed
    BY VerdictAssumption DEF OrchInv, Judged
  <2>2. RequiredNodes(ProfileSeed(kind).task, request.flow) \subseteq state.nodes
    BY <2>1 DEF Accepts, Agreed
  <2>3. CASE Questions
    BY <2>1, <2>2, <2>3, QuestionEnds DEF Accepts, OnlyTheseSlipThrough, Questions
  <2>4. CASE Codes
    BY <2>1, <2>4, CodeEnds DEF OnlyTheseSlipThrough, Codes
  <2>5. CASE Writes
    BY <2>1, <2>5, DocumentEnds DEF OnlyTheseSlipThrough, Writes
  <2>6. CASE Generates
    <3>1. MG!TargetTool \notin Proven
      BY <2>1, <2>6, MediaEnds DEF Unproven
    <3>2. Proven = {}
      BY <2>6, <3>1 DEF Unproven
    <3>3. ProfileSeed(kind).tools # {}
      <4>1. ProfileSeed(kind).task = "media_generation"
        BY <2>1, <2>6, Asked
        DEF Agreed, Generates, SupportedTask, Media, KnowledgeQA, LargeKnowledgeQA, Coding,
            Document
      <4> QED
        BY <2>1, <4>1 DEF Agreed, Kinds, ProfileSeed, MediaSeed, Profiled
    <3> QED
      BY <2>1, <3>2, <3>3 DEF Accepts, Agreed
  <2> QED
    BY <2>1, <2>3, <2>4, <2>5, <2>6, OneFlow DEF Agreed
<1> QED
  BY <1>1, RecordsInvariant, PTL

--------------------------------------------------------------------------------
(* Refinement *)

LEMMA WorkRuns == Work => state.at \notin Ended
<1> SUFFICES ASSUME Work PROVE state.at \notin Ended
  OBVIOUS
<1>1. CASE Answers!Node
  BY <1>1, QANodes, QA!NodeRuns, QAAssumed DEF QA!Ended, Ended
<1>2. CASE Generation!Node
  BY <1>2, MGNodes, MG!NodeOwns, MGAssumed DEF MG!Ended, Ended
<1>3. CASE Code!Node
  BY <1>3
  DEF Code!Node, Code!ParseCodingTask, Code!BuildCodeContext, Code!InvokeCodingModel,
      Code!StructurePatchOrAnswer, Code!CodingOutputCheck, Code!RepairStructuredOutput,
      Code!Finalize, Code!Plain, Ended
<1>4. CASE Node
  BY <1>4, DocumentRuns
<1> QED
  BY <1>1, <1>2, <1>3, <1>4 DEF Work

LEMMA JobInit == Init => Job!Init
<1> SUFFICES ASSUME Init PROVE Job!Init
  OBVIOUS
<1>1. Outcome = "running" /\ Proven = {}
  BY DEF Init, InitialState, ServiceInit, Outcome, Proven
<1>2. Needed \subseteq Tools
  <2>1. request \in Requests /\ MG!TargetTool \in Tools
    BY DEF Init, MG!TargetTool, Tools, Scope
  <2> QED
    BY <2>1, NeededTools, OneFlow, KnownTools DEF Tools, Scope
<1> QED
  BY <1>1, <1>2 DEF Job!Init

\* A job that runs on goes on running, answers or crashes.
LEMMA JobMoves ==
    ASSUME OrchInv', state.at \notin Ended, UNCHANGED <<request, audit>>
    PROVE  [Job!Next]_(Job!vars)
<1>1. Outcome = "running" /\ Proven' = Proven /\ Needed' = Needed
  BY DEF Outcome, Ended, Proven, Needed, Generation!TargetTool
<1>2. CASE state'.at = "end"
  <2>1. Outcome' = state'.status
    BY <1>2 DEF Outcome
  <2>2. state'.status \in Job!Answers
    BY DEF OrchInv, StateTypeOK, State, Job!Answers
  <2>3. state'.status = "success" => Needed' \subseteq Proven'
    <3>1. (OrchInv /\ state.at = "end" /\ state.status = "success"
             => Needed \subseteq Proven)'
      BY SuccessNeeds, PTL
    <3> QED
      BY <1>2, <3>1
  <2>4. Job!Answer(state'.status)
    BY <1>1, <2>1, <2>3 DEF Job!Answer
  <2> QED
    BY <2>2, <2>4 DEF Job!Next
<1>3. CASE state'.at = "crashed"
  <2>1. Outcome' = "crashed"
    BY <1>3 DEF Outcome
  <2> QED
    BY <1>1, <2>1 DEF Job!Next, Job!Crash
<1>4. CASE state'.at \notin Ended
  <2>1. Outcome' = "running"
    BY <1>4 DEF Outcome, Ended
  <2> QED
    BY <1>1, <2>1 DEF Job!vars
<1> QED
  BY <1>2, <1>3, <1>4 DEF Ended

LEMMA JobStep == OrchInv /\ OrchInv' /\ [Next]_vars => [Job!Next]_(Job!vars)
<1> SUFFICES ASSUME OrchInv, OrchInv', [Next]_vars PROVE [Job!Next]_(Job!vars)
  OBVIOUS
<1>1. CASE UNCHANGED vars \/ Verify
  <2>1. UNCHANGED <<request, state, serviceVars>>
    BY <1>1 DEF vars, Verify
  <2> QED
    BY <2>1 DEF serviceVars, Job!vars, Outcome, Proven, Needed, Generation!TargetTool
<1>2. CASE Work \/ Raises
  <2>1. state.at \notin Ended /\ UNCHANGED <<request, audit>>
    BY <1>2, WorkRuns, WorkKeeps, RaisesKeep DEF serviceVars
  <2> QED
    BY <2>1, JobMoves
<1>3. CASE ToolServiceStep
  <2>1. UNCHANGED <<request, state>> /\ Serve
    BY <1>3 DEF ToolServiceStep, ServiceStep
  <2>2. Outcome' = Outcome /\ Needed' = Needed
    BY <2>1 DEF Outcome, Needed, Generation!TargetTool
  <2>3. CASE UNCHANGED audit
    BY <2>2, <2>3 DEF Proven, Job!vars
  <2>4. ASSUME NEW t \in Tools, NEW status \in ToolStatuses,
               audit' = audit \cup {<<t, status>>}
        PROVE  [Job!Next]_(Job!vars)
    <3>1. CASE status = "success"
      <4>1. Proven' = Proven \cup {t}
        BY <2>4, <3>1 DEF Proven
      <4> QED
        BY <2>2, <4>1 DEF Job!Next, Job!Record
    <3>2. CASE status # "success"
      <4>1. Proven' = Proven
        BY <2>4, <3>2 DEF Proven
      <4> QED
        BY <2>2, <4>1 DEF Job!vars
    <3> QED
      BY <3>1, <3>2
  <2> QED
    BY <2>1, <2>3, <2>4, AuditGrows DEF OrchInv
<1> QED
  BY <1>1, <1>2, <1>3 DEF Next

\* A job of any workflow, with those that run inside it, is one of AgentJob.
THEOREM OrchestratorImplementsJob == Spec => ImplementsJob
  BY OrchInvariant, JobInit, JobStep, PTL DEF Spec, ImplementsJob

================================================================================
