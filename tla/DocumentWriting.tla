---------------------------- MODULE DocumentWriting ----------------------------
(***************************************************************************)
(* services/agent_orchestrator/workflows/document_writing.py.  Knowledge   *)
(* and media come from the other workflows, which run inside the nodes     *)
(* a2a_knowledge_request and a2a_media_request on a request of their own,  *)
(* under the trace id and the permissions of the document's.               *)
(***************************************************************************)
EXTENDS Workflow

VARIABLES child,    \* the state of the workflow that runs inside a node
          context   \* metadata: knowledge_context, child_workflow_tools

documentVars == <<child, context>>

NoChild == [InitialState EXCEPT !.at = "none"]

NoContext == [status |-> None, refs |-> {}, tools |-> {}]

Writes == request.flow = Document

\* _subrequest for knowledge and for media.
KnowledgeRequest ==
    [request EXCEPT !.flow = IF request.deep THEN LargeKnowledgeQA ELSE KnowledgeQA]
MediaRequest == [request EXCEPT !.flow = Media, !.media = "image"]

Knowledge == INSTANCE KnowledgeQA WITH request <- KnowledgeRequest, state <- child
Pictures == INSTANCE MediaGeneration WITH request <- MediaRequest, state <- child

--------------------------------------------------------------------------------

ParseWritingTask ==
    Writes /\ Plain("parse", "ParseWritingTask", "plan") /\ UNCHANGED documentVars

BuildDocumentPlan ==
    Writes /\ Plain("plan", "BuildDocumentPlan", "need_knowledge") /\ UNCHANGED documentVars

NeedKnowledge ==
    /\ Writes
    /\ Plain("need_knowledge", "NeedKnowledge",
             IF request.knowledge THEN "knowledge" ELSE "need_media")
    /\ UNCHANGED documentVars

\* A node starts a workflow of its own.
StartChild ==
    /\ Writes /\ state.at \in {"knowledge", "media"}
    /\ child = NoChild
    /\ child' = InitialState
    /\ UNCHANGED <<request, state, context, serviceVars>>

KnowledgeRuns ==
    /\ Writes /\ state.at = "knowledge"
    /\ UNCHANGED <<request, state, context>>
    /\ Knowledge!Node

PicturesRun ==
    /\ Writes /\ state.at = "media"
    /\ UNCHANGED <<request, state, context>>
    /\ Pictures!Node

\* An exception of the workflow inside is one of the node.
ChildCrashes ==
    /\ Writes /\ child.at = "crashed"
    /\ state.at \in {"knowledge", "media"}
    /\ Crashes(child.error)
    /\ UNCHANGED <<request, documentVars, serviceVars>>

\* Mutant: the tools of the workflow inside are reported as the document's.
A2AKnowledgeRequest_Leaks ==
    /\ Writes /\ state.at = "knowledge" /\ child.at = "end"
    /\ state' = [Ran("A2AKnowledgeRequest", "need_media") EXCEPT
                   !.citations = child.citations, !.tools = @ \cup child.tools]
    /\ context' = [context EXCEPT !.status = child.status, !.refs = child.citations]
    /\ child' = NoChild
    /\ UNCHANGED <<request, serviceVars>>

\* Mutant: the evidence is handed on for citations.
A2AKnowledgeRequest_Evidence ==
    /\ Writes /\ state.at = "knowledge" /\ child.at = "end"
    /\ state' = [Ran("A2AKnowledgeRequest", "need_media") EXCEPT
                   !.citations = Cited(child.evidence)]
    /\ context' = [context EXCEPT !.status = child.status, !.refs = child.citations,
                                  !.tools = @ \cup child.tools]
    /\ child' = NoChild
    /\ UNCHANGED <<request, serviceVars>>

\* a2a_knowledge_request after its await: a refusal is only noted.
A2AKnowledgeRequest ==
    /\ Writes /\ state.at = "knowledge" /\ child.at = "end"
    /\ state' = [Ran("A2AKnowledgeRequest", "need_media") EXCEPT
                   !.citations = child.citations]
    /\ context' = [context EXCEPT !.status = child.status, !.refs = child.citations,
                                  !.tools = @ \cup child.tools]
    /\ child' = NoChild
    /\ UNCHANGED <<request, serviceVars>>

NeedMedia ==
    /\ Writes
    /\ Plain("need_media", "NeedMedia", IF request.pictures THEN "media" ELSE "compose")
    /\ UNCHANGED documentVars

\* a2a_media_request after its await: what became of the picture is never looked at.
A2AMediaRequest ==
    /\ Writes /\ state.at = "media" /\ child.at = "end"
    /\ state' = Ran("A2AMediaRequest", "compose")
    /\ context' = [context EXCEPT !.tools = @ \cup child.tools]
    /\ child' = NoChild
    /\ UNCHANGED <<request, serviceVars>>

\* compose_document: the model may raise; _render_document takes any answer of it.
ComposeDocument ==
    /\ Writes /\ state.at = "compose"
    /\ \/ state' = [Ran("ComposeDocument", "inspect") EXCEPT !.answer = "document"]
       \/ Crashes("model")
    /\ UNCHANGED <<request, documentVars, serviceVars>>

SendInspection ==
    Writes /\ Sends("inspect", "inspection_tool", None) /\ UNCHANGED documentVars

InspectionToolCheck ==
    /\ Writes /\ Returned("inspect")
    /\ state' = [Ran("InspectionToolCheck", "verify") EXCEPT
                   !.inspected = Succeeded(1) /\ calls[1].positive,
                   !.tools = @ \cup {"inspection_tool"}]
    /\ UNCHANGED documentVars

KnowledgeFailed == request.knowledge /\ context.status # "success"

\* document_verification and the edge after it.  With the inspection failed twice and
\* nothing else wrong, blocking is True, and joining it raises a TypeError.
DocumentVerification ==
    /\ Writes /\ state.at = "verify"
    /\ LET repairs == ~state.inspected /\ state.repair < 1
           ran == Ran("DocumentVerification", IF repairs THEN "repair" ELSE "finalize")
       IN  \/ /\ KnowledgeFailed
              /\ state' = [ran EXCEPT !.status = "failed",
                                      !.failure = "knowledge_context_failed"]
           \/ /\ ~KnowledgeFailed /\ (state.inspected \/ repairs)
              /\ state' = [ran EXCEPT !.status = "success", !.failure = None]
           \/ /\ ~KnowledgeFailed /\ ~state.inspected /\ ~repairs
              /\ Crashes("type")
    /\ UNCHANGED <<request, documentVars, serviceVars>>

\* Mutant: the repair is not counted.
RepairDocument_Uncounted ==
    /\ Writes /\ state.at = "repair"
    /\ state' = Ran("RepairDocument", "inspect")
    /\ UNCHANGED <<request, documentVars, serviceVars>>

RepairDocument ==
    /\ Writes /\ state.at = "repair"
    /\ state' = [Ran("RepairDocument", "inspect") EXCEPT !.repair = @ + 1]
    /\ UNCHANGED <<request, documentVars, serviceVars>>

Finalize ==
    /\ Writes /\ state.at = "finalize"
    /\ state' = Final("end")
    /\ UNCHANGED <<request, documentVars, serviceVars>>

Node ==
    \/ ParseWritingTask \/ BuildDocumentPlan
    \/ NeedKnowledge \/ StartChild \/ KnowledgeRuns \/ A2AKnowledgeRequest
    \/ NeedMedia \/ PicturesRun \/ A2AMediaRequest \/ ChildCrashes
    \/ ComposeDocument \/ SendInspection \/ InspectionToolCheck
    \/ DocumentVerification \/ RepairDocument \/ Finalize

\* A call raises in the workflow inside, or in the node that inspects.
DocumentClientRaises ==
    /\ Writes
    /\ \/ /\ state.at \in {"knowledge", "media"} /\ child # NoChild
          /\ UNCHANGED <<request, state, context>>
          /\ Knowledge!ClientRaises
       \/ /\ state.at = "inspect"
          /\ ClientRaises
          /\ UNCHANGED documentVars

================================================================================
