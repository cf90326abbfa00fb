------------------------------ MODULE KnowledgeQA ------------------------------
(***************************************************************************)
(* services/agent_orchestrator/workflows/knowledge_qa.py: the corrective   *)
(* graph of knowledge_qa_workflow (retrieve, check, rewrite the query and  *)
(* retry once, generate, cite) and the deep graph of                       *)
(* large_knowledge_qa_workflow (split, retrieve in parallel, aggregate,    *)
(* synthesize, cite).                                                      *)
(***************************************************************************)
EXTENDS Workflow

vars == <<request, state, serviceVars>>

Init ==
    /\ request \in Requests
    /\ state = InitialState
    /\ ServiceInit

Corrective == request.flow = KnowledgeQA
Deep == request.flow = LargeKnowledgeQA

--------------------------------------------------------------------------------
(* The corrective graph *)

ParseQuestion ==
    /\ Corrective /\ state.at = "parse"
    /\ state' = [Ran("ParseQuestion", "plan") EXCEPT !.query = "asked"]
    /\ UNCHANGED <<request, serviceVars>>

PlanRetrieval == Corrective /\ Plain("plan", "PlanRetrieval", "retrieve")

\* retrieve_evidence up to its await.
SendSearch == Corrective /\ Sends("retrieve", "doc_search_tool", state.query)

\* retrieve_evidence: new evidence replaces the old; a failure ends the retries.
RetrieveEvidence ==
    /\ Corrective /\ Returned("retrieve")
    /\ \/ /\ Succeeded(1) /\ Readable(calls[1].found)
          /\ state' = [Ran("RetrieveEvidence", "check") EXCEPT
                         !.evidence = calls[1].found, !.basis = {calls[1].query},
                         !.tools = @ \cup {"doc_search_tool"}]
       \/ /\ Succeeded(1) /\ ~Readable(calls[1].found)
          /\ Crashes("score")
       \/ /\ ~Succeeded(1)
          /\ state' = [Ran("RetrieveEvidence", "finalize") EXCEPT
                         !.status = "refused", !.failure = "retrieval_failed",
                         !.tools = @ \cup {"doc_search_tool"}]

\* evidence_check up to its await: the claim is the question, and the evidence for it is
\* asked for with the query of the last search.
SendCheck == Corrective /\ Sends("check", "evidence_check_tool", state.query)

\* Mutant: the check's verdict is read, its status is not asked for.
Supports_Trusting(s) == calls[s].positive \/ ~Succeeded(s)

\* supported, in both graphs.
Supports(s) == Succeeded(s) /\ calls[s].positive

Checked == [Ran("EvidenceCheck", "finalize") EXCEPT !.tools = @ \cup {"evidence_check_tool"}]

\* Mutant: off by one, there is a second retry.
EvidenceCheck_OneMore ==
    /\ Corrective /\ Returned("check")
    /\ \/ /\ Supports(1)
          /\ state' = [Checked EXCEPT !.at = "generate", !.supported = calls[1].query]
       \/ /\ ~Supports(1) /\ state.retry <= 1
          /\ state' = [Checked EXCEPT !.at = "rewrite", !.supported = None]
       \/ /\ ~Supports(1) /\ state.retry > 1
          /\ state' = [Checked EXCEPT !.status = "refused",
                                      !.failure = "insufficient_evidence",
                                      !.supported = None]

\* evidence_check and _after_evidence_check.
EvidenceCheck ==
    /\ Corrective /\ Returned("check")
    /\ \/ /\ Supports(1)
          /\ state' = [Checked EXCEPT !.at = "generate", !.status = "success",
                                      !.supported = calls[1].query]
       \/ /\ ~Supports(1) /\ state.retry < 1
          /\ state' = [Checked EXCEPT !.at = "rewrite", !.status = "success",
                                      !.supported = None]
       \/ /\ ~Supports(1) /\ state.retry >= 1
          /\ state' = [Checked EXCEPT !.status = "refused",
                                      !.failure = "insufficient_evidence",
                                      !.supported = None]

\* Mutant: the rewritten query is checked against, but not retrieved with.
RewriteQuery_NoRetrieval ==
    /\ Corrective /\ state.at = "rewrite"
    /\ state' = [Ran("RewriteQuery", "check") EXCEPT !.query = "rewritten", !.retry = @ + 1]
    /\ UNCHANGED <<request, serviceVars>>

RewriteQuery ==
    /\ Corrective /\ state.at = "rewrite"
    /\ state' = [Ran("RewriteQuery", "retrieve") EXCEPT !.query = "rewritten", !.retry = @ + 1]
    /\ UNCHANGED <<request, serviceVars>>

\* generate_answer answers from the evidence, or says that there is none.
GenerateAnswer ==
    /\ Corrective /\ state.at = "generate"
    /\ state' = [Ran("GenerateAnswer", "citation") EXCEPT
                   !.answer = IF state.evidence = {} THEN "notice" ELSE "evidence"]
    /\ UNCHANGED <<request, serviceVars>>

\* citation_check and _after_citation_check: one repair if there is evidence.
CitationCheck ==
    /\ Corrective /\ state.at = "citation"
    /\ LET citations == Cited(state.evidence)
           checked == [Ran("CitationCheck", "finalize") EXCEPT !.citations = citations]
       IN  \/ /\ citations # {}
              /\ state' = [checked EXCEPT !.status = "success", !.failure = None]
           \/ /\ citations = {} /\ state.repair < 1 /\ state.evidence # {}
              /\ state' = [checked EXCEPT !.at = "repair", !.status = "success",
                                          !.failure = None]
           \/ /\ citations = {} /\ (state.repair >= 1 \/ state.evidence = {})
              /\ state' = [checked EXCEPT !.status = "refused",
                                          !.failure = "missing_citation"]
    /\ UNCHANGED <<request, serviceVars>>

RepairWithEvidence ==
    /\ Corrective /\ state.at = "repair"
    /\ state' = [Ran("RepairWithEvidence", "citation") EXCEPT
                   !.repair = @ + 1, !.failure = None]
    /\ UNCHANGED <<request, serviceVars>>

--------------------------------------------------------------------------------
(* The deep graph *)

ParseDeepQuestion ==
    /\ Deep /\ state.at = "parse"
    /\ state' = [Ran("ParseDeepQuestion", "brief") EXCEPT !.query = "asked"]
    /\ UNCHANGED <<request, serviceVars>>

BuildResearchBrief == Deep /\ Plain("brief", "BuildResearchBrief", "split")

SplitSubQuestions == Deep /\ Plain("split", "SplitSubQuestions", "retrieve")

\* parallel_retrieve up to its await: gather posts a search for each subquestion, and
\* none for the question itself.
SendSearches ==
    /\ Deep /\ state.at = "retrieve"
    /\ \A s \in Slots : calls[s] = NoCall
    /\ calls' = [s \in Slots |-> Posted("doc_search_tool", Part[s], request.granted)]
    /\ UNCHANGED <<request, state, audit>>

\* gather returns when every search has.
Gathered == \A s \in Slots : calls[s].at = "answered"

\* Mutant: the search that is answered first is taken.
ParallelRetrieveEvidence_First ==
    /\ Deep /\ state.at = "retrieve"
    /\ \E s \in Slots :
          /\ Succeeded(s) /\ Readable(calls[s].found)
          /\ calls' = [calls EXCEPT ![s] = NoCall]
          /\ state' = [Ran("ParallelRetrieveEvidence", "aggregate") EXCEPT
                         !.evidence = calls[s].found, !.basis = {calls[s].query},
                         !.tools = @ \cup {"doc_search_tool"}]
    /\ UNCHANGED <<request, audit>>

\* The searches that succeeded and found something.
Finders == {s \in Slots : Succeeded(s) /\ calls[s].found # {}}

\* parallel_retrieve: what the searches that succeeded found.
ParallelRetrieveEvidence ==
    /\ Deep /\ state.at = "retrieve"
    /\ Gathered
    /\ calls' = [s \in Slots |-> NoCall]
    /\ LET evidence == UNION {calls[s].found : s \in Finders}
           ran == [Ran("ParallelRetrieveEvidence", "finalize") EXCEPT
                     !.evidence = evidence, !.tools = @ \cup {"doc_search_tool"}]
       IN  \/ /\ ~Readable(evidence)
              /\ Crashes("score")
           \/ /\ evidence # {} /\ Readable(evidence)
              /\ state' = [ran EXCEPT !.at = "aggregate", !.status = "success",
                                      !.basis = {calls[s].query : s \in Finders}]
           \/ /\ evidence = {}
              /\ state' = [ran EXCEPT !.status = "refused", !.failure = "retrieval_failed"]
    /\ UNCHANGED <<request, audit>>

\* evidence_aggregate up to its await: it is the question that is checked, not what was
\* searched for.
SendAggregateCheck == Deep /\ Sends("aggregate", "evidence_check_tool", "asked")

\* _dedupe_evidence keeps the first item of each key, whichever came first.
Deduped(evidence, kept) ==
    /\ {KeyOf[i] : i \in kept} = {KeyOf[i] : i \in evidence}
    /\ \A i, j \in kept : KeyOf[i] = KeyOf[j] => i = j

\* evidence_aggregate.
EvidenceAggregate ==
    /\ Deep /\ Returned("aggregate")
    /\ \E kept \in SUBSET state.evidence :
          /\ Deduped(state.evidence, kept)
          /\ LET ran == [Ran("EvidenceAggregate", "finalize") EXCEPT
                           !.evidence = kept, !.tools = @ \cup {"evidence_check_tool"}]
             IN  \/ /\ kept # {} /\ Supports(1)
                    /\ state' = [ran EXCEPT !.at = "synthesize", !.status = "success",
                                            !.supported = calls[1].query]
                 \/ /\ kept = {} \/ ~Supports(1)
                    /\ state' = [ran EXCEPT !.status = "refused",
                                            !.failure = "insufficient_evidence"]

SynthesizeAnswer ==
    /\ Deep /\ state.at = "synthesize"
    /\ state' = [Ran("SynthesizeAnswer", "citation") EXCEPT !.answer = "evidence"]
    /\ UNCHANGED <<request, serviceVars>>

\* citation_check of the deep graph: no repair.
DeepCitationCheck ==
    /\ Deep /\ state.at = "citation"
    /\ LET citations == Cited(state.evidence)
       IN  state' = [Ran("CitationCheck", "finalize") EXCEPT
                       !.citations = citations,
                       !.status = IF citations # {} THEN "success" ELSE "refused",
                       !.failure = IF citations # {} THEN None ELSE "missing_citation"]
    /\ UNCHANGED <<request, serviceVars>>

Finalize ==
    /\ Corrective \/ Deep
    /\ state.at = "finalize"
    /\ state' = Final("end")
    /\ UNCHANGED <<request, serviceVars>>

--------------------------------------------------------------------------------

Node ==
    \/ ParseQuestion \/ PlanRetrieval \/ SendSearch \/ RetrieveEvidence
    \/ SendCheck \/ EvidenceCheck \/ RewriteQuery
    \/ GenerateAnswer \/ CitationCheck \/ RepairWithEvidence
    \/ ParseDeepQuestion \/ BuildResearchBrief \/ SplitSubQuestions
    \/ SendSearches \/ ParallelRetrieveEvidence
    \/ SendAggregateCheck \/ EvidenceAggregate
    \/ SynthesizeAnswer \/ DeepCitationCheck
    \/ Finalize

Next == Node \/ ClientRaises \/ ServiceStep

Spec == Init /\ [][Next]_vars

--------------------------------------------------------------------------------
(* Properties *)

\* Every variable has its type: in particular there is one retry and one repair.
TypeOK == request \in Requests /\ StateTypeOK /\ ServiceTypeOK

\* What stands behind the evidence.  In the corrective graph it was searched with one
\* query, and it is for this query that a check came out supported.  In the deep graph it
\* was found by searches for subquestions only, and it is for the question itself that the
\* check came out supported: nothing there says that what was found supports anything.
Backed ==
    IF Corrective THEN state.basis = {state.supported}
    ELSE state.basis # {} /\ state.basis \subseteq Parts /\ state.supported = "asked"

\* What a finished job says is what happened (citation_check, finalize): it succeeds
\* exactly if it cites something; what it cites it retrieved; and behind a success are
\* searches and a check of the round before it, as Backed says, whose tools are on record
\* as successful.
SuccessIsGrounded ==
    state.at = "end" =>
        /\ (state.status = "success") = (state.citations # {})
        /\ (state.status = "success") = (state.failure = None)
        /\ state.status = "success" =>
              /\ state.citations \subseteq state.evidence
              /\ state.answer = "evidence"
              /\ Backed
              /\ KnowledgeTools \subseteq Proven

\* The loops of the corrective graph end long before LangGraph would give up on it.
StepsBounded == state.steps <= 12 /\ state.steps < RecursionLimit

\* A job without the permission for one of its two tools is refused, and all it says is
\* that there is no answer.  Without the search it stops at once, with nothing found, no
\* retry and nothing but denied searches on record.  Without the check, whatever was found
\* is not answered from, and the check is on record only as denied: the corrective graph
\* takes the denial for missing support, and rewrites and tries once more before it gives
\* up (supported = False and can_rewrite in evidence_check).
DeniedIsRefused ==
    state.at = "end" /\ ~(KnowledgeTools \subseteq request.granted) =>
        /\ state.status = "refused" /\ state.answer = "notice" /\ state.citations = {}
        /\ "doc_search_tool" \notin request.granted =>
              /\ state.failure = "retrieval_failed"
              /\ state.evidence = {} /\ state.retry = 0
              /\ audit = {<<"doc_search_tool", "permission_denied">>}
        /\ "doc_search_tool" \in request.granted =>
              /\ state.failure \in {"retrieval_failed", "insufficient_evidence"}
              /\ Corrective /\ state.failure = "insufficient_evidence" => state.retry = 1
              /\ \A status \in ToolStatuses :
                    <<"evidence_check_tool", status>> \in audit => status = "permission_denied"

--------------------------------------------------------------------------------
(* Refinement *)

Outcome ==
    IF state.at = "end" THEN state.status
    ELSE IF state.at = "crashed" THEN "crashed" ELSE "running"

Job == INSTANCE AgentJob WITH
    AllTools <- Tools, outcome <- Outcome, proven <- Proven, needed <- KnowledgeTools

\* A job of this workflow is one of AgentJob that needs both knowledge tools.
ImplementsJob == Job!Init /\ [][Job!Next]_(Job!vars)

================================================================================
