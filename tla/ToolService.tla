------------------------------ MODULE ToolService ------------------------------
(***************************************************************************)
(* services/tool_service/main.py: POST /invoke, as the jobs of the agent   *)
(* orchestrator meet it (ToolClient in services/agent_orchestrator).       *)
(*                                                                         *)
(* A job has one call under way, or one for each subquestion of a deep     *)
(* question.  The service is another process: it goes on with a call whose *)
(* client has given up, and writes the audit record of it.  The tools that *)
(* retrieve ask the RAG service, whose answers may be anything; the others *)
(* answer at once.  All calls here are those of one job, under one trace   *)
(* id.  Their tools are registered and their arguments fit the schemas:    *)
(* the workflows name no others.                                           *)
(***************************************************************************)
EXTENDS Catalog, FiniteSets

CONSTANTS Subquestions,     \* calls at once, 4 in the code
          Part,             \* per subquestion: the text that is searched for it
          Items             \* items of evidence that the RAG service may return

Slots == 1..Subquestions

\* _split_subquestions: the question with a suffix, another for each.
Parts == {Part[s] : s \in Slots}

\* What a call may ask for: the question (request.input), the same with the suffix of
\* rewrite_query, or a subquestion.
Queries == {"asked", "rewritten"} \cup Parts

ASSUME ToolServiceAssumption ==
    /\ Subquestions \in Nat \ {0}
    /\ DOMAIN Part = Slots
    /\ \A s \in Slots : Part[s] \notin {"asked", "rewritten"}
    /\ None \notin Tools

VARIABLES calls,    \* per slot: the call, and the reply to it
          audit     \* the records of this trace in tool_audit.jsonl: <<tool, status>>

serviceVars == <<calls, audit>>

ToolStatuses == {"success", "permission_denied", "timeout", "failed"}

\* query is what evidence is asked for, None where none is; found is the evidence in a
\* reply, positive its verdict: supported, or passed.
Call ==
    [at : {"idle", "sent", "executing", "answered", "broken"}, tool : Tools \cup {None},
     query : Queries \cup {None}, granted : SUBSET Tools, status : ToolStatuses \cup {None},
     found : SUBSET Items, positive : BOOLEAN]

NoCall == [at |-> "idle", tool |-> None, query |-> None, granted |-> {}, status |-> None,
           found |-> {}, positive |-> FALSE]

ServiceInit ==
    /\ calls = [s \in Slots |-> NoCall]
    /\ audit = {}

\* ToolClient.invoke posts a call, with the permissions of the job: granted are the
\* tools that is_allowed lets through (MayCall in Routing).
Posted(t, query, granted) ==
    [NoCall EXCEPT !.at = "sent", !.tool = t, !.query = query, !.granted = granted]

\* Mutant: the reply is sent before the record is written.
Reply_First(s, status, found, positive) ==
    /\ calls' = [calls EXCEPT ![s] = [@ EXCEPT !.at = "answered", !.status = status,
                                              !.found = found, !.positive = positive]]
    /\ \/ audit' = audit \cup {<<calls[s].tool, status>>}
       \/ UNCHANGED audit

\* How a call ends: with a record, then the reply.  If the record cannot be written
\* there is none, and the client gets 500.
Reply(s, status, found, positive) ==
    \/ /\ calls' = [calls EXCEPT ![s] = [@ EXCEPT !.at = "answered", !.status = status,
                                                 !.found = found, !.positive = positive]]
       /\ audit' = audit \cup {<<calls[s].tool, status>>}
    \/ /\ calls' = [calls EXCEPT ![s].at = "broken"]
       /\ UNCHANGED audit

\* Mutant: permissions are not checked.
Receive_Unguarded(s) ==
    /\ calls[s].at = "sent"
    /\ \/ /\ calls[s].tool \in KnowledgeTools
          /\ calls' = [calls EXCEPT ![s].at = "executing"]
          /\ UNCHANGED audit
       \/ /\ calls[s].tool \notin KnowledgeTools
          /\ Reply(s, "success", {}, TRUE)

\* Mutant: the document may lack a section that its own workflow demands.
Receive_SectionsLost(s) ==
    /\ calls[s].at = "sent"
    /\ \/ /\ calls[s].tool \notin calls[s].granted
          /\ Reply(s, "permission_denied", {}, FALSE)
       \/ /\ calls[s].tool \in calls[s].granted \cap KnowledgeTools
          /\ calls' = [calls EXCEPT ![s].at = "executing"]
          /\ UNCHANGED audit
       \/ /\ calls[s].tool \in calls[s].granted \ KnowledgeTools
          /\ Reply(s, "success", {}, FALSE)

\* invoke up to its await: the permission check, and the tools that do not await.  The
\* media backends are placeholders, and the inspected document has every required
\* section: _render_document has written a heading for each.
Receive(s) ==
    /\ calls[s].at = "sent"
    /\ \/ /\ calls[s].tool \notin calls[s].granted
          /\ Reply(s, "permission_denied", {}, FALSE)
       \/ /\ calls[s].tool \in calls[s].granted \cap KnowledgeTools
          /\ calls' = [calls EXCEPT ![s].at = "executing"]
          /\ UNCHANGED audit
       \/ /\ calls[s].tool \in calls[s].granted \ KnowledgeTools
          /\ Reply(s, "success", {}, TRUE)

\* doc_search and evidence_check after their await.  An evidence check retrieves its own
\* evidence: whether that supports the claim does not depend on what was found before.
Execute(s) ==
    /\ calls[s].at = "executing"
    /\ \/ /\ calls[s].tool = "doc_search_tool"
          /\ \E found \in SUBSET Items : Reply(s, "success", found, TRUE)
       \/ /\ calls[s].tool = "evidence_check_tool"
          /\ \E supported \in BOOLEAN : Reply(s, "success", {}, supported)
       \/ \E status \in {"timeout", "failed"} : Reply(s, status, {}, FALSE)

Serve == \E s \in Slots : Receive(s) \/ Execute(s)

ServiceTypeOK ==
    /\ calls \in [Slots -> Call]
    /\ audit \subseteq Tools \X ToolStatuses

\* The tools whose success is on record.
Proven == {t \in Tools : <<t, "success">> \in audit}

================================================================================
