--------------------------------- MODULE Coding ---------------------------------
(***************************************************************************)
(* services/agent_orchestrator/workflows/coding.py.  What the model writes *)
(* is good, empty, or has one of the commands that output_check looks for. *)
(***************************************************************************)
EXTENDS Workflow

Codes == request.flow = Coding

ParseCodingTask == Codes /\ Plain("parse", "ParseCodingTask", "context")

BuildCodeContext == Codes /\ Plain("context", "BuildCodeContext", "model")

\* The keys of AgentState: LangGraph drops what a node returns under any other.
Channels ==
    {"request", "answer", "citations", "evidence", "draft", "status", "failure_reason",
     "fallback_used", "metrics_tokens", "metrics_cost", "metadata", "query", "retry_count",
     "repair_count", "should_retry", "should_repair", "tools", "tool_results",
     "trace_events", "errors"}

\* invoke_model: a call of the model backend, which may raise.  The prompt has the repair
\* instruction that the state has.
InvokeCodingModel ==
    /\ Codes /\ state.at = "model"
    /\ \/ \E draft \in {"good", "empty", "unsafe"} :
             state' = [Ran("InvokeCodingModel", "structure") EXCEPT !.draft = draft]
       \/ Crashes("model")
    /\ UNCHANGED <<request, serviceVars>>

\* structure_output renders summary, answer, patch, test plan and boundary, whatever
\* the draft is.
StructurePatchOrAnswer ==
    /\ Codes /\ state.at = "structure"
    /\ state' = [Ran("StructurePatchOrAnswer", "check") EXCEPT !.answer = "draft"]
    /\ UNCHANGED <<request, serviceVars>>

\* Mutant: after the repair the output is taken as it is.
CodingOutputCheck_OnlyOnce ==
    /\ Codes /\ state.at = "check"
    /\ LET ran == Ran("CodingOutputCheck", "finalize")
       IN  state' = IF state.draft = "good" \/ state.repair >= 1
                    THEN [ran EXCEPT !.status = "success"]
                    ELSE [ran EXCEPT !.at = "repair"]
    /\ UNCHANGED <<request, serviceVars>>

\* output_check and the edge after it.
CodingOutputCheck ==
    /\ Codes /\ state.at = "check"
    /\ LET ran == Ran("CodingOutputCheck", "finalize")
       IN  \/ /\ state.draft = "good"
              /\ state' = [ran EXCEPT !.status = "success"]
           \/ /\ state.draft # "good" /\ state.repair < 1
              /\ state' = [ran EXCEPT !.at = "repair", !.status = "success"]
           \/ /\ state.draft # "good" /\ state.repair >= 1
              /\ state' = [ran EXCEPT !.status = "failed",
                                      !.failure = "invalid_coding_output"]
    /\ UNCHANGED <<request, serviceVars>>

\* repair_prompt returns a repair_instruction for the prompt.
RepairStructuredOutput ==
    /\ Codes /\ state.at = "repair"
    /\ state' = [Ran("RepairStructuredOutput", "model") EXCEPT
                   !.repair = @ + 1,
                   !.instruction = IF "repair_instruction" \in Channels THEN "instructed" ELSE @]
    /\ UNCHANGED <<request, serviceVars>>

Finalize ==
    /\ Codes /\ state.at = "finalize"
    /\ state' = Final("end")
    /\ UNCHANGED <<request, serviceVars>>

Node ==
    \/ ParseCodingTask \/ BuildCodeContext \/ InvokeCodingModel
    \/ StructurePatchOrAnswer \/ CodingOutputCheck \/ RepairStructuredOutput
    \/ Finalize

================================================================================
