---------------------------- MODULE MediaGeneration ----------------------------
(***************************************************************************)
(* services/agent_orchestrator/workflows/media_generation.py.  The asset   *)
(* metadata always has a status and a backend (_asset_metadata), so        *)
(* media_output_check never asks for refine_prompt, and that node is not   *)
(* modelled.                                                               *)
(***************************************************************************)
EXTENDS Workflow

\* target_tool, by _media_type.
TargetTool ==
    IF request.media = "video" THEN "video_generation_tool" ELSE "image_generation_tool"

Generates == request.flow = Media

ParseMediaRequest == Generates /\ Plain("parse", "ParseMediaRequest", "safety")

\* Mutant: blocked words are reported, but do not end the job.
PromptSafetyCheck_Reports ==
    /\ Generates /\ state.at = "safety"
    /\ state' = Ran("PromptSafetyCheck", "params")
    /\ UNCHANGED <<request, serviceVars>>

PromptSafetyCheck ==
    /\ Generates /\ state.at = "safety"
    /\ \/ /\ request.blocked
          /\ state' = [Ran("PromptSafetyCheck", "finalize") EXCEPT
                         !.status = "refused", !.failure = "prompt_safety_blocked"]
       \/ /\ ~request.blocked
          /\ state' = [Ran("PromptSafetyCheck", "params") EXCEPT !.status = "success"]
    /\ UNCHANGED <<request, serviceVars>>

BuildGenerationParams == Generates /\ Plain("params", "BuildGenerationParams", "invoke")

\* invoke_media_backend up to its await.
SendPrompt == Generates /\ Sends("invoke", TargetTool, None)

InvokeMediaBackend ==
    /\ Generates /\ Returned("invoke")
    /\ state' = [Ran("InvokeMediaBackend", "asset") EXCEPT
                   !.status = IF Succeeded(1) THEN "success" ELSE "failed",
                   !.failure = IF Succeeded(1) THEN None ELSE calls[1].status,
                   !.tools = @ \cup {TargetTool}]

AssetMetadataBuild == Generates /\ Plain("asset", "AssetMetadataBuild", "check")

\* media_output_check: the failure of the backend stands.
MediaOutputCheck ==
    /\ Generates /\ state.at = "check"
    /\ state' = [Ran("MediaOutputCheck", "finalize") EXCEPT
                   !.status = IF state.failure = None THEN "success" ELSE "failed"]
    /\ UNCHANGED <<request, serviceVars>>

Finalize ==
    /\ Generates /\ state.at = "finalize"
    /\ state' = [Ran("Finalize", "end") EXCEPT
                   !.answer = IF state.failure = None THEN "asset" ELSE "notice"]
    /\ UNCHANGED <<request, serviceVars>>

Node ==
    \/ ParseMediaRequest \/ PromptSafetyCheck \/ BuildGenerationParams
    \/ SendPrompt \/ InvokeMediaBackend \/ AssetMetadataBuild
    \/ MediaOutputCheck \/ Finalize

================================================================================
