-------------------------------- MODULE Catalog --------------------------------
(***************************************************************************)
(* What the repository is configured with: the five workflow profiles of   *)
(* configs/workflow_profiles.json, the permission scopes of the registered *)
(* tools, and the task profile that TaskProfileBuilder starts from for     *)
(* each kind of request.                                                   *)
(*                                                                         *)
(* Ratios are in millionths, error rates in ten-thousandths, latencies in  *)
(* milliseconds.                                                           *)
(***************************************************************************)
EXTENDS Integers

CONSTANT None       \* no value

KnowledgeQA == "knowledge_qa_workflow"
LargeKnowledgeQA == "large_knowledge_qa_workflow"
Coding == "coding_workflow"
Media == "media_generation_workflow"
Document == "document_writing_workflow"

Workflows == {KnowledgeQA, LargeKnowledgeQA, Coding, Media, Document}

TaskTypes == {"knowledge_qa", "coding", "media_generation", "document_writing"}

Wildcard == "*"

--------------------------------------------------------------------------------
(* services/tool_service/registry.py *)

\* permission_scope of each registered tool.
Scope ==
    [doc_search_tool |-> "tool:doc_search:use",
     evidence_check_tool |-> "tool:evidence_check:use",
     image_generation_tool |-> "tool:image_generation:use",
     video_generation_tool |-> "tool:video_generation:use",
     inspection_tool |-> "tool:inspection:use"]

Tools == DOMAIN Scope

KnowledgeScope == {"kb:project_docs:read", "tool:doc_search:use", "tool:evidence_check:use"}
WritingScope == {"model:writing:use", "tool:inspection:use"}

\* DEMO_FULL_PERMISSIONS and LIMITED_PERMISSIONS of task_profile.py.
FullPermissions ==
    {"kb:project_docs:read", "model:coding:use", "model:writing:use"}
        \cup {Scope[t] : t \in Tools}
LimitedPermissions == {"kb:project_docs:read", "tool:doc_search:use"}

\* Every permission that the repository names.
Permissions == FullPermissions \cup {Wildcard}

--------------------------------------------------------------------------------
(* configs/workflow_profiles.json *)

DeepCapabilities == {"deep_rag", "multi_hop_retrieval", "evidence_synthesis"}
KnowledgeCapabilities == {"rag", "citation", "evidence_check", "permission_check"}
KnowledgeTools == {"doc_search_tool", "evidence_check_tool"}

Position ==
    [w \in Workflows |-> CASE w = KnowledgeQA -> 1 [] w = LargeKnowledgeQA -> 2
                           [] w = Coding -> 3 [] w = Media -> 4 [] w = Document -> 5]

SupportedTask ==
    [w \in Workflows |-> CASE w \in {KnowledgeQA, LargeKnowledgeQA} -> "knowledge_qa"
                           [] w = Coding -> "coding"
                           [] w = Media -> "media_generation"
                           [] w = Document -> "document_writing"]

Capabilities ==
    [w \in Workflows |->
        CASE w = KnowledgeQA -> KnowledgeCapabilities
          [] w = LargeKnowledgeQA -> KnowledgeCapabilities \cup DeepCapabilities
          [] w = Coding -> {"code_generation", "test_planning", "permission_check"}
          [] w = Media -> {"media_generation", "image_generation", "video_generation",
                           "prompt_safety", "asset_metadata", "permission_check"}
          [] w = Document -> {"document_writing", "a2a_knowledge_request",
                              "a2a_media_request", "citation", "structure_inspection",
                              "permission_check"}]

AllowedTools ==
    [w \in Workflows |->
        CASE w \in {KnowledgeQA, LargeKnowledgeQA} -> KnowledgeTools
          [] w = Coding -> {}
          [] w = Media -> {"image_generation_tool", "video_generation_tool"}
          [] w = Document -> {"inspection_tool"}]

RequiredScope ==
    [w \in Workflows |->
        CASE w \in {KnowledgeQA, LargeKnowledgeQA} -> KnowledgeScope
          [] w = Coding -> {"model:coding:use"}
          [] w = Media -> {}
          [] w = Document -> WritingScope]

\* The seed metrics of a profile.
Seeded(latency, success, citation, error, cost) ==
    [latency |-> latency, success |-> success, citation |-> citation,
     error |-> error, cost |-> cost]

SeedMetrics ==
    [w \in Workflows |->
        CASE w = KnowledgeQA -> Seeded(1400, 820000, 780000, 400, "low")
          [] w = LargeKnowledgeQA -> Seeded(3200, 780000, 860000, 600, "high")
          [] w = Coding -> Seeded(1600, 720000, 0, 800, "normal")
          [] w = Media -> Seeded(2600, 740000, 0, 1000, "high")
          [] w = Document -> Seeded(1800, 700000, 300000, 900, "normal")]

--------------------------------------------------------------------------------
(* app/task_profile.py: TaskProfileBuilder._profile_seed *)

\* The kinds of requests it tells apart: deep is a knowledge question with a word
\* like "comprehensive" in it, image and video are what a media request asks for.
Kinds == {"knowledge", "deep", "coding", "image", "video", "document"}

Profiled(task, capabilities, tools, evidence, risk, scope) ==
    [task |-> task, capabilities |-> capabilities, tools |-> tools,
     evidence |-> evidence, risk |-> risk, scope |-> scope]

MediaSeed(type, tool) ==
    Profiled("media_generation",
             {"media_generation", "prompt_safety", "asset_metadata", type},
             {tool}, FALSE, "medium", {Scope[tool]})

ProfileSeed(kind) ==
    CASE kind = "knowledge" ->
            Profiled("knowledge_qa", {"rag", "citation", "evidence_check"},
                     KnowledgeTools, TRUE, "medium", KnowledgeScope)
      [] kind = "deep" ->
            Profiled("knowledge_qa", {"rag", "citation", "evidence_check"} \cup DeepCapabilities,
                     KnowledgeTools, TRUE, "medium", KnowledgeScope)
      [] kind = "coding" ->
            Profiled("coding", {"code_generation", "test_planning", "permission_check"},
                     {}, FALSE, "high", {"model:coding:use"})
      [] kind = "image" -> MediaSeed("image_generation", "image_generation_tool")
      [] kind = "video" -> MediaSeed("video_generation", "video_generation_tool")
      [] kind = "document" ->
            Profiled("document_writing",
                     {"document_writing", "a2a_knowledge_request", "a2a_media_request",
                      "citation", "permission_check"},
                     {"inspection_tool"}, FALSE, "medium", WritingScope)

================================================================================
