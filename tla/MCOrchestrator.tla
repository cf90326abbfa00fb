----------------------------- MODULE MCOrchestrator -----------------------------
\* Instances of Orchestrator for TLC.
EXTENDS Orchestrator, TLC

\* i1 and i2 are the same chunk, scored and unscored.
CONSTANTS i1, i2, i3

TwoParts == <<"facts", "grounds">>
OnePart == <<"facts">>

Keys == i1 :> "k1" @@ i2 :> "k1" @@ i3 :> "k3"

Asked(flows, grants, media, blocked, knowledge, deep, pictures) ==
    [flow : flows, granted : grants, media : media, blocked : blocked,
     knowledge : knowledge, deep : deep, pictures : pictures]

No == {FALSE}

QuestionRequests ==
    Asked({KnowledgeQA, LargeKnowledgeQA}, {Tools, {"doc_search_tool"}}, {"image"}, No, No, No, No)
CodingRequests == Asked({Coding}, {{}}, {"image"}, No, No, No, No)
MediaRequests ==
    Asked({Media}, {Tools, {"image_generation_tool"}}, {"image", "video"}, BOOLEAN, No, No, No)

\* The ones with every permission.
GrantedMediaRequests == {r \in MediaRequests : r.granted = Tools}

\* Documents with and without knowledge and pictures, and what is permitted.
DocumentRequests ==
    Asked({Document}, {Tools, Tools \ {"inspection_tool"}, {"inspection_tool"}},
          {"image"}, BOOLEAN, BOOLEAN, BOOLEAN, BOOLEAN)

\* A word that blocks pictures matters only where there are some, a deep question only
\* where there is one.
AllRequests ==
    QuestionRequests \cup CodingRequests \cup MediaRequests
        \cup {r \in DocumentRequests : (r.blocked => r.pictures) /\ (r.deep => r.knowledge)}

NoPlan == [nodes |-> {}, steps |-> {}]

Step(w, required, forbidden) == [workflow |-> w, required |-> required, forbidden |-> forbidden]

NoPlans == {NoPlan}
NoPatches == {{}}

\* No plan; a document with its helpers, each with demands of its own; a plan that asks for
\* a node of another workflow.
SomePlans ==
    {NoPlan,
     [nodes |-> {}, steps |-> {Step(Document, {"inspection_tool"}, {"image_generation_tool"}),
                               Step(KnowledgeQA, KnowledgeTools, {"inspection_tool"}),
                               Step(Media, {"image_generation_tool"}, {})}],
     [nodes |-> {"SplitSubQuestions"}, steps |-> {}]}

\* No patch; one that demands and forbids tools for whatever workflow is selected.
SomePatches ==
    {{}, {[nodes |-> {}, required |-> {"doc_search_tool"}, forbidden |-> {}],
          [nodes |-> {}, required |-> {}, forbidden |-> {"evidence_check_tool"}]}}

================================================================================
