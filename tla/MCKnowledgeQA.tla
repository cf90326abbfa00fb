----------------------------- MODULE MCKnowledgeQA -----------------------------
\* Instances of KnowledgeQA for TLC.
EXTENDS KnowledgeQA, TLC

\* Both workflows, with and without the permission for each tool.
Questions ==
    [flow : {KnowledgeQA, LargeKnowledgeQA},
     granted : {KnowledgeTools, {"doc_search_tool"}, {"evidence_check_tool"}},
     media : {"image"}, blocked : {FALSE}, knowledge : {FALSE}, deep : {FALSE},
     pictures : {FALSE}]

\* i1 and i2 are the same chunk, scored and unscored.
CONSTANTS i1, i2, i3

FourParts == <<"facts", "grounds", "limits", "tradeoffs">>

Keys == i1 :> "k1" @@ i2 :> "k1" @@ i3 :> "k3"

================================================================================
