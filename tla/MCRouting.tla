-------------------------------- MODULE MCRouting --------------------------------
\* Instances of Routing for TLC.
EXTENDS Routing

Grants == {{Wildcard}, FullPermissions, LimitedPermissions}

\* Keys with and without permissions, workflows and tools.
AccessRequests ==
    [kind : Kinds \ {"image", "video"}, media : {"image"}, evidence : {None, TRUE}, asked : Grants, held : Grants,
     workflows : {{Wildcard}, {KnowledgeQA, Document}, {LargeKnowledgeQA}},
     tools : {{Wildcard}, {}, {"inspection_tool"}, KnowledgeTools},
     outage : {{}}, slo : {5000}, budget : {"normal"}]

\* Full permissions, one workflow down, other demands on time and cost.
LoadRequests ==
    [kind : Kinds \ {"image"}, media : {"image"}, evidence : {None, FALSE},
     asked : {{Wildcard}}, held : {{Wildcard}}, workflows : {{Wildcard}}, tools : {{Wildcard}},
     outage : {{}, {KnowledgeQA}, {LargeKnowledgeQA}},
     slo : {5000, 100000}, budget : {"normal", "low"}]

\* Pictures and videos, also those that the workflow takes for the other, under keys for
\* one of the tools, or for none of both.
MediaRequests ==
    {r \in [kind : {"image", "video"}, media : {"image", "video"}, evidence : {None},
            asked : Grants, held : Grants, workflows : {{Wildcard}, {Media}},
            tools : {{Wildcard}, {}, {"image_generation_tool"}, {"video_generation_tool"}},
            outage : {{}}, slo : {5000}, budget : {"normal"}] :
        r.kind = "image" => r.media = "image"}

AllRequests == AccessRequests \cup LoadRequests \cup MediaRequests

\* Requests for a document under full permissions.
DocumentRequests ==
    {r \in LoadRequests : r.kind = "document" /\ r.evidence = None /\ r.outage = {}
                           /\ r.slo = 5000 /\ r.budget = "normal"}

\* Plans of one step on any workflow, and of a document with its helpers.
SomeSteps ==
    {{w} : w \in Workflows}
        \cup {{Document, KnowledgeQA}, {Document, LargeKnowledgeQA, Media}, {Coding, Document}}

Snapshot(ongoing, recent) == [ongoing |-> ongoing, recent |-> recent]
Recent(latency, error) == [latency |-> latency, error |-> error]

\* Nothing measured yet; three calls under way; slow, failing and loaded.
Idle == {Snapshot(0, None)}
Loads == {Snapshot(0, None), Snapshot(3, None), Snapshot(1, Recent(9000, 5000)),
          Snapshot(0, Recent(700, 0))}

================================================================================
