--------------------------- MODULE KnowledgeQAProofs ---------------------------
(***************************************************************************)
(* Theorems about KnowledgeQA, for any requests, evidence and number of    *)
(* subquestions.  The inductive invariant follows a job from node to node: *)
(* how many nodes it has run at most (Counted), whose calls are under way  *)
(* (CallsFit), that a reply was recorded before (Recorded), and what each  *)
(* node may rely on (Grounded).  Barred and Unchecked add how far a job    *)
(* without the permission to search, or to check, can come.                *)
(***************************************************************************)
EXTENDS KnowledgeQA, WorkflowProofs

CorrectiveNodes ==
    {"parse", "plan", "retrieve", "check", "rewrite", "generate", "citation", "repair",
     "finalize"} \cup Ended
DeepNodes ==
    {"parse", "brief", "split", "retrieve", "aggregate", "synthesize", "citation",
     "finalize"} \cup Ended

\* A node is reached after n others, a retry and a repair apart.
Reached(node, n) ==
    state.at = node => state.steps <= n + 3 * state.retry + 2 * state.repair

Counted ==
    /\ Corrective =>
          /\ state.at \in CorrectiveNodes
          /\ Reached("parse", 0) /\ Reached("plan", 1) /\ Reached("retrieve", 2)
          /\ Reached("check", 3) /\ Reached("rewrite", 4) /\ Reached("generate", 4)
          /\ Reached("citation", 5) /\ Reached("repair", 6) /\ Reached("finalize", 6)
          /\ Reached("end", 7) /\ Reached("crashed", 7)
          /\ state.at = "rewrite" => state.retry = 0
          /\ state.at = "repair" => state.repair = 0
    /\ Deep =>
          /\ state.at \in DeepNodes /\ state.retry = 0 /\ state.repair = 0
          /\ Reached("parse", 0) /\ Reached("brief", 1) /\ Reached("split", 2)
          /\ Reached("retrieve", 3) /\ Reached("aggregate", 4)
          /\ Reached("synthesize", 5) /\ Reached("citation", 6)
          /\ Reached("finalize", 7) /\ Reached("end", 8) /\ Reached("crashed", 8)
    /\ ~Corrective /\ ~Deep => state = InitialState

\* Only a node that awaits has calls, and they are of its tool, with its query.
CallsFit ==
    /\ state.at \notin {"retrieve", "check", "aggregate", "crashed"} =>
          \A s \in Slots : calls[s] = NoCall
    /\ ~(Deep /\ state.at = "retrieve") /\ state.at # "crashed" =>
          \A s \in Slots \ {1} : calls[s] = NoCall
    /\ \A s \in Slots : calls[s] # NoCall =>
          /\ state.at = "retrieve" =>
                /\ calls[s].tool = "doc_search_tool"
                /\ Corrective => calls[s].query = state.query
                /\ Deep => calls[s].query = Part[s]
          /\ state.at \in {"check", "aggregate"} => calls[s].tool = "evidence_check_tool"
          /\ state.at = "check" => calls[s].query = state.query
          /\ state.at = "aggregate" => calls[s].query = "asked"

Grounded ==
    /\ state.basis # {} => <<"doc_search_tool", "success">> \in audit
    /\ state.supported # None => <<"evidence_check_tool", "success">> \in audit
    /\ state.at \notin {"finalize", "end", "crashed"} =>
          state.failure = None /\ state.citations = {} /\ state.status = "success"
    /\ state.at \notin {"parse", "finalize", "end", "crashed"} => state.query # None
    /\ Corrective /\ state.at \in {"check", "rewrite", "generate", "citation", "repair"} =>
          state.basis = {state.query}
    /\ Corrective /\ state.at \in {"generate", "citation", "repair"} =>
          state.supported = state.query
    /\ Deep /\ state.at \in {"aggregate", "synthesize", "citation"} =>
          state.basis # {} /\ state.basis \subseteq Parts
    /\ Deep /\ state.at \in {"synthesize", "citation"} => state.supported = "asked"
    /\ state.at \in {"citation", "repair"} =>
          state.answer = IF state.evidence = {} THEN "notice" ELSE "evidence"
    /\ Deep /\ state.at \in {"synthesize", "citation"} => state.evidence # {}
    /\ state.at \in {"finalize", "end"} =>
          IF state.failure = None
          THEN /\ state.status = "success" /\ state.answer = "evidence"
               /\ state.citations # {} /\ state.citations = Cited(state.evidence)
               /\ Backed /\ state.supported # None
          ELSE state.status = "refused" /\ state.citations = {}

QAInv == TypeOK /\ Counted /\ CallsFit /\ Recorded /\ Grounded

CorrectivePath ==
    {"ParseQuestion", "PlanRetrieval", "RetrieveEvidence", "EvidenceCheck", "GenerateAnswer",
     "CitationCheck"}
DeepPath ==
    {"ParseDeepQuestion", "BuildResearchBrief", "SplitSubQuestions",
     "ParallelRetrieveEvidence", "EvidenceAggregate", "SynthesizeAnswer", "CitationCheck"}

\* The nodes that a job has run: all of its path if it has checked its citations, and not
\* the one that writes the answer if it was refused before.
Visited ==
    /\ Corrective =>
          /\ state.at \in {"parse", "plan", "retrieve", "check", "rewrite", "generate"} =>
                "GenerateAnswer" \notin state.nodes
          /\ state.at = "plan" => "ParseQuestion" \in state.nodes
          /\ state.at = "retrieve" => {"ParseQuestion", "PlanRetrieval"} \subseteq state.nodes
          /\ state.at \in {"check", "rewrite", "generate"} =>
                {"ParseQuestion", "PlanRetrieval", "RetrieveEvidence"} \subseteq state.nodes
          /\ state.at \in {"rewrite", "generate"} => "EvidenceCheck" \in state.nodes
          /\ state.at \in {"citation", "repair"} =>
                CorrectivePath \ {"CitationCheck"} \subseteq state.nodes
          /\ state.at \in {"finalize", "end"} =>
                IF state.failure \in {None, "missing_citation"}
                THEN CorrectivePath \subseteq state.nodes
                ELSE "GenerateAnswer" \notin state.nodes
    /\ Deep =>
          /\ state.at \in {"parse", "brief", "split", "retrieve", "aggregate", "synthesize"} =>
                "SynthesizeAnswer" \notin state.nodes
          /\ state.at = "brief" => "ParseDeepQuestion" \in state.nodes
          /\ state.at = "split" =>
                {"ParseDeepQuestion", "BuildResearchBrief"} \subseteq state.nodes
          /\ state.at \in {"retrieve", "aggregate", "synthesize", "citation"} =>
                {"ParseDeepQuestion", "BuildResearchBrief", "SplitSubQuestions"}
                    \subseteq state.nodes
          /\ state.at \in {"aggregate", "synthesize", "citation"} =>
                "ParallelRetrieveEvidence" \in state.nodes
          /\ state.at \in {"synthesize", "citation"} => "EvidenceAggregate" \in state.nodes
          /\ state.at = "citation" => "SynthesizeAnswer" \in state.nodes
          /\ state.at \in {"finalize", "end"} =>
                IF state.failure \in {None, "missing_citation"}
                THEN DeepPath \subseteq state.nodes
                ELSE "SynthesizeAnswer" \notin state.nodes
    /\ state.at = "end" => state.answer # None
    /\ state.tools \subseteq KnowledgeTools /\ state.error # "type"

\* Its calls are of the two tools for knowledge, also when it has crashed.
AsksKnowledge == \A s \in Slots : calls[s] # NoCall => calls[s].tool \in KnowledgeTools

--------------------------------------------------------------------------------
(* The invariant is inductive *)

\* A job that begins, alone or inside another.
LEMMA QABegins ==
    ASSUME request \in Requests, ServiceTypeOK, Idle, state = InitialState
    PROVE  QAInv /\ Visited /\ AsksKnowledge
<1>1. TypeOK
  <2>1. state \in State
    BY Names DEF InitialState, State
  <2> QED
    BY <2>1 DEF TypeOK, StateTypeOK, InitialState
<1>2. Counted
  BY DEF Counted, Reached, InitialState, CorrectiveNodes, DeepNodes
<1>3. CallsFit /\ Recorded
  BY DEF CallsFit, Recorded, InitialState, Idle
<1>4. Grounded
  BY DEF Grounded, InitialState
<1>5. Visited
  BY NoneAssumption DEF Visited, InitialState, Errors
<1>6. AsksKnowledge
  BY DEF AsksKnowledge, Idle
<1> QED
  BY <1>1, <1>2, <1>3, <1>4, <1>5, <1>6 DEF QAInv

LEMMA QAInit == Init => QAInv
<1> SUFFICES ASSUME Init PROVE QAInv
  OBVIOUS
<1>1. NoCall \in Call
  BY DEF NoCall, Call
<1>2. ServiceTypeOK /\ Idle
  BY <1>1 DEF Init, ServiceInit, ServiceTypeOK, Idle
<1> QED
  BY <1>2, QABegins DEF Init

\* The service works on.
LEMMA ServiceKeeps == QAInv /\ ServiceStep => QAInv'
<1> SUFFICES ASSUME QAInv, ServiceStep PROVE QAInv'
  OBVIOUS
<1>1. Serves /\ UNCHANGED <<request, state>>
  BY ServeServes DEF QAInv, TypeOK, ServiceStep
<1>2. TypeOK' /\ Recorded'
  BY <1>1 DEF QAInv, TypeOK, StateTypeOK, Serves
<1>3. Counted'
  BY <1>1 DEF QAInv, Counted, Reached, Corrective, Deep
<1>4. CallsFit'
  BY <1>1 DEF QAInv, CallsFit, Serves, Corrective, Deep
<1>5. Grounded'
  BY <1>1 DEF QAInv, Grounded, Backed, Serves, Corrective, Deep
<1> QED
  BY <1>2, <1>3, <1>4, <1>5 DEF QAInv

\* A job crashes.
LEMMA CrashKeeps ==
    ASSUME QAInv, state.at \notin Ended, Corrective \/ Deep, UNCHANGED <<request, audit>>,
           ServiceTypeOK', Recorded',
           NEW error \in Errors, Crashes(error)
    PROVE  QAInv'
<1>1. state \in State /\ state' = [state EXCEPT !.at = "crashed", !.error = error]
  BY DEF QAInv, TypeOK, StateTypeOK, Crashes
<1>a. state' \in State
  BY <1>1, Names DEF State
<1>b. state'.at = "crashed" /\ state'.error = error
  BY <1>1 DEF State
<1>2. TypeOK'
  BY <1>a, <1>b, NoneAssumption DEF QAInv, TypeOK, StateTypeOK
<1>3. Counted'
  <2>1. state'.steps = state.steps /\ state'.retry = state.retry /\ state'.repair = state.repair
    BY <1>1 DEF State
  <2>2. state.steps \in Nat /\ state.retry \in 0..1 /\ state.repair \in 0..1
    BY <1>1 DEF State
  <2> QED
    BY <1>b, <2>1, <2>2
    DEF QAInv, Counted, Reached, Corrective, Deep, CorrectiveNodes, DeepNodes, Ended
<1>4. CallsFit'
  BY <1>1 DEF CallsFit
<1>5. Grounded'
  BY <1>1 DEF QAInv, Grounded, State
<1> QED
  BY <1>2, <1>3, <1>4, <1>5 DEF QAInv

\* A node that is left without calls.
LEMMA IdleFits ==
    ASSUME \A s \in Slots : calls'[s] = NoCall
    PROVE  CallsFit' /\ Recorded'
  BY DEF CallsFit, Recorded

LEMMA GoesTyped ==
    ASSUME TypeOK, UNCHANGED <<request, audit>>, calls' \in [Slots -> Call],
           NEW next \in Places \ {"crashed"}, Goes(state', next), state.at # "crashed"
    PROVE  TypeOK'
  BY DEF TypeOK, StateTypeOK, ServiceTypeOK, Goes

LEMMA NodeFacts ==
    ASSUME QAInv
    PROVE  /\ state \in State /\ TypeOK /\ Counted /\ CallsFit /\ Recorded /\ Grounded
           /\ state.steps \in Nat /\ state.retry \in 0..1 /\ state.repair \in 0..1
           /\ calls \in [Slots -> Call] /\ 1 \in Slots /\ NoCall \in Call
<1>1. state \in State /\ calls \in [Slots -> Call]
  BY DEF QAInv, TypeOK, StateTypeOK, ServiceTypeOK
<1>2. 1 \in Slots
  BY ToolServiceAssumption DEF Slots
<1>3. NoCall \in Call
  BY DEF NoCall, Call
<1> QED
  BY <1>1, <1>2, <1>3 DEF QAInv, State

\* What a node finds that awaited one call.
LEMMA ReturnedFacts ==
    ASSUME QAInv, NEW here \in {"retrieve", "check", "aggregate"}, Returned(here),
           ~(Deep /\ here = "retrieve")
    PROVE  /\ state.at = here /\ UNCHANGED <<request, audit>>
           /\ calls[1] # NoCall /\ calls[1] \in Call /\ calls[1].at = "answered"
           /\ \A s \in Slots : calls'[s] = NoCall
           /\ calls' \in [Slots -> Call] /\ CallsFit' /\ Recorded'
<1>1. /\ state.at = here /\ calls[1].at = "answered" /\ UNCHANGED <<request, audit>>
      /\ calls' = [calls EXCEPT ![1] = NoCall]
  BY DEF Returned
<1>2. calls[1] # NoCall /\ calls[1] \in Call
  BY <1>1, NodeFacts DEF NoCall
<1>3. \A s \in Slots \ {1} : calls[s] = NoCall
  BY <1>1, NodeFacts DEF CallsFit
<1>4. calls' \in [Slots -> Call] /\ \A s \in Slots : calls'[s] = NoCall
  BY <1>1, <1>3, NodeFacts
<1> QED
  BY <1>1, <1>2, <1>4, IdleFits

\* A node posts a call and waits.
LEMMA SendsKeeps ==
    ASSUME QAInv, NEW here, NEW t \in Tools, NEW query \in Queries \cup {None},
           Sends(here, t, query),
           \/ Corrective /\ here = "retrieve" /\ t = "doc_search_tool" /\ query = state.query
           \/ Corrective /\ here = "check" /\ t = "evidence_check_tool" /\ query = state.query
           \/ Deep /\ here = "aggregate" /\ t = "evidence_check_tool" /\ query = "asked"
    PROVE  QAInv'
<1>1. /\ state.at = here /\ UNCHANGED <<request, state, audit>>
      /\ calls' = [calls EXCEPT ![1] = Posted(t, query, request.granted)]
  BY DEF Sends
<1>2. request \in Requests /\ request.granted \in SUBSET Tools
  BY NodeFacts, WorkflowAssumption DEF TypeOK
<1> DEFINE posted == Posted(t, query, request.granted)
<1>3. posted \in Call /\ posted.tool = t /\ posted.at = "sent" /\ posted.query = query
  BY <1>2 DEF Posted, NoCall, Call
<1> HIDE DEF posted
<1>4. /\ calls' \in [Slots -> Call] /\ calls'[1] = posted
      /\ \A s \in Slots \ {1} : calls'[s] = calls[s]
  BY <1>1, <1>3, NodeFacts DEF posted
<1>5. TypeOK'
  BY <1>1, <1>4, NodeFacts DEF TypeOK, StateTypeOK, ServiceTypeOK
<1>6. CallsFit'
  BY <1>1, <1>3, <1>4, NodeFacts
  DEF CallsFit, Corrective, Deep, KnowledgeQA, LargeKnowledgeQA
<1>7. Recorded'
  BY <1>1, <1>3, <1>4, NodeFacts DEF Recorded
<1>8. Counted' /\ Grounded'
  BY <1>1, NodeFacts DEF Counted, Reached, Grounded, Corrective, Deep
<1> QED
  BY <1>5, <1>6, <1>7, <1>8 DEF QAInv

LEMMA ParseQuestionKeeps == QAInv /\ ParseQuestion => QAInv'
<1> SUFFICES ASSUME QAInv, ParseQuestion PROVE QAInv'
  OBVIOUS
<1> DEFINE ran == Ran("ParseQuestion", "plan")
<1>1. /\ Goes(ran, "plan") /\ SameLoops(ran) /\ SameVerdict(ran) /\ SameFindings(ran)
      /\ ran.answer = state.answer
  BY NodeFacts, RanGoes DEF NodeNames, Places
<1>2. /\ state.at = "parse" /\ Corrective /\ UNCHANGED <<request, audit, calls>>
      /\ calls' \in [Slots -> Call] /\ CallsFit' /\ Recorded'
  <2>1. state.at = "parse" /\ Corrective /\ UNCHANGED <<request, audit, calls>>
    BY DEF ParseQuestion, serviceVars
  <2> QED
    BY <2>1, NodeFacts, IdleFits DEF CallsFit
<1> HIDE DEF ran
<1>3. state' = [ran EXCEPT !.query = "asked"]
  BY DEF ParseQuestion, ran
<1>4. QAInv'
  <2>1. /\ Goes(state', "plan")
        /\ SameLoops(state')
        /\ SameVerdict(state')
        /\ state'.answer = state.answer
        /\ state'.query = "asked" /\ state'.basis = state.basis
        /\ state'.supported = state.supported
        /\ state'.evidence = state.evidence
    <3>1. state' \in State
      <4>1. ran \in State
        BY <1>1 DEF Goes
      <4> QED
        BY <4>1, <1>3, Names DEF State
    <3>2. state'.at = "plan" /\ state'.steps = state.steps + 1 /\ state'.error = state.error
      BY <1>1, <1>3 DEF Goes, State
    <3> QED
      BY <1>1, <1>3, <3>1, <3>2 DEF Goes, SameLoops, SameVerdict, SameFindings, State
  <2>2. TypeOK'
    BY <1>2, <2>1, NodeFacts, GoesTyped DEF Places
  <2>3. Counted'
    BY <1>2, <1>3, <2>1, NodeFacts
    DEF Goes, SameLoops, Counted, Reached, Corrective, Deep, CorrectiveNodes, DeepNodes, Ended,
        KnowledgeQA, LargeKnowledgeQA
  <2>4. Grounded'
    BY <1>2, <1>3, <2>1, NodeFacts, NoneAssumption
    DEF Goes, SameVerdict, SameFindings, Grounded, Backed, Queries, Failures, Corrective, Deep,
        KnowledgeQA, LargeKnowledgeQA
  <2> QED
    BY <1>2, <2>2, <2>3, <2>4 DEF QAInv
<1> QED
  BY <1>4

LEMMA PlanRetrievalKeeps == QAInv /\ PlanRetrieval => QAInv'
<1> SUFFICES ASSUME QAInv, PlanRetrieval PROVE QAInv'
  OBVIOUS
<1> DEFINE ran == Ran("PlanRetrieval", "retrieve")
<1>1. /\ Goes(ran, "retrieve") /\ SameLoops(ran) /\ SameVerdict(ran) /\ SameFindings(ran)
      /\ ran.answer = state.answer
  BY NodeFacts, RanGoes DEF NodeNames, Places
<1>2. /\ state.at = "plan" /\ Corrective /\ UNCHANGED <<request, audit, calls>>
      /\ calls' \in [Slots -> Call] /\ CallsFit' /\ Recorded'
  <2>1. state.at = "plan" /\ Corrective /\ UNCHANGED <<request, audit, calls>>
    BY DEF PlanRetrieval, Plain, serviceVars
  <2> QED
    BY <2>1, NodeFacts, IdleFits DEF CallsFit
<1> HIDE DEF ran
<1>3. state' = ran
  BY DEF PlanRetrieval, Plain, ran
<1>4. QAInv'
  <2>1. /\ Goes(state', "retrieve")
        /\ SameLoops(state')
        /\ SameVerdict(state')
        /\ SameFindings(state')
        /\ state'.answer = state.answer
    <3>1. state' \in State
      <4>1. ran \in State
        BY <1>1 DEF Goes
      <4> QED
        BY <4>1, <1>3, Names DEF State
    <3>2. state'.at = "retrieve" /\ state'.steps = state.steps + 1 /\ state'.error = state.error
      BY <1>1, <1>3 DEF Goes, State
    <3> QED
      BY <1>1, <1>3, <3>1, <3>2 DEF Goes, SameLoops, SameVerdict, SameFindings, State
  <2>2. TypeOK'
    BY <1>2, <2>1, NodeFacts, GoesTyped DEF Places
  <2>3. Counted'
    BY <1>2, <1>3, <2>1, NodeFacts
    DEF Goes, SameLoops, Counted, Reached, Corrective, Deep, CorrectiveNodes, DeepNodes, Ended,
        KnowledgeQA, LargeKnowledgeQA
  <2>4. Grounded'
    BY <1>2, <1>3, <2>1, NodeFacts, NoneAssumption
    DEF Goes, SameVerdict, SameFindings, Grounded, Backed, Queries, Failures, Corrective, Deep,
        KnowledgeQA, LargeKnowledgeQA
  <2> QED
    BY <1>2, <2>2, <2>3, <2>4 DEF QAInv
<1> QED
  BY <1>4

LEMMA ParseDeepQuestionKeeps == QAInv /\ ParseDeepQuestion => QAInv'
<1> SUFFICES ASSUME QAInv, ParseDeepQuestion PROVE QAInv'
  OBVIOUS
<1> DEFINE ran == Ran("ParseDeepQuestion", "brief")
<1>1. /\ Goes(ran, "brief") /\ SameLoops(ran) /\ SameVerdict(ran) /\ SameFindings(ran)
      /\ ran.answer = state.answer
  BY NodeFacts, RanGoes DEF NodeNames, Places
<1>2. /\ state.at = "parse" /\ Deep /\ UNCHANGED <<request, audit, calls>>
      /\ calls' \in [Slots -> Call] /\ CallsFit' /\ Recorded'
  <2>1. state.at = "parse" /\ Deep /\ UNCHANGED <<request, audit, calls>>
    BY DEF ParseDeepQuestion, serviceVars
  <2> QED
    BY <2>1, NodeFacts, IdleFits DEF CallsFit
<1> HIDE DEF ran
<1>3. state' = [ran EXCEPT !.query = "asked"]
  BY DEF ParseDeepQuestion, ran
<1>4. QAInv'
  <2>1. /\ Goes(state', "brief")
        /\ SameLoops(state')
        /\ SameVerdict(state')
        /\ state'.answer = state.answer
        /\ state'.query = "asked" /\ state'.basis = state.basis
        /\ state'.supported = state.supported
        /\ state'.evidence = state.evidence
    <3>1. state' \in State
      <4>1. ran \in State
        BY <1>1 DEF Goes
      <4> QED
        BY <4>1, <1>3, Names DEF State
    <3>2. state'.at = "brief" /\ state'.steps = state.steps + 1 /\ state'.error = state.error
      BY <1>1, <1>3 DEF Goes, State
    <3> QED
      BY <1>1, <1>3, <3>1, <3>2 DEF Goes, SameLoops, SameVerdict, SameFindings, State
  <2>2. TypeOK'
    BY <1>2, <2>1, NodeFacts, GoesTyped DEF Places
  <2>3. Counted'
    BY <1>2, <1>3, <2>1, NodeFacts
    DEF Goes, SameLoops, Counted, Reached, Corrective, Deep, CorrectiveNodes, DeepNodes, Ended,
        KnowledgeQA, LargeKnowledgeQA
  <2>4. Grounded'
    BY <1>2, <1>3, <2>1, NodeFacts, NoneAssumption
    DEF Goes, SameVerdict, SameFindings, Grounded, Backed, Queries, Failures, Corrective, Deep,
        KnowledgeQA, LargeKnowledgeQA
  <2> QED
    BY <1>2, <2>2, <2>3, <2>4 DEF QAInv
<1> QED
  BY <1>4

LEMMA BuildResearchBriefKeeps == QAInv /\ BuildResearchBrief => QAInv'
<1> SUFFICES ASSUME QAInv, BuildResearchBrief PROVE QAInv'
  OBVIOUS
<1> DEFINE ran == Ran("BuildResearchBrief", "split")
<1>1. /\ Goes(ran, "split") /\ SameLoops(ran) /\ SameVerdict(ran) /\ SameFindings(ran)
      /\ ran.answer = state.answer
  BY NodeFacts, RanGoes DEF NodeNames, Places
<1>2. /\ state.at = "brief" /\ Deep /\ UNCHANGED <<request, audit, calls>>
      /\ calls' \in [Slots -> Call] /\ CallsFit' /\ Recorded'
  <2>1. state.at = "brief" /\ Deep /\ UNCHANGED <<request, audit, calls>>
    BY DEF BuildResearchBrief, Plain, serviceVars
  <2> QED
    BY <2>1, NodeFacts, IdleFits DEF CallsFit
<1> HIDE DEF ran
<1>3. state' = ran
  BY DEF BuildResearchBrief, Plain, ran
<1>4. QAInv'
  <2>1. /\ Goes(state', "split")
        /\ SameLoops(state')
        /\ SameVerdict(state')
        /\ SameFindings(state')
        /\ state'.answer = state.answer
    <3>1. state' \in State
      <4>1. ran \in State
        BY <1>1 DEF Goes
      <4> QED
        BY <4>1, <1>3, Names DEF State
    <3>2. state'.at = "split" /\ state'.steps = state.steps + 1 /\ state'.error = state.error
      BY <1>1, <1>3 DEF Goes, State
    <3> QED
      BY <1>1, <1>3, <3>1, <3>2 DEF Goes, SameLoops, SameVerdict, SameFindings, State
  <2>2. TypeOK'
    BY <1>2, <2>1, NodeFacts, GoesTyped DEF Places
  <2>3. Counted'
    BY <1>2, <1>3, <2>1, NodeFacts
    DEF Goes, SameLoops, Counted, Reached, Corrective, Deep, CorrectiveNodes, DeepNodes, Ended,
        KnowledgeQA, LargeKnowledgeQA
  <2>4. Grounded'
    BY <1>2, <1>3, <2>1, NodeFacts, NoneAssumption
    DEF Goes, SameVerdict, SameFindings, Grounded, Backed, Queries, Failures, Corrective, Deep,
        KnowledgeQA, LargeKnowledgeQA
  <2> QED
    BY <1>2, <2>2, <2>3, <2>4 DEF QAInv
<1> QED
  BY <1>4

LEMMA SplitSubQuestionsKeeps == QAInv /\ SplitSubQuestions => QAInv'
<1> SUFFICES ASSUME QAInv, SplitSubQuestions PROVE QAInv'
  OBVIOUS
<1> DEFINE ran == Ran("SplitSubQuestions", "retrieve")
<1>1. /\ Goes(ran, "retrieve") /\ SameLoops(ran) /\ SameVerdict(ran) /\ SameFindings(ran)
      /\ ran.answer = state.answer
  BY NodeFacts, RanGoes DEF NodeNames, Places
<1>2. /\ state.at = "split" /\ Deep /\ UNCHANGED <<request, audit, calls>>
      /\ calls' \in [Slots -> Call] /\ CallsFit' /\ Recorded'
  <2>1. state.at = "split" /\ Deep /\ UNCHANGED <<request, audit, calls>>
    BY DEF SplitSubQuestions, Plain, serviceVars
  <2> QED
    BY <2>1, NodeFacts, IdleFits DEF CallsFit
<1> HIDE DEF ran
<1>3. state' = ran
  BY DEF SplitSubQuestions, Plain, ran
<1>4. QAInv'
  <2>1. /\ Goes(state', "retrieve")
        /\ SameLoops(state')
        /\ SameVerdict(state')
        /\ SameFindings(state')
        /\ state'.answer = state.answer
    <3>1. state' \in State
      <4>1. ran \in State
        BY <1>1 DEF Goes
      <4> QED
        BY <4>1, <1>3, Names DEF State
    <3>2. state'.at = "retrieve" /\ state'.steps = state.steps + 1 /\ state'.error = state.error
      BY <1>1, <1>3 DEF Goes, State
    <3> QED
      BY <1>1, <1>3, <3>1, <3>2 DEF Goes, SameLoops, SameVerdict, SameFindings, State
  <2>2. TypeOK'
    BY <1>2, <2>1, NodeFacts, GoesTyped DEF Places
  <2>3. Counted'
    BY <1>2, <1>3, <2>1, NodeFacts
    DEF Goes, SameLoops, Counted, Reached, Corrective, Deep, CorrectiveNodes, DeepNodes, Ended,
        KnowledgeQA, LargeKnowledgeQA
  <2>4. Grounded'
    BY <1>2, <1>3, <2>1, NodeFacts, NoneAssumption
    DEF Goes, SameVerdict, SameFindings, Grounded, Backed, Queries, Failures, Corrective, Deep,
        KnowledgeQA, LargeKnowledgeQA
  <2> QED
    BY <1>2, <2>2, <2>3, <2>4 DEF QAInv
<1> QED
  BY <1>4

LEMMA RewriteQueryKeeps == QAInv /\ RewriteQuery => QAInv'
<1> SUFFICES ASSUME QAInv, RewriteQuery PROVE QAInv'
  OBVIOUS
<1> DEFINE ran == Ran("RewriteQuery", "retrieve")
<1>1. /\ Goes(ran, "retrieve") /\ SameLoops(ran) /\ SameVerdict(ran) /\ SameFindings(ran)
      /\ ran.answer = state.answer
  BY NodeFacts, RanGoes DEF NodeNames, Places
<1>2. /\ state.at = "rewrite" /\ Corrective /\ UNCHANGED <<request, audit, calls>>
      /\ calls' \in [Slots -> Call] /\ CallsFit' /\ Recorded'
  <2>1. state.at = "rewrite" /\ Corrective /\ UNCHANGED <<request, audit, calls>>
    BY DEF RewriteQuery, serviceVars
  <2> QED
    BY <2>1, NodeFacts, IdleFits DEF CallsFit
<1> HIDE DEF ran
<1>3. ran.retry + 1 \in 0..1
  BY <1>1, <1>2, NodeFacts DEF Counted, SameLoops
<1>4. state.retry = 0
  BY <1>2, NodeFacts DEF Counted
<1>5. state' = [ran EXCEPT !.query = "rewritten", !.retry = @ + 1]
  BY DEF RewriteQuery, ran
<1>6. QAInv'
  <2>1. /\ Goes(state', "retrieve")
        /\ state'.retry = state.retry + 1 /\ state'.repair = state.repair
        /\ SameVerdict(state')
        /\ state'.answer = state.answer
        /\ state'.query = "rewritten" /\ state'.basis = state.basis
        /\ state'.supported = state.supported
        /\ state'.evidence = state.evidence
    <3>1. state' \in State
      <4>1. ran \in State
        BY <1>1 DEF Goes
      <4>2. state' = [ran EXCEPT !.query = "rewritten", !.retry = ran.retry + 1]
        BY <4>1, <1>5 DEF State
      <4> QED
        BY <4>1, <4>2, <1>3, Names DEF State
    <3>2. state'.at = "retrieve" /\ state'.steps = state.steps + 1 /\ state'.error = state.error
      BY <1>1, <1>5 DEF Goes, State
    <3> QED
      BY <1>1, <1>5, <3>1, <3>2 DEF Goes, SameLoops, SameVerdict, SameFindings, State
  <2>2. TypeOK'
    BY <1>2, <2>1, NodeFacts, GoesTyped DEF Places
  <2>3. Counted'
    BY <1>2, <1>4, <1>5, <2>1, NodeFacts
    DEF Goes, SameLoops, Counted, Reached, Corrective, Deep, CorrectiveNodes, DeepNodes, Ended,
        KnowledgeQA, LargeKnowledgeQA
  <2>4. Grounded'
    BY <1>2, <1>4, <1>5, <2>1, NodeFacts, NoneAssumption
    DEF Goes, SameVerdict, SameFindings, Grounded, Backed, Queries, Failures, Corrective, Deep,
        KnowledgeQA, LargeKnowledgeQA
  <2> QED
    BY <1>2, <2>2, <2>3, <2>4 DEF QAInv
<1> QED
  BY <1>6

LEMMA GenerateAnswerKeeps == QAInv /\ GenerateAnswer => QAInv'
<1> SUFFICES ASSUME QAInv, GenerateAnswer PROVE QAInv'
  OBVIOUS
<1> DEFINE ran == Ran("GenerateAnswer", "citation")
<1>1. /\ Goes(ran, "citation") /\ SameLoops(ran) /\ SameVerdict(ran) /\ SameFindings(ran)
      /\ ran.answer = state.answer
  BY NodeFacts, RanGoes DEF NodeNames, Places
<1>2. /\ state.at = "generate" /\ Corrective /\ UNCHANGED <<request, audit, calls>>
      /\ calls' \in [Slots -> Call] /\ CallsFit' /\ Recorded'
  <2>1. state.at = "generate" /\ Corrective /\ UNCHANGED <<request, audit, calls>>
    BY DEF GenerateAnswer, serviceVars
  <2> QED
    BY <2>1, NodeFacts, IdleFits DEF CallsFit
<1> HIDE DEF ran
<1>3. state' = [ran EXCEPT !.answer = IF state.evidence = {} THEN "notice" ELSE "evidence"]
  BY DEF GenerateAnswer, ran
<1>4. QAInv'
  <2>1. /\ Goes(state', "citation")
        /\ SameLoops(state')
        /\ SameVerdict(state')
        /\ SameFindings(state')
        /\ state'.answer = IF state.evidence = {} THEN "notice" ELSE "evidence"
    <3>1. state' \in State
      <4>1. ran \in State
        BY <1>1 DEF Goes
      <4> QED
        BY <4>1, <1>3, Names DEF State
    <3>2. state'.at = "citation" /\ state'.steps = state.steps + 1 /\ state'.error = state.error
      BY <1>1, <1>3 DEF Goes, State
    <3> QED
      BY <1>1, <1>3, <3>1, <3>2 DEF Goes, SameLoops, SameVerdict, SameFindings, State
  <2>2. TypeOK'
    BY <1>2, <2>1, NodeFacts, GoesTyped DEF Places
  <2>3. Counted'
    BY <1>2, <1>3, <2>1, NodeFacts
    DEF Goes, SameLoops, Counted, Reached, Corrective, Deep, CorrectiveNodes, DeepNodes, Ended,
        KnowledgeQA, LargeKnowledgeQA
  <2>4. Grounded'
    BY <1>2, <1>3, <2>1, NodeFacts, NoneAssumption
    DEF Goes, SameVerdict, SameFindings, Grounded, Backed, Queries, Failures, Corrective, Deep,
        KnowledgeQA, LargeKnowledgeQA
  <2> QED
    BY <1>2, <2>2, <2>3, <2>4 DEF QAInv
<1> QED
  BY <1>4

LEMMA SynthesizeAnswerKeeps == QAInv /\ SynthesizeAnswer => QAInv'
<1> SUFFICES ASSUME QAInv, SynthesizeAnswer PROVE QAInv'
  OBVIOUS
<1> DEFINE ran == Ran("SynthesizeAnswer", "citation")
<1>1. /\ Goes(ran, "citation") /\ SameLoops(ran) /\ SameVerdict(ran) /\ SameFindings(ran)
      /\ ran.answer = state.answer
  BY NodeFacts, RanGoes DEF NodeNames, Places
<1>2. /\ state.at = "synthesize" /\ Deep /\ UNCHANGED <<request, audit, calls>>
      /\ calls' \in [Slots -> Call] /\ CallsFit' /\ Recorded'
  <2>1. state.at = "synthesize" /\ Deep /\ UNCHANGED <<request, audit, calls>>
    BY DEF SynthesizeAnswer, serviceVars
  <2> QED
    BY <2>1, NodeFacts, IdleFits DEF CallsFit
<1> HIDE DEF ran
<1>3. state' = [ran EXCEPT !.answer = "evidence"]
  BY DEF SynthesizeAnswer, ran
<1>4. QAInv'
  <2>1. /\ Goes(state', "citation")
        /\ SameLoops(state')
        /\ SameVerdict(state')
        /\ SameFindings(state')
        /\ state'.answer = "evidence"
    <3>1. state' \in State
      <4>1. ran \in State
        BY <1>1 DEF Goes
      <4> QED
        BY <4>1, <1>3, Names DEF State
    <3>2. state'.at = "citation" /\ state'.steps = state.steps + 1 /\ state'.error = state.error
      BY <1>1, <1>3 DEF Goes, State
    <3> QED
      BY <1>1, <1>3, <3>1, <3>2 DEF Goes, SameLoops, SameVerdict, SameFindings, State
  <2>2. TypeOK'
    BY <1>2, <2>1, NodeFacts, GoesTyped DEF Places
  <2>3. Counted'
    BY <1>2, <1>3, <2>1, NodeFacts
    DEF Goes, SameLoops, Counted, Reached, Corrective, Deep, CorrectiveNodes, DeepNodes, Ended,
        KnowledgeQA, LargeKnowledgeQA
  <2>4. Grounded'
    BY <1>2, <1>3, <2>1, NodeFacts, NoneAssumption
    DEF Goes, SameVerdict, SameFindings, Grounded, Backed, Queries, Failures, Corrective, Deep,
        KnowledgeQA, LargeKnowledgeQA
  <2> QED
    BY <1>2, <2>2, <2>3, <2>4 DEF QAInv
<1> QED
  BY <1>4

LEMMA RepairWithEvidenceKeeps == QAInv /\ RepairWithEvidence => QAInv'
<1> SUFFICES ASSUME QAInv, RepairWithEvidence PROVE QAInv'
  OBVIOUS
<1> DEFINE ran == Ran("RepairWithEvidence", "citation")
<1>1. /\ Goes(ran, "citation") /\ SameLoops(ran) /\ SameVerdict(ran) /\ SameFindings(ran)
      /\ ran.answer = state.answer
  BY NodeFacts, RanGoes DEF NodeNames, Places
<1>2. /\ state.at = "repair" /\ Corrective /\ UNCHANGED <<request, audit, calls>>
      /\ calls' \in [Slots -> Call] /\ CallsFit' /\ Recorded'
  <2>1. state.at = "repair" /\ Corrective /\ UNCHANGED <<request, audit, calls>>
    BY DEF RepairWithEvidence, serviceVars
  <2> QED
    BY <2>1, NodeFacts, IdleFits DEF CallsFit
<1> HIDE DEF ran
<1>3. ran.repair + 1 \in 0..1
  BY <1>1, <1>2, NodeFacts DEF Counted, SameLoops
<1>4. state.repair = 0
  BY <1>2, NodeFacts DEF Counted
<1>5. state' = [ran EXCEPT !.repair = @ + 1, !.failure = None]
  BY DEF RepairWithEvidence, ran
<1>6. QAInv'
  <2>1. /\ Goes(state', "citation")
        /\ state'.repair = state.repair + 1 /\ state'.retry = state.retry
        /\ SameFindings(state')
        /\ state'.answer = state.answer
        /\ state'.status = state.status /\ state'.failure = None
        /\ state'.citations = state.citations
    <3>1. state' \in State
      <4>1. ran \in State
        BY <1>1 DEF Goes
      <4>2. state' = [ran EXCEPT !.repair = ran.repair + 1, !.failure = None]
        BY <4>1, <1>5 DEF State
      <4> QED
        BY <4>1, <4>2, <1>3, Names DEF State
    <3>2. state'.at = "citation" /\ state'.steps = state.steps + 1 /\ state'.error = state.error
      BY <1>1, <1>5 DEF Goes, State
    <3> QED
      BY <1>1, <1>5, <3>1, <3>2 DEF Goes, SameLoops, SameVerdict, SameFindings, State
  <2>2. TypeOK'
    BY <1>2, <2>1, NodeFacts, GoesTyped DEF Places
  <2>3. Counted'
    BY <1>2, <1>4, <1>5, <2>1, NodeFacts
    DEF Goes, SameLoops, Counted, Reached, Corrective, Deep, CorrectiveNodes, DeepNodes, Ended,
        KnowledgeQA, LargeKnowledgeQA
  <2>4. Grounded'
    BY <1>2, <1>4, <1>5, <2>1, NodeFacts, NoneAssumption
    DEF Goes, SameVerdict, SameFindings, Grounded, Backed, Queries, Failures, Corrective, Deep,
        KnowledgeQA, LargeKnowledgeQA
  <2> QED
    BY <1>2, <2>2, <2>3, <2>4 DEF QAInv
<1> QED
  BY <1>6

LEMMA RetrieveEvidenceKeeps == QAInv /\ RetrieveEvidence => QAInv'
<1> SUFFICES ASSUME QAInv, RetrieveEvidence PROVE QAInv'
  OBVIOUS
<1> DEFINE ran == Ran("RetrieveEvidence", "check")
<1> DEFINE gone == Ran("RetrieveEvidence", "finalize")
<1>1. /\ Goes(ran, "check") /\ SameLoops(ran) /\ SameVerdict(ran) /\ SameFindings(ran)
      /\ ran.answer = state.answer
      /\ Goes(gone, "finalize") /\ SameLoops(gone) /\ SameVerdict(gone)
      /\ SameFindings(gone) /\ gone.answer = state.answer
  BY NodeFacts, RanGoes DEF NodeNames, Places
<1>2. /\ state.at = "retrieve" /\ Corrective /\ UNCHANGED <<request, audit>>
      /\ calls' \in [Slots -> Call] /\ CallsFit' /\ Recorded'
      /\ calls[1] # NoCall /\ calls[1] \in Call /\ calls[1].at = "answered"
  BY ReturnedFacts DEF RetrieveEvidence, Corrective, Deep, KnowledgeQA, LargeKnowledgeQA
<1> HIDE DEF ran, gone
<1>3. /\ calls[1].found \in SUBSET Items
      /\ ran.tools \cup {"doc_search_tool"} \in SUBSET Tools
      /\ gone.tools \cup {"doc_search_tool"} \in SUBSET Tools
      /\ calls[1].query = state.query /\ state.query \in Queries
  <2>1. calls[1].found \in SUBSET Items /\ calls[1].query = state.query
    BY <1>2, NodeFacts DEF Call, CallsFit
  <2>2. /\ ran.tools \in SUBSET Tools /\ gone.tools \in SUBSET Tools
        /\ state.query \in Queries
    BY <1>1, <1>2, NodeFacts DEF Goes, State, Grounded
  <2> QED
    BY <2>1, <2>2, KnownTools
<1>4. Succeeded(1) => <<"doc_search_tool", "success">> \in audit
  BY <1>2, NodeFacts DEF CallsFit, Recorded, Succeeded
<1>5. CASE /\ Succeeded(1)
              /\ state' = [ran EXCEPT !.evidence = calls[1].found, !.basis = {calls[1].query},
                                      !.tools = @ \cup {"doc_search_tool"}]
  <2>1. /\ Goes(state', "check")
        /\ SameLoops(state')
        /\ SameVerdict(state')
        /\ state'.answer = state.answer
        /\ state'.basis = {state.query} /\ state'.query = state.query
        /\ state'.supported = state.supported
    <3>1. state' \in State
      <4>1. ran \in State
        BY <1>1 DEF Goes
      <4>2. state' = [ran EXCEPT !.evidence = calls[1].found, !.basis = {calls[1].query},
                              !.tools = ran.tools \cup {"doc_search_tool"}]
        BY <4>1, <1>5 DEF State
      <4> QED
        BY <4>1, <4>2, <1>3, Names DEF State
    <3>2. state'.at = "check" /\ state'.steps = state.steps + 1 /\ state'.error = state.error
      BY <1>1, <1>5 DEF Goes, State
    <3> QED
      BY <1>1, <1>3, <1>5, <3>1, <3>2 DEF Goes, SameLoops, SameVerdict, SameFindings, State
  <2>2. TypeOK'
    BY <1>2, <2>1, NodeFacts, GoesTyped DEF Places
  <2>3. Counted'
    BY <1>2, <1>4, <1>5, <2>1, NodeFacts
    DEF Goes, SameLoops, Counted, Reached, Corrective, Deep, CorrectiveNodes, DeepNodes, Ended,
        KnowledgeQA, LargeKnowledgeQA
  <2>4. Grounded'
    BY <1>2, <1>4, <1>5, <2>1, NodeFacts, NoneAssumption
    DEF Goes, SameVerdict, SameFindings, Grounded, Backed, Queries, Failures, Corrective, Deep,
        KnowledgeQA, LargeKnowledgeQA
  <2> QED
    BY <1>2, <2>2, <2>3, <2>4 DEF QAInv
<1>6. CASE Crashes("score")
  BY <1>2, <1>6, CrashKeeps, NodeFacts DEF TypeOK, ServiceTypeOK, Ended, Errors
<1>7. CASE state' = [gone EXCEPT !.status = "refused", !.failure = "retrieval_failed",
                               !.tools = @ \cup {"doc_search_tool"}]
  <2>1. /\ Goes(state', "finalize")
        /\ SameLoops(state')
        /\ SameFindings(state')
        /\ state'.answer = state.answer
        /\ state'.citations = state.citations
        /\ state'.status = "refused" /\ state'.failure = "retrieval_failed"
    <3>1. state' \in State
      <4>1. gone \in State
        BY <1>1 DEF Goes
      <4>2. state' = [gone EXCEPT !.status = "refused", !.failure = "retrieval_failed",
                               !.tools = gone.tools \cup {"doc_search_tool"}]
        BY <4>1, <1>7 DEF State
      <4> QED
        BY <4>1, <4>2, <1>3, Names DEF State
    <3>2. state'.at = "finalize" /\ state'.steps = state.steps + 1 /\ state'.error = state.error
      BY <1>1, <1>7 DEF Goes, State
    <3> QED
      BY <1>1, <1>7, <3>1, <3>2 DEF Goes, SameLoops, SameVerdict, SameFindings, State
  <2>2. TypeOK'
    BY <1>2, <2>1, NodeFacts, GoesTyped DEF Places
  <2>3. Counted'
    BY <1>2, <1>4, <1>7, <2>1, NodeFacts
    DEF Goes, SameLoops, Counted, Reached, Corrective, Deep, CorrectiveNodes, DeepNodes, Ended,
        KnowledgeQA, LargeKnowledgeQA
  <2>4. Grounded'
    BY <1>2, <1>4, <1>7, <2>1, NodeFacts, NoneAssumption
    DEF Goes, SameVerdict, SameFindings, Grounded, Backed, Queries, Failures, Corrective, Deep,
        KnowledgeQA, LargeKnowledgeQA
  <2> QED
    BY <1>2, <2>2, <2>3, <2>4 DEF QAInv
<1> QED
  BY <1>5, <1>6, <1>7 DEF RetrieveEvidence, ran, gone

LEMMA EvidenceCheckKeeps == QAInv /\ EvidenceCheck => QAInv'
<1> SUFFICES ASSUME QAInv, EvidenceCheck PROVE QAInv'
  OBVIOUS
<1> DEFINE ran == Ran("EvidenceCheck", "finalize")
<1>1. /\ Goes(ran, "finalize") /\ SameLoops(ran) /\ SameVerdict(ran) /\ SameFindings(ran)
      /\ ran.answer = state.answer
  BY NodeFacts, RanGoes DEF NodeNames, Places
<1>2. /\ state.at = "check" /\ Corrective /\ UNCHANGED <<request, audit>>
      /\ calls' \in [Slots -> Call] /\ CallsFit' /\ Recorded'
      /\ calls[1] # NoCall /\ calls[1] \in Call /\ calls[1].at = "answered"
  BY ReturnedFacts DEF EvidenceCheck, Corrective, Deep, KnowledgeQA, LargeKnowledgeQA
<1> HIDE DEF ran
<1>3. /\ ran.tools \cup {"evidence_check_tool"} \in SUBSET Tools
      /\ calls[1].query = state.query /\ state.query \in Queries
  <2>1. ran.tools \in SUBSET Tools /\ state.query \in Queries
    BY <1>1, <1>2, NodeFacts DEF Goes, State, Grounded
  <2>2. calls[1].query = state.query
    BY <1>2, NodeFacts DEF CallsFit
  <2> QED
    BY <2>1, <2>2, KnownTools
<1>4. Supports(1) => <<"evidence_check_tool", "success">> \in audit
  BY <1>2, NodeFacts DEF CallsFit, Recorded, Succeeded, Supports
<1>5. CASE Supports(1)
              /\ state' = [ran EXCEPT !.tools = @ \cup {"evidence_check_tool"}, !.at = "generate",
                              !.status = "success", !.supported = calls[1].query]
  <2>1. /\ Goes(state', "generate")
        /\ SameLoops(state')
        /\ state'.answer = state.answer
        /\ state'.query = state.query /\ state'.basis = state.basis
        /\ state'.evidence = state.evidence
        /\ state'.citations = state.citations
        /\ state'.status = "success" /\ state'.failure = state.failure
        /\ state'.supported = state.query
    <3>1. state' \in State
      <4>1. ran \in State
        BY <1>1 DEF Goes
      <4>2. state' = [ran EXCEPT !.tools = ran.tools \cup {"evidence_check_tool"},
                      !.at = "generate",
                              !.status = "success", !.supported = calls[1].query]
        BY <4>1, <1>5 DEF State
      <4> QED
        BY <4>1, <4>2, <1>3, Names DEF State
    <3>2. state'.at = "generate" /\ state'.steps = state.steps + 1 /\ state'.error = state.error
      BY <1>1, <1>5 DEF Goes, State
    <3> QED
      BY <1>1, <1>3, <1>5, <3>1, <3>2 DEF Goes, SameLoops, SameVerdict, SameFindings, State
  <2>2. TypeOK'
    BY <1>2, <2>1, NodeFacts, GoesTyped DEF Places
  <2>3. Counted'
    BY <1>2, <1>4, <1>5, <2>1, NodeFacts
    DEF Goes, SameLoops, Counted, Reached, Corrective, Deep, CorrectiveNodes, DeepNodes, Ended,
        KnowledgeQA, LargeKnowledgeQA
  <2>4. Grounded'
    BY <1>2, <1>4, <1>5, <2>1, NodeFacts, NoneAssumption
    DEF Goes, SameVerdict, SameFindings, Grounded, Backed, Queries, Failures, Corrective, Deep,
        KnowledgeQA, LargeKnowledgeQA
  <2> QED
    BY <1>2, <2>2, <2>3, <2>4 DEF QAInv
<1>6. CASE ~Supports(1) /\ state.retry < 1
              /\ state' = [ran EXCEPT !.tools = @ \cup {"evidence_check_tool"}, !.at = "rewrite",
                              !.status = "success", !.supported = None]
  <2>1. /\ Goes(state', "rewrite")
        /\ SameLoops(state')
        /\ state'.answer = state.answer
        /\ state'.query = state.query /\ state'.basis = state.basis
        /\ state'.evidence = state.evidence
        /\ state'.citations = state.citations
        /\ state'.status = "success" /\ state'.failure = state.failure
        /\ state'.supported = None
    <3>1. state' \in State
      <4>1. ran \in State
        BY <1>1 DEF Goes
      <4>2. state' = [ran EXCEPT !.tools = ran.tools \cup {"evidence_check_tool"}, !.at = "rewrite",
                              !.status = "success", !.supported = None]
        BY <4>1, <1>6 DEF State
      <4> QED
        BY <4>1, <4>2, <1>3, Names DEF State
    <3>2. state'.at = "rewrite" /\ state'.steps = state.steps + 1 /\ state'.error = state.error
      BY <1>1, <1>6 DEF Goes, State
    <3> QED
      BY <1>1, <1>6, <3>1, <3>2 DEF Goes, SameLoops, SameVerdict, SameFindings, State
  <2>2. TypeOK'
    BY <1>2, <2>1, NodeFacts, GoesTyped DEF Places
  <2>3. Counted'
    BY <1>2, <1>4, <1>6, <2>1, NodeFacts
    DEF Goes, SameLoops, Counted, Reached, Corrective, Deep, CorrectiveNodes, DeepNodes, Ended,
        KnowledgeQA, LargeKnowledgeQA
  <2>4. Grounded'
    BY <1>2, <1>4, <1>6, <2>1, NodeFacts, NoneAssumption
    DEF Goes, SameVerdict, SameFindings, Grounded, Backed, Queries, Failures, Corrective, Deep,
        KnowledgeQA, LargeKnowledgeQA
  <2> QED
    BY <1>2, <2>2, <2>3, <2>4 DEF QAInv
<1>7. CASE state' = [ran EXCEPT !.tools = @ \cup {"evidence_check_tool"}, !.status = "refused",
                              !.failure = "insufficient_evidence", !.supported = None]
  <2>1. /\ Goes(state', "finalize")
        /\ SameLoops(state')
        /\ state'.answer = state.answer
        /\ state'.query = state.query /\ state'.basis = state.basis
        /\ state'.evidence = state.evidence
        /\ state'.citations = state.citations
        /\ state'.status = "refused" /\ state'.failure = "insufficient_evidence"
        /\ state'.supported = None
    <3>1. state' \in State
      <4>1. ran \in State
        BY <1>1 DEF Goes
      <4>2. state' = [ran EXCEPT !.tools = ran.tools \cup {"evidence_check_tool"},
                      !.status = "refused",
                              !.failure = "insufficient_evidence", !.supported = None]
        BY <4>1, <1>7 DEF State
      <4> QED
        BY <4>1, <4>2, <1>3, Names DEF State
    <3>2. state'.at = "finalize" /\ state'.steps = state.steps + 1 /\ state'.error = state.error
      BY <1>1, <1>7 DEF Goes, State
    <3> QED
      BY <1>1, <1>7, <3>1, <3>2 DEF Goes, SameLoops, SameVerdict, SameFindings, State
  <2>2. TypeOK'
    BY <1>2, <2>1, NodeFacts, GoesTyped DEF Places
  <2>3. Counted'
    BY <1>2, <1>4, <1>7, <2>1, NodeFacts
    DEF Goes, SameLoops, Counted, Reached, Corrective, Deep, CorrectiveNodes, DeepNodes, Ended,
        KnowledgeQA, LargeKnowledgeQA
  <2>4. Grounded'
    BY <1>2, <1>4, <1>7, <2>1, NodeFacts, NoneAssumption
    DEF Goes, SameVerdict, SameFindings, Grounded, Backed, Queries, Failures, Corrective, Deep,
        KnowledgeQA, LargeKnowledgeQA
  <2> QED
    BY <1>2, <2>2, <2>3, <2>4 DEF QAInv
<1> QED
  BY <1>5, <1>6, <1>7 DEF EvidenceCheck, Checked, ran

LEMMA CitationCheckKeeps == QAInv /\ CitationCheck => QAInv'
<1> SUFFICES ASSUME QAInv, CitationCheck PROVE QAInv'
  OBVIOUS
<1> DEFINE ran == Ran("CitationCheck", "finalize")
<1>1. /\ Goes(ran, "finalize") /\ SameLoops(ran) /\ SameVerdict(ran) /\ SameFindings(ran)
      /\ ran.answer = state.answer
  BY NodeFacts, RanGoes DEF NodeNames, Places
<1>2. /\ state.at = "citation" /\ Corrective /\ UNCHANGED <<request, audit, calls>>
      /\ calls' \in [Slots -> Call] /\ CallsFit' /\ Recorded'
  <2>1. state.at = "citation" /\ Corrective /\ UNCHANGED <<request, audit, calls>>
    BY DEF CitationCheck, serviceVars
  <2> QED
    BY <2>1, NodeFacts, IdleFits DEF CallsFit
<1> HIDE DEF ran
<1>3. Cited(state.evidence) \in SUBSET Citable
  BY NodeFacts DEF Cited, State
<1>4. CASE Cited(state.evidence) # {}
              /\ state' = [ran EXCEPT !.citations = Cited(state.evidence), !.status = "success",
                              !.failure = None]
  <2>1. /\ Goes(state', "finalize")
        /\ SameLoops(state')
        /\ state'.answer = state.answer
        /\ SameFindings(state')
        /\ state'.status = "success" /\ state'.failure = None
        /\ state'.citations = Cited(state.evidence)
    <3>1. state' \in State
      <4>1. ran \in State
        BY <1>1 DEF Goes
      <4> QED
        BY <4>1, <1>4, <1>3, Names DEF State
    <3>2. state'.at = "finalize" /\ state'.steps = state.steps + 1 /\ state'.error = state.error
      BY <1>1, <1>4 DEF Goes, State
    <3> QED
      BY <1>1, <1>4, <3>1, <3>2 DEF Goes, SameLoops, SameVerdict, SameFindings, State
  <2>2. TypeOK'
    BY <1>2, <2>1, NodeFacts, GoesTyped DEF Places
  <2>3. Counted'
    BY <1>2, <1>4, <2>1, NodeFacts
    DEF Goes, SameLoops, Counted, Reached, Corrective, Deep, CorrectiveNodes, DeepNodes, Ended,
        KnowledgeQA, LargeKnowledgeQA
  <2>4. Grounded'
    BY <1>2, <1>4, <2>1, NodeFacts, NoneAssumption
    DEF Goes, SameVerdict, SameFindings, Grounded, Backed, Queries, Failures, Corrective, Deep,
        KnowledgeQA, LargeKnowledgeQA, Cited
  <2> QED
    BY <1>2, <2>2, <2>3, <2>4 DEF QAInv
<1>5. CASE Cited(state.evidence) = {} /\ state.repair < 1
              /\ state' = [ran EXCEPT !.citations = Cited(state.evidence), !.at = "repair",
                              !.status = "success", !.failure = None]
  <2>1. /\ Goes(state', "repair")
        /\ SameLoops(state')
        /\ state'.answer = state.answer
        /\ SameFindings(state')
        /\ state'.status = "success" /\ state'.failure = None
        /\ state'.citations = Cited(state.evidence)
    <3>1. state' \in State
      <4>1. ran \in State
        BY <1>1 DEF Goes
      <4> QED
        BY <4>1, <1>5, <1>3, Names DEF State
    <3>2. state'.at = "repair" /\ state'.steps = state.steps + 1 /\ state'.error = state.error
      BY <1>1, <1>5 DEF Goes, State
    <3> QED
      BY <1>1, <1>5, <3>1, <3>2 DEF Goes, SameLoops, SameVerdict, SameFindings, State
  <2>2. TypeOK'
    BY <1>2, <2>1, NodeFacts, GoesTyped DEF Places
  <2>3. Counted'
    BY <1>2, <1>5, <2>1, NodeFacts
    DEF Goes, SameLoops, Counted, Reached, Corrective, Deep, CorrectiveNodes, DeepNodes, Ended,
        KnowledgeQA, LargeKnowledgeQA
  <2>4. Grounded'
    BY <1>2, <1>5, <2>1, NodeFacts, NoneAssumption
    DEF Goes, SameVerdict, SameFindings, Grounded, Backed, Queries, Failures, Corrective, Deep,
        KnowledgeQA, LargeKnowledgeQA, Cited
  <2> QED
    BY <1>2, <2>2, <2>3, <2>4 DEF QAInv
<1>6. CASE Cited(state.evidence) = {}
              /\ state' = [ran EXCEPT !.citations = Cited(state.evidence), !.status = "refused",
                              !.failure = "missing_citation"]
  <2>1. /\ Goes(state', "finalize")
        /\ SameLoops(state')
        /\ state'.answer = state.answer
        /\ SameFindings(state')
        /\ state'.status = "refused" /\ state'.failure = "missing_citation"
        /\ state'.citations = Cited(state.evidence)
    <3>1. state' \in State
      <4>1. ran \in State
        BY <1>1 DEF Goes
      <4> QED
        BY <4>1, <1>6, <1>3, Names DEF State
    <3>2. state'.at = "finalize" /\ state'.steps = state.steps + 1 /\ state'.error = state.error
      BY <1>1, <1>6 DEF Goes, State
    <3> QED
      BY <1>1, <1>6, <3>1, <3>2 DEF Goes, SameLoops, SameVerdict, SameFindings, State
  <2>2. TypeOK'
    BY <1>2, <2>1, NodeFacts, GoesTyped DEF Places
  <2>3. Counted'
    BY <1>2, <1>6, <2>1, NodeFacts
    DEF Goes, SameLoops, Counted, Reached, Corrective, Deep, CorrectiveNodes, DeepNodes, Ended,
        KnowledgeQA, LargeKnowledgeQA
  <2>4. Grounded'
    BY <1>2, <1>6, <2>1, NodeFacts, NoneAssumption
    DEF Goes, SameVerdict, SameFindings, Grounded, Backed, Queries, Failures, Corrective, Deep,
        KnowledgeQA, LargeKnowledgeQA, Cited
  <2> QED
    BY <1>2, <2>2, <2>3, <2>4 DEF QAInv
<1> QED
  BY <1>4, <1>5, <1>6 DEF CitationCheck, ran

LEMMA DeepCitationCheckKeeps == QAInv /\ DeepCitationCheck => QAInv'
<1> SUFFICES ASSUME QAInv, DeepCitationCheck PROVE QAInv'
  OBVIOUS
<1> DEFINE ran == Ran("CitationCheck", "finalize")
<1>1. /\ Goes(ran, "finalize") /\ SameLoops(ran) /\ SameVerdict(ran) /\ SameFindings(ran)
      /\ ran.answer = state.answer
  BY NodeFacts, RanGoes DEF NodeNames, Places
<1>2. /\ state.at = "citation" /\ Deep /\ UNCHANGED <<request, audit, calls>>
      /\ calls' \in [Slots -> Call] /\ CallsFit' /\ Recorded'
  <2>1. state.at = "citation" /\ Deep /\ UNCHANGED <<request, audit, calls>>
    BY DEF DeepCitationCheck, serviceVars
  <2> QED
    BY <2>1, NodeFacts, IdleFits DEF CallsFit
<1> HIDE DEF ran
<1>3. Cited(state.evidence) \in SUBSET Citable
  BY NodeFacts DEF Cited, State
<1>4. CASE Cited(state.evidence) # {}
              /\ state' = [ran EXCEPT !.citations = Cited(state.evidence), !.status = "success",
                              !.failure = None]
  <2>1. /\ Goes(state', "finalize")
        /\ SameLoops(state')
        /\ state'.answer = state.answer
        /\ SameFindings(state')
        /\ state'.status = "success" /\ state'.failure = None
        /\ state'.citations = Cited(state.evidence)
    <3>1. state' \in State
      <4>1. ran \in State
        BY <1>1 DEF Goes
      <4> QED
        BY <4>1, <1>4, <1>3, Names DEF State
    <3>2. state'.at = "finalize" /\ state'.steps = state.steps + 1 /\ state'.error = state.error
      BY <1>1, <1>4 DEF Goes, State
    <3> QED
      BY <1>1, <1>4, <3>1, <3>2 DEF Goes, SameLoops, SameVerdict, SameFindings, State
  <2>2. TypeOK'
    BY <1>2, <2>1, NodeFacts, GoesTyped DEF Places
  <2>3. Counted'
    BY <1>2, <1>4, <2>1, NodeFacts
    DEF Goes, SameLoops, Counted, Reached, Corrective, Deep, CorrectiveNodes, DeepNodes, Ended,
        KnowledgeQA, LargeKnowledgeQA
  <2>4. Grounded'
    BY <1>2, <1>4, <2>1, NodeFacts, NoneAssumption
    DEF Goes, SameVerdict, SameFindings, Grounded, Backed, Queries, Failures, Corrective, Deep,
        KnowledgeQA, LargeKnowledgeQA, Cited
  <2> QED
    BY <1>2, <2>2, <2>3, <2>4 DEF QAInv
<1>5. CASE Cited(state.evidence) = {}
              /\ state' = [ran EXCEPT !.citations = Cited(state.evidence), !.status = "refused",
                              !.failure = "missing_citation"]
  <2>1. /\ Goes(state', "finalize")
        /\ SameLoops(state')
        /\ state'.answer = state.answer
        /\ SameFindings(state')
        /\ state'.status = "refused" /\ state'.failure = "missing_citation"
        /\ state'.citations = Cited(state.evidence)
    <3>1. state' \in State
      <4>1. ran \in State
        BY <1>1 DEF Goes
      <4> QED
        BY <4>1, <1>5, <1>3, Names DEF State
    <3>2. state'.at = "finalize" /\ state'.steps = state.steps + 1 /\ state'.error = state.error
      BY <1>1, <1>5 DEF Goes, State
    <3> QED
      BY <1>1, <1>5, <3>1, <3>2 DEF Goes, SameLoops, SameVerdict, SameFindings, State
  <2>2. TypeOK'
    BY <1>2, <2>1, NodeFacts, GoesTyped DEF Places
  <2>3. Counted'
    BY <1>2, <1>5, <2>1, NodeFacts
    DEF Goes, SameLoops, Counted, Reached, Corrective, Deep, CorrectiveNodes, DeepNodes, Ended,
        KnowledgeQA, LargeKnowledgeQA
  <2>4. Grounded'
    BY <1>2, <1>5, <2>1, NodeFacts, NoneAssumption
    DEF Goes, SameVerdict, SameFindings, Grounded, Backed, Queries, Failures, Corrective, Deep,
        KnowledgeQA, LargeKnowledgeQA, Cited
  <2> QED
    BY <1>2, <2>2, <2>3, <2>4 DEF QAInv
<1> QED
  BY <1>4, <1>5 DEF DeepCitationCheck, ran

LEMMA EvidenceAggregateKeeps == QAInv /\ EvidenceAggregate => QAInv'
<1> SUFFICES ASSUME QAInv, EvidenceAggregate PROVE QAInv'
  OBVIOUS
<1> DEFINE ran == Ran("EvidenceAggregate", "finalize")
<1>1. /\ Goes(ran, "finalize") /\ SameLoops(ran) /\ SameVerdict(ran) /\ SameFindings(ran)
      /\ ran.answer = state.answer
  BY NodeFacts, RanGoes DEF NodeNames, Places
<1>2. /\ state.at = "aggregate" /\ Deep /\ UNCHANGED <<request, audit>>
      /\ calls' \in [Slots -> Call] /\ CallsFit' /\ Recorded'
      /\ calls[1] # NoCall /\ calls[1] \in Call /\ calls[1].at = "answered"
  BY ReturnedFacts DEF EvidenceAggregate, Corrective, Deep, KnowledgeQA, LargeKnowledgeQA
<1> HIDE DEF ran
<1>3. /\ ran.tools \cup {"evidence_check_tool"} \in SUBSET Tools
      /\ calls[1].query = "asked"
  <2>1. ran.tools \in SUBSET Tools
    BY <1>1, NodeFacts DEF Goes, State
  <2>2. calls[1].query = "asked"
    BY <1>2, NodeFacts DEF CallsFit
  <2> QED
    BY <2>1, <2>2, KnownTools
<1>4. Supports(1) => <<"evidence_check_tool", "success">> \in audit
  BY <1>2, NodeFacts DEF CallsFit, Recorded, Succeeded, Supports
<1>5. PICK kept \in SUBSET state.evidence :
        \/ /\ kept # {} /\ Supports(1)
           /\ state' = [Ran("EvidenceAggregate", "finalize") EXCEPT
                          !.evidence = kept, !.tools = @ \cup {"evidence_check_tool"},
                          !.at = "synthesize", !.status = "success",
                          !.supported = calls[1].query]
        \/ state' = [Ran("EvidenceAggregate", "finalize") EXCEPT
                        !.evidence = kept, !.tools = @ \cup {"evidence_check_tool"},
                        !.status = "refused", !.failure = "insufficient_evidence"]
  BY DEF EvidenceAggregate
<1>6. kept \in SUBSET Items
  BY NodeFacts DEF State
<1>7. CASE kept # {} /\ Supports(1)
              /\ state' = [ran EXCEPT !.evidence = kept, !.tools = @ \cup {"evidence_check_tool"},
                              !.at = "synthesize", !.status = "success",
                              !.supported = calls[1].query]
  <2>1. /\ Goes(state', "synthesize")
        /\ SameLoops(state')
        /\ state'.answer = state.answer
        /\ state'.query = state.query /\ state'.basis = state.basis
        /\ state'.citations = state.citations
        /\ state'.status = "success" /\ state'.failure = state.failure
        /\ state'.supported = "asked" /\ state'.evidence = kept
    <3>1. state' \in State
      <4>1. ran \in State
        BY <1>1 DEF Goes
      <4>2. state' = [ran EXCEPT !.evidence = kept,
                      !.tools = ran.tools \cup {"evidence_check_tool"},
                              !.at = "synthesize", !.status = "success",
                              !.supported = calls[1].query]
        BY <4>1, <1>7 DEF State
      <4> QED
        BY <4>1, <4>2, <1>3, <1>6, Names DEF State
    <3>2. state'.at = "synthesize" /\ state'.steps = state.steps + 1 /\ state'.error = state.error
      BY <1>1, <1>7 DEF Goes, State
    <3> QED
      BY <1>1, <1>3, <1>7, <3>1, <3>2 DEF Goes, SameLoops, SameVerdict, SameFindings, State
  <2>2. TypeOK'
    BY <1>2, <2>1, NodeFacts, GoesTyped DEF Places
  <2>3. Counted'
    BY <1>2, <1>4, <1>7, <2>1, NodeFacts
    DEF Goes, SameLoops, Counted, Reached, Corrective, Deep, CorrectiveNodes, DeepNodes, Ended,
        KnowledgeQA, LargeKnowledgeQA
  <2>4. Grounded'
    BY <1>2, <1>4, <1>7, <2>1, NodeFacts, NoneAssumption
    DEF Goes, SameVerdict, SameFindings, Grounded, Backed, Queries, Failures, Corrective, Deep,
        KnowledgeQA, LargeKnowledgeQA
  <2> QED
    BY <1>2, <2>2, <2>3, <2>4 DEF QAInv
<1>8. CASE state' = [ran EXCEPT !.evidence = kept, !.tools = @ \cup {"evidence_check_tool"},
                              !.status = "refused", !.failure = "insufficient_evidence"]
  <2>1. /\ Goes(state', "finalize")
        /\ SameLoops(state')
        /\ state'.answer = state.answer
        /\ state'.query = state.query /\ state'.basis = state.basis
        /\ state'.citations = state.citations
        /\ state'.status = "refused" /\ state'.failure = "insufficient_evidence"
        /\ state'.supported = state.supported
    <3>1. state' \in State
      <4>1. ran \in State
        BY <1>1 DEF Goes
      <4>2. state' = [ran EXCEPT !.evidence = kept,
                      !.tools = ran.tools \cup {"evidence_check_tool"},
                              !.status = "refused", !.failure = "insufficient_evidence"]
        BY <4>1, <1>8 DEF State
      <4> QED
        BY <4>1, <4>2, <1>3, <1>6, Names DEF State
    <3>2. state'.at = "finalize" /\ state'.steps = state.steps + 1 /\ state'.error = state.error
      BY <1>1, <1>8 DEF Goes, State
    <3> QED
      BY <1>1, <1>8, <3>1, <3>2 DEF Goes, SameLoops, SameVerdict, SameFindings, State
  <2>2. TypeOK'
    BY <1>2, <2>1, NodeFacts, GoesTyped DEF Places
  <2>3. Counted'
    BY <1>2, <1>4, <1>8, <2>1, NodeFacts
    DEF Goes, SameLoops, Counted, Reached, Corrective, Deep, CorrectiveNodes, DeepNodes, Ended,
        KnowledgeQA, LargeKnowledgeQA
  <2>4. Grounded'
    BY <1>2, <1>4, <1>8, <2>1, NodeFacts, NoneAssumption
    DEF Goes, SameVerdict, SameFindings, Grounded, Backed, Queries, Failures, Corrective, Deep,
        KnowledgeQA, LargeKnowledgeQA
  <2> QED
    BY <1>2, <2>2, <2>3, <2>4 DEF QAInv
<1> QED
  BY <1>5, <1>7, <1>8 DEF EvidenceAggregate, ran

LEMMA FinalizeKeeps == QAInv /\ Finalize => QAInv'
<1> SUFFICES ASSUME QAInv, Finalize PROVE QAInv'
  OBVIOUS
<1> DEFINE ran == Ran("Finalize", "end")
<1>1. /\ Goes(ran, "end") /\ SameLoops(ran) /\ SameVerdict(ran) /\ SameFindings(ran)
      /\ ran.answer = state.answer
  BY NodeFacts, RanGoes DEF NodeNames, Places, Ended
<1>2. /\ state.at = "finalize" /\ (Corrective \/ Deep) /\ UNCHANGED <<request, audit, calls>>
      /\ calls' \in [Slots -> Call] /\ CallsFit' /\ Recorded'
  <2>1. state.at = "finalize" /\ (Corrective \/ Deep) /\ UNCHANGED <<request, audit, calls>>
    BY DEF Finalize, serviceVars
  <2> QED
    BY <2>1, NodeFacts, IdleFits DEF CallsFit
<1> HIDE DEF ran
<1>3. (IF ran.answer = None THEN "notice" ELSE ran.answer) \in Texts
  BY <1>1, Names DEF Goes, State
<1>4. state' = [ran EXCEPT !.answer = IF @ = None THEN "notice" ELSE @]
  BY DEF Finalize, Final, ran
<1>5. QAInv'
  <2>1. /\ Goes(state', "end")
        /\ SameLoops(state')
        /\ SameVerdict(state')
        /\ SameFindings(state')
        /\ state'.answer = IF state.answer = None THEN "notice" ELSE state.answer
    <3>1. state' \in State
      <4>1. ran \in State
        BY <1>1 DEF Goes
      <4>2. state' = [ran EXCEPT !.answer = IF @ = None THEN "notice" ELSE @]
        BY <4>1, <1>4 DEF State
      <4> QED
        BY <4>1, <4>2, <1>3, Names DEF State
    <3>2. state'.at = "end" /\ state'.steps = state.steps + 1 /\ state'.error = state.error
      BY <1>1, <1>4 DEF Goes, State
    <3> QED
      BY <1>1, <1>4, <3>1, <3>2 DEF Goes, SameLoops, SameVerdict, SameFindings, State
  <2>2. TypeOK'
    BY <1>2, <2>1, NodeFacts, GoesTyped DEF Places, Ended
  <2>3. Counted'
    BY <1>2, <1>4, <2>1, NodeFacts
    DEF Goes, SameLoops, Counted, Reached, Corrective, Deep, CorrectiveNodes, DeepNodes, Ended,
        KnowledgeQA, LargeKnowledgeQA
  <2>4. Grounded'
    BY <1>2, <1>4, <2>1, NodeFacts, NoneAssumption
    DEF Goes, SameVerdict, SameFindings, Grounded, Backed, Queries, Failures, Corrective, Deep,
        KnowledgeQA, LargeKnowledgeQA, Texts
  <2> QED
    BY <1>2, <2>2, <2>3, <2>4 DEF QAInv
<1> QED
  BY <1>5

LEMMA ParallelRetrieveEvidenceKeeps == QAInv /\ ParallelRetrieveEvidence => QAInv'
<1> SUFFICES ASSUME QAInv, ParallelRetrieveEvidence PROVE QAInv'
  OBVIOUS
<1> DEFINE ran == Ran("ParallelRetrieveEvidence", "aggregate")
<1> DEFINE gone == Ran("ParallelRetrieveEvidence", "finalize")
<1>1. /\ Goes(ran, "aggregate") /\ SameLoops(ran) /\ SameVerdict(ran) /\ SameFindings(ran)
      /\ ran.answer = state.answer
      /\ Goes(gone, "finalize") /\ SameLoops(gone) /\ SameVerdict(gone)
      /\ SameFindings(gone) /\ gone.answer = state.answer
  BY NodeFacts, RanGoes DEF NodeNames, Places
<1>2. /\ state.at = "retrieve" /\ Deep /\ UNCHANGED <<request, audit>>
      /\ calls' \in [Slots -> Call] /\ CallsFit' /\ Recorded'
      /\ \A r \in Slots : calls[r] \in Call /\ calls[r].at = "answered"
  <2>1. /\ state.at = "retrieve" /\ Deep /\ Gathered /\ UNCHANGED <<request, audit>>
        /\ calls' = [r \in Slots |-> NoCall]
    BY DEF ParallelRetrieveEvidence
  <2>2. \A r \in Slots : calls[r] \in Call /\ calls[r].at = "answered"
    BY <2>1, NodeFacts DEF Gathered
  <2>3. calls' \in [Slots -> Call] /\ \A r \in Slots : calls'[r] = NoCall
    BY <2>1, NodeFacts
  <2> QED
    BY <2>1, <2>2, <2>3, IdleFits
<1> DEFINE found == UNION {calls[s].found : s \in Finders}
           queries == {calls[s].query : s \in Finders}
<1> HIDE DEF ran, gone
<1>3. /\ found \in SUBSET Items
      /\ gone.tools \cup {"doc_search_tool"} \in SUBSET Tools
      /\ queries \subseteq Parts /\ Parts \subseteq Queries
  <2>1. \A r \in Slots : calls[r].found \in SUBSET Items
    BY <1>2 DEF Call
  <2>2. gone.tools \in SUBSET Tools
    BY <1>1, NodeFacts DEF Goes, State
  <2>3. found \in SUBSET Items
    BY <2>1 DEF Finders
  <2>4. ASSUME NEW r \in Slots PROVE calls[r].query \in Parts
    <3>1. calls[r] # NoCall
      BY <1>2 DEF NoCall
    <3> QED
      BY <1>2, <3>1, NodeFacts DEF CallsFit, Parts
  <2> QED
    BY <2>2, <2>3, <2>4, KnownTools DEF Queries, Finders
<1>4. found # {} => queries # {} /\ <<"doc_search_tool", "success">> \in audit
  <2> SUFFICES ASSUME found # {}
               PROVE  queries # {} /\ <<"doc_search_tool", "success">> \in audit
    OBVIOUS
  <2>1. PICK r \in Slots : r \in Finders /\ Succeeded(r)
    BY DEF Finders
  <2>2. calls[r] # NoCall
    BY <1>2 DEF NoCall
  <2>3. calls[r].tool = "doc_search_tool"
    BY <1>2, <2>2, NodeFacts DEF CallsFit
  <2> QED
    BY <1>2, <2>1, <2>2, <2>3, NodeFacts DEF Recorded, Succeeded
<1> HIDE DEF found, queries
<1>5. CASE Crashes("score")
  BY <1>2, <1>5, CrashKeeps, NodeFacts DEF TypeOK, ServiceTypeOK, Ended, Errors
<1>6. CASE found # {}
              /\ state' = [gone EXCEPT !.evidence = found, !.tools = @ \cup {"doc_search_tool"},
                               !.at = "aggregate", !.status = "success",
                               !.basis = queries]
  <2>1. /\ Goes(state', "aggregate")
        /\ SameLoops(state')
        /\ state'.answer = state.answer
        /\ state'.citations = state.citations
        /\ state'.status = "success" /\ state'.failure = state.failure
        /\ state'.basis = queries /\ state'.query = state.query
        /\ state'.supported = state.supported /\ state'.evidence = found
    <3>1. state' \in State
      <4>1. gone \in State
        BY <1>1 DEF Goes
      <4>2. state' = [gone EXCEPT !.evidence = found, !.tools = gone.tools \cup {"doc_search_tool"},
                               !.at = "aggregate", !.status = "success",
                               !.basis = queries]
        BY <4>1, <1>6 DEF State
      <4> QED
        BY <4>1, <4>2, <1>3, Names DEF State
    <3>2. state'.at = "aggregate" /\ state'.steps = state.steps + 1 /\ state'.error = state.error
      BY <1>1, <1>6 DEF Goes, State
    <3> QED
      BY <1>1, <1>6, <3>1, <3>2 DEF Goes, SameLoops, SameVerdict, SameFindings, State
  <2>2. TypeOK'
    BY <1>2, <2>1, NodeFacts, GoesTyped DEF Places
  <2>3. Counted'
    BY <1>2, <1>4, <1>6, <2>1, NodeFacts
    DEF Goes, SameLoops, Counted, Reached, Corrective, Deep, CorrectiveNodes, DeepNodes, Ended,
        KnowledgeQA, LargeKnowledgeQA
  <2>4. Grounded'
    BY <1>2, <1>3, <1>4, <1>6, <2>1, NodeFacts, NoneAssumption
    DEF Goes, SameVerdict, SameFindings, Grounded, Backed, Queries, Failures, Corrective, Deep,
        KnowledgeQA, LargeKnowledgeQA
  <2> QED
    BY <1>2, <2>2, <2>3, <2>4 DEF QAInv
<1>7. CASE state' = [gone EXCEPT !.evidence = found, !.tools = @ \cup {"doc_search_tool"},
                               !.status = "refused", !.failure = "retrieval_failed"]
  <2>1. /\ Goes(state', "finalize")
        /\ SameLoops(state')
        /\ state'.answer = state.answer
        /\ state'.citations = state.citations
        /\ state'.query = state.query /\ state'.basis = state.basis
        /\ state'.status = "refused" /\ state'.failure = "retrieval_failed"
        /\ state'.supported = state.supported
    <3>1. state' \in State
      <4>1. gone \in State
        BY <1>1 DEF Goes
      <4>2. state' = [gone EXCEPT !.evidence = found, !.tools = gone.tools \cup {"doc_search_tool"},
                               !.status = "refused", !.failure = "retrieval_failed"]
        BY <4>1, <1>7 DEF State
      <4> QED
        BY <4>1, <4>2, <1>3, Names DEF State
    <3>2. state'.at = "finalize" /\ state'.steps = state.steps + 1 /\ state'.error = state.error
      BY <1>1, <1>7 DEF Goes, State
    <3> QED
      BY <1>1, <1>7, <3>1, <3>2 DEF Goes, SameLoops, SameVerdict, SameFindings, State
  <2>2. TypeOK'
    BY <1>2, <2>1, NodeFacts, GoesTyped DEF Places
  <2>3. Counted'
    BY <1>2, <1>4, <1>7, <2>1, NodeFacts
    DEF Goes, SameLoops, Counted, Reached, Corrective, Deep, CorrectiveNodes, DeepNodes, Ended,
        KnowledgeQA, LargeKnowledgeQA
  <2>4. Grounded'
    BY <1>2, <1>4, <1>7, <2>1, NodeFacts, NoneAssumption
    DEF Goes, SameVerdict, SameFindings, Grounded, Backed, Queries, Failures, Corrective, Deep,
        KnowledgeQA, LargeKnowledgeQA
  <2> QED
    BY <1>2, <2>2, <2>3, <2>4 DEF QAInv
<1> QED
  BY <1>5, <1>6, <1>7 DEF ParallelRetrieveEvidence, found, queries, ran, gone

LEMMA SendSearchesKeeps == QAInv /\ SendSearches => QAInv'
<1> SUFFICES ASSUME QAInv, SendSearches PROVE QAInv'
  OBVIOUS
<1> DEFINE posted(s) == Posted("doc_search_tool", Part[s], request.granted)
<1>1. /\ Deep /\ state.at = "retrieve" /\ UNCHANGED <<request, state, audit>>
      /\ calls' = [s \in Slots |-> posted(s)]
  BY DEF SendSearches
<1>2. request.granted \in SUBSET Tools
  BY NodeFacts, WorkflowAssumption DEF TypeOK
<1>3. ASSUME NEW s \in Slots
      PROVE  /\ posted(s) \in Call /\ posted(s).tool = "doc_search_tool"
             /\ posted(s).at = "sent" /\ posted(s).query = Part[s]
  <2>1. Part[s] \in Queries
    BY DEF Parts, Queries
  <2> QED
    BY <1>2, <2>1, KnownTools DEF Posted, NoCall, Call
<1> HIDE DEF posted
<1>4. TypeOK'
  BY <1>1, <1>3, NodeFacts DEF TypeOK, StateTypeOK, ServiceTypeOK
<1>5. CallsFit' /\ Recorded'
  BY <1>1, <1>3, KnownTools
  DEF CallsFit, Recorded, Corrective, Deep, KnowledgeQA, LargeKnowledgeQA
<1>6. Counted' /\ Grounded'
  BY <1>1, NodeFacts DEF Counted, Reached, Grounded, Corrective, Deep
<1> QED
  BY <1>4, <1>5, <1>6 DEF QAInv

LEMMA ClientRaisesKeeps == QAInv /\ ClientRaises => QAInv'
<1> SUFFICES ASSUME QAInv, ClientRaises PROVE QAInv'
  OBVIOUS
<1>1. PICK s \in Slots : calls[s].at \in {"sent", "executing", "broken"}
  BY DEF ClientRaises
<1>2. /\ state.at \notin Ended /\ Crashes("client") /\ "client" \in Errors
      /\ UNCHANGED <<request, calls, audit>>
  BY DEF ClientRaises, serviceVars, Errors
<1>3. calls[s] # NoCall
  BY <1>1 DEF NoCall
<1>4. state.at \in {"retrieve", "check", "aggregate"}
  BY <1>2, <1>3, NodeFacts DEF CallsFit, Ended
<1>5. Corrective \/ Deep
  BY <1>4, NodeFacts DEF Counted, InitialState
<1>6. ServiceTypeOK' /\ Recorded'
  BY <1>2, NodeFacts DEF TypeOK, ServiceTypeOK, Recorded
<1> QED
  BY <1>2, <1>5, <1>6, CrashKeeps

\* No step leaves the invariant.
LEMMA QAStep == QAInv /\ [Next]_vars => QAInv'
<1> SUFFICES ASSUME QAInv, [Next]_vars PROVE QAInv'
  OBVIOUS
<1>1. CASE UNCHANGED vars
  BY <1>1
  DEF vars, serviceVars, QAInv, TypeOK, StateTypeOK, ServiceTypeOK, Counted, Reached,
              CallsFit, Recorded, Grounded, Backed, Corrective, Deep
<1>2. CASE SendSearch \/ SendCheck \/ SendAggregateCheck
  <2>1. state.query \in Queries \cup {None} /\ "asked" \in Queries
    BY NodeFacts DEF State, Queries
  <2> QED
    BY <1>2, <2>1, SendsKeeps, KnownTools DEF SendSearch, SendCheck, SendAggregateCheck
<1>3. CASE Node /\ ~(SendSearch \/ SendCheck \/ SendAggregateCheck)
  BY <1>3, ParseQuestionKeeps, PlanRetrievalKeeps, RetrieveEvidenceKeeps,
     EvidenceCheckKeeps, RewriteQueryKeeps, GenerateAnswerKeeps, CitationCheckKeeps,
     RepairWithEvidenceKeeps, ParseDeepQuestionKeeps, BuildResearchBriefKeeps,
     SplitSubQuestionsKeeps, SendSearchesKeeps, ParallelRetrieveEvidenceKeeps,
     EvidenceAggregateKeeps, SynthesizeAnswerKeeps, DeepCitationCheckKeeps, FinalizeKeeps
  DEF Node
<1> QED
  BY <1>1, <1>2, <1>3, ClientRaisesKeeps, ServiceKeeps DEF Next

LEMMA QAInvariant == Spec => []QAInv
  BY QAInit, QAStep, PTL DEF Spec

LEMMA EndsGrounded == QAInv => SuccessIsGrounded
<1> SUFFICES ASSUME QAInv, state.at = "end" PROVE SuccessIsGrounded
  BY DEF SuccessIsGrounded
<1>1. CASE state.failure = None
  <2>1. /\ state.status = "success" /\ state.answer = "evidence"
        /\ state.citations # {} /\ state.citations = Cited(state.evidence)
        /\ Backed /\ state.supported # None
    BY <1>1, NodeFacts DEF Grounded
  <2>2. state.citations \subseteq state.evidence
    BY <2>1 DEF Cited
  <2>3. KnowledgeTools \subseteq Proven
    BY <2>1, NodeFacts, KnownTools DEF Grounded, Backed, KnowledgeTools, Proven
  <2> QED
    BY <1>1, <2>1, <2>2, <2>3 DEF SuccessIsGrounded
<1>2. CASE state.failure # None
  <2>1. state.status = "refused" /\ state.citations = {}
    BY <1>2, NodeFacts DEF Grounded
  <2> QED
    BY <1>2, <2>1 DEF SuccessIsGrounded
<1> QED
  BY <1>1, <1>2

LEMMA StaysBounded == QAInv => StepsBounded
<1> SUFFICES ASSUME QAInv PROVE StepsBounded
  OBVIOUS
<1>1. state.steps \in Nat /\ state.retry \in 0..1 /\ state.repair \in 0..1
  BY NodeFacts
<1>2. CASE Corrective
  BY <1>1, <1>2, NodeFacts
  DEF Counted, Reached, CorrectiveNodes, Ended, StepsBounded, RecursionLimit
<1>3. CASE Deep
  BY <1>1, <1>3, NodeFacts
  DEF Counted, Reached, DeepNodes, Ended, StepsBounded, RecursionLimit
<1>4. CASE ~Corrective /\ ~Deep
  BY <1>4, NodeFacts DEF Counted, InitialState, StepsBounded, RecursionLimit
<1> QED
  BY <1>2, <1>3, <1>4

--------------------------------------------------------------------------------
(* Theorems *)

\* The state is well typed: no job retries or repairs more than once.
THEOREM TypeCorrect == Spec => []TypeOK
  BY QAInvariant, PTL DEF QAInv

\* A job that says success has an answer from evidence that it retrieved with the query
\* for which the evidence check came out supported, and cites from it.
THEOREM SuccessesAreGrounded == Spec => []SuccessIsGrounded
  BY EndsGrounded, QAInvariant, PTL

\* The corrective graph runs twelve nodes at most, the deep one eight: LangGraph's limit
\* is never reached.
THEOREM LoopsAreBounded == Spec => []StepsBounded
  BY StaysBounded, QAInvariant, PTL

--------------------------------------------------------------------------------
(* A job that may not search *)

Denial == <<"doc_search_tool", "permission_denied">>

\* A search without the permission: it is answered with its denial, or not at all.
SearchDenied(s) ==
    /\ calls[s].tool = "doc_search_tool" /\ calls[s].granted = request.granted
    /\ calls[s].at \in {"sent", "answered", "broken"}
    /\ calls[s].at = "answered" =>
          calls[s].status = "permission_denied" /\ calls[s].found = {} /\ Denial \in audit

\* Such a job goes no further than its first search, and nothing but denials of this
\* search is ever on record.
Barred ==
    "doc_search_tool" \notin request.granted =>
        /\ state.at \in {"parse", "plan", "brief", "split", "retrieve", "finalize",
                         "end", "crashed"}
        /\ state.evidence = {} /\ state.retry = 0
        /\ state.answer = IF state.at = "end" THEN "notice" ELSE None
        /\ state.at \in {"finalize", "end"} =>
              state.failure = "retrieval_failed" /\ Denial \in audit
        /\ audit \subseteq {Denial}
        /\ \A s \in Slots : calls[s] # NoCall => SearchDenied(s)

LEMMA BarredInit == Init => Barred
<1> SUFFICES ASSUME Init PROVE Barred
  OBVIOUS
<1> QED
  BY DEF Init, ServiceInit, InitialState, Barred

\* The service denies the search, or cannot write the record of the denial.
LEMMA ServiceBars ==
    ASSUME QAInv, Barred, "doc_search_tool" \notin request.granted, ServiceStep
    PROVE  Barred'
<1>1. UNCHANGED <<request, state>> /\ Serve
  BY DEF ServiceStep
<1>2. PICK s \in Slots : Receive(s) \/ Execute(s)
  BY <1>1 DEF Serve
<1>3. calls[s] # NoCall
  <2>1. calls[s].at = "sent" \/ calls[s].at = "executing"
    BY <1>2 DEF Receive, Execute
  <2> QED
    BY <2>1 DEF NoCall
<1>4. SearchDenied(s) /\ calls \in [Slots -> Call] /\ calls[s] \in Call
  BY <1>2, <1>3, NodeFacts DEF Barred
<1>5. Reply(s, "permission_denied", {}, FALSE)
  BY <1>2, <1>4 DEF Receive, Execute, SearchDenied
<1>6. \A r \in Slots \ {s} : calls'[r] = calls[r]
  BY <1>4, <1>5 DEF Reply
<1>7. /\ calls'[s].tool = calls[s].tool /\ calls'[s].granted = calls[s].granted
      /\ audit' \in {audit, audit \cup {Denial}}
      /\ \/ calls'[s].at = "broken"
         \/ /\ calls'[s].at = "answered" /\ calls'[s].status = "permission_denied"
            /\ calls'[s].found = {} /\ Denial \in audit'
  <2>1. CASE /\ calls' = [calls EXCEPT ![s] = [@ EXCEPT !.at = "answered",
                             !.status = "permission_denied", !.found = {}, !.positive = FALSE]]
             /\ audit' = audit \cup {<<calls[s].tool, "permission_denied">>}
    <3>1. calls'[s] = [calls[s] EXCEPT !.at = "answered", !.status = "permission_denied",
                                       !.found = {}, !.positive = FALSE]
      BY <1>4, <2>1
    <3>2. audit' = audit \cup {Denial}
      BY <1>4, <2>1 DEF SearchDenied, Denial
    <3> QED
      BY <1>4, <3>1, <3>2 DEF Call
  <2>2. CASE calls' = [calls EXCEPT ![s].at = "broken"] /\ UNCHANGED audit
    <3>1. calls'[s] = [calls[s] EXCEPT !.at = "broken"]
      BY <1>4, <2>2
    <3> QED
      BY <1>4, <2>2, <3>1 DEF Call
  <2> QED
    BY <1>5, <2>1, <2>2 DEF Reply
<1>8. audit \subseteq audit' /\ audit' \subseteq {Denial}
  BY <1>7 DEF Barred
<1>9. ASSUME NEW r \in Slots, calls'[r] # NoCall PROVE SearchDenied(r)'
  <2>1. CASE r = s
    BY <1>1, <1>4, <1>7, <2>1 DEF SearchDenied
  <2>2. CASE r # s
    BY <1>1, <1>6, <1>8, <1>9, <2>2 DEF Barred, SearchDenied
  <2> QED
    BY <2>1, <2>2
<1> QED
  BY <1>1, <1>8, <1>9 DEF Barred

\* A node of such a job that leaves no call behind.
LEMMA NodeBars ==
    ASSUME Barred, "doc_search_tool" \notin request.granted, UNCHANGED <<request, audit>>,
           \A s \in Slots : calls'[s] = NoCall,
           NEW next \in {"plan", "brief", "split", "retrieve", "finalize"},
           state'.at = next, state'.evidence = {}, state'.answer = None, state'.retry = 0,
           next = "finalize" => state'.failure = "retrieval_failed" /\ Denial \in audit
    PROVE  Barred'
  BY DEF Barred

LEMMA CrashBars ==
    ASSUME QAInv, Barred, "doc_search_tool" \notin request.granted,
           UNCHANGED <<request, calls, audit>>, NEW error, Crashes(error), state.at # "end"
    PROVE  Barred'
<1>1. /\ state'.at = "crashed" /\ state'.evidence = state.evidence
      /\ state'.answer = state.answer /\ state'.retry = state.retry
  BY NodeFacts DEF Crashes, State
<1> QED
  BY <1>1 DEF Barred, SearchDenied

\* A job that posts its searches, with its permissions.
LEMMA PostBars ==
    ASSUME QAInv, Barred, "doc_search_tool" \notin request.granted,
           UNCHANGED <<request, state, audit>>,
           \A s \in Slots : \/ calls'[s] = NoCall
                          \/ \E query : calls'[s] = Posted("doc_search_tool", query, request.granted)
    PROVE  Barred'
<1>2. ASSUME NEW s \in Slots, calls'[s] # NoCall PROVE SearchDenied(s)'
  <2>1. PICK query : calls'[s] = Posted("doc_search_tool", query, request.granted)
    BY <1>2
  <2>2. /\ calls'[s].tool = "doc_search_tool" /\ calls'[s].granted = request.granted
        /\ calls'[s].at = "sent"
    BY <2>1 DEF Posted, NoCall
  <2> QED
    BY <2>2 DEF SearchDenied
<1> QED
  BY <1>2 DEF Barred

LEMMA BarredStep == QAInv /\ Barred /\ [Next]_vars => Barred'
<1> SUFFICES ASSUME QAInv, Barred, [Next]_vars, "doc_search_tool" \notin request'.granted
             PROVE  Barred'
  BY DEF Barred
<1>0. UNCHANGED request
  BY DEF Next, Node, vars, serviceVars, ParseQuestion, PlanRetrieval, SendSearch,
         RetrieveEvidence, SendCheck, EvidenceCheck, RewriteQuery, GenerateAnswer,
         CitationCheck, RepairWithEvidence, ParseDeepQuestion, BuildResearchBrief,
         SplitSubQuestions, SendSearches, ParallelRetrieveEvidence, SendAggregateCheck,
         EvidenceAggregate, SynthesizeAnswer, DeepCitationCheck, Finalize, ClientRaises,
         ServiceStep, Plain, Sends, Returned
<1> USE <1>0
<1>a. /\ state \in State /\ state.evidence = {} /\ state.retry = 0
      /\ state.at \in {"parse", "plan", "brief", "split", "retrieve", "finalize", "end",
                       "crashed"}
      /\ state.answer = IF state.at = "end" THEN "notice" ELSE None
  BY NodeFacts DEF Barred
<1>b. state.at \notin {"retrieve", "crashed"} => \A s \in Slots : calls[s] = NoCall
  BY <1>a, NodeFacts DEF CallsFit
<1>1. CASE UNCHANGED vars
  BY <1>1 DEF vars, serviceVars, Barred, SearchDenied
<1>2. CASE ServiceStep
  BY <1>2, ServiceBars
<1>3. CASE ClientRaises
  BY <1>3, CrashBars DEF ClientRaises, Ended, serviceVars
<1>4. CASE \/ ParseQuestion \/ PlanRetrieval
           \/ ParseDeepQuestion \/ BuildResearchBrief \/ SplitSubQuestions
  <2>1. PICK node \in NodeNames, next \in {"plan", "brief", "split", "retrieve"} :
           /\ state.at \in {"parse", "plan", "brief", "split"}
           /\ UNCHANGED <<audit, calls>>
           /\ state' = Ran(node, next) \/ state' = [Ran(node, next) EXCEPT !.query = "asked"]
    BY <1>4 DEF ParseQuestion, PlanRetrieval, ParseDeepQuestion, BuildResearchBrief,
                SplitSubQuestions, Plain, serviceVars, NodeNames
  <2> DEFINE ran == Ran(node, next)
  <2>2. /\ ran \in State /\ ran.at = next /\ ran.evidence = {} /\ ran.answer = None
        /\ ran.retry = 0
    BY <1>a, <2>1, RanGoes DEF Goes, SameLoops, SameFindings, Places
  <2> HIDE DEF ran
  <2>3. state'.at = next /\ state'.evidence = {} /\ state'.answer = None /\ state'.retry = 0
    BY <2>1, <2>2 DEF ran, State
  <2>4. \A s \in Slots : calls'[s] = NoCall
    BY <1>b, <2>1
  <2> QED
    BY <2>1, <2>3, <2>4, NodeBars
<1>5. CASE SendSearch \/ SendSearches
  <2>1. \A s \in Slots :
           \/ calls'[s] = NoCall
           \/ \E query : calls'[s] = Posted("doc_search_tool", query, request.granted)
    <3>1. CASE SendSearches
      BY <3>1 DEF SendSearches
    <3>2. CASE SendSearch
      <4>1. /\ calls[1] = NoCall /\ Corrective /\ state.at = "retrieve"
            /\ calls' = [calls EXCEPT ![1] =
                            Posted("doc_search_tool", state.query, request.granted)]
        BY <3>2 DEF SendSearch, Sends
      <4>2. \A s \in Slots \ {1} : calls[s] = NoCall
        BY <4>1, NodeFacts DEF CallsFit, Corrective, Deep, KnowledgeQA, LargeKnowledgeQA
      <4> QED
        BY <4>1, <4>2, NodeFacts
    <3> QED
      BY <1>5, <3>1, <3>2
  <2> QED
    BY <1>5, <2>1, PostBars DEF SendSearch, SendSearches, Sends
<1>6. CASE RetrieveEvidence
  <2>1. /\ calls[1] # NoCall /\ calls[1].at = "answered" /\ UNCHANGED audit
        /\ state.at = "retrieve" /\ \A s \in Slots : calls'[s] = NoCall
    BY <1>6, ReturnedFacts DEF RetrieveEvidence, Corrective, Deep, KnowledgeQA, LargeKnowledgeQA
  <2>2. calls[1].status = "permission_denied" /\ Denial \in audit
    BY <2>1, NodeFacts DEF Barred, SearchDenied
  <2> DEFINE ran == Ran("RetrieveEvidence", "finalize")
  <2>3. state' = [ran EXCEPT !.status = "refused", !.failure = "retrieval_failed",
                             !.tools = @ \cup {"doc_search_tool"}]
    BY <1>6, <2>2 DEF RetrieveEvidence, Succeeded
  <2>4. /\ ran \in State /\ ran.at = "finalize" /\ ran.evidence = {} /\ ran.answer = None
        /\ ran.retry = 0
    BY <1>a, <2>1, RanGoes DEF Goes, SameLoops, SameFindings, Places, NodeNames
  <2> HIDE DEF ran
  <2>5. /\ state'.at = "finalize" /\ state'.evidence = {} /\ state'.answer = None
        /\ state'.failure = "retrieval_failed" /\ state'.retry = 0
    BY <2>3, <2>4 DEF State
  <2> QED
    BY <2>1, <2>2, <2>5, NodeBars
<1>7. CASE ParallelRetrieveEvidence
  <2>1. /\ state.at = "retrieve" /\ Gathered /\ UNCHANGED audit
        /\ \A s \in Slots : calls'[s] = NoCall
    BY <1>7 DEF ParallelRetrieveEvidence
  <2>2. \A s \in Slots : calls[s].status = "permission_denied" /\ Denial \in audit
    BY <2>1 DEF Gathered, Barred, SearchDenied, NoCall
  <2>3. Denial \in audit /\ Finders = {}
    BY <2>2, NodeFacts DEF Succeeded, Finders
  <2> DEFINE ran == Ran("ParallelRetrieveEvidence", "finalize")
             found == UNION {calls[s].found : s \in Finders}
  <2>4. found = {}
    BY <2>3
  <2>5. state' = [ran EXCEPT !.evidence = found, !.tools = @ \cup {"doc_search_tool"},
                             !.status = "refused", !.failure = "retrieval_failed"]
    BY <1>7, <2>4 DEF ParallelRetrieveEvidence, Readable
  <2>6. ran \in State /\ ran.at = "finalize" /\ ran.answer = None /\ ran.retry = 0
    BY <1>a, <2>1, RanGoes DEF Goes, SameLoops, Places, NodeNames
  <2> HIDE DEF ran, found
  <2>7. /\ state'.at = "finalize" /\ state'.evidence = {} /\ state'.answer = None
        /\ state'.failure = "retrieval_failed" /\ state'.retry = 0
    BY <2>4, <2>5, <2>6 DEF State
  <2> QED
    BY <2>1, <2>3, <2>7, NodeBars
<1>8. CASE Finalize
  <2> DEFINE ran == Ran("Finalize", "end")
  <2>1. state.at = "finalize" /\ UNCHANGED <<calls, audit>>
        /\ state' = [ran EXCEPT !.answer = IF @ = None THEN "notice" ELSE @]
    BY <1>8 DEF Finalize, Final, serviceVars
  <2>2. /\ ran \in State /\ ran.at = "end" /\ ran.evidence = {} /\ ran.answer = None
        /\ ran.failure = state.failure
    BY <1>a, <2>1, RanGoes DEF Goes, SameFindings, SameVerdict, Places, Ended, NodeNames
  <2>a. ran.retry = 0
    BY <1>a, RanGoes DEF SameLoops, Places, Ended, NodeNames
  <2> HIDE DEF ran
  <2>3. /\ state'.at = "end" /\ state'.evidence = {} /\ state'.answer = "notice"
        /\ state'.failure = state.failure /\ state'.retry = 0
    BY <2>1, <2>2, <2>a DEF State
  <2>4. \A s \in Slots : calls'[s] = NoCall
    BY <1>b, <2>1
  <2> QED
    BY <2>1, <2>3, <2>4 DEF Barred
<1>9. CASE \/ SendCheck \/ EvidenceCheck \/ RewriteQuery \/ GenerateAnswer \/ CitationCheck
           \/ RepairWithEvidence \/ SendAggregateCheck \/ EvidenceAggregate
           \/ SynthesizeAnswer \/ DeepCitationCheck
  BY <1>a, <1>9 DEF SendCheck, EvidenceCheck, RewriteQuery, GenerateAnswer, CitationCheck,
     RepairWithEvidence, SendAggregateCheck, EvidenceAggregate, SynthesizeAnswer,
     DeepCitationCheck, Sends, Returned
<1> QED
  BY <1>1, <1>2, <1>3, <1>4, <1>5, <1>6, <1>7, <1>8, <1>9 DEF Next, Node

--------------------------------------------------------------------------------
(* What a job leaves for the gateway *)

\* Nodes leave calls, drop them or post new ones.
LEMMA NodeMoves == QAInv /\ Node => Moves(KnowledgeTools)
<1> SUFFICES ASSUME QAInv, Node PROVE Moves(KnowledgeTools)
  OBVIOUS
<1>1. ServiceTypeOK /\ 1 \in Slots /\ calls \in [Slots -> Call] /\ NoCall \in Call
  BY NodeFacts DEF TypeOK
<1>2. request.granted \in SUBSET Tools
  BY NodeFacts, WorkflowAssumption DEF TypeOK
<1>3. CASE \/ ParseQuestion \/ PlanRetrieval \/ RewriteQuery \/ GenerateAnswer
           \/ CitationCheck \/ RepairWithEvidence \/ ParseDeepQuestion
           \/ BuildResearchBrief \/ SplitSubQuestions \/ SynthesizeAnswer
           \/ DeepCitationCheck \/ Finalize
  <2>1. UNCHANGED <<request, serviceVars>>
    BY <1>3 DEF ParseQuestion, PlanRetrieval, RewriteQuery, GenerateAnswer, CitationCheck,
       RepairWithEvidence, ParseDeepQuestion, BuildResearchBrief, SplitSubQuestions,
       SynthesizeAnswer, DeepCitationCheck, Finalize, Plain
  <2> QED
    BY <1>1, <2>1, RestMoves
<1>4. ASSUME NEW here, NEW t \in KnowledgeTools, NEW query \in Queries \cup {None},
             Sends(here, t, query)
      PROVE  Moves(KnowledgeTools)
  <2> DEFINE posted == Posted(t, query, request.granted)
  <2>1. posted \in Call
    BY <1>2, KnownTools DEF Posted, NoCall, Call
  <2> HIDE DEF posted
  <2>2. calls' = [calls EXCEPT ![1] = posted] /\ UNCHANGED <<request, audit>>
    BY <1>4 DEF Sends, posted
  <2> QED
    BY <1>1, <2>1, <2>2 DEF Moves, posted
<1>5. CASE SendSearch \/ SendCheck \/ SendAggregateCheck
  <2>1. state.query \in Queries \cup {None} /\ "asked" \in Queries
    BY NodeFacts DEF State, Queries
  <2> QED
    BY <1>4, <1>5, <2>1 DEF SendSearch, SendCheck, SendAggregateCheck, KnowledgeTools
<1>6. CASE RetrieveEvidence \/ EvidenceCheck \/ EvidenceAggregate
  <2>1. calls' = [calls EXCEPT ![1] = NoCall] /\ UNCHANGED <<request, audit>>
    BY <1>6 DEF RetrieveEvidence, EvidenceCheck, EvidenceAggregate, Returned
  <2> QED
    BY <1>1, <2>1 DEF Moves
<1>7. CASE SendSearches
  <2> DEFINE posted(s) == Posted("doc_search_tool", Part[s], request.granted)
  <2>1. ASSUME NEW s \in Slots PROVE Part[s] \in Queries /\ posted(s) \in Call
    <3>1. Part[s] \in Queries
      BY DEF Parts, Queries
    <3> QED
      BY <1>2, <3>1, KnownTools DEF Posted, NoCall, Call
  <2> HIDE DEF posted
  <2>2. calls' = [s \in Slots |-> posted(s)] /\ UNCHANGED <<request, audit>>
    BY <1>7 DEF SendSearches, posted
  <2> QED
    BY <1>1, <2>1, <2>2 DEF Moves, posted, KnowledgeTools
<1>8. CASE ParallelRetrieveEvidence
  BY <1>1, <1>8 DEF ParallelRetrieveEvidence, Moves
<1> QED
  BY <1>3, <1>5, <1>6, <1>7, <1>8 DEF Node

LEMMA AsksStep == QAInv /\ AsksKnowledge /\ [Next]_vars => AsksKnowledge'
<1> SUFFICES ASSUME QAInv, AsksKnowledge, [Next]_vars PROVE AsksKnowledge'
  OBVIOUS
<1>1. CASE UNCHANGED vars \/ ClientRaises
  BY <1>1 DEF AsksKnowledge, vars, serviceVars, ClientRaises
<1>2. CASE ServiceStep
  BY <1>2, ServeServes DEF AsksKnowledge, QAInv, TypeOK, ServiceStep, Serves
<1>3. CASE Node
  <2>1. ASSUME NEW t, NEW query, NEW s \in Slots,
               calls'[s] = Posted(t, query, request.granted)
        PROVE  calls'[s].tool = t
    BY <2>1 DEF Posted, NoCall
  <2> QED
    BY <1>3, <2>1, NodeMoves DEF AsksKnowledge, Moves
<1> QED
  BY <1>1, <1>2, <1>3 DEF Next

\* A node has run, and failed or not; it has used no tools but those for knowledge.
Took(node, next) ==
    /\ state'.at = next /\ state'.nodes = state.nodes \cup {node}
    /\ state'.error = state.error
    /\ state'.tools \subseteq state.tools \cup KnowledgeTools

LEMMA RanTakes ==
    ASSUME QAInv, NEW node \in NodeNames, NEW next \in Places
    PROVE  LET r == Ran(node, next)
           IN  /\ r \in State /\ r.at = next /\ r.nodes = state.nodes \cup {node}
               /\ r.error = state.error /\ r.tools = state.tools
  BY NodeFacts, RanGoes, RanKeeps DEF Goes

LEMMA CorrectiveTakes ==
    ASSUME QAInv
    PROVE  /\ ParseQuestion => Took("ParseQuestion", "plan")
           /\ PlanRetrieval => Took("PlanRetrieval", "retrieve")
           /\ RetrieveEvidence =>
                 \/ Took("RetrieveEvidence", "check")
                 \/ /\ Took("RetrieveEvidence", "finalize")
                    /\ state'.failure = "retrieval_failed"
                 \/ Crashes("score")
           /\ EvidenceCheck =>
                 \/ Took("EvidenceCheck", "generate") \/ Took("EvidenceCheck", "rewrite")
                 \/ /\ Took("EvidenceCheck", "finalize")
                    /\ state'.failure = "insufficient_evidence"
           /\ RewriteQuery => Took("RewriteQuery", "retrieve")
           /\ GenerateAnswer => Took("GenerateAnswer", "citation")
           /\ CitationCheck =>
                 \/ Took("CitationCheck", "repair")
                 \/ /\ Took("CitationCheck", "finalize")
                    /\ state'.failure \in {None, "missing_citation"}
           /\ RepairWithEvidence => Took("RepairWithEvidence", "citation")
<1>0. state \in State
  BY NodeFacts
<1>1. ParseQuestion => Took("ParseQuestion", "plan")
  BY <1>0 DEF ParseQuestion, Ran, State, Took
<1>2. PlanRetrieval => Took("PlanRetrieval", "retrieve")
  BY <1>0 DEF PlanRetrieval, Plain, Ran, State, Took
<1>3. RetrieveEvidence =>
         \/ Took("RetrieveEvidence", "check")
         \/ Took("RetrieveEvidence", "finalize") /\ state'.failure = "retrieval_failed"
         \/ Crashes("score")
  <2> DEFINE ran(next) == Ran("RetrieveEvidence", next)
  <2>1. \A next \in {"check", "finalize"} :
           /\ ran(next) \in State /\ ran(next).at = next
           /\ ran(next).nodes = state.nodes \cup {"RetrieveEvidence"}
           /\ ran(next).error = state.error /\ ran(next).tools = state.tools
    BY RanTakes DEF NodeNames, Places
  <2>2. RetrieveEvidence =>
           \/ state' = [ran("check") EXCEPT
                          !.evidence = calls[1].found, !.basis = {calls[1].query},
                          !.tools = @ \cup {"doc_search_tool"}]
           \/ state' = [ran("finalize") EXCEPT
                          !.status = "refused", !.failure = "retrieval_failed",
                          !.tools = @ \cup {"doc_search_tool"}]
           \/ Crashes("score")
    BY DEF RetrieveEvidence
  <2> HIDE DEF ran
  <2>3. ASSUME state' = [ran("check") EXCEPT
                          !.evidence = calls[1].found, !.basis = {calls[1].query},
                          !.tools = @ \cup {"doc_search_tool"}]
        PROVE  Took("RetrieveEvidence", "check")
    BY <2>1, <2>3 DEF State, Took, KnowledgeTools
  <2>4. ASSUME state' = [ran("finalize") EXCEPT
                          !.status = "refused", !.failure = "retrieval_failed",
                          !.tools = @ \cup {"doc_search_tool"}]
        PROVE  Took("RetrieveEvidence", "finalize") /\ state'.failure = "retrieval_failed"
    BY <2>1, <2>4 DEF State, Took, KnowledgeTools
  <2> QED
    BY <2>2, <2>3, <2>4
<1>4. EvidenceCheck =>
         \/ Took("EvidenceCheck", "generate") \/ Took("EvidenceCheck", "rewrite")
         \/ Took("EvidenceCheck", "finalize") /\ state'.failure = "insufficient_evidence"
  <2> DEFINE ran == Ran("EvidenceCheck", "finalize")
  <2>1. /\ ran \in State /\ ran.at = "finalize"
        /\ ran.nodes = state.nodes \cup {"EvidenceCheck"}
        /\ ran.error = state.error /\ ran.tools = state.tools
    BY RanTakes DEF NodeNames, Places
  <2>2. Checked = [ran EXCEPT !.tools = @ \cup {"evidence_check_tool"}]
    BY DEF Checked
  <2> HIDE DEF ran
  <2>3. /\ Checked \in State /\ Checked.at = "finalize"
        /\ Checked.nodes = state.nodes \cup {"EvidenceCheck"}
        /\ Checked.error = state.error /\ Checked.tools \subseteq state.tools \cup KnowledgeTools
    BY <2>1, <2>2, KnownTools DEF State, KnowledgeTools
  <2> QED
    BY <2>3 DEF EvidenceCheck, State, Took
<1>5. RewriteQuery => Took("RewriteQuery", "retrieve")
  BY <1>0 DEF RewriteQuery, Ran, State, Took
<1>6. GenerateAnswer => Took("GenerateAnswer", "citation")
  BY <1>0 DEF GenerateAnswer, Ran, State, Took
<1>7. CitationCheck =>
         \/ Took("CitationCheck", "repair")
         \/ Took("CitationCheck", "finalize") /\ state'.failure \in {None, "missing_citation"}
  BY <1>0 DEF CitationCheck, Ran, State, Took
<1>8. RepairWithEvidence => Took("RepairWithEvidence", "citation")
  BY <1>0 DEF RepairWithEvidence, Ran, State, Took
<1> QED
  BY <1>1, <1>2, <1>3, <1>4, <1>5, <1>6, <1>7, <1>8

LEMMA DeepTakes ==
    ASSUME QAInv
    PROVE  /\ ParseDeepQuestion => Took("ParseDeepQuestion", "brief")
           /\ BuildResearchBrief => Took("BuildResearchBrief", "split")
           /\ SplitSubQuestions => Took("SplitSubQuestions", "retrieve")
           /\ ParallelRetrieveEvidence =>
                 \/ Took("ParallelRetrieveEvidence", "aggregate")
                 \/ /\ Took("ParallelRetrieveEvidence", "finalize")
                    /\ state'.failure = "retrieval_failed"
                 \/ Crashes("score")
           /\ EvidenceAggregate =>
                 \/ Took("EvidenceAggregate", "synthesize")
                 \/ /\ Took("EvidenceAggregate", "finalize")
                    /\ state'.failure = "insufficient_evidence"
           /\ SynthesizeAnswer => Took("SynthesizeAnswer", "citation")
           /\ DeepCitationCheck =>
                 /\ Took("CitationCheck", "finalize")
                 /\ state'.failure \in {None, "missing_citation"}
<1>0. state \in State
  BY NodeFacts
<1>1. ParseDeepQuestion => Took("ParseDeepQuestion", "brief")
  BY <1>0 DEF ParseDeepQuestion, Ran, State, Took
<1>2. BuildResearchBrief => Took("BuildResearchBrief", "split")
  BY <1>0 DEF BuildResearchBrief, Plain, Ran, State, Took
<1>3. SplitSubQuestions => Took("SplitSubQuestions", "retrieve")
  BY <1>0 DEF SplitSubQuestions, Plain, Ran, State, Took
<1>4. ParallelRetrieveEvidence =>
         \/ Took("ParallelRetrieveEvidence", "aggregate")
         \/ /\ Took("ParallelRetrieveEvidence", "finalize")
            /\ state'.failure = "retrieval_failed"
         \/ Crashes("score")
  <2> DEFINE found == UNION {calls[s].found : s \in Finders}
             queries == {calls[s].query : s \in Finders}
  <2> SUFFICES ASSUME ParallelRetrieveEvidence
               PROVE  \/ Took("ParallelRetrieveEvidence", "aggregate")
                      \/ /\ Took("ParallelRetrieveEvidence", "finalize")
                         /\ state'.failure = "retrieval_failed"
                      \/ Crashes("score")
    OBVIOUS
  <2> DEFINE ran == Ran("ParallelRetrieveEvidence", "finalize")
             gone == [ran EXCEPT !.evidence = found, !.tools = @ \cup {"doc_search_tool"}]
  <2>1. \/ Crashes("score")
        \/ state' = [gone EXCEPT !.at = "aggregate", !.status = "success",
                                  !.basis = queries]
        \/ state' = [gone EXCEPT !.status = "refused", !.failure = "retrieval_failed"]
    BY DEF ParallelRetrieveEvidence
  <2>2. /\ ran \in State /\ ran.at = "finalize"
        /\ ran.nodes = state.nodes \cup {"ParallelRetrieveEvidence"}
        /\ ran.error = state.error /\ ran.tools = state.tools
    BY RanTakes DEF NodeNames, Places
  <2> HIDE DEF found, queries, ran
  <2>3. /\ DOMAIN gone = DOMAIN ran /\ gone.at = "finalize"
        /\ gone.nodes = state.nodes \cup {"ParallelRetrieveEvidence"}
        /\ gone.error = state.error /\ gone.tools \subseteq state.tools \cup KnowledgeTools
    BY <2>2 DEF State, KnowledgeTools
  <2> HIDE DEF gone
  <2>4. ASSUME state' = [gone EXCEPT !.at = "aggregate", !.status = "success",
                                     !.basis = queries]
        PROVE  Took("ParallelRetrieveEvidence", "aggregate")
    BY <2>2, <2>3, <2>4 DEF State, Took
  <2>5. ASSUME state' = [gone EXCEPT !.status = "refused", !.failure = "retrieval_failed"]
        PROVE  /\ Took("ParallelRetrieveEvidence", "finalize")
               /\ state'.failure = "retrieval_failed"
    BY <2>2, <2>3, <2>5 DEF State, Took
  <2> QED
    BY <2>1, <2>4, <2>5
<1>5. EvidenceAggregate =>
         \/ Took("EvidenceAggregate", "synthesize")
         \/ Took("EvidenceAggregate", "finalize") /\ state'.failure = "insufficient_evidence"
  <2> SUFFICES ASSUME EvidenceAggregate
               PROVE  \/ Took("EvidenceAggregate", "synthesize")
                      \/ /\ Took("EvidenceAggregate", "finalize")
                         /\ state'.failure = "insufficient_evidence"
    OBVIOUS
  <2> DEFINE ran == Ran("EvidenceAggregate", "finalize")
  <2>1. PICK kept \in SUBSET state.evidence :
           \/ state' = [ran EXCEPT !.evidence = kept, !.tools = @ \cup {"evidence_check_tool"},
                                   !.at = "synthesize", !.status = "success",
                                   !.supported = calls[1].query]
           \/ state' = [ran EXCEPT !.evidence = kept, !.tools = @ \cup {"evidence_check_tool"},
                                   !.status = "refused", !.failure = "insufficient_evidence"]
    BY DEF EvidenceAggregate
  <2>2. /\ ran \in State /\ ran.at = "finalize"
        /\ ran.nodes = state.nodes \cup {"EvidenceAggregate"}
        /\ ran.error = state.error /\ ran.tools = state.tools
    BY RanTakes DEF NodeNames, Places
  <2> HIDE DEF ran
  <2>3. ASSUME state' = [ran EXCEPT !.evidence = kept,
                                    !.tools = @ \cup {"evidence_check_tool"},
                                    !.at = "synthesize", !.status = "success",
                                    !.supported = calls[1].query]
        PROVE  Took("EvidenceAggregate", "synthesize")
    BY <2>2, <2>3 DEF State, Took, KnowledgeTools
  <2>4. ASSUME state' = [ran EXCEPT !.evidence = kept,
                                    !.tools = @ \cup {"evidence_check_tool"},
                                    !.status = "refused",
                                    !.failure = "insufficient_evidence"]
        PROVE  /\ Took("EvidenceAggregate", "finalize")
               /\ state'.failure = "insufficient_evidence"
    BY <2>2, <2>4 DEF State, Took, KnowledgeTools
  <2> QED
    BY <2>1, <2>3, <2>4
<1>6. SynthesizeAnswer => Took("SynthesizeAnswer", "citation")
  BY <1>0 DEF SynthesizeAnswer, Ran, State, Took
<1>7. DeepCitationCheck =>
         Took("CitationCheck", "finalize") /\ state'.failure \in {None, "missing_citation"}
  BY <1>0 DEF DeepCitationCheck, Ran, State, Took
<1> QED
  BY <1>1, <1>2, <1>3, <1>4, <1>5, <1>6, <1>7

LEMMA CrashVisits ==
    ASSUME QAInv, Visited, UNCHANGED request, NEW error \in {"client", "score"}, Crashes(error)
    PROVE  Visited'
<1>1. /\ state'.at = "crashed" /\ state'.error = error /\ state'.tools = state.tools
      /\ state'.nodes = state.nodes
  BY NodeFacts DEF Crashes, State
<1> QED
  BY <1>1 DEF Visited, Corrective, Deep

LEMMA VisitedStep == QAInv /\ Visited /\ [Next]_vars => Visited'
<1> SUFFICES ASSUME QAInv, Visited, [Next]_vars PROVE Visited'
  OBVIOUS
<1>1. CASE UNCHANGED vars \/ ServiceStep \/ SendSearch \/ SendCheck \/ SendSearches
           \/ SendAggregateCheck
  <2>1. UNCHANGED <<request, state>>
    BY <1>1 DEF vars, ServiceStep, SendSearch, SendCheck, SendSearches, SendAggregateCheck,
       Sends
  <2> QED
    BY <2>1 DEF Visited, Corrective, Deep
<1>2. CASE ClientRaises
  BY <1>2, CrashVisits DEF ClientRaises
<1>3. ASSUME Node PROVE UNCHANGED request
  BY <1>3, NodeMoves DEF Moves
<1>4. CASE /\ Corrective /\ Node /\ ~Finalize
           /\ ~(SendSearch \/ SendCheck \/ SendSearches \/ SendAggregateCheck)
  <2>1. ~Deep /\ Corrective' /\ ~Deep' /\ UNCHANGED request
    BY <1>3, <1>4 DEF Corrective, Deep, KnowledgeQA, LargeKnowledgeQA
  <2>2. CASE Crashes("score")
    BY <2>1, <2>2, CrashVisits
  <2>3. CASE ParseQuestion \/ PlanRetrieval \/ RewriteQuery
    BY <2>1, <2>3, CorrectiveTakes DEF Visited, Took, ParseQuestion, PlanRetrieval, Plain,
       RewriteQuery
  <2>4. CASE RetrieveEvidence /\ ~Crashes("score")
    BY <2>1, <2>4, CorrectiveTakes, NoneAssumption
    DEF Visited, Took, RetrieveEvidence, Returned, Failures
  <2>5. CASE EvidenceCheck
    BY <2>1, <2>5, CorrectiveTakes, NoneAssumption
    DEF Visited, Took, EvidenceCheck, Returned, Failures
  <2>6. CASE GenerateAnswer \/ RepairWithEvidence
    BY <2>1, <2>6, CorrectiveTakes DEF Visited, Took, GenerateAnswer, RepairWithEvidence,
       CorrectivePath
  <2>7. CASE CitationCheck
    BY <2>1, <2>7, CorrectiveTakes DEF Visited, Took, CitationCheck, CorrectivePath
  <2> QED
    BY <1>4, <2>1, <2>2, <2>3, <2>4, <2>5, <2>6, <2>7
    DEF Node, ParseDeepQuestion, BuildResearchBrief, SplitSubQuestions,
        ParallelRetrieveEvidence, EvidenceAggregate, SynthesizeAnswer, DeepCitationCheck
<1>5. CASE /\ ~Corrective /\ Node /\ ~Finalize
           /\ ~(SendSearch \/ SendCheck \/ SendSearches \/ SendAggregateCheck)
  <2>1. ~Corrective' /\ Deep' = Deep /\ UNCHANGED request
    BY <1>3, <1>5 DEF Corrective, Deep
  <2>2. CASE Crashes("score")
    BY <2>1, <2>2, CrashVisits
  <2>3. CASE ParseDeepQuestion \/ BuildResearchBrief \/ SplitSubQuestions
    BY <1>5, <2>1, <2>3, DeepTakes DEF Visited, Took, ParseDeepQuestion, BuildResearchBrief,
       Plain, SplitSubQuestions
  <2>4. CASE ParallelRetrieveEvidence /\ ~Crashes("score")
    BY <1>5, <2>1, <2>4, DeepTakes, NoneAssumption
    DEF Visited, Took, ParallelRetrieveEvidence, Failures
  <2>5. CASE EvidenceAggregate
    BY <1>5, <2>1, <2>5, DeepTakes, NoneAssumption
    DEF Visited, Took, EvidenceAggregate, Returned, Failures
  <2>6. CASE SynthesizeAnswer
    BY <1>5, <2>1, <2>6, DeepTakes DEF Visited, Took, SynthesizeAnswer
  <2>7. CASE DeepCitationCheck
    BY <1>5, <2>1, <2>7, DeepTakes DEF Visited, Took, DeepCitationCheck, DeepPath
  <2> QED
    BY <1>5, <2>1, <2>2, <2>3, <2>4, <2>5, <2>6, <2>7
    DEF Node, ParseQuestion, PlanRetrieval, RetrieveEvidence, EvidenceCheck, RewriteQuery,
        GenerateAnswer, CitationCheck, RepairWithEvidence
<1>6. CASE Finalize
  <2>1. UNCHANGED request /\ state.at = "finalize" /\ state' = Final("end")
    BY <1>6 DEF Finalize
  <2> DEFINE ran == Ran("Finalize", "end")
  <2>2. state' = [ran EXCEPT !.answer = IF @ = None THEN "notice" ELSE @]
    BY <2>1 DEF Final
  <2>3. /\ ran \in State /\ ran.at = "end" /\ ran.nodes = state.nodes \cup {"Finalize"}
        /\ ran.error = state.error /\ ran.tools = state.tools /\ ran.failure = state.failure
    BY NodeFacts, RanTakes, RanGoes DEF NodeNames, Places, Ended, SameVerdict
  <2> HIDE DEF ran
  <2>4. /\ state'.at = "end" /\ state'.nodes = state.nodes \cup {"Finalize"}
        /\ state'.error = state.error /\ state'.tools = state.tools
        /\ state'.failure = state.failure /\ state'.answer # None
    BY <2>2, <2>3, NoneAssumption DEF State, Texts
  <2> QED
    BY <2>1, <2>4 DEF Visited, Corrective, Deep
<1> QED
  BY <1>1, <1>2, <1>4, <1>5, <1>6 DEF Next

--------------------------------------------------------------------------------
(* A job that may not check *)

\* Nothing but denials of its check is ever on record, so it gets no answer, and the
\* corrective graph gives up on its evidence after the one retry.
Unchecked ==
    "evidence_check_tool" \notin request.granted =>
        /\ \A status \in ToolStatuses :
              <<"evidence_check_tool", status>> \in audit => status = "permission_denied"
        /\ state.answer = IF state.at = "end" THEN "notice" ELSE None
        /\ state.at \in {"finalize", "end"} =>
              /\ state.failure \in {"retrieval_failed", "insufficient_evidence"}
              /\ Corrective /\ state.failure = "insufficient_evidence" => state.retry = 1

LEMMA UncheckedInit == Init => Unchecked /\ Honest
<1> SUFFICES ASSUME Init PROVE Unchecked /\ Honest
  OBVIOUS
<1> QED
  BY DEF Init, ServiceInit, InitialState, Unchecked, Honest

LEMMA HonestStep == QAInv /\ Honest /\ [Next]_vars => Honest'
<1> SUFFICES ASSUME QAInv, Honest, [Next]_vars PROVE Honest'
  OBVIOUS
<1>1. CASE UNCHANGED vars \/ ClientRaises
  BY <1>1 DEF Honest, vars, serviceVars, ClientRaises
<1>2. CASE ServiceStep
  BY <1>2, ServeHonest DEF QAInv, TypeOK, ServiceStep
<1>3. CASE Node
  BY <1>3, NodeMoves, MovesFit, KnownTools DEF QAInv, TypeOK
<1> QED
  BY <1>1, <1>2, <1>3 DEF Next

\* The service records no other end of a check than its denial.
LEMMA ServiceDenies ==
    ASSUME QAInv, Honest, "evidence_check_tool" \notin request.granted, ServiceStep,
           NEW status \in ToolStatuses, <<"evidence_check_tool", status>> \in audit'
    PROVE  <<"evidence_check_tool", status>> \in audit \/ status = "permission_denied"
<1>1. PICK s \in Slots : Receive(s) \/ Execute(s)
  BY DEF ServiceStep, Serve
<1>2. calls[s] # NoCall
  <2>1. calls[s].at = "sent" \/ calls[s].at = "executing"
    BY <1>1 DEF Receive, Execute
  <2> QED
    BY <2>1 DEF NoCall
<1>3. CASE calls[s].tool = "evidence_check_tool"
  <2>1. Reply(s, "permission_denied", {}, FALSE)
    BY <1>1, <1>2, <1>3 DEF Receive, Execute, Honest
  <2>2. \/ UNCHANGED audit
        \/ audit' = audit \cup {<<"evidence_check_tool", "permission_denied">>}
    BY <1>3, <2>1 DEF Reply
  <2> QED
    BY <2>2
<1>4. CASE calls[s].tool # "evidence_check_tool"
  <2>1. UNCHANGED audit \/ \E other : audit' = audit \cup {<<calls[s].tool, other>>}
    BY <1>1 DEF Receive, Execute, Reply
  <2> QED
    BY <1>4, <2>1
<1> QED
  BY <1>3, <1>4

\* It never comes to the nodes after a check that came out supported.
LEMMA NeverSupported ==
    ASSUME QAInv, Unchecked, "evidence_check_tool" \notin request.granted
    PROVE  /\ state.at \notin {"generate", "citation", "repair", "synthesize"}
           /\ \A s \in Slots : calls[s] # NoCall /\ calls[s].tool = "evidence_check_tool"
                                => ~(calls[s].at = "answered" /\ Supports(s))
<1>1. <<"evidence_check_tool", "success">> \notin audit
  BY DEF Unchecked, ToolStatuses
<1>2. state.at \notin {"generate", "citation", "repair", "synthesize"}
  <2>1. state.supported = None
    BY <1>1, NodeFacts DEF Grounded
  <2>2. CASE Corrective
    BY <2>1, <2>2, NodeFacts DEF Grounded, Counted, CorrectiveNodes, Ended
  <2>3. CASE Deep
    BY <2>1, <2>3, NodeFacts, NoneAssumption
    DEF Grounded, Counted, DeepNodes, Ended, Queries
  <2>4. CASE ~Corrective /\ ~Deep
    BY <2>4, NodeFacts DEF Counted, InitialState
  <2> QED
    BY <2>2, <2>3, <2>4
<1> QED
  BY <1>1, <1>2, NodeFacts DEF Recorded, Supports, Succeeded

\* A node that goes on without an answer, and to the end for a reason.
LEMMA NodeLeavesUnchecked ==
    ASSUME Unchecked, UNCHANGED <<request, audit>>, state'.answer = None, state'.at # "end",
           state'.at = "finalize" =>
              /\ state'.failure \in {"retrieval_failed", "insufficient_evidence"}
              /\ Corrective /\ state'.failure = "insufficient_evidence" => state'.retry = 1
    PROVE  Unchecked'
  BY DEF Unchecked, Corrective

LEMMA NodeRuns ==
    ASSUME Node PROVE state.at \notin Ended \cup {"none"} /\ UNCHANGED audit
  BY DEF Node, ParseQuestion, PlanRetrieval, SendSearch, RetrieveEvidence, SendCheck,
         EvidenceCheck, RewriteQuery, GenerateAnswer, CitationCheck, RepairWithEvidence,
         ParseDeepQuestion, BuildResearchBrief, SplitSubQuestions, SendSearches,
         ParallelRetrieveEvidence, SendAggregateCheck, EvidenceAggregate,
         SynthesizeAnswer, DeepCitationCheck, Finalize, Plain, Sends, Returned,
         serviceVars, Ended

LEMMA UncheckedStep == QAInv /\ Honest /\ Unchecked /\ [Next]_vars => Unchecked'
<1> SUFFICES ASSUME QAInv, Honest, Unchecked, [Next]_vars,
                    "evidence_check_tool" \notin request'.granted
             PROVE  Unchecked'
  BY DEF Unchecked
<1>0. UNCHANGED request
  BY NodeMoves DEF Next, Moves, vars, ClientRaises, ServiceStep
<1> USE <1>0
<1>a. /\ state \in State /\ state.answer = IF state.at = "end" THEN "notice" ELSE None
      /\ state.at \notin {"generate", "citation", "repair", "synthesize"}
  BY NodeFacts, NeverSupported DEF Unchecked
<1>b. Node => UNCHANGED audit
  BY NodeMoves DEF Moves
<1>1. CASE UNCHANGED vars \/ SendSearch \/ SendCheck \/ SendSearches \/ SendAggregateCheck
  <2>1. UNCHANGED <<state, audit>>
    BY <1>1 DEF vars, serviceVars, SendSearch, SendCheck, SendSearches, SendAggregateCheck,
       Sends
  <2> QED
    BY <2>1 DEF Unchecked, Corrective
<1>2. CASE ServiceStep
  BY <1>2, ServiceDenies DEF Unchecked, Corrective, ServiceStep
<1>3. ASSUME NEW error, Crashes(error), state.at # "end", UNCHANGED audit PROVE Unchecked'
  <2>1. state'.at = "crashed" /\ state'.answer = None
    BY <1>a, <1>3 DEF Crashes, State
  <2> QED
    BY <1>3, <2>1, NodeLeavesUnchecked
<1>4. CASE ClientRaises
  BY <1>3, <1>4 DEF ClientRaises, serviceVars, Ended
<1>5. CASE \/ ParseQuestion \/ PlanRetrieval \/ RewriteQuery
           \/ ParseDeepQuestion \/ BuildResearchBrief \/ SplitSubQuestions
  <2>1. state.at # "end" /\ state'.at \notin {"end", "finalize"} /\ state'.answer = state.answer
    <3>1. CASE PlanRetrieval \/ BuildResearchBrief \/ SplitSubQuestions
      BY <1>a, <3>1 DEF PlanRetrieval, BuildResearchBrief, SplitSubQuestions, Plain, Ran, State
    <3>2. CASE ParseQuestion
      BY <1>a, <3>2 DEF ParseQuestion, Ran, State
    <3>3. CASE ParseDeepQuestion
      BY <1>a, <3>3 DEF ParseDeepQuestion, Ran, State
    <3>4. CASE RewriteQuery
      BY <1>a, <3>4 DEF RewriteQuery, Ran, State
    <3> QED
      BY <1>5, <3>1, <3>2, <3>3, <3>4
  <2> QED
    BY <1>a, <1>b, <1>5, <2>1, NodeLeavesUnchecked DEF Node
<1>6. CASE RetrieveEvidence /\ ~Crashes("score")
  <2>1. /\ state.at # "end" /\ state'.at \in {"check", "finalize"}
        /\ state'.answer = state.answer
        /\ state'.at = "finalize" => state'.failure = "retrieval_failed"
    BY <1>a, <1>6 DEF RetrieveEvidence, Returned, Ran, State
  <2> QED
    BY <1>a, <1>b, <1>6, <2>1, NodeLeavesUnchecked DEF Node
<1>7. CASE EvidenceCheck
  <2>1. state.at = "check" /\ ~Supports(1)
    <3>1. /\ state.at = "check" /\ calls[1] # NoCall /\ calls[1].at = "answered"
          /\ calls[1].tool = "evidence_check_tool"
      BY <1>7, ReturnedFacts, NodeFacts DEF EvidenceCheck, CallsFit
    <3> QED
      BY <3>1, NodeFacts, NeverSupported
  <2>2. /\ state'.at \in {"rewrite", "finalize"} /\ state'.answer = state.answer
        /\ state'.at = "finalize" =>
              state'.failure = "insufficient_evidence" /\ state'.retry = 1
    <3> DEFINE ran == Ran("EvidenceCheck", "finalize")
    <3>1. /\ ran \in State /\ ran.at = "finalize" /\ ran.answer = state.answer
          /\ ran.retry = state.retry
      BY <1>a, RanGoes DEF Goes, SameLoops, NodeNames, Places
    <3>2. \/ state' = [ran EXCEPT !.tools = @ \cup {"evidence_check_tool"}, !.at = "rewrite",
                                  !.status = "success", !.supported = None]
          \/ /\ state.retry >= 1
             /\ state' = [ran EXCEPT !.tools = @ \cup {"evidence_check_tool"},
                                     !.status = "refused",
                                     !.failure = "insufficient_evidence", !.supported = None]
      BY <1>7, <2>1 DEF EvidenceCheck, Checked
    <3>3. state.retry \in 0..1
      BY NodeFacts
    <3> HIDE DEF ran
    <3>4. ASSUME state' = [ran EXCEPT !.tools = @ \cup {"evidence_check_tool"},
                                      !.at = "rewrite", !.status = "success",
                                      !.supported = None]
          PROVE  state'.at = "rewrite" /\ state'.answer = ran.answer
      BY <3>1, <3>4 DEF State
    <3>5. ASSUME state' = [ran EXCEPT !.tools = @ \cup {"evidence_check_tool"},
                                      !.status = "refused",
                                      !.failure = "insufficient_evidence",
                                      !.supported = None]
          PROVE  /\ state'.at = ran.at /\ state'.answer = ran.answer
                 /\ state'.failure = "insufficient_evidence" /\ state'.retry = ran.retry
      BY <3>1, <3>5 DEF State
    <3> QED
      BY <3>1, <3>2, <3>3, <3>4, <3>5
  <2> QED
    BY <1>a, <1>b, <1>7, <2>1, <2>2, NodeLeavesUnchecked DEF Node
<1>8. CASE ParallelRetrieveEvidence /\ ~Crashes("score")
  <2> DEFINE found == UNION {calls[s].found : s \in Finders}
             queries == {calls[s].query : s \in Finders}
             ran == Ran("ParallelRetrieveEvidence", "finalize")
  <2>1. /\ state.at = "retrieve"
        /\ \/ state' = [ran EXCEPT !.evidence = found, !.tools = @ \cup {"doc_search_tool"},
                                   !.at = "aggregate", !.status = "success",
                                   !.basis = queries]
           \/ state' = [ran EXCEPT !.evidence = found, !.tools = @ \cup {"doc_search_tool"},
                                   !.status = "refused", !.failure = "retrieval_failed"]
    BY <1>8 DEF ParallelRetrieveEvidence
  <2>a. ran \in State /\ ran.at = "finalize" /\ ran.answer = state.answer
    BY <1>a, RanGoes DEF Goes, NodeNames, Places
  <2> HIDE DEF found, queries, ran
  <2>2. /\ state'.at \in {"aggregate", "finalize"} /\ state'.answer = state.answer
        /\ state'.at = "finalize" => state'.failure = "retrieval_failed"
    BY <2>1, <2>a DEF State
  <2> QED
    BY <1>a, <1>b, <1>8, <2>1, <2>2, NodeLeavesUnchecked DEF Node
<1>9. CASE EvidenceAggregate
  <2>1. state.at = "aggregate" /\ ~Corrective
    BY <1>9 DEF EvidenceAggregate, Returned, Corrective, Deep, KnowledgeQA, LargeKnowledgeQA
  <2>2. /\ state'.at \in {"synthesize", "finalize"} /\ state'.answer = state.answer
        /\ state'.at = "finalize" => state'.failure = "insufficient_evidence"
    <3> DEFINE ran == Ran("EvidenceAggregate", "finalize")
    <3>1. ran \in State /\ ran.at = "finalize" /\ ran.answer = state.answer
      BY <1>a, RanGoes DEF Goes, NodeNames, Places
    <3>2. PICK kept :
             \/ state' = [ran EXCEPT !.evidence = kept, !.tools = @ \cup {"evidence_check_tool"},
                                     !.at = "synthesize", !.status = "success",
                                     !.supported = calls[1].query]
             \/ state' = [ran EXCEPT !.evidence = kept, !.tools = @ \cup {"evidence_check_tool"},
                                     !.status = "refused", !.failure = "insufficient_evidence"]
      BY <1>9 DEF EvidenceAggregate
    <3> HIDE DEF ran
    <3>3. ASSUME state' = [ran EXCEPT !.evidence = kept,
                                      !.tools = @ \cup {"evidence_check_tool"},
                                      !.at = "synthesize", !.status = "success",
                                      !.supported = calls[1].query]
          PROVE  state'.at = "synthesize" /\ state'.answer = ran.answer
      BY <3>1, <3>3 DEF State
    <3>4. ASSUME state' = [ran EXCEPT !.evidence = kept,
                                      !.tools = @ \cup {"evidence_check_tool"},
                                      !.status = "refused",
                                      !.failure = "insufficient_evidence"]
          PROVE  /\ state'.at = ran.at /\ state'.answer = ran.answer
                 /\ state'.failure = "insufficient_evidence"
      BY <3>1, <3>4 DEF State
    <3> QED
      BY <3>1, <3>2, <3>3, <3>4
  <2> QED
    BY <1>a, <1>b, <1>9, <2>1, <2>2, NodeLeavesUnchecked DEF Node
<1>10. CASE Finalize
  <2>1. /\ state.at = "finalize" /\ state'.at = "end" /\ state'.answer = "notice"
        /\ state'.failure = state.failure /\ state'.retry = state.retry
    BY <1>a, <1>10 DEF Finalize, Final, Ran, State
  <2> QED
    BY <1>b, <1>10, <2>1 DEF Unchecked, Corrective, Node
<1>11. CASE \/ GenerateAnswer \/ CitationCheck \/ RepairWithEvidence
            \/ SynthesizeAnswer \/ DeepCitationCheck
  BY <1>a, <1>11 DEF GenerateAnswer, CitationCheck, RepairWithEvidence, SynthesizeAnswer,
     DeepCitationCheck
<1>12. ASSUME Node, Crashes("score") PROVE Unchecked'
  BY <1>b, <1>3, <1>12, NodeRuns DEF Ended
<1> QED
  BY <1>1, <1>2, <1>4, <1>5, <1>6, <1>7, <1>8, <1>9, <1>10, <1>11, <1>12 DEF Next, Node

\* Without the permission for one of its tools, a knowledge job ends refused, with the
\* notice that nothing was found, and the tool is on record only as denied: without the
\* search at once, without the check after one retry of the corrective graph.
THEOREM DeniedJobsAreRefused == Spec => []DeniedIsRefused
<1>1. Spec => []Barred
  BY QAInit, QAStep, BarredInit, BarredStep, PTL DEF Spec
<1>2. Spec => [](Honest /\ Unchecked)
  BY QAInit, QAStep, UncheckedInit, HonestStep, UncheckedStep, PTL DEF Spec
<1>3. ASSUME QAInv, Barred, Unchecked, state.at = "end" PROVE DeniedIsRefused
  <2>1. state.failure # None => state.status = "refused" /\ state.citations = {}
    BY <1>3, NodeFacts DEF Grounded
  <2>2. CASE "doc_search_tool" \notin request.granted
    BY <1>3, <2>1, <2>2, NoneAssumption DEF Barred, DeniedIsRefused, Denial, Failures
  <2>3. CASE /\ "doc_search_tool" \in request.granted
             /\ "evidence_check_tool" \notin request.granted
    BY <1>3, <2>1, <2>3, NoneAssumption DEF Unchecked, DeniedIsRefused, Failures
  <2> QED
    BY <2>2, <2>3 DEF DeniedIsRefused, KnowledgeTools
<1> QED
  BY <1>1, <1>2, <1>3, QAInvariant, PTL DEF DeniedIsRefused

--------------------------------------------------------------------------------
(* Refinement *)

LEMMA JobInit == Init => Job!Init
  BY KnownTools DEF Init, InitialState, ServiceInit, Job!Init, Outcome, Proven

\* A job that runs on goes on running, answers or crashes.
LEMMA JobMoves ==
    ASSUME QAInv', state.at \notin Ended, UNCHANGED audit
    PROVE  [Job!Next]_(Job!vars)
<1>1. Outcome = "running" /\ Proven' = Proven
  BY DEF Outcome, Ended, Proven
<1>2. CASE state'.at = "end"
  <2>1. Outcome' = state'.status
    BY <1>2 DEF Outcome
  <2>2. state'.status \in Job!Answers
    BY DEF QAInv, TypeOK, StateTypeOK, State, Job!Answers
  <2>3. state'.status = "success" => KnowledgeTools \subseteq Proven
    BY <1>1, <1>2, KnownTools DEF QAInv, Grounded, Backed, KnowledgeTools, Proven
  <2>4. Job!Answer(state'.status)
    BY <1>1, <2>1, <2>3 DEF Job!Answer
  <2> QED
    BY <2>2, <2>4 DEF Job!Next
<1>3. CASE state'.at = "crashed"
  <2>1. Outcome' = "crashed"
    BY <1>3 DEF Outcome
  <2> QED
    BY <1>1, <2>1 DEF Job!Next, Job!Crash
<1>4. CASE state'.at \notin Ended
  <2>1. Outcome' = "running"
    BY <1>4 DEF Outcome, Ended
  <2> QED
    BY <1>1, <2>1 DEF Job!vars
<1> QED
  BY <1>2, <1>3, <1>4 DEF Ended

\* The nodes are those of knowledge jobs.
LEMMA NodeOwns == Node => Corrective \/ Deep
  BY DEF Node, ParseQuestion, PlanRetrieval, SendSearch, RetrieveEvidence, SendCheck,
         EvidenceCheck, RewriteQuery, GenerateAnswer, CitationCheck, RepairWithEvidence,
         ParseDeepQuestion, BuildResearchBrief, SplitSubQuestions, SendSearches,
         ParallelRetrieveEvidence, SendAggregateCheck, EvidenceAggregate,
         SynthesizeAnswer, DeepCitationCheck, Finalize

LEMMA JobStep == QAInv /\ QAInv' /\ [Next]_vars => [Job!Next]_(Job!vars)
<1> SUFFICES ASSUME QAInv, QAInv', [Next]_vars PROVE [Job!Next]_(Job!vars)
  OBVIOUS
<1>1. CASE UNCHANGED vars
  BY <1>1 DEF vars, serviceVars, Job!vars, Outcome, Proven
<1>2. CASE Node \/ ClientRaises
  BY <1>2, NodeRuns, JobMoves DEF ClientRaises, serviceVars
<1>3. CASE ServiceStep
  <2>1. UNCHANGED state /\ Serve
    BY <1>3 DEF ServiceStep
  <2>2. Outcome' = Outcome
    BY <2>1 DEF Outcome
  <2>3. CASE UNCHANGED audit
    BY <2>2, <2>3 DEF Proven, Job!vars
  <2>4. ASSUME NEW t \in Tools, NEW status \in ToolStatuses,
               audit' = audit \cup {<<t, status>>}
        PROVE  [Job!Next]_(Job!vars)
    <3>1. CASE status = "success"
      <4>1. Proven' = Proven \cup {t}
        BY <2>4, <3>1 DEF Proven
      <4> QED
        BY <2>2, <4>1 DEF Job!Next, Job!Record
    <3>2. CASE status # "success"
      <4>1. Proven' = Proven
        BY <2>4, <3>2 DEF Proven
      <4> QED
        BY <2>2, <4>1 DEF Job!vars
    <3> QED
      BY <3>1, <3>2
  <2> QED
    BY <2>1, <2>3, <2>4, AuditGrows, NodeFacts DEF TypeOK
<1> QED
  BY <1>1, <1>2, <1>3 DEF Next

\* A job of this workflow is one of AgentJob that needs both knowledge tools.
THEOREM QAImplementsJob == Spec => ImplementsJob
  BY QAInvariant, JobInit, JobStep, PTL DEF Spec, ImplementsJob

================================================================================
