-------------------------- MODULE MediaGenerationProofs --------------------------
(***************************************************************************)
(* What MediaGeneration keeps, whether a job of its own or a workflow      *)
(* inside a document: MediaInv is left by no node, no exception and no     *)
(* step of the tool service.                                               *)
(***************************************************************************)
EXTENDS MediaGeneration, WorkflowProofs

MediaNodes == {"parse", "safety", "params", "invoke", "asset", "check", "finalize"}

\* The nodes that a picture takes.
Complete ==
    {"ParseMediaRequest", "PromptSafetyCheck", "BuildGenerationParams", "InvokeMediaBackend",
     "AssetMetadataBuild", "MediaOutputCheck"}

MediaCounted ==
    /\ state.at \in MediaNodes \cup Ended /\ state.retry = 0 /\ state.repair = 0
    /\ Before("parse", 0, {})
    /\ Before("safety", 1, {"ParseMediaRequest"})
    /\ Before("params", 2, {"ParseMediaRequest", "PromptSafetyCheck"})
    /\ Before("invoke", 3, {"ParseMediaRequest", "PromptSafetyCheck", "BuildGenerationParams"})
    /\ Before("asset", 4, Complete \ {"AssetMetadataBuild", "MediaOutputCheck"})
    /\ Before("check", 5, Complete \ {"MediaOutputCheck"})
    /\ Before("finalize", 6, {}) /\ Before("end", 7, {}) /\ Before("crashed", 7, {})
    /\ state.at \in {"parse", "safety"} => "InvokeMediaBackend" \notin state.nodes

\* A blocked prompt gets no further than the safety check, and only the node that invokes
\* the backend has a call, of the tool for the medium.
MediaFits ==
    /\ state.at \notin {"invoke", "crashed"} => Idle
    /\ state.at = "invoke" => Awaits(TargetTool)
    /\ request.blocked => state.at \in {"parse", "safety", "finalize", "end"}

\* The picture was made, on record, exactly if there is no failure.
MediaJudged ==
    /\ (state.failure = None) = (state.status = "success")
    /\ state.at \in {"parse", "safety", "params", "invoke"} => state.failure = None
    /\ state.at \in {"asset", "check", "finalize", "end"} /\ state.failure = None =>
          TargetTool \in Proven
    /\ state.at \in {"asset", "check"} => state.failure # "prompt_safety_blocked"
    /\ state.at \in {"finalize", "end"} =>
          IF state.failure = "prompt_safety_blocked"
          THEN "InvokeMediaBackend" \notin state.nodes
          ELSE Complete \subseteq state.nodes
    /\ state.at = "end" => state.answer # None
    /\ state.citations = {} /\ state.tools \subseteq {TargetTool} /\ state.error # "type"

MediaInv ==
    /\ Generates /\ request.granted \subseteq Tools
    /\ StateTypeOK /\ ServiceTypeOK /\ Recorded /\ Honest
    /\ MediaCounted /\ MediaFits /\ MediaJudged

--------------------------------------------------------------------------------

LEMMA KnownTarget == TargetTool \in Tools
  BY DEF TargetTool, Tools, Scope

\* A job that begins.
LEMMA MediaBegins ==
    ASSUME Generates, request.granted \subseteq Tools, ServiceTypeOK, Recorded, Honest, Idle,
           state = InitialState
    PROVE  MediaInv
<1>1. state \in State
  BY Names DEF InitialState, State
<1>2. StateTypeOK
  BY <1>1 DEF StateTypeOK, InitialState
<1>3. MediaCounted
  BY DEF MediaCounted, MediaNodes, Before, InitialState
<1>4. MediaFits /\ MediaJudged
  BY NoneAssumption DEF MediaFits, MediaJudged, InitialState, Errors
<1> QED
  BY <1>2, <1>3, <1>4 DEF MediaInv

LEMMA MediaServed == MediaInv /\ ServiceStep => MediaInv'
<1> SUFFICES ASSUME MediaInv, ServiceStep PROVE MediaInv'
  OBVIOUS
<1>1. Serves /\ Serve /\ UNCHANGED <<request, state>>
  BY ServeServes DEF MediaInv, ServiceStep
<1>2. Honest'
  BY <1>1, ServeHonest DEF MediaInv
<1>3. StateTypeOK' /\ ServiceTypeOK' /\ Recorded'
  BY <1>1 DEF MediaInv, StateTypeOK, Serves
<1>4. MediaCounted'
  BY <1>1 DEF MediaInv, MediaCounted, Before
<1>5. MediaFits'
  BY <1>1, ServeAwaits DEF MediaInv, MediaFits, TargetTool
<1>6. MediaJudged'
  BY <1>1 DEF MediaInv, MediaJudged, TargetTool, Proven, Serves
<1> QED
  BY <1>1, <1>2, <1>3, <1>4, <1>5, <1>6 DEF MediaInv, Generates

LEMMA MediaRaises == MediaInv /\ ClientRaises => MediaInv'
<1> SUFFICES ASSUME MediaInv, ClientRaises PROVE MediaInv'
  OBVIOUS
<1>1. /\ state.at \notin Ended /\ Crashes("client") /\ "client" \in Errors
      /\ UNCHANGED <<request, serviceVars>>
  BY DEF ClientRaises, Errors
<1>2. state.at = "invoke"
  <2>1. ~Idle
    BY DEF ClientRaises, Idle, NoCall
  <2> QED
    BY <1>1, <2>1 DEF MediaInv, MediaFits, Ended
<1>3. /\ StateTypeOK' /\ state'.at = "crashed" /\ state'.error = "client"
      /\ state'.steps = state.steps /\ SameLoops(state') /\ SameVerdict(state')
      /\ state'.tools = state.tools /\ state'.nodes = state.nodes
  BY <1>1, CrashedTyped DEF MediaInv
<1>4. ServiceTypeOK' /\ Recorded' /\ Honest'
  BY <1>1, RestMoves, MovesFit DEF MediaInv
<1>5. MediaCounted'
  BY <1>2, <1>3 DEF MediaInv, MediaCounted, Before, SameLoops, Ended, StateTypeOK, State
<1>6. MediaFits'
  BY <1>1, <1>2, <1>3 DEF MediaInv, MediaFits
<1>7. MediaJudged'
  BY <1>1, <1>3 DEF MediaInv, MediaJudged, SameVerdict, TargetTool
<1> QED
  BY <1>1, <1>3, <1>4, <1>5, <1>6, <1>7 DEF MediaInv, Generates

LEMMA MediaFacts ==
    ASSUME MediaInv
    PROVE  /\ state \in State /\ state.steps \in Nat /\ state.repair = 0
           /\ state.nodes \subseteq NodeNames /\ state.error \in Errors \cup {None}
           /\ (state.error # None) = (state.at = "crashed")
  BY DEF MediaInv, StateTypeOK, State, MediaCounted

\* A node has run, with its calls behind it.
Runs(node, next) ==
    /\ state' \in State /\ state'.at = next /\ state'.steps = state.steps + 1
    /\ SameLoops(state') /\ state'.error = state.error
    /\ state'.nodes = state.nodes \cup {node}
    /\ state'.citations = state.citations

LEMMA RunsKeeps ==
    ASSUME MediaInv, Moves(Tools), NEW node \in NodeNames, NEW next \in Places \ {"crashed"},
           state.at # "crashed", Runs(node, next),
           MediaCounted', MediaFits', MediaJudged'
    PROVE  MediaInv'
<1>1. ServiceTypeOK' /\ Recorded' /\ Honest'
  BY MovesFit DEF MediaInv
<1>2. StateTypeOK'
  BY MediaFacts DEF Runs, StateTypeOK
<1> QED
  BY <1>1, <1>2 DEF MediaInv, Moves, Generates

\* A node that only runs.
LEMMA PlainKeeps ==
    ASSUME MediaInv, NEW here, NEW node \in NodeNames, NEW next \in Places \ {"crashed"},
           Plain(here, node, next),
           \/ here = "parse" /\ node = "ParseMediaRequest" /\ next = "safety"
           \/ here = "params" /\ node = "BuildGenerationParams" /\ next = "invoke"
           \/ here = "asset" /\ node = "AssetMetadataBuild" /\ next = "check"
    PROVE  MediaInv'
<1>1. state.at = here /\ state' = Ran(node, next) /\ UNCHANGED <<request, serviceVars>>
  BY DEF Plain
<1>2. /\ Runs(node, next) /\ SameVerdict(state') /\ state'.answer = state.answer
      /\ state'.tools = state.tools
  BY <1>1, MediaFacts, RanGoes, RanKeeps DEF Runs, Goes, SameVerdict
<1>3. Moves(Tools) /\ (Idle => Idle')
  BY <1>1, RestMoves DEF MediaInv
<1>4. MediaCounted'
  BY <1>1, <1>2, MediaFacts DEF MediaInv, MediaCounted, MediaNodes, Before, Runs, SameLoops,
     Ended, Complete
<1>5. MediaFits'
  <2>1. Idle' /\ 1 \in Slots
    BY <1>1, <1>3, ToolServiceAssumption DEF MediaInv, MediaFits, Slots
  <2> QED
    BY <1>1, <1>2, <2>1 DEF MediaInv, MediaFits, Runs, Awaits, Idle
<1>6. MediaJudged'
  BY <1>1, <1>2 DEF MediaInv, MediaJudged, SameVerdict, Runs, TargetTool, Proven, serviceVars
<1> QED
  BY <1>1, <1>2, <1>3, <1>4, <1>5, <1>6, RunsKeeps

LEMMA SafetyKeeps == MediaInv /\ PromptSafetyCheck => MediaInv'
<1> SUFFICES ASSUME MediaInv, PromptSafetyCheck PROVE MediaInv'
  OBVIOUS
<1>1. state.at = "safety" /\ UNCHANGED <<request, serviceVars>>
  BY DEF PromptSafetyCheck
<1>2. Moves(Tools) /\ Idle'
  BY <1>1, RestMoves DEF MediaInv, MediaFits
<1>3. CASE request.blocked
  <2> DEFINE ran == Ran("PromptSafetyCheck", "finalize")
  <2>1. state' = [ran EXCEPT !.status = "refused", !.failure = "prompt_safety_blocked"]
    BY <1>3 DEF PromptSafetyCheck
  <2>2. /\ Goes(ran, "finalize") /\ SameLoops(ran) /\ SameVerdict(ran)
        /\ ran.nodes = state.nodes \cup {"PromptSafetyCheck"} /\ ran.tools = state.tools
    BY MediaFacts, RanGoes, RanKeeps DEF NodeNames, Places
  <2> HIDE DEF ran
  <2>3. Runs("PromptSafetyCheck", "finalize")
    BY <2>1, <2>2 DEF Runs, Goes, SameLoops, SameVerdict, State, Failures
  <2>4. /\ state'.status = "refused" /\ state'.failure = "prompt_safety_blocked"
        /\ state'.tools = state.tools
    BY <2>1, <2>2 DEF Goes, State
  <2>5. MediaCounted'
    BY <1>1, <2>3, MediaFacts DEF MediaInv, MediaCounted, MediaNodes, Before, Runs, SameLoops,
       Ended
  <2>6. MediaFits'
    BY <1>1, <1>2, <2>3 DEF MediaFits, Runs
  <2>7. MediaJudged'
    BY <1>1, <2>3, <2>4, NoneAssumption DEF MediaInv, MediaCounted, MediaJudged, Runs,
       TargetTool, Failures
  <2> QED
    BY <1>1, <1>2, <2>3, <2>5, <2>6, <2>7, RunsKeeps DEF NodeNames, Places
<1>4. CASE ~request.blocked
  <2> DEFINE ran == Ran("PromptSafetyCheck", "params")
  <2>1. state' = [ran EXCEPT !.status = "success"]
    BY <1>4 DEF PromptSafetyCheck
  <2>2. /\ Goes(ran, "params") /\ SameLoops(ran) /\ SameVerdict(ran)
        /\ ran.nodes = state.nodes \cup {"PromptSafetyCheck"} /\ ran.tools = state.tools
    BY MediaFacts, RanGoes, RanKeeps DEF NodeNames, Places
  <2> HIDE DEF ran
  <2>3. Runs("PromptSafetyCheck", "params")
    BY <2>1, <2>2 DEF Runs, Goes, SameLoops, SameVerdict, State
  <2>4. /\ state'.status = "success" /\ state'.failure = state.failure
        /\ state'.tools = state.tools
    BY <2>1, <2>2 DEF Goes, State, SameVerdict
  <2>5. MediaCounted'
    BY <1>1, <2>3, MediaFacts DEF MediaInv, MediaCounted, MediaNodes, Before, Runs, SameLoops,
       Ended
  <2>6. MediaFits'
    BY <1>1, <1>2, <1>4, <2>3 DEF MediaFits, Runs
  <2>7. MediaJudged'
    BY <1>1, <2>3, <2>4 DEF MediaInv, MediaJudged, Runs, TargetTool
  <2> QED
    BY <1>1, <1>2, <2>3, <2>5, <2>6, <2>7, RunsKeeps DEF NodeNames, Places
<1> QED
  BY <1>3, <1>4 DEF PromptSafetyCheck

LEMMA SendPromptKeeps == MediaInv /\ SendPrompt => MediaInv'
<1> SUFFICES ASSUME MediaInv, SendPrompt PROVE MediaInv'
  OBVIOUS
<1>1. state.at = "invoke" /\ calls[1] = NoCall /\ Sends("invoke", TargetTool, None)
  BY DEF SendPrompt, Sends
<1>2. Idle
  BY <1>1 DEF MediaInv, MediaFits, Awaits, Idle
<1>3. Moves(Tools) /\ Awaits(TargetTool)' /\ UNCHANGED state
  <2>1. Moves(Tools) /\ (\A s \in Slots \ {1} : calls'[s] = NoCall)
        /\ (calls'[1] # NoCall => calls'[1].tool = TargetTool) /\ UNCHANGED state
    BY <1>1, <1>2, KnownTarget, SendsMoves DEF MediaInv, Awaits
  <2> QED
    BY <2>1 DEF Awaits, Moves, TargetTool
<1>4. ServiceTypeOK' /\ Recorded' /\ Honest'
  BY <1>3, MovesFit DEF MediaInv
<1>5. MediaCounted' /\ MediaFits' /\ MediaJudged'
  BY <1>1, <1>3 DEF MediaInv, MediaCounted, Before, MediaFits, MediaJudged, Moves, TargetTool,
     Proven
<1> QED
  BY <1>3, <1>4, <1>5 DEF MediaInv, Generates, StateTypeOK, Moves

LEMMA InvokeKeeps == MediaInv /\ InvokeMediaBackend => MediaInv'
<1> SUFFICES ASSUME MediaInv, InvokeMediaBackend PROVE MediaInv'
  OBVIOUS
<1> DEFINE ran == Ran("InvokeMediaBackend", "asset")
<1>1. /\ Returned("invoke") /\ state.at = "invoke"
      /\ state' = [ran EXCEPT !.status = IF Succeeded(1) THEN "success" ELSE "failed",
                              !.failure = IF Succeeded(1) THEN None ELSE calls[1].status,
                              !.tools = @ \cup {TargetTool}]
  BY DEF InvokeMediaBackend, Returned
<1>2. /\ Moves(Tools) /\ Idle' /\ 1 \in Slots /\ calls[1] # NoCall
      /\ calls[1].at = "answered" /\ calls[1].tool = TargetTool
  BY <1>1, ReturnedMoves DEF MediaInv, MediaFits
<1>3. calls[1].status \in ToolStatuses
  BY <1>2 DEF MediaInv, Honest
<1>4. /\ Goes(ran, "asset") /\ SameLoops(ran) /\ SameVerdict(ran)
      /\ ran.nodes = state.nodes \cup {"InvokeMediaBackend"} /\ ran.tools = state.tools
  BY MediaFacts, RanGoes, RanKeeps DEF NodeNames, Places
<1> HIDE DEF ran
<1>5. Runs("InvokeMediaBackend", "asset")
  BY <1>1, <1>3, <1>4, KnownTarget DEF Runs, Goes, SameLoops, SameVerdict, State, Failures
<1>6. /\ state'.status = (IF Succeeded(1) THEN "success" ELSE "failed")
      /\ state'.failure = (IF Succeeded(1) THEN None ELSE calls[1].status)
      /\ state'.tools = state.tools \cup {TargetTool}
  BY <1>1, <1>4 DEF Goes, State
<1>7. Succeeded(1) => TargetTool \in Proven
  BY <1>2, KnownTarget DEF MediaInv, Recorded, Succeeded, Proven
<1>8. MediaCounted'
  BY <1>1, <1>5, MediaFacts DEF MediaInv, MediaCounted, MediaNodes, Before, Runs, SameLoops,
     Ended, Complete
<1>9. MediaFits'
  BY <1>1, <1>2, <1>5 DEF MediaInv, MediaFits, Runs, Moves
<1>10. MediaJudged'
  BY <1>1, <1>2, <1>3, <1>5, <1>6, <1>7, NoneAssumption
  DEF MediaInv, MediaJudged, Runs, Moves, TargetTool, Failures, ToolStatuses, Proven
<1> QED
  BY <1>1, <1>2, <1>5, <1>8, <1>9, <1>10, RunsKeeps DEF NodeNames, Places

LEMMA OutputKeeps == MediaInv /\ MediaOutputCheck => MediaInv'
<1> SUFFICES ASSUME MediaInv, MediaOutputCheck PROVE MediaInv'
  OBVIOUS
<1> DEFINE ran == Ran("MediaOutputCheck", "finalize")
<1>1. /\ state.at = "check" /\ UNCHANGED <<request, serviceVars>>
      /\ state' = [ran EXCEPT !.status = IF state.failure = None THEN "success" ELSE "failed"]
  BY DEF MediaOutputCheck
<1>2. Moves(Tools) /\ Idle'
  BY <1>1, RestMoves DEF MediaInv, MediaFits
<1>3. /\ Goes(ran, "finalize") /\ SameLoops(ran) /\ SameVerdict(ran)
      /\ ran.nodes = state.nodes \cup {"MediaOutputCheck"} /\ ran.tools = state.tools
  BY MediaFacts, RanGoes, RanKeeps DEF NodeNames, Places
<1> HIDE DEF ran
<1>4. Runs("MediaOutputCheck", "finalize")
  BY <1>1, <1>3 DEF Runs, Goes, SameLoops, SameVerdict, State
<1>5. /\ state'.status = (IF state.failure = None THEN "success" ELSE "failed")
      /\ state'.failure = state.failure /\ state'.tools = state.tools
  BY <1>1, <1>3 DEF Goes, State, SameVerdict
<1>6. MediaCounted'
  BY <1>1, <1>4, MediaFacts DEF MediaInv, MediaCounted, MediaNodes, Before, Runs, SameLoops,
     Ended
<1>7. MediaFits'
  BY <1>1, <1>2, <1>4 DEF MediaInv, MediaFits, Runs, Moves
<1>8. MediaJudged'
  BY <1>1, <1>4, <1>5 DEF MediaInv, MediaCounted, Before, MediaJudged, Runs, TargetTool,
     Proven, serviceVars, Complete
<1> QED
  BY <1>1, <1>2, <1>4, <1>6, <1>7, <1>8, RunsKeeps DEF NodeNames, Places

LEMMA MediaFinalizeKeeps == MediaInv /\ Finalize => MediaInv'
<1> SUFFICES ASSUME MediaInv, Finalize PROVE MediaInv'
  OBVIOUS
<1> DEFINE ran == Ran("Finalize", "end")
<1>1. /\ state.at = "finalize" /\ UNCHANGED <<request, serviceVars>>
      /\ state' = [ran EXCEPT !.answer = IF state.failure = None THEN "asset" ELSE "notice"]
  BY DEF Finalize
<1>2. Moves(Tools) /\ Idle'
  BY <1>1, RestMoves DEF MediaInv, MediaFits
<1>3. /\ Goes(ran, "end") /\ SameLoops(ran) /\ SameVerdict(ran)
      /\ ran.nodes = state.nodes \cup {"Finalize"} /\ ran.tools = state.tools
  BY MediaFacts, RanGoes, RanKeeps DEF NodeNames, Places, Ended
<1> HIDE DEF ran
<1>4. Runs("Finalize", "end")
  BY <1>1, <1>3 DEF Runs, Goes, SameLoops, SameVerdict, State, Texts
<1>5. /\ state'.answer \in {"asset", "notice"} /\ SameVerdict(state')
      /\ state'.tools = state.tools
  BY <1>1, <1>3 DEF Goes, State, SameVerdict
<1>6. MediaCounted'
  BY <1>1, <1>4, MediaFacts DEF MediaInv, MediaCounted, MediaNodes, Before, Runs, SameLoops,
     Ended
<1>7. MediaFits'
  BY <1>1, <1>2, <1>4 DEF MediaInv, MediaFits, Runs, Moves
<1>8. MediaJudged'
  BY <1>1, <1>4, <1>5, NoneAssumption DEF MediaInv, MediaJudged, Runs, SameVerdict, TargetTool,
     Proven, serviceVars, Texts
<1> QED
  BY <1>1, <1>2, <1>4, <1>6, <1>7, <1>8, RunsKeeps DEF NodeNames, Places, Ended

LEMMA MediaNode == MediaInv /\ Node => MediaInv'
<1> SUFFICES ASSUME MediaInv, Node PROVE MediaInv'
  OBVIOUS
<1>1. CASE ParseMediaRequest \/ BuildGenerationParams \/ AssetMetadataBuild
  BY <1>1, PlainKeeps DEF ParseMediaRequest, BuildGenerationParams, AssetMetadataBuild,
     NodeNames, Places
<1> QED
  BY <1>1, SafetyKeeps, SendPromptKeeps, InvokeKeeps, OutputKeeps, MediaFinalizeKeeps DEF Node

LEMMA MediaRests == MediaInv /\ UNCHANGED <<request, state, serviceVars>> => MediaInv'
  BY DEF MediaInv, Generates, StateTypeOK, ServiceTypeOK, Recorded, Honest, MediaCounted, Before,
     MediaFits, Idle, Awaits, MediaJudged, TargetTool, Proven, serviceVars

LEMMA NodeOwns ==
    Node => /\ Generates /\ state.at \notin Ended \cup {"none"}
            /\ UNCHANGED <<request, audit>>
  BY DEF Node, ParseMediaRequest, PromptSafetyCheck, BuildGenerationParams, SendPrompt,
         InvokeMediaBackend, AssetMetadataBuild, MediaOutputCheck, Finalize, Plain, Sends,
         Returned, serviceVars, Ended

================================================================================
