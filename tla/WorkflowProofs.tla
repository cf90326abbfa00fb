---------------------------- MODULE WorkflowProofs ----------------------------
(***************************************************************************)
(* What the proofs about the workflows have in common: how the tool        *)
(* service goes on with the calls of a job, what the nodes do to calls,    *)
(* and what a node leaves as it was.                                       *)
(***************************************************************************)
EXTENDS Workflow, TLAPS

\* Calls are of tools, and a success is on record before the client has it.
Recorded ==
    \A s \in Slots : calls[s] # NoCall =>
        /\ calls[s].tool \in Tools
        /\ calls[s].at = "answered" /\ calls[s].status = "success" =>
              <<calls[s].tool, "success">> \in audit

\* Calls go with the permissions of the job; the service executes what they let through
\* and denies the rest, and a tool that does not await succeeds.
Honest ==
    \A s \in Slots : calls[s] # NoCall =>
        /\ calls[s].granted = request.granted
        /\ calls[s].at = "executing" =>
              calls[s].tool \in request.granted \cap KnowledgeTools
        /\ calls[s].at = "answered" =>
              /\ calls[s].status \in ToolStatuses
              /\ calls[s].status = "success" => calls[s].tool \in request.granted
              /\ calls[s].tool \in request.granted \ KnowledgeTools =>
                    calls[s].status = "success" /\ calls[s].positive

\* A node is reached after n others, a repair apart, the visited ones among them.
Before(node, n, visited) ==
    state.at = node => state.steps <= n + 4 * state.repair /\ visited \subseteq state.nodes

\* No call is under way, or one of t at most.
Idle == \A s \in Slots : calls[s] = NoCall
Awaits(t) ==
    /\ \A s \in Slots \ {1} : calls[s] = NoCall
    /\ calls[1] # NoCall => calls[1].tool = t

--------------------------------------------------------------------------------
(* The tool service *)

LEMMA KnownTools ==
    /\ "doc_search_tool" \in Tools /\ "evidence_check_tool" \in Tools
    /\ KnowledgeTools \subseteq Tools
  BY DEF Tools, Scope, KnowledgeTools

\* The service goes on with calls, of the same tools and queries; it begins none.
Serves ==
    /\ ServiceTypeOK' /\ Recorded'
    /\ \A r \in Slots : calls[r] = NoCall => calls'[r] = NoCall
    /\ \A r \in Slots : calls'[r].tool = calls[r].tool /\ calls'[r].query = calls[r].query
    /\ audit \subseteq audit'

\* How a call ends.
LEMMA ReplyServes ==
    ASSUME ServiceTypeOK, Recorded, NEW s \in Slots, calls[s] # NoCall,
           calls[s].tool \in Tools, NEW status \in ToolStatuses, NEW found \in SUBSET Items,
           NEW positive \in BOOLEAN, Reply(s, status, found, positive)
    PROVE  Serves
<1>1. calls \in [Slots -> Call] /\ calls[s] \in Call
  BY DEF ServiceTypeOK
<1>2. CASE /\ calls' = [calls EXCEPT ![s] = [@ EXCEPT !.at = "answered", !.status = status,
                                                    !.found = found, !.positive = positive]]
           /\ audit' = audit \cup {<<calls[s].tool, status>>}
  <2> DEFINE reply == [calls[s] EXCEPT !.at = "answered", !.status = status,
                                       !.found = found, !.positive = positive]
  <2>1. /\ reply \in Call /\ reply.tool = calls[s].tool /\ reply.query = calls[s].query
        /\ reply.status = status
    BY <1>1 DEF Call
  <2>2. calls' = [calls EXCEPT ![s] = reply]
    BY <1>2
  <2> HIDE DEF reply
  <2>3. calls' \in [Slots -> Call] /\ calls'[s] = reply
        /\ \A r \in Slots \ {s} : calls'[r] = calls[r]
    BY <1>1, <2>1, <2>2
  <2>4. ServiceTypeOK'
    BY <1>2, <2>3 DEF ServiceTypeOK
  <2>5. Recorded'
    BY <1>2, <2>1, <2>3, Recorded DEF Recorded
  <2> QED
    BY <1>2, <2>1, <2>3, <2>4, <2>5 DEF Serves
<1>3. CASE calls' = [calls EXCEPT ![s].at = "broken"] /\ UNCHANGED audit
  <2> DEFINE broken == [calls[s] EXCEPT !.at = "broken"]
  <2>1. /\ broken \in Call /\ broken.tool = calls[s].tool /\ broken.query = calls[s].query
        /\ broken.at = "broken"
    BY <1>1 DEF Call
  <2>2. calls' = [calls EXCEPT ![s] = broken]
    BY <1>3
  <2> HIDE DEF broken
  <2>3. calls' \in [Slots -> Call] /\ calls'[s] = broken
        /\ \A r \in Slots \ {s} : calls'[r] = calls[r]
    BY <1>1, <2>1, <2>2
  <2>4. ServiceTypeOK' /\ Recorded'
    BY <1>3, <2>1, <2>3 DEF ServiceTypeOK, Recorded
  <2> QED
    BY <1>3, <2>1, <2>3, <2>4 DEF Serves
<1> QED
  BY <1>2, <1>3 DEF Reply

LEMMA ServeServes ==
    ASSUME ServiceTypeOK, Recorded, Serve
    PROVE  Serves
<1>1. PICK s \in Slots : Receive(s) \/ Execute(s)
  BY DEF Serve
<1>2. calls \in [Slots -> Call] /\ calls[s] \in Call
  BY <1>1 DEF ServiceTypeOK
<1>3. calls[s] # NoCall
  <2>1. calls[s].at = "sent" \/ calls[s].at = "executing"
    BY <1>1 DEF Receive, Execute
  <2> QED
    BY <2>1 DEF NoCall
<1>4. calls[s].tool \in Tools
  BY <1>1, <1>3 DEF Recorded
<1>5. CASE calls[s].tool \in calls[s].granted \cap KnowledgeTools /\ Receive(s)
  <2>1. CASE calls' = [calls EXCEPT ![s].at = "executing"] /\ UNCHANGED audit
    <3> DEFINE running == [calls[s] EXCEPT !.at = "executing"]
    <3>1. /\ running \in Call /\ running.tool = calls[s].tool /\ running.query = calls[s].query
          /\ running.at = "executing"
      BY <1>2 DEF Call
    <3>2. calls' = [calls EXCEPT ![s] = running]
      BY <2>1
    <3> HIDE DEF running
    <3>3. calls' \in [Slots -> Call] /\ calls'[s] = running
          /\ \A r \in Slots \ {s} : calls'[r] = calls[r]
      BY <1>2, <3>1, <3>2
    <3>4. ServiceTypeOK' /\ Recorded'
      BY <1>4, <2>1, <3>1, <3>3 DEF ServiceTypeOK, Recorded
    <3> QED
      BY <1>3, <2>1, <3>1, <3>3, <3>4 DEF Serves
  <2> QED
    BY <1>5, <2>1 DEF Receive
<1>6. CASE Receive(s) /\ ~(calls[s].tool \in calls[s].granted \cap KnowledgeTools)
  <2>1. Reply(s, "permission_denied", {}, FALSE) \/ Reply(s, "success", {}, TRUE)
    BY <1>4, <1>6 DEF Receive
  <2> QED
    BY <1>3, <1>4, <2>1, ReplyServes DEF ToolStatuses
<1>7. CASE Execute(s)
  BY <1>3, <1>4, <1>7, ReplyServes DEF Execute, ToolStatuses
<1> QED
  BY <1>1, <1>5, <1>6, <1>7

\* What the service does is a record at most, of the call that it answers.
LEMMA AuditGrows ==
    ASSUME Serve, Recorded, ServiceTypeOK
    PROVE  \/ UNCHANGED audit
           \/ \E s \in Slots, status \in ToolStatuses :
                 /\ calls[s] # NoCall /\ calls[s].tool \in Tools
                 /\ audit' = audit \cup {<<calls[s].tool, status>>}
                 /\ calls'[s].at = "answered" /\ calls'[s].status = status
<1>1. PICK s \in Slots : Receive(s) \/ Execute(s)
  BY DEF Serve
<1>2. calls[s] # NoCall /\ calls[s].tool \in Tools
  <2>1. calls[s].at = "sent" \/ calls[s].at = "executing"
    BY <1>1 DEF Receive, Execute
  <2>2. calls[s] # NoCall
    BY <2>1 DEF NoCall
  <2> QED
    BY <2>2 DEF Recorded
<1>3. ASSUME NEW status \in ToolStatuses, NEW found, NEW positive,
             Reply(s, status, found, positive)
      PROVE  \/ UNCHANGED audit
             \/ /\ audit' = audit \cup {<<calls[s].tool, status>>}
                /\ calls'[s].at = "answered" /\ calls'[s].status = status
  <2>1. calls \in [Slots -> Call] /\ calls[s] \in Call
    BY DEF ServiceTypeOK
  <2> DEFINE answered == [calls[s] EXCEPT !.at = "answered", !.status = status,
                                          !.found = found, !.positive = positive]
  <2>2. answered.at = "answered" /\ answered.status = status
    BY <2>1 DEF Call
  <2>3. \/ UNCHANGED audit
        \/ /\ audit' = audit \cup {<<calls[s].tool, status>>}
           /\ calls' = [calls EXCEPT ![s] = answered]
    BY <1>3 DEF Reply
  <2> HIDE DEF answered
  <2> QED
    BY <2>1, <2>2, <2>3
<1>4. CASE Receive(s)
  <2>1. \/ Reply(s, "permission_denied", {}, FALSE) \/ Reply(s, "success", {}, TRUE)
        \/ UNCHANGED audit
    BY <1>4 DEF Receive
  <2> QED
    BY <1>1, <1>2, <1>3, <2>1 DEF ToolStatuses
<1>5. CASE Execute(s)
  <2>1. \E status \in ToolStatuses, found \in SUBSET Items, positive \in BOOLEAN :
            Reply(s, status, found, positive)
    BY <1>5 DEF Execute, ToolStatuses
  <2> QED
    BY <1>1, <1>2, <1>3, <2>1
<1> QED
  BY <1>1, <1>4, <1>5

LEMMA ReplyHonest ==
    ASSUME ServiceTypeOK, Honest, UNCHANGED request, NEW s \in Slots, calls[s] # NoCall,
           NEW status \in ToolStatuses, NEW found \in SUBSET Items, NEW positive \in BOOLEAN,
           Reply(s, status, found, positive),
           status = "success" => calls[s].tool \in request.granted,
           calls[s].tool \in request.granted \ KnowledgeTools =>
              status = "success" /\ positive
    PROVE  Honest'
<1>1. calls \in [Slots -> Call] /\ calls[s] \in Call
  BY DEF ServiceTypeOK
<1>2. CASE calls' = [calls EXCEPT ![s] = [@ EXCEPT !.at = "answered", !.status = status,
                                                  !.found = found, !.positive = positive]]
  <2> DEFINE reply == [calls[s] EXCEPT !.at = "answered", !.status = status,
                                       !.found = found, !.positive = positive]
  <2>1. /\ reply.at = "answered" /\ reply.tool = calls[s].tool /\ reply.status = status
        /\ reply.granted = calls[s].granted /\ reply.positive = positive
    BY <1>1 DEF Call
  <2>2. calls' = [calls EXCEPT ![s] = reply]
    BY <1>2
  <2> HIDE DEF reply
  <2>3. calls'[s] = reply /\ \A r \in Slots \ {s} : calls'[r] = calls[r]
    BY <1>1, <2>2
  <2> QED
    BY <2>1, <2>3 DEF Honest
<1>3. CASE calls' = [calls EXCEPT ![s].at = "broken"]
  <2> DEFINE broken == [calls[s] EXCEPT !.at = "broken"]
  <2>1. broken.at = "broken" /\ broken.granted = calls[s].granted
    BY <1>1 DEF Call
  <2>2. calls' = [calls EXCEPT ![s] = broken]
    BY <1>3
  <2> HIDE DEF broken
  <2>3. calls'[s] = broken /\ \A r \in Slots \ {s} : calls'[r] = calls[r]
    BY <1>1, <2>2
  <2> QED
    BY <2>1, <2>3 DEF Honest
<1> QED
  BY <1>2, <1>3 DEF Reply

LEMMA ServeHonest ==
    ASSUME ServiceTypeOK, Honest, UNCHANGED request, Serve
    PROVE  Honest'
<1>1. PICK s \in Slots : Receive(s) \/ Execute(s)
  BY DEF Serve
<1>2. calls \in [Slots -> Call] /\ calls[s] \in Call
  BY <1>1 DEF ServiceTypeOK
<1>3. calls[s] # NoCall
  <2>1. calls[s].at = "sent" \/ calls[s].at = "executing"
    BY <1>1 DEF Receive, Execute
  <2> QED
    BY <2>1 DEF NoCall
<1>4. calls[s].granted = request.granted
  BY <1>3 DEF Honest
<1>5. CASE Receive(s) /\ calls[s].tool \notin request.granted
  <2>1. Reply(s, "permission_denied", {}, FALSE)
    BY <1>4, <1>5 DEF Receive
  <2> QED
    BY <1>3, <1>5, <2>1, ReplyHonest DEF ToolStatuses
<1>6. CASE Receive(s) /\ calls[s].tool \in request.granted \ KnowledgeTools
  <2>1. Reply(s, "success", {}, TRUE)
    BY <1>4, <1>6 DEF Receive
  <2> QED
    BY <1>3, <1>6, <2>1, ReplyHonest DEF ToolStatuses
<1>7. CASE Receive(s) /\ calls[s].tool \in request.granted \cap KnowledgeTools
  <2>1. calls' = [calls EXCEPT ![s].at = "executing"]
    BY <1>4, <1>7 DEF Receive
  <2> DEFINE running == [calls[s] EXCEPT !.at = "executing"]
  <2>2. /\ running.at = "executing" /\ running.tool = calls[s].tool
        /\ running.granted = calls[s].granted
    BY <1>2 DEF Call
  <2>3. calls' = [calls EXCEPT ![s] = running]
    BY <2>1
  <2> HIDE DEF running
  <2>4. calls'[s] = running /\ \A r \in Slots \ {s} : calls'[r] = calls[r]
    BY <1>2, <2>3
  <2> QED
    BY <1>4, <1>7, <2>2, <2>4 DEF Honest
<1>8. CASE Execute(s)
  <2>1. calls[s].tool \in request.granted \cap KnowledgeTools
    BY <1>3, <1>8 DEF Execute, Honest
  <2>2. PICK status \in ToolStatuses, found \in SUBSET Items, positive \in BOOLEAN :
           Reply(s, status, found, positive)
    BY <1>8 DEF Execute, ToolStatuses
  <2> QED
    BY <1>3, <2>1, <2>2, ReplyHonest
<1> QED
  BY <1>1, <1>5, <1>6, <1>7, <1>8

\* The calls of a node stay its calls.
LEMMA ServeAwaits ==
    ASSUME Serves
    PROVE  (Idle => Idle') /\ \A t : Awaits(t) => Awaits(t)'
<1>1. 1 \in Slots
  BY ToolServiceAssumption DEF Slots
<1> QED
  BY <1>1 DEF Serves, Idle, Awaits

--------------------------------------------------------------------------------
(* Nodes *)

\* The names that a state has for nodes, queries, texts and failures.
LEMMA Names ==
    /\ "check" \in Places /\ "rewrite" \in Places /\ "retrieve" \in Places
    /\ "generate" \in Places /\ "citation" \in Places /\ "repair" \in Places
    /\ "aggregate" \in Places /\ "synthesize" \in Places /\ "finalize" \in Places
    /\ "end" \in Places /\ "crashed" \in Places /\ "parse" \in Places
    /\ "asked" \in Queries /\ "rewritten" \in Queries
    /\ "evidence" \in Texts /\ "notice" \in Texts
    /\ "retrieval_failed" \in Failures /\ "insufficient_evidence" \in Failures
    /\ "missing_citation" \in Failures
  BY DEF Places, Ended, Queries, Texts, Failures

\* What a node leaves as it was.
SameLoops(r) == r.retry = state.retry /\ r.repair = state.repair
SameVerdict(r) ==
    r.status = state.status /\ r.failure = state.failure /\ r.citations = state.citations
SameFindings(r) ==
    /\ r.query = state.query /\ r.basis = state.basis /\ r.supported = state.supported
    /\ r.evidence = state.evidence

\* A node has run, and next is next.
Goes(r, next) ==
    /\ r \in State
    /\ r.at = next /\ r.steps = state.steps + 1 /\ r.error = state.error

LEMMA RanGoes ==
    ASSUME state \in State, NEW node \in NodeNames, NEW next \in Places
    PROVE  LET r == Ran(node, next)
           IN  Goes(r, next) /\ SameLoops(r) /\ SameVerdict(r) /\ SameFindings(r)
               /\ r.answer = state.answer
<1> DEFINE r == Ran(node, next)
<1>1. r = [state EXCEPT !.at = next, !.steps = @ + 1, !.nodes = @ \cup {node}]
  BY DEF Ran
<1>2. state.steps + 1 \in Nat /\ state.nodes \cup {node} \in SUBSET NodeNames
  BY DEF State
<1> HIDE DEF r
<1>3. Goes(r, next)
  BY <1>1, <1>2 DEF State, Goes
<1>4. SameLoops(r) /\ SameVerdict(r) /\ SameFindings(r) /\ r.answer = state.answer
  BY <1>1 DEF State, SameLoops, SameVerdict, SameFindings
<1> QED
  BY <1>3, <1>4 DEF r

\* What a node does to calls: it leaves them, drops them or posts new ones, of some tools.
Moves(tools) ==
    /\ UNCHANGED <<request, audit>>
    /\ calls' \in [Slots -> Call]
    /\ \A s \in Slots :
          \/ calls'[s] = calls[s] \/ calls'[s] = NoCall
          \/ \E t \in tools, query \in Queries \cup {None} :
                calls'[s] = Posted(t, query, request.granted)

LEMMA MovesFit ==
    ASSUME ServiceTypeOK, Recorded, Honest, NEW tools \in SUBSET Tools, Moves(tools)
    PROVE  ServiceTypeOK' /\ Recorded' /\ Honest'
<1>1. ServiceTypeOK'
  BY DEF ServiceTypeOK, Moves
<1>2. ASSUME NEW s \in Slots, NEW t \in Tools, NEW query,
             calls'[s] = Posted(t, query, request.granted)
      PROVE  calls'[s].at = "sent" /\ calls'[s].tool = t /\ calls'[s].granted = request.granted
  BY <1>2 DEF Posted, NoCall
<1>3. Recorded'
  BY <1>2 DEF Recorded, Moves
<1>4. Honest'
  BY <1>2 DEF Honest, Moves
<1> QED
  BY <1>1, <1>3, <1>4

LEMMA RestMoves ==
    ASSUME ServiceTypeOK, UNCHANGED <<request, serviceVars>>
    PROVE  (\A tools : Moves(tools)) /\ (Idle => Idle')
  BY DEF ServiceTypeOK, Moves, serviceVars, Idle

LEMMA SendsMoves ==
    ASSUME ServiceTypeOK, request.granted \in SUBSET Tools, Idle,
           NEW here, NEW t \in Tools, NEW query \in Queries \cup {None},
           Sends(here, t, query)
    PROVE  /\ (\A tools : t \in tools => Moves(tools)) /\ Awaits(t)'
           /\ state.at = here /\ UNCHANGED state
<1> DEFINE posted == Posted(t, query, request.granted)
<1>1. posted \in Call /\ posted.tool = t
  BY DEF Posted, NoCall, Call
<1> HIDE DEF posted
<1>2. /\ state.at = here /\ UNCHANGED <<request, state, audit>>
      /\ calls' = [calls EXCEPT ![1] = posted]
  BY DEF Sends, posted
<1>3. 1 \in Slots
  BY ToolServiceAssumption DEF Slots
<1>4. /\ calls' \in [Slots -> Call] /\ calls'[1] = posted
      /\ \A s \in Slots \ {1} : calls'[s] = NoCall
  BY <1>1, <1>2, <1>3 DEF ServiceTypeOK, Idle
<1> QED
  BY <1>1, <1>2, <1>3, <1>4 DEF Moves, Awaits, Idle, posted

LEMMA ReturnedMoves ==
    ASSUME ServiceTypeOK, NEW t, Awaits(t), NEW here, Returned(here)
    PROVE  /\ (\A tools : Moves(tools)) /\ Idle' /\ state.at = here
           /\ 1 \in Slots /\ calls[1] \in Call /\ calls[1] # NoCall
           /\ calls[1].at = "answered" /\ calls[1].tool = t
<1>1. /\ state.at = here /\ calls[1].at = "answered" /\ UNCHANGED <<request, audit>>
      /\ calls' = [calls EXCEPT ![1] = NoCall]
  BY DEF Returned
<1>2. 1 \in Slots /\ NoCall \in Call
  BY ToolServiceAssumption DEF Slots, NoCall, Call
<1>3. calls[1] \in Call /\ calls[1] # NoCall
  BY <1>1, <1>2 DEF ServiceTypeOK, NoCall
<1>4. calls' \in [Slots -> Call] /\ \A s \in Slots : calls'[s] = NoCall
  BY <1>1, <1>2 DEF ServiceTypeOK, Awaits
<1> QED
  BY <1>1, <1>2, <1>3, <1>4 DEF Moves, Idle, Awaits

\* What else a node leaves as it was, and that it is remembered.
LEMMA RanKeeps ==
    ASSUME state \in State, NEW node \in NodeNames, NEW next \in Places
    PROVE  LET r == Ran(node, next)
           IN  /\ r.nodes = state.nodes \cup {node}
               /\ r.tools = state.tools /\ r.draft = state.draft
               /\ r.inspected = state.inspected
  BY DEF Ran, State

\* A node has run and next is next, after this many repairs.
Did(node, next, repairs) ==
    /\ state' \in State /\ state'.at = next /\ state'.steps = state.steps + 1
    /\ state'.retry = state.retry /\ state'.repair = repairs /\ state'.error = state.error
    /\ state'.nodes = state.nodes \cup {node}

\* It has left this as it was.
Kept ==
    /\ state'.tools = state.tools /\ state'.draft = state.draft
    /\ state'.inspected = state.inspected /\ state'.answer = state.answer

LEMMA RanDid ==
    ASSUME state \in State, NEW node \in NodeNames, NEW next \in Places,
           state' = Ran(node, next)
    PROVE  Did(node, next, state.repair) /\ Kept /\ SameVerdict(state')
  BY RanGoes, RanKeeps DEF Did, Kept, Goes, SameLoops

\* A job crashes, and keeps the rest of its state.
LEMMA CrashedTyped ==
    ASSUME StateTypeOK, NEW error \in Errors, Crashes(error)
    PROVE  /\ StateTypeOK' /\ state'.at = "crashed" /\ state'.error = error
           /\ state'.steps = state.steps /\ SameLoops(state') /\ SameVerdict(state')
           /\ state'.tools = state.tools /\ state'.nodes = state.nodes
<1>1. state \in State /\ state' = [state EXCEPT !.at = "crashed", !.error = error]
  BY DEF StateTypeOK, Crashes
<1>2. state' \in State
  BY <1>1, Names DEF State
<1>3. /\ state'.at = "crashed" /\ state'.error = error /\ state'.steps = state.steps
      /\ state'.tools = state.tools /\ state'.nodes = state.nodes
  BY <1>1 DEF State
<1>4. SameLoops(state') /\ SameVerdict(state')
  BY <1>1 DEF State, SameLoops, SameVerdict
<1> QED
  BY <1>2, <1>3, <1>4, NoneAssumption DEF StateTypeOK

================================================================================
