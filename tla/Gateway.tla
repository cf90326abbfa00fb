-------------------------------- MODULE Gateway --------------------------------
(***************************************************************************)
(* app/main.py: POST /v1/invoke, for a set of concurrent requests.         *)
(*                                                                         *)
(* The gateway is one event loop.  A request gives it up only where it     *)
(* awaits a call: to the task planner, to the planner again for a repair,  *)
(* and to the agent orchestrator.  Everything between two awaits is one    *)
(* action here: in particular routing, building the contract and counting  *)
(* the invocation (RuntimeMetricsStore.start) happen in one step, and so   *)
(* do verification, counting down, the trace and the log.                  *)
(*                                                                         *)
(* The orchestrator and the tool service are other processes.  They go on  *)
(* when the gateway has given up waiting (504, 502) and when it restarts,  *)
(* and they meet it again in the tool audit log, which the verification    *)
(* gate reads.  The planner memory rule files are edited by hand or by     *)
(* scripts/update_planner_memory.py at any time.                           *)
(***************************************************************************)
EXTENDS Integers, Sequences, FiniteSets

CONSTANTS Requests,     \* requests, one trace id each
          Workflows,    \* workflow ids
          None,         \* no value yet
          RuleFiles,    \* what the planner memory rule files may be edited into
          MaxRepairs,   \* planner_repair_max_retries
          Window,       \* DEFAULT_WINDOW_SIZE of the runtime metrics
          AuditLimit,   \* recent_limit of the audit scan
          MaxCalls,     \* bound: tool calls of one job
          MaxRestarts   \* bound: restarts of the gateway

\* What a request finds in the rule files: "invalid" is no JSON or no list of
\* rules; "garbled" is no UTF-8 (a file caught in the middle of its rewriting),
\* which PlannerMemoryStore does not catch; "lax" holds a criterion that passes
\* MemoryPlanner._valid_patch and makes VerificationGate._evaluate raise, like
\* citation_required with min_count "two".
RuleStates == {"valid", "invalid", "garbled", "lax"}

ASSUME GatewayAssumption ==
    /\ "valid" \in RuleFiles /\ RuleFiles \subseteq RuleStates
    /\ MaxRepairs \in Nat
    /\ Window \in Nat \ {0}
    /\ AuditLimit \in Nat \ {0}
    /\ MaxCalls \in Nat
    /\ MaxRestarts \in Nat
    /\ IsFiniteSet(Requests)
    /\ None \notin Workflows

VARIABLES
    phase,      \* per request: where its coroutine is
    reply,      \* per request: what the client was told, None before
    flushes,    \* per request: how often its trace was flushed
    logged,     \* per request: the statuses logged for it
    chosen,     \* per request: the selected workflow, None before routing
    contract,   \* per request: what its acceptance criteria demand
    ongoing,    \* per workflow: ongoing_count
    errors,     \* per workflow: error_flags, a deque of at most Window flags
    rules,      \* the planner memory rule files
    job,        \* per request: its run in the orchestrator
    audit,      \* the tool audit log
    restarts,   \* how often the gateway restarted
    leaked,     \* history, per workflow: starts whose finish was never reached
    finished    \* history, per workflow: the requests finished, in order

gatewayVars == <<phase, reply, flushes, logged>>
routeVars == <<chosen, contract, ongoing, job>>
metricVars == <<errors, leaked, finished>>
outsideVars == <<rules, audit, restarts>>
vars == <<gatewayVars, routeVars, metricVars, outsideVars>>

Phases == {"new", "planning", "repairing", "invoking", "closed", "lost"}
Waiting == {"planning", "repairing", "invoking"}
\* AgenticStatus, without fallback_success, which counts as no failure (main.py:580) and
\* which no workflow returns.
Statuses == {"success", "refused", "failed", "rate_limited", "verification_failed"}

Reply == [http : {200, 401, 429, 500, 502, 504},
          status : Statuses \cup {"error"},
          verified : {"passed", "failed", "skipped"},
          answer : {"agent", "notice"}]

\* What the gate looks at in an orchestrator response: complete says that it has
\* the answer, trace nodes, citations and resources that the contract names.
Response == [status : {"success", "refused", "failed"}, complete : BOOLEAN]

Job == [at : {"none", "running", "answered", "crashed"},
        calls : 0..MaxCalls, response : Response \cup {None}]

\* The criteria that ask for more than the response: "tool" for a tool's success
\* in the audit log; "raises" comes from lax rules.
Demands == {"tool", "raises"}

NoJob == [at |-> "none", calls |-> 0, response |-> None]

--------------------------------------------------------------------------------
(* Verification and finalization *)

\* Mutant: the scan of the audit log does not compare trace ids.
AuditShowsSuccess_AnyTrace(r) ==
    \E i \in 1..Len(audit) : i > Len(audit) - AuditLimit /\ audit[i].ok

\* Mutant: the scan starts one line too late.
AuditShowsSuccess_OneShort(r) ==
    \E i \in 1..Len(audit) :
        /\ i > Len(audit) - AuditLimit + 1
        /\ audit[i].trace = r /\ audit[i].ok

\* _tool_audit_has_success: one of the last AuditLimit records is a success of
\* this trace.
AuditShowsSuccess(r) ==
    \E i \in 1..Len(audit) :
        /\ i > Len(audit) - AuditLimit
        /\ audit[i].trace = r /\ audit[i].ok

\* VerificationGate.verify: passed unless a required criterion failed.  It does
\* not look at the status of the response.
Verification(r) ==
    LET response == job[r].response
    IN  IF /\ response.complete
           /\ "tool" \in contract[r] => AuditShowsSuccess(r)
        THEN "passed" ELSE "failed"

\* _finalize_verified_response: only a success is overruled.
Finalized(response, verified) ==
    IF response.status = "success" /\ verified = "failed"
    THEN [http |-> 200, status |-> "verification_failed",
          verified |-> verified, answer |-> "notice"]
    ELSE [http |-> 200, status |-> response.status,
          verified |-> verified, answer |-> "agent"]

\* An answer the gateway writes itself.
Notice(http, status) ==
    [http |-> http, status |-> status, verified |-> "skipped", answer |-> "notice"]

--------------------------------------------------------------------------------
(* Pieces of the handler *)

\* How an admitted request ends: the trace is flushed, the request logged, the
\* client answered.
Conclude(r, rep) ==
    /\ phase' = [phase EXCEPT ![r] = "closed"]
    /\ reply' = [reply EXCEPT ![r] = rep]
    /\ flushes' = [flushes EXCEPT ![r] = @ + 1]
    /\ logged' = [logged EXCEPT ![r] = Append(@, rep.status)]

\* An exception that nothing catches, or a rejected key: no trace and no log.
Abandon(r, rep) ==
    /\ phase' = [phase EXCEPT ![r] = "closed"]
    /\ reply' = [reply EXCEPT ![r] = rep]
    /\ UNCHANGED <<flushes, logged>>

Refuse(r) == Conclude(r, Notice(200, "refused")) /\ UNCHANGED routeVars

\* Mutant: the deque of error flags has no maxlen.
Finish_NoMaxlen(r, failed) ==
    LET w == chosen[r]
    IN  /\ ongoing' = [ongoing EXCEPT ![w] = IF @ > 0 THEN @ - 1 ELSE 0]
        /\ errors' = [errors EXCEPT ![w] = Append(@, failed)]
        /\ finished' = [finished EXCEPT ![w] = Append(@, r)]
        /\ UNCHANGED <<chosen, contract, job, leaked>>

\* Mutant: a full deque of error flags takes no more.
Finish_KeepsOldest(r, failed) ==
    LET w == chosen[r]
    IN  /\ ongoing' = [ongoing EXCEPT ![w] = IF @ > 0 THEN @ - 1 ELSE 0]
        /\ errors' = [errors EXCEPT
                         ![w] = IF Len(@) = Window THEN @ ELSE Append(@, failed)]
        /\ finished' = [finished EXCEPT ![w] = Append(@, r)]
        /\ UNCHANGED <<chosen, contract, job, leaked>>

\* RuntimeMetricsStore.finish.
Finish(r, failed) ==
    LET w == chosen[r]
        flags == Append(errors[w], failed)
    IN  /\ ongoing' = [ongoing EXCEPT ![w] = IF @ > 0 THEN @ - 1 ELSE 0]
        /\ errors' = [errors EXCEPT
                         ![w] = IF Len(flags) > Window THEN Tail(flags) ELSE flags]
        /\ finished' = [finished EXCEPT ![w] = Append(@, r)]
        /\ UNCHANGED <<chosen, contract, job, leaked>>

\* Route to w, build the contract, RuntimeMetricsStore.start, and post the job.
Start(r, w, demands) ==
    /\ phase' = [phase EXCEPT ![r] = "invoking"]
    /\ chosen' = [chosen EXCEPT ![r] = w]
    /\ contract' = [contract EXCEPT ![r] = demands]
    /\ ongoing' = [ongoing EXCEPT ![w] = @ + 1]
    /\ job' = [job EXCEPT ![r] = [NoJob EXCEPT !.at = "running"]]
    /\ UNCHANGED <<reply, flushes, logged>>

\* From the planner memory to the posted job, without an await: invalid rule
\* files refuse the request, and so does a routing that finds no workflow; a
\* UnicodeDecodeError escapes.
Proceed(r) ==
    \/ rules # "garbled" /\ Refuse(r)
    \/ /\ rules = "garbled"
       /\ Abandon(r, Notice(500, "error"))
       /\ UNCHANGED routeVars
    \/ /\ rules \in {"valid", "lax"}
       /\ \E w \in Workflows, demands \in SUBSET Demands :
             /\ "raises" \in demands => rules = "lax"
             /\ Start(r, w, demands)

--------------------------------------------------------------------------------
Init ==
    /\ phase = [r \in Requests |-> "new"]
    /\ reply = [r \in Requests |-> None]
    /\ flushes = [r \in Requests |-> 0]
    /\ logged = [r \in Requests |-> <<>>]
    /\ chosen = [r \in Requests |-> None]
    /\ contract = [r \in Requests |-> {}]
    /\ ongoing = [w \in Workflows |-> 0]
    /\ errors = [w \in Workflows |-> <<>>]
    /\ rules = "valid"
    /\ job = [r \in Requests |-> NoJob]
    /\ audit = <<>>
    /\ restarts = 0
    /\ leaked = [w \in Workflows |-> 0]
    /\ finished = [w \in Workflows |-> <<>>]

(* The gateway *)

\* verify_api_key finds no consumer.
Unauthorized(r) ==
    /\ phase[r] = "new"
    /\ Abandon(r, Notice(401, "error"))
    /\ UNCHANGED <<routeVars, metricVars, outsideVars>>

RateLimited(r) ==
    /\ phase[r] = "new"
    /\ Conclude(r, Notice(429, "rate_limited"))
    /\ UNCHANGED <<routeVars, metricVars, outsideVars>>

\* An admitted request goes on to the planner, or straight to routing where
\* the policy requires no plan.
Admitted(r) ==
    /\ phase[r] = "new"
    /\ \/ Proceed(r)
       \/ /\ phase' = [phase EXCEPT ![r] = "planning"]
          /\ UNCHANGED <<reply, flushes, logged, routeVars>>
    /\ UNCHANGED <<metricVars, outsideVars>>

\* Mutant: the repair is tried again as long as it is repairable.
PlannerReplies_Loop(r) ==
    /\ phase[r] \in {"planning", "repairing"}
    /\ \/ Proceed(r)
       \/ /\ MaxRepairs > 0
          /\ phase' = [phase EXCEPT
                          ![r] = IF @ = "planning" THEN "repairing" ELSE "planning"]
          /\ UNCHANGED <<reply, flushes, logged, routeVars>>
       \/ Refuse(r)
    /\ UNCHANGED <<metricVars, outsideVars>>

\* The planner's output, or its error, is validated: a valid plan is applied; a
\* repairable one is sent back once; anything else is refused.
PlannerReplies(r) ==
    /\ phase[r] \in {"planning", "repairing"}
    /\ \/ Proceed(r)
       \/ /\ phase[r] = "planning"
          /\ MaxRepairs > 0
          /\ phase' = [phase EXCEPT ![r] = "repairing"]
          /\ UNCHANGED <<reply, flushes, logged, routeVars>>
       \/ Refuse(r)
    /\ UNCHANGED <<metricVars, outsideVars>>

\* Mutant: an answer is taken even when the call has already been given up.
Complete_Late(r) ==
    /\ job[r].response # None
    /\ phase[r] \in {"invoking", "closed"}
    /\ LET rep == Finalized(job[r].response, Verification(r))
       IN  Finish(r, rep.status # "success") /\ Conclude(r, rep)
    /\ UNCHANGED <<outsideVars>>

\* The orchestrator's answer is verified, finalized, counted and returned.
Complete(r) ==
    /\ phase[r] = "invoking"
    /\ job[r].at = "answered"
    /\ "raises" \notin contract[r]
    /\ LET rep == Finalized(job[r].response, Verification(r))
       IN  Finish(r, rep.status # "success") /\ Conclude(r, rep)
    /\ UNCHANGED <<outsideVars>>

\* The gate raises: FastAPI answers 500; the invocation stays counted as
\* ongoing, and neither trace nor log is written.
VerifyRaises(r) ==
    /\ phase[r] = "invoking"
    /\ job[r].at = "answered"
    /\ "raises" \in contract[r]
    /\ Abandon(r, Notice(500, "error"))
    /\ leaked' = [leaked EXCEPT ![chosen[r]] = @ + 1]
    /\ UNCHANGED <<routeVars, errors, finished, outsideVars>>

\* Mutant: a timeout is answered without RuntimeMetricsStore.finish.
CallTimesOut_Uncounted(r) ==
    /\ phase[r] = "invoking"
    /\ Conclude(r, Notice(504, "failed"))
    /\ UNCHANGED <<routeVars, metricVars, outsideVars>>

\* AgentCallError: httpx gives up waiting, whatever the job is doing.
CallTimesOut(r) ==
    /\ phase[r] = "invoking"
    /\ Finish(r, TRUE)
    /\ Conclude(r, Notice(504, "failed"))
    /\ UNCHANGED <<outsideVars>>

\* AgentCallError: the orchestrator answered 500, or the connection broke.
CallFails(r) ==
    /\ phase[r] = "invoking"
    /\ Finish(r, TRUE)
    /\ Conclude(r, Notice(502, "failed"))
    /\ UNCHANGED <<outsideVars>>

(* The orchestrator and its tools *)

\* A workflow calls a tool, and waits for its reply or gives up (ToolClient).
CallTool(r) ==
    /\ job[r].at = "running"
    /\ job[r].calls < MaxCalls
    /\ job' = [job EXCEPT ![r].calls = @ + 1]
    /\ UNCHANGED <<gatewayVars, chosen, contract, ongoing, metricVars, outsideVars>>

\* The tool service ends a call with one record, before its reply, whether or
\* not somebody still waits for it.
RecordTool(r) ==
    /\ Cardinality({i \in 1..Len(audit) : audit[i].trace = r}) < job[r].calls
    /\ \E ok \in BOOLEAN : audit' = Append(audit, [trace |-> r, ok |-> ok])
    /\ UNCHANGED <<gatewayVars, routeVars, metricVars, rules, restarts>>

\* The workflow ends.  Where the gateway has given up, nobody reads the answer.
JobAnswers(r) ==
    /\ job[r].at = "running"
    /\ \E response \in IF phase[r] = "invoking" THEN Response ELSE {None} :
          job' = [job EXCEPT ![r].at = "answered", ![r].response = response]
    /\ UNCHANGED <<gatewayVars, chosen, contract, ongoing, metricVars, outsideVars>>

JobCrashes(r) ==
    /\ job[r].at = "running"
    /\ job' = [job EXCEPT ![r].at = "crashed"]
    /\ UNCHANGED <<gatewayVars, chosen, contract, ongoing, metricVars, outsideVars>>

(* Everything else *)

EditRules ==
    /\ \E edited \in RuleFiles \ {rules} : rules' = edited
    /\ UNCHANGED <<gatewayVars, routeVars, metricVars, audit, restarts>>

\* The gateway process dies and comes back: what it kept in memory is gone.
Restart ==
    /\ restarts < MaxRestarts
    /\ restarts' = restarts + 1
    /\ phase' = [r \in Requests |-> IF phase[r] \in Waiting THEN "lost" ELSE phase[r]]
    /\ ongoing' = [w \in Workflows |-> 0]
    /\ errors' = [w \in Workflows |-> <<>>]
    /\ leaked' = [w \in Workflows |-> 0]
    /\ finished' = [w \in Workflows |-> <<>>]
    /\ UNCHANGED <<reply, flushes, logged, chosen, contract, job, rules, audit>>

Handle(r) ==
    \/ Unauthorized(r) \/ RateLimited(r) \/ Admitted(r) \/ PlannerReplies(r)
    \/ Complete(r) \/ VerifyRaises(r) \/ CallTimesOut(r) \/ CallFails(r)

Work(r) == CallTool(r) \/ RecordTool(r) \/ JobAnswers(r) \/ JobCrashes(r)

Next ==
    \/ \E r \in Requests : Handle(r) \/ Work(r)
    \/ EditRules \/ Restart

Spec == Init /\ [][Next]_vars

\* The planner call ends (TaskPlanner has a timeout and _call_task_planner turns
\* every exception into an answer), and so does the call of the orchestrator
\* (httpx timeout).  Nothing is assumed of the orchestrator, its tools, the
\* client, the rule files or the clock.
Fairness ==
    \A r \in Requests : WF_vars(PlannerReplies(r)) /\ WF_vars(CallTimesOut(r))

FairSpec == Spec /\ Fairness

--------------------------------------------------------------------------------
(* Properties *)

TypeOK ==
    /\ phase \in [Requests -> Phases]
    /\ reply \in [Requests -> Reply \cup {None}]
    /\ flushes \in [Requests -> Nat]
    /\ logged \in [Requests -> Seq(Statuses)]
    /\ chosen \in [Requests -> Workflows \cup {None}]
    /\ contract \in [Requests -> SUBSET Demands]
    /\ ongoing \in [Workflows -> Nat]
    /\ errors \in [Workflows -> Seq(BOOLEAN)]
    /\ \A w \in Workflows : Len(errors[w]) <= Window
    /\ rules \in RuleStates
    /\ job \in [Requests -> Job]
    /\ audit \in Seq([trace : Requests, ok : BOOLEAN])
    /\ restarts \in Nat
    /\ leaked \in [Workflows -> Nat]
    /\ finished \in [Workflows -> Seq(Requests)]

\* How the variables of a request fit together: it has a workflow, a contract and
\* a job from the moment it is routed, and an answer once it is closed.
Shape ==
    \A r \in Requests :
        /\ phase[r] \in {"new", "planning", "repairing"} => chosen[r] = None
        /\ phase[r] = "invoking" => chosen[r] \in Workflows
        /\ chosen[r] = None => job[r] = NoJob /\ contract[r] = {}
        /\ phase[r] = "invoking" /\ job[r].at = "answered" => job[r].response \in Response
        /\ phase[r] = "closed" => reply[r] \in Reply
        /\ phase[r] = "closed" /\ reply[r].status = "success" =>
              chosen[r] \in Workflows /\ job[r].at = "answered"

InFlight(w) == {r \in Requests : phase[r] = "invoking" /\ chosen[r] = w}

\* The load the router reads is the number of invocations in flight, through
\* timeouts, failures and restarts, except for the ones whose verification
\* raised: these are counted as ongoing until the gateway restarts.
GaugeExact ==
    \A w \in Workflows : ongoing[w] = Cardinality(InFlight(w)) + leaked[w]

\* The error rate the router reads is that of the last invocations that ended:
\* each counts as failed exactly when its client got anything but a success.
ErrorRateExact ==
    \A w \in Workflows :
        LET done == finished[w]
            kept == IF Len(done) > Window THEN Window ELSE Len(done)
        IN  /\ Len(errors[w]) = kept
            /\ \A i \in 1..kept :
                  errors[w][i] <=> reply[done[Len(done) - kept + i]].status # "success"

\* Every reply but 401 and 500 has its trace flushed once and one line in the log, with the
\* status the client saw, and never a second of either.  A rejected key (401), a request
\* whose gate raised (500) and one that a restart lost have neither trace nor line.
OneRecordPerReply ==
    \A r \in Requests :
        IF phase[r] = "closed" /\ reply[r].http \notin {401, 500}
        THEN flushes[r] = 1 /\ logged[r] = <<reply[r].status>>
        ELSE flushes[r] = 0 /\ logged[r] = <<>>

Recorded(r) == \E i \in 1..Len(audit) : audit[i] = [trace |-> r, ok |-> TRUE]

\* A client is told success only when the response was complete, and the tool
\* its contract demands succeeded for this very request and not for another
\* one that ran at the same time.
SuccessIsEarned ==
    \A r \in Requests :
        phase[r] = "closed" /\ reply[r].status = "success" =>
            /\ job[r].response.complete
            /\ "tool" \in contract[r] => Recorded(r)

\* While the audit scan reaches back to the first record, no success is turned
\* into verification_failed for a tool call that is recorded as a success when
\* the gate decides: later records may be late ones.
NoFalseRejection ==
    [][\A r \in Requests :
          /\ phase[r] = "invoking" /\ phase'[r] = "closed"
          /\ reply'[r].status = "verification_failed"
          /\ job[r].response.complete
          /\ Len(audit) <= AuditLimit
          => "tool" \in contract[r] /\ ~Recorded(r)]_vars

\* Once a request is closed its reply, trace and log never change, although its
\* job may go on, call tools and answer after a timeout.
DecisionStands ==
    [][\A r \in Requests : phase[r] \in {"closed", "lost"} =>
          /\ phase'[r] = phase[r] /\ reply'[r] = reply[r]
          /\ flushes'[r] = flushes[r] /\ logged'[r] = logged[r]]_vars

\* Every request that is being handled is answered or lost in a restart: no
\* planner output and no orchestrator can hold it for ever.
EventuallyAnswered ==
    \A r \in Requests : phase[r] \in Waiting ~> phase[r] \in {"closed", "lost"}

\* README.md: the gate keeps a workflow from returning results that were not
\* accepted directly to the user.
UnverifiedWithheld ==
    \A r \in Requests :
        phase[r] = "closed" /\ reply[r].verified = "failed" => reply[r].answer = "notice"

\* The message of _refuse_planner_memory: invalid rules must be fixed before a
\* request is executed, so that no request dies of them afterwards.
BadRulesNeverExecute == \A w \in Workflows : leaked[w] = 0

--------------------------------------------------------------------------------
(* The abstract service *)

Outcome(r) ==
    CASE phase[r] = "new" -> "new"
      [] phase[r] \in Waiting -> "pending"
      [] phase[r] = "lost" -> "lost"
      [] OTHER -> IF reply[r].status = "success" THEN "accepted" ELSE "declined"

Service == INSTANCE InvokeService WITH
    outcome <- [r \in Requests |-> Outcome(r)],
    agreed <- {r \in Requests : chosen[r] # None},
    owing <- {r \in Requests : "tool" \in contract[r]},
    evidence <- {r \in Requests : Recorded(r)}

\* The gateway implements the service.
ImplementsService == Service!Spec

================================================================================
