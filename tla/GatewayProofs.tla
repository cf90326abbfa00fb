----------------------------- MODULE GatewayProofs -----------------------------
\* Proofs about Gateway, for any number of requests and workflows, any rule
\* files and any number of tool calls and restarts.
EXTENDS Gateway, FiniteSetTheorems, SequenceTheorems, TLAPS

--------------------------------------------------------------------------------
(* The kinds of steps *)

Early == {"new", "planning", "repairing"}

\* The answers that leave no trace and no log behind.
Unrecorded == {401, 500}

\* The request is answered before it is routed, and was no success.
TurnedAway(r) ==
    /\ phase[r] \in Early
    /\ \E rep \in Reply :
          /\ rep.status # "success"
          /\ \/ rep.http \in Unrecorded /\ Abandon(r, rep)
             \/ rep.http \notin Unrecorded /\ rep.status # "error" /\ Conclude(r, rep)
    /\ UNCHANGED <<routeVars, metricVars, outsideVars>>

\* The request waits for the planner, or for the planner again.
Planned(r) ==
    /\ phase[r] \in Early
    /\ \E p \in {"planning", "repairing"} : phase' = [phase EXCEPT ![r] = p]
    /\ UNCHANGED <<reply, flushes, logged, routeVars, metricVars, outsideVars>>

Routed(r) ==
    /\ phase[r] \in Early
    /\ \E w \in Workflows, demands \in SUBSET Demands : Start(r, w, demands)
    /\ UNCHANGED <<metricVars, outsideVars>>

\* What must be the case for a request to be told success.
Earned(r) ==
    /\ job[r].at = "answered"
    /\ job[r].response.complete
    /\ "tool" \in contract[r] => Recorded(r)

\* What must be the case for a success to be overruled by the gate.
Overruled(r) ==
    job[r].response.complete => "tool" \in contract[r] /\ ~AuditShowsSuccess(r)

\* The call of the orchestrator ended and was counted, as failed or not.
Answered(r) ==
    /\ phase[r] = "invoking"
    /\ \E rep \in Reply, failed \in BOOLEAN :
          /\ rep.status # "error" /\ rep.http \notin Unrecorded
          /\ rep.status = "success" => Earned(r)
          /\ rep.status = "verification_failed" => Overruled(r)
          /\ failed <=> rep.status # "success"
          /\ Finish(r, failed)
          /\ Conclude(r, rep)
    /\ UNCHANGED outsideVars

LEMMA NoticeType ==
    ASSUME NEW http \in {200, 401, 429, 500, 502, 504}, NEW status \in Statuses \cup {"error"}
    PROVE  /\ Notice(http, status) \in Reply
           /\ Notice(http, status).http = http /\ Notice(http, status).status = status
  BY DEF Notice, Reply

LEMMA ProceedKinds ==
    ASSUME NEW r \in Requests, phase[r] \in Early, Proceed(r),
           UNCHANGED <<metricVars, outsideVars>>
    PROVE  TurnedAway(r) \/ Routed(r)
  <1>1. CASE rules # "garbled" /\ Refuse(r)
    <2>1. /\ Notice(200, "refused") \in Reply
          /\ Notice(200, "refused").http = 200 /\ Notice(200, "refused").status = "refused"
      BY NoticeType DEF Statuses
    <2>2. QED
      BY <1>1, <2>1 DEF Refuse, TurnedAway, Unrecorded
  <1>2. CASE Abandon(r, Notice(500, "error")) /\ UNCHANGED routeVars
    <2>1. /\ Notice(500, "error") \in Reply
          /\ Notice(500, "error").http = 500 /\ Notice(500, "error").status = "error"
      BY NoticeType
    <2>2. QED
      BY <1>2, <2>1 DEF TurnedAway, Unrecorded
  <1>3. CASE \E w \in Workflows, demands \in SUBSET Demands : Start(r, w, demands)
    BY <1>3 DEF Routed
  <1>4. QED
    BY <1>1, <1>2, <1>3 DEF Proceed

\* A success of this very request in the part of the log that is scanned is a
\* success on record.
LEMMA ScanIsRecord ==
    ASSUME TypeOK, NEW r \in Requests, AuditShowsSuccess(r)
    PROVE  Recorded(r)
  <1>1. PICK i \in 1..Len(audit) : audit[i].trace = r /\ audit[i].ok
    BY DEF AuditShowsSuccess
  <1>2. audit[i] \in [trace : Requests, ok : BOOLEAN]
    <2>1. audit \in Seq([trace : Requests, ok : BOOLEAN])
      BY DEF TypeOK
    <2>2. QED
      BY <2>1, ElementOfSeq, Zenon
  <1>3. audit[i] = [trace |-> r, ok |-> TRUE]
    BY <1>1, <1>2
  <1>4. QED
    BY <1>3 DEF Recorded

LEMMA CompleteKind ==
    ASSUME TypeOK, Shape, NEW r \in Requests, Complete(r)
    PROVE  Answered(r)
  <1> DEFINE rep == Finalized(job[r].response, Verification(r))
  <1>1. phase[r] = "invoking" /\ job[r].at = "answered"
    BY DEF Complete
  <1>2. job[r].response \in Response
    BY <1>1 DEF Shape
  <1>3. Verification(r) \in {"passed", "failed"}
    BY DEF Verification
  <1>4. rep \in Reply /\ rep.status # "error" /\ rep.http \notin Unrecorded
    BY <1>2, <1>3 DEF Finalized, Reply, Response, Statuses, Unrecorded
  <1>5. rep.status = "success" => Earned(r)
    <2>1. SUFFICES ASSUME rep.status = "success" PROVE Earned(r)
      OBVIOUS
    <2>2. Verification(r) = "passed"
      BY <2>1, <1>2, <1>3 DEF Finalized, Response
    <2>3. job[r].response.complete /\ ("tool" \in contract[r] => AuditShowsSuccess(r))
      BY <2>2 DEF Verification
    <2>4. QED
      BY <1>1, <2>3, ScanIsRecord DEF Earned
  <1>6. rep.status = "verification_failed" => Overruled(r)
    <2>1. SUFFICES ASSUME rep.status = "verification_failed" PROVE Overruled(r)
      OBVIOUS
    <2>2. Verification(r) = "failed"
      BY <2>1, <1>2, <1>3 DEF Finalized, Response
    <2>3. QED
      BY <2>2 DEF Verification, Overruled
  <1>7. Finish(r, rep.status # "success") /\ Conclude(r, rep) /\ UNCHANGED outsideVars
    BY DEF Complete
  <1> DEFINE failed == rep.status # "success"
  <1>8. failed \in BOOLEAN /\ (failed <=> rep.status # "success") /\ Finish(r, failed)
    BY <1>7
  <1> HIDE DEF rep, failed
  <1>9. QED
    BY <1>1, <1>4, <1>5, <1>6, <1>7, <1>8 DEF Answered

LEMMA GiveUpKind ==
    ASSUME NEW r \in Requests, CallTimesOut(r) \/ CallFails(r)
    PROVE  Answered(r)
  <1>1. PICK http \in {502, 504} :
           /\ phase[r] = "invoking" /\ Finish(r, TRUE)
           /\ Conclude(r, Notice(http, "failed")) /\ UNCHANGED outsideVars
    BY DEF CallTimesOut, CallFails
  <1>2. /\ Notice(http, "failed") \in Reply
        /\ Notice(http, "failed").http = http /\ Notice(http, "failed").status = "failed"
    BY NoticeType DEF Statuses
  <1> DEFINE rep == Notice(http, "failed")
  <1>3. /\ rep \in Reply /\ rep.status = "failed" /\ rep.http \notin Unrecorded
        /\ Conclude(r, rep)
    BY <1>1, <1>2 DEF Unrecorded
  <1> HIDE DEF rep
  <1>4. TRUE \in BOOLEAN /\ (TRUE <=> rep.status # "success")
    BY <1>3
  <1>5. QED
    BY <1>1, <1>3, <1>4 DEF Answered

\* Every step is of one of these kinds.
LEMMA StepKinds ==
    ASSUME TypeOK, Shape, [Next]_vars
    PROVE  \/ \E r \in Requests : \/ TurnedAway(r) \/ Planned(r) \/ Routed(r)
                                  \/ Answered(r) \/ VerifyRaises(r) \/ Work(r)
           \/ EditRules \/ Restart \/ UNCHANGED vars
  <1>1. CASE UNCHANGED vars
    BY <1>1
  <1>2. CASE EditRules \/ Restart
    BY <1>2
  <1>3. ASSUME NEW r \in Requests, Handle(r)
        PROVE  \/ TurnedAway(r) \/ Planned(r) \/ Routed(r)
               \/ Answered(r) \/ VerifyRaises(r)
    <2>1. CASE Unauthorized(r)
      <3>1. /\ Notice(401, "error") \in Reply
            /\ Notice(401, "error").http = 401 /\ Notice(401, "error").status = "error"
        BY NoticeType
      <3>2. QED
        BY <2>1, <3>1 DEF Unauthorized, TurnedAway, Early, Unrecorded
    <2>2. CASE RateLimited(r)
      <3>1. /\ Notice(429, "rate_limited") \in Reply
            /\ Notice(429, "rate_limited").http = 429
            /\ Notice(429, "rate_limited").status = "rate_limited"
        BY NoticeType DEF Statuses
      <3>2. QED
        BY <2>2, <3>1 DEF RateLimited, TurnedAway, Early, Unrecorded
    <2>3. CASE Admitted(r)
      BY <2>3, ProceedKinds DEF Admitted, Planned, Early
    <2>4. CASE PlannerReplies(r)
      <3>1. CASE Proceed(r)
        BY <2>4, <3>1, ProceedKinds DEF PlannerReplies, Early
      <3>2. CASE phase' = [phase EXCEPT ![r] = "repairing"]
                 /\ UNCHANGED <<reply, flushes, logged, routeVars>>
        BY <2>4, <3>2 DEF PlannerReplies, Planned, Early
      <3>3. CASE Refuse(r)
        <4>1. /\ Notice(200, "refused") \in Reply
              /\ Notice(200, "refused").http = 200 /\ Notice(200, "refused").status = "refused"
          BY NoticeType DEF Statuses
        <4>2. QED
          BY <2>4, <3>3, <4>1 DEF PlannerReplies, Refuse, TurnedAway, Early, Unrecorded
      <3>4. QED
        BY <2>4, <3>1, <3>2, <3>3 DEF PlannerReplies
    <2>5. CASE Complete(r)
      BY <2>5, CompleteKind
    <2>6. CASE CallTimesOut(r) \/ CallFails(r)
      BY <2>6, GiveUpKind
    <2>7. QED
      BY <1>3, <2>1, <2>2, <2>3, <2>4, <2>5, <2>6 DEF Handle
  <1>4. QED
    BY <1>1, <1>2, <1>3 DEF Next

--------------------------------------------------------------------------------
(* Type correctness *)

LEMMA ConcludeType ==
    ASSUME TypeOK, NEW r \in Requests, NEW rep \in Reply,
           Abandon(r, rep) \/ (rep.status # "error" /\ Conclude(r, rep))
    PROVE  /\ phase' \in [Requests -> Phases]
           /\ reply' \in [Requests -> Reply \cup {None}]
           /\ flushes' \in [Requests -> Nat]
           /\ logged' \in [Requests -> Seq(Statuses)]
  <1> USE DEF TypeOK
  <1>0. /\ phase' = [phase EXCEPT ![r] = "closed"]
        /\ reply' = [reply EXCEPT ![r] = rep]
        /\ flushes' \in {flushes, [flushes EXCEPT ![r] = @ + 1]}
    BY DEF Abandon, Conclude
  <1>1. phase' \in [Requests -> Phases] /\ reply' \in [Requests -> Reply \cup {None}]
    BY <1>0 DEF Phases
  <1>2. flushes' \in [Requests -> Nat]
    <2>1. flushes \in [Requests -> Nat] /\ flushes[r] + 1 \in Nat
      OBVIOUS
    <2>2. [flushes EXCEPT ![r] = flushes[r] + 1] \in [Requests -> Nat]
      BY <2>1
    <2>3. QED
      BY <1>0, <2>1, <2>2
  <1>3. logged' \in [Requests -> Seq(Statuses)]
    <2>1. CASE logged' = logged
      BY <2>1 DEF TypeOK
    <2>2. CASE rep.status # "error" /\ logged' = [logged EXCEPT ![r] = Append(@, rep.status)]
      <3>1. rep.status \in Statuses
        BY <2>2 DEF Reply
      <3>2. logged[r] \in Seq(Statuses)
        BY DEF TypeOK
      <3>3. Append(logged[r], rep.status) \in Seq(Statuses)
        BY <3>1, <3>2, AppendProperties
      <3>4. QED
        BY <2>2, <3>3 DEF TypeOK
    <2>3. QED
      BY <2>1, <2>2 DEF Abandon, Conclude
  <1>4. QED
    BY <1>1, <1>2, <1>3

\* The gauge never goes below zero and the deque never holds more than Window
\* flags.
LEMMA FinishType ==
    ASSUME TypeOK, NEW r \in Requests, chosen[r] \in Workflows,
           NEW failed \in BOOLEAN, Finish(r, failed)
    PROVE  /\ ongoing' \in [Workflows -> Nat]
           /\ errors' \in [Workflows -> Seq(BOOLEAN)]
           /\ \A w \in Workflows : Len(errors'[w]) <= Window
           /\ finished' \in [Workflows -> Seq(Requests)]
  <1> DEFINE w == chosen[r]
             flags == Append(errors[w], failed)
             kept == IF Len(flags) > Window THEN Tail(flags) ELSE flags
  <1>1. errors[w] \in Seq(BOOLEAN) /\ Len(errors[w]) <= Window
    BY DEF TypeOK
  <1>2. flags \in Seq(BOOLEAN) /\ flags # <<>> /\ Len(flags) = Len(errors[w]) + 1
    BY <1>1, AppendProperties
  <1>3. Tail(flags) \in Seq(BOOLEAN) /\ Len(Tail(flags)) = Len(errors[w])
    <2> HIDE DEF flags
    <2>1. Tail(flags) \in Seq(BOOLEAN) /\ Len(Tail(flags)) = Len(flags) - 1
      BY <1>2, HeadTailProperties
    <2>2. Len(errors[w]) \in Nat
      BY <1>1, LenProperties
    <2>3. QED
      BY <1>2, <2>1, <2>2
  <1>4. kept \in Seq(BOOLEAN) /\ Len(kept) <= Window
    <2> HIDE DEF flags
    <2>1. Len(flags) \in Nat /\ Window \in Nat
      BY <1>2, LenProperties, GatewayAssumption
    <2>2. CASE Len(flags) > Window
      BY <1>1, <1>3, <2>2
    <2>3. CASE ~(Len(flags) > Window)
      <3>1. Len(flags) <= Window
        BY <2>1, <2>3
      <3>2. QED
        BY <1>2, <2>3, <3>1
    <2>4. QED
      BY <2>2, <2>3
  <1>5. errors' = [errors EXCEPT ![w] = kept]
    BY DEF Finish
  <1> HIDE DEF kept
  <1>6. errors' \in [Workflows -> Seq(BOOLEAN)] /\ \A v \in Workflows : Len(errors'[v]) <= Window
    BY <1>4, <1>5 DEF TypeOK
  <1>7. ongoing' \in [Workflows -> Nat]
    BY DEF Finish, TypeOK
  <1>8. finished' \in [Workflows -> Seq(Requests)]
    <2>1. finished[w] \in Seq(Requests)
      BY DEF TypeOK
    <2>2. Append(finished[w], r) \in Seq(Requests)
      BY <2>1, AppendProperties
    <2>3. finished' = [finished EXCEPT ![w] = Append(finished[w], r)]
      BY DEF Finish
    <2>4. QED
      BY <2>2, <2>3 DEF TypeOK
  <1>9. QED
    BY <1>6, <1>7, <1>8

LEMMA WorkType ==
    ASSUME TypeOK, NEW r \in Requests, Work(r)
    PROVE  /\ job' \in [Requests -> Job]
           /\ audit' \in Seq([trace : Requests, ok : BOOLEAN])
           /\ UNCHANGED <<gatewayVars, chosen, contract, ongoing, metricVars, rules, restarts>>
  <1>1. job[r] \in Job
    BY DEF TypeOK
  <1>2. CASE CallTool(r)
    <2>1. job[r].calls + 1 \in 0..MaxCalls
      BY <1>1, <1>2, GatewayAssumption DEF CallTool, Job
    <2>2. [job[r] EXCEPT !.calls = @ + 1] \in Job
      BY <1>1, <2>1 DEF Job
    <2>3. job' = [job EXCEPT ![r] = [job[r] EXCEPT !.calls = @ + 1]]
      BY <1>2 DEF CallTool
    <2>4. QED
      BY <1>2, <2>2, <2>3 DEF CallTool, TypeOK, outsideVars
  <1>3. CASE RecordTool(r)
    <2>1. PICK ok \in BOOLEAN : audit' = Append(audit, [trace |-> r, ok |-> ok])
      BY <1>3 DEF RecordTool
    <2>2. audit \in Seq([trace : Requests, ok : BOOLEAN])
      BY DEF TypeOK
    <2>3. [trace |-> r, ok |-> ok] \in [trace : Requests, ok : BOOLEAN]
      OBVIOUS
    <2>4. audit' \in Seq([trace : Requests, ok : BOOLEAN])
      BY <2>1, <2>2, <2>3, AppendProperties, Zenon
    <2>5. QED
      BY <1>3, <2>4 DEF RecordTool, routeVars, TypeOK
  <1>4. CASE JobAnswers(r)
    <2>1. PICK response \in Response \cup {None} :
             job' = [job EXCEPT ![r].at = "answered", ![r].response = response]
      BY <1>4 DEF JobAnswers
    <2>2. [job[r] EXCEPT !.at = "answered", !.response = response] \in Job
      BY <1>1 DEF Job
    <2>3. job' = [job EXCEPT ![r] = [job[r] EXCEPT !.at = "answered", !.response = response]]
      BY <2>1
    <2>4. QED
      BY <1>4, <2>2, <2>3 DEF JobAnswers, TypeOK, outsideVars
  <1>5. CASE JobCrashes(r)
    <2>1. [job[r] EXCEPT !.at = "crashed"] \in Job
      BY <1>1 DEF Job
    <2>2. job' = [job EXCEPT ![r] = [job[r] EXCEPT !.at = "crashed"]]
      BY <1>5 DEF JobCrashes
    <2>3. QED
      BY <1>5, <2>1, <2>2 DEF JobCrashes, TypeOK, outsideVars
  <1>6. QED
    BY <1>2, <1>3, <1>4, <1>5 DEF Work

LEMMA TypeStep ==
    ASSUME TypeOK, Shape, [Next]_vars
    PROVE  TypeOK'
  <1>1. ASSUME NEW r \in Requests, TurnedAway(r) PROVE TypeOK'
    BY <1>1, ConcludeType DEF TurnedAway, TypeOK, routeVars, metricVars, outsideVars
  <1>2. ASSUME NEW r \in Requests, Planned(r) PROVE TypeOK'
    BY <1>2 DEF Planned, TypeOK, Phases, routeVars, metricVars, outsideVars
  <1>3. ASSUME NEW r \in Requests, Routed(r) PROVE TypeOK'
    <2>1. PICK w \in Workflows, demands \in SUBSET Demands : Start(r, w, demands)
      BY <1>3 DEF Routed
    <2>2. [NoJob EXCEPT !.at = "running"] \in Job
      BY GatewayAssumption DEF NoJob, Job
    <2>3. /\ phase' \in [Requests -> Phases]
          /\ chosen' \in [Requests -> Workflows \cup {None}]
          /\ contract' \in [Requests -> SUBSET Demands]
          /\ ongoing' \in [Workflows -> Nat]
          /\ job' \in [Requests -> Job]
      BY <2>1, <2>2 DEF Start, TypeOK, Phases
    <2>4. QED
      BY <1>3, <2>1, <2>3 DEF Routed, Start, TypeOK, metricVars, outsideVars
  <1>4. ASSUME NEW r \in Requests, Answered(r) PROVE TypeOK'
    <2>1. PICK rep \in Reply, failed \in BOOLEAN :
             rep.status # "error" /\ Finish(r, failed) /\ Conclude(r, rep)
      BY <1>4 DEF Answered
    <2>2. chosen[r] \in Workflows
      BY <1>4 DEF Answered, Shape
    <2>3. /\ phase' \in [Requests -> Phases]
          /\ reply' \in [Requests -> Reply \cup {None}]
          /\ flushes' \in [Requests -> Nat]
          /\ logged' \in [Requests -> Seq(Statuses)]
      BY <2>1, ConcludeType
    <2>4. /\ ongoing' \in [Workflows -> Nat]
          /\ errors' \in [Workflows -> Seq(BOOLEAN)]
          /\ \A w \in Workflows : Len(errors'[w]) <= Window
          /\ finished' \in [Workflows -> Seq(Requests)]
      BY <2>1, <2>2, FinishType
    <2>5. UNCHANGED <<chosen, contract, job, leaked, rules, audit, restarts>>
      BY <1>4, <2>1 DEF Answered, Finish, outsideVars
    <2>6. QED
      BY <2>3, <2>4, <2>5 DEF TypeOK
  <1>5. ASSUME NEW r \in Requests, VerifyRaises(r) PROVE TypeOK'
    <2>1. Notice(500, "error") \in Reply
      BY NoticeType
    <2>2. /\ phase' \in [Requests -> Phases]
          /\ reply' \in [Requests -> Reply \cup {None}]
          /\ flushes' \in [Requests -> Nat]
          /\ logged' \in [Requests -> Seq(Statuses)]
      BY <1>5, <2>1, ConcludeType DEF VerifyRaises
    <2>3. leaked' \in [Workflows -> Nat]
      <3>1. leaked \in [Workflows -> Nat] /\ chosen[r] \in Workflows
        BY <1>5 DEF TypeOK, Shape, VerifyRaises
      <3>2. leaked' = [leaked EXCEPT ![chosen[r]] = @ + 1]
        BY <1>5 DEF VerifyRaises
      <3>3. QED
        BY <3>1, <3>2
    <2>4. QED
      BY <1>5, <2>2, <2>3 DEF VerifyRaises, TypeOK, routeVars, outsideVars
  <1>6. ASSUME NEW r \in Requests, Work(r) PROVE TypeOK'
    BY <1>6, WorkType DEF TypeOK, gatewayVars, metricVars
  <1>7. CASE EditRules
    BY <1>7, GatewayAssumption DEF EditRules, TypeOK, gatewayVars, routeVars, metricVars
  <1>8. CASE Restart
    <2>1. phase' \in [Requests -> Phases]
      BY <1>8 DEF Restart, TypeOK, Phases
    <2>2. errors' \in [Workflows -> Seq(BOOLEAN)] /\ \A w \in Workflows : Len(errors'[w]) <= Window
      BY <1>8, GatewayAssumption DEF Restart
    <2>3. finished' \in [Workflows -> Seq(Requests)]
      BY <1>8 DEF Restart
    <2>4. restarts' \in Nat /\ ongoing' \in [Workflows -> Nat] /\ leaked' \in [Workflows -> Nat]
      BY <1>8 DEF Restart, TypeOK
    <2>5. QED
      BY <1>8, <2>1, <2>2, <2>3, <2>4 DEF Restart, TypeOK
  <1>9. CASE UNCHANGED vars
    BY <1>9 DEF TypeOK, vars, gatewayVars, routeVars, metricVars, outsideVars
  <1>10. QED
    BY <1>1, <1>2, <1>3, <1>4, <1>5, <1>6, <1>7, <1>8, <1>9, StepKinds

--------------------------------------------------------------------------------
(* Shape *)

\* What a step of the orchestrator or its tools does to the jobs.
LEMMA WorkEffect ==
    ASSUME TypeOK, Shape, NEW r \in Requests, Work(r)
    PROVE  /\ chosen[r] \in Workflows
           /\ \A x \in Requests : x # r => job'[x] = job[x]
           /\ job[r].at = "answered" =>
                 job'[r].at = "answered" /\ job'[r].response = job[r].response
           /\ phase[r] = "invoking" /\ job'[r].at = "answered" =>
                 job'[r].response \in Response
  <1>1. job[r] \in Job /\ chosen[r] \in Workflows \cup {None}
    BY DEF TypeOK
  <1>2. job[r] # NoJob => chosen[r] \in Workflows
    BY <1>1 DEF Shape
  <1>3. CASE CallTool(r)
    <2>1. job' = [job EXCEPT ![r] = [job[r] EXCEPT !.calls = @ + 1]] /\ job[r].at = "running"
      BY <1>3 DEF CallTool
    <2>2. QED
      BY <1>1, <1>2, <2>1 DEF NoJob, TypeOK, Job
  <1>4. CASE RecordTool(r)
    <2>1. job[r].calls # 0
      <3> DEFINE S == {i \in 1..Len(audit) : audit[i].trace = r}
      <3>1. IsFiniteSet(1..Len(audit))
        <4>1. Len(audit) \in Nat
          BY LenProperties DEF TypeOK
        <4>2. QED
          BY <4>1, FS_Interval
      <3>2. Cardinality(S) \in Nat
        BY <3>1, FS_Subset, FS_CardinalityType
      <3>3. Cardinality(S) < job[r].calls
        BY <1>4 DEF RecordTool
      <3> HIDE DEF S
      <3>4. QED
        BY <3>2, <3>3
    <2>2. job' = job
      BY <1>4 DEF RecordTool, routeVars
    <2>3. QED
      BY <1>2, <2>1, <2>2 DEF NoJob, Shape
  <1>5. CASE JobAnswers(r)
    <2>1. PICK response \in (IF phase[r] = "invoking" THEN Response ELSE {None}) :
             job' = [job EXCEPT ![r] = [job[r] EXCEPT !.at = "answered", !.response = response]]
      BY <1>5 DEF JobAnswers
    <2>2. job[r].at = "running"
      BY <1>5 DEF JobAnswers
    <2>3. QED
      BY <1>1, <1>2, <2>1, <2>2 DEF NoJob, TypeOK, Job
  <1>6. CASE JobCrashes(r)
    <2>1. job' = [job EXCEPT ![r] = [job[r] EXCEPT !.at = "crashed"]] /\ job[r].at = "running"
      BY <1>6 DEF JobCrashes
    <2>2. QED
      BY <1>1, <1>2, <2>1 DEF NoJob, TypeOK, Job
  <1>7. QED
    BY <1>3, <1>4, <1>5, <1>6 DEF Work

LEMMA ShapeStep ==
    ASSUME TypeOK, Shape, [Next]_vars
    PROVE  Shape'
  <1>1. ASSUME NEW r \in Requests, TurnedAway(r) PROVE Shape'
    <2>1. PICK rep \in Reply : rep.status # "success" /\ (Abandon(r, rep) \/ Conclude(r, rep))
      BY <1>1 DEF TurnedAway
    <2>2. phase' = [phase EXCEPT ![r] = "closed"] /\ reply' = [reply EXCEPT ![r] = rep]
      BY <2>1 DEF Abandon, Conclude
    <2>3. UNCHANGED <<chosen, contract, job>>
      BY <1>1 DEF TurnedAway, routeVars
    <2>4. QED
      BY <2>1, <2>2, <2>3 DEF Shape, TypeOK
  <1>2. ASSUME NEW r \in Requests, Planned(r) PROVE Shape'
    BY <1>2 DEF Planned, Shape, TypeOK, Early, routeVars
  <1>3. ASSUME NEW r \in Requests, Routed(r) PROVE Shape'
    <2>1. PICK w \in Workflows, demands \in SUBSET Demands : Start(r, w, demands)
      BY <1>3 DEF Routed
    <2>2. /\ phase' = [phase EXCEPT ![r] = "invoking"]
          /\ chosen' = [chosen EXCEPT ![r] = w]
          /\ contract' = [contract EXCEPT ![r] = demands]
          /\ job' = [job EXCEPT ![r] = [NoJob EXCEPT !.at = "running"]]
          /\ reply' = reply
      BY <2>1 DEF Start
    <2>3. [NoJob EXCEPT !.at = "running"].at = "running"
      BY DEF NoJob
    <2>4. QED
      BY <2>2, <2>3, GatewayAssumption DEF Shape, TypeOK
  <1>4. ASSUME NEW r \in Requests, Answered(r) PROVE Shape'
    <2>1. PICK rep \in Reply : /\ rep.status = "success" => Earned(r)
                               /\ phase' = [phase EXCEPT ![r] = "closed"]
                               /\ reply' = [reply EXCEPT ![r] = rep]
      BY <1>4 DEF Answered, Conclude
    <2>2. UNCHANGED <<chosen, contract, job>>
      BY <1>4 DEF Answered, Finish
    <2>3. phase[r] = "invoking"
      BY <1>4 DEF Answered
    <2>4. QED
      BY <2>1, <2>2, <2>3 DEF Shape, TypeOK, Earned
  <1>5. ASSUME NEW r \in Requests, VerifyRaises(r) PROVE Shape'
    <2>1. Notice(500, "error") \in Reply /\ Notice(500, "error").status = "error"
      BY NoticeType
    <2>2. /\ phase' = [phase EXCEPT ![r] = "closed"]
          /\ reply' = [reply EXCEPT ![r] = Notice(500, "error")]
          /\ UNCHANGED <<chosen, contract, job>>
      BY <1>5 DEF VerifyRaises, Abandon, routeVars
    <2>3. QED
      BY <2>1, <2>2 DEF Shape, TypeOK
  <1>6. ASSUME NEW r \in Requests, Work(r) PROVE Shape'
    <2>1. UNCHANGED <<phase, reply, chosen, contract>>
      BY <1>6, WorkType DEF gatewayVars
    <2>2. QED
      BY <1>6, <2>1, WorkEffect, GatewayAssumption DEF Shape
  <1>7. CASE EditRules
    BY <1>7 DEF EditRules, Shape, gatewayVars, routeVars
  <1>8. CASE Restart
    BY <1>8 DEF Restart, Shape, TypeOK, Waiting
  <1>9. CASE UNCHANGED vars
    BY <1>9 DEF Shape, vars, gatewayVars, routeVars
  <1>10. QED
    BY <1>1, <1>2, <1>3, <1>4, <1>5, <1>6, <1>7, <1>8, <1>9, StepKinds

--------------------------------------------------------------------------------
(* The gauge *)

LEMMA InFlightFinite ==
    \A w : IsFiniteSet(InFlight(w)) /\ Cardinality(InFlight(w)) \in Nat
  BY GatewayAssumption, FS_Subset, FS_CardinalityType DEF InFlight

\* A request that begins to wait for the orchestrator joins one set.
LEMMA Enters ==
    ASSUME TypeOK, NEW r \in Requests, NEW w \in Workflows, phase[r] # "invoking",
           phase' = [phase EXCEPT ![r] = "invoking"], chosen' = [chosen EXCEPT ![r] = w]
    PROVE  /\ Cardinality(InFlight(w)') = Cardinality(InFlight(w)) + 1
           /\ \A v \in Workflows : v # w => InFlight(v)' = InFlight(v)
  <1>1. InFlight(w)' = InFlight(w) \cup {r} /\ r \notin InFlight(w)
    BY DEF InFlight, TypeOK
  <1>2. Cardinality(InFlight(w) \cup {r}) = Cardinality(InFlight(w)) + 1
    BY <1>1, InFlightFinite, FS_AddElement
  <1>3. \A v \in Workflows : v # w => InFlight(v)' = InFlight(v)
    BY DEF InFlight, TypeOK
  <1>4. QED
    BY <1>1, <1>2, <1>3

\* One that stops waiting leaves it.
LEMMA Leaves ==
    ASSUME TypeOK, NEW r \in Requests, NEW w \in Workflows, phase[r] = "invoking",
           chosen[r] = w, phase' = [phase EXCEPT ![r] = "closed"], chosen' = chosen
    PROVE  /\ Cardinality(InFlight(w)') = Cardinality(InFlight(w)) - 1
           /\ Cardinality(InFlight(w)) > 0
           /\ \A v \in Workflows : v # w => InFlight(v)' = InFlight(v)
  <1>1. InFlight(w)' = InFlight(w) \ {r} /\ r \in InFlight(w)
    BY DEF InFlight, TypeOK
  <1>2. Cardinality(InFlight(w) \ {r}) = Cardinality(InFlight(w)) - 1
    BY <1>1, InFlightFinite, FS_RemoveElement
  <1>3. Cardinality(InFlight(w)) # 0
    BY <1>1, InFlightFinite, FS_EmptySet
  <1>4. \A v \in Workflows : v # w => InFlight(v)' = InFlight(v)
    BY DEF InFlight, TypeOK
  <1>5. QED
    BY <1>1, <1>2, <1>3, <1>4, InFlightFinite

\* Nobody joins or leaves where a request that is not in flight moves on.
LEMMA Stays ==
    ASSUME TypeOK, NEW r \in Requests, phase[r] # "invoking",
           NEW p \in Phases \ {"invoking"}, phase' = [phase EXCEPT ![r] = p],
           chosen' = chosen
    PROVE  \A w \in Workflows : InFlight(w)' = InFlight(w)
  BY DEF InFlight, TypeOK

LEMMA GaugeStep ==
    ASSUME TypeOK, Shape, GaugeExact, [Next]_vars
    PROVE  GaugeExact'
  <1> USE DEF GaugeExact
  <1>1. ASSUME NEW r \in Requests, TurnedAway(r) PROVE GaugeExact'
    <2>1. phase' = [phase EXCEPT ![r] = "closed"] /\ phase[r] # "invoking"
      BY <1>1 DEF TurnedAway, Abandon, Conclude, Early
    <2>2. UNCHANGED <<chosen, ongoing, leaked>>
      BY <1>1 DEF TurnedAway, routeVars, metricVars
    <2>3. QED
      BY <2>1, <2>2, Stays DEF Phases
  <1>2. ASSUME NEW r \in Requests, Planned(r) PROVE GaugeExact'
    <2>1. PICK p \in {"planning", "repairing"} : phase' = [phase EXCEPT ![r] = p]
      BY <1>2 DEF Planned
    <2>2. UNCHANGED <<chosen, ongoing, leaked>> /\ phase[r] # "invoking"
      BY <1>2 DEF Planned, Early, routeVars, metricVars
    <2>3. QED
      BY <2>1, <2>2, Stays DEF Phases
  <1>3. ASSUME NEW r \in Requests, Routed(r) PROVE GaugeExact'
    <2>1. PICK w \in Workflows, demands \in SUBSET Demands : Start(r, w, demands)
      BY <1>3 DEF Routed
    <2>2. /\ phase' = [phase EXCEPT ![r] = "invoking"]
          /\ chosen' = [chosen EXCEPT ![r] = w]
          /\ phase[r] # "invoking"
      BY <1>3, <2>1 DEF Routed, Start, Early
    <2>3. ongoing' = [ongoing EXCEPT ![w] = @ + 1] /\ leaked' = leaked
      BY <1>3, <2>1 DEF Routed, Start, metricVars
    <2>4. ongoing \in [Workflows -> Nat] /\ leaked \in [Workflows -> Nat]
      BY DEF TypeOK
    <2>5. /\ Cardinality(InFlight(w)') = Cardinality(InFlight(w)) + 1
          /\ \A v \in Workflows : v # w => InFlight(v)' = InFlight(v)
      BY <2>2, Enters
    <2>6. QED
      BY <2>3, <2>4, <2>5, InFlightFinite
  <1>4. ASSUME NEW r \in Requests, Answered(r) PROVE GaugeExact'
    <2>0. PICK w \in Workflows : chosen[r] = w
      BY <1>4 DEF Answered, Shape
    <2>1. /\ phase[r] = "invoking"
          /\ phase' = [phase EXCEPT ![r] = "closed"]
          /\ ongoing' = [ongoing EXCEPT ![w] = IF @ > 0 THEN @ - 1 ELSE 0]
          /\ chosen' = chosen /\ leaked' = leaked
      BY <1>4, <2>0 DEF Answered, Finish, Conclude
    <2>2. ongoing \in [Workflows -> Nat] /\ leaked \in [Workflows -> Nat]
      BY DEF TypeOK
    <2>3. /\ Cardinality(InFlight(w)') = Cardinality(InFlight(w)) - 1
          /\ Cardinality(InFlight(w)) > 0
          /\ \A v \in Workflows : v # w => InFlight(v)' = InFlight(v)
      BY <2>0, <2>1, Leaves
    <2>4. ongoing[w] > 0
      BY <2>2, <2>3, InFlightFinite
    <2>5. QED
      BY <2>1, <2>2, <2>3, <2>4, InFlightFinite
  <1>5. ASSUME NEW r \in Requests, VerifyRaises(r) PROVE GaugeExact'
    <2>0. PICK w \in Workflows : chosen[r] = w
      BY <1>5 DEF VerifyRaises, Shape
    <2>1. /\ phase[r] = "invoking"
          /\ phase' = [phase EXCEPT ![r] = "closed"]
          /\ leaked' = [leaked EXCEPT ![w] = @ + 1]
          /\ chosen' = chosen /\ ongoing' = ongoing
      BY <1>5, <2>0 DEF VerifyRaises, Abandon, routeVars
    <2>2. ongoing \in [Workflows -> Nat] /\ leaked \in [Workflows -> Nat]
      BY DEF TypeOK
    <2>3. /\ Cardinality(InFlight(w)') = Cardinality(InFlight(w)) - 1
          /\ \A v \in Workflows : v # w => InFlight(v)' = InFlight(v)
      BY <2>0, <2>1, Leaves
    <2>4. QED
      BY <2>1, <2>2, <2>3, InFlightFinite
  <1>6. ASSUME NEW r \in Requests, Work(r) PROVE GaugeExact'
    BY <1>6, WorkType DEF InFlight, gatewayVars, metricVars
  <1>7. CASE EditRules
    BY <1>7 DEF EditRules, InFlight, gatewayVars, routeVars, metricVars
  <1>8. CASE Restart
    <2>1. \A w \in Workflows : InFlight(w)' = {}
      BY <1>8 DEF Restart, InFlight, TypeOK, Waiting
    <2>2. \A w \in Workflows : ongoing'[w] = 0 /\ leaked'[w] = 0
      BY <1>8 DEF Restart
    <2>3. Cardinality({}) = 0
      BY FS_EmptySet
    <2>4. QED
      BY <2>1, <2>2, <2>3
  <1>9. CASE UNCHANGED vars
    BY <1>9 DEF InFlight, vars, gatewayVars, routeVars, metricVars
  <1>10. QED
    BY <1>1, <1>2, <1>3, <1>4, <1>5, <1>6, <1>7, <1>8, <1>9, StepKinds

--------------------------------------------------------------------------------
(* Earned successes *)

\* Records are never taken from the log.
LEMMA RecordsStay ==
    ASSUME TypeOK, NEW r \in Requests, NEW x \in Requests, Work(x), Recorded(r)
    PROVE  Recorded(r)'
  <1>1. CASE audit' = audit
    BY <1>1 DEF Recorded
  <1>2. CASE \E ok \in BOOLEAN : audit' = Append(audit, [trace |-> x, ok |-> ok])
    <2>1. PICK ok \in BOOLEAN : audit' = Append(audit, [trace |-> x, ok |-> ok])
      BY <1>2
    <2>2. audit \in Seq([trace : Requests, ok : BOOLEAN])
      BY DEF TypeOK
    <2>3. [trace |-> x, ok |-> ok] \in [trace : Requests, ok : BOOLEAN]
      OBVIOUS
    <2>4. /\ Len(audit') = Len(audit) + 1
          /\ \A i \in 1..Len(audit) : audit'[i] = audit[i]
      <3> DEFINE S == [trace : Requests, ok : BOOLEAN]
                 rec == [trace |-> x, ok |-> ok]
      <3> HIDE DEF S, rec
      <3>1. audit \in Seq(S) /\ rec \in S /\ audit' = Append(audit, rec)
        BY <2>1, <2>2, <2>3 DEF S, rec
      <3>2. QED
        BY <3>1, AppendProperties
    <2>5. PICK i \in 1..Len(audit) : audit[i] = [trace |-> r, ok |-> TRUE]
      BY DEF Recorded
    <2>6. Len(audit) \in Nat
      BY <2>2, LenProperties, Zenon
    <2>7. i \in 1..Len(audit') /\ audit'[i] = [trace |-> r, ok |-> TRUE]
      BY <2>4, <2>5, <2>6
    <2>8. QED
      BY <2>7 DEF Recorded
  <1>3. QED
    BY <1>1, <1>2 DEF Work, CallTool, RecordTool, JobAnswers, JobCrashes, outsideVars

LEMMA EarnedStep ==
    ASSUME TypeOK, Shape, SuccessIsEarned, [Next]_vars
    PROVE  SuccessIsEarned'
  <1> USE DEF SuccessIsEarned
  <1>1. ASSUME NEW r \in Requests, TurnedAway(r) PROVE SuccessIsEarned'
    <2>1. PICK rep \in Reply : rep.status # "success" /\ (Abandon(r, rep) \/ Conclude(r, rep))
      BY <1>1 DEF TurnedAway
    <2>2. phase' = [phase EXCEPT ![r] = "closed"] /\ reply' = [reply EXCEPT ![r] = rep]
      BY <2>1 DEF Abandon, Conclude
    <2>3. UNCHANGED <<contract, job, audit>>
      BY <1>1 DEF TurnedAway, routeVars, outsideVars
    <2>4. QED
      BY <2>1, <2>2, <2>3 DEF Recorded, TypeOK
  <1>2. ASSUME NEW r \in Requests, Planned(r) PROVE SuccessIsEarned'
    BY <1>2 DEF Planned, Recorded, TypeOK, routeVars, outsideVars
  <1>3. ASSUME NEW r \in Requests, Routed(r) PROVE SuccessIsEarned'
    <2>1. PICK w \in Workflows, demands \in SUBSET Demands : Start(r, w, demands)
      BY <1>3 DEF Routed
    <2>2. /\ phase' = [phase EXCEPT ![r] = "invoking"]
          /\ contract' = [contract EXCEPT ![r] = demands]
          /\ job' = [job EXCEPT ![r] = [NoJob EXCEPT !.at = "running"]]
          /\ reply' = reply /\ audit' = audit
      BY <1>3, <2>1 DEF Routed, Start, outsideVars
    <2>3. QED
      BY <2>2 DEF Recorded, TypeOK
  <1>4. ASSUME NEW r \in Requests, Answered(r) PROVE SuccessIsEarned'
    <2>1. PICK rep \in Reply : /\ rep.status = "success" => Earned(r)
                               /\ phase' = [phase EXCEPT ![r] = "closed"]
                               /\ reply' = [reply EXCEPT ![r] = rep]
      BY <1>4 DEF Answered, Conclude
    <2>2. UNCHANGED <<contract, job, audit>>
      BY <1>4 DEF Answered, Finish, outsideVars
    <2>3. QED
      BY <2>1, <2>2 DEF Recorded, TypeOK, Earned
  <1>5. ASSUME NEW r \in Requests, VerifyRaises(r) PROVE SuccessIsEarned'
    <2>1. Notice(500, "error").status = "error"
      BY NoticeType
    <2>2. /\ phase' = [phase EXCEPT ![r] = "closed"]
          /\ reply' = [reply EXCEPT ![r] = Notice(500, "error")]
          /\ UNCHANGED <<contract, job, audit>>
      BY <1>5 DEF VerifyRaises, Abandon, routeVars, outsideVars
    <2>3. /\ \A x \in Requests : x # r => phase'[x] = phase[x] /\ reply'[x] = reply[x]
          /\ reply'[r].status = "error"
      BY <2>1, <2>2 DEF TypeOK
    <2>4. QED
      BY <2>2, <2>3 DEF Recorded
  <1>6. ASSUME NEW x \in Requests, Work(x) PROVE SuccessIsEarned'
    <2>1. UNCHANGED <<phase, reply, contract>>
      BY <1>6, WorkType DEF gatewayVars
    <2>2. SUFFICES ASSUME NEW r \in Requests, phase[r] = "closed", reply[r].status = "success"
                   PROVE  /\ job'[r].response.complete
                          /\ "tool" \in contract[r] => Recorded(r)'
      BY <2>1
    <2>3. job[r].at = "answered"
      BY <2>2 DEF Shape
    <2>4. job'[r].response = job[r].response
      BY <1>6, <2>3, WorkEffect
    <2>5. "tool" \in contract[r] => Recorded(r)'
      BY <1>6, <2>2, RecordsStay
    <2>6. QED
      BY <2>2, <2>4, <2>5
  <1>7. CASE EditRules
    BY <1>7 DEF EditRules, Recorded, gatewayVars, routeVars
  <1>8. CASE Restart
    BY <1>8 DEF Restart, Recorded, TypeOK, Waiting
  <1>9. CASE UNCHANGED vars
    BY <1>9 DEF Recorded, vars, gatewayVars, routeVars, outsideVars
  <1>10. QED
    BY <1>1, <1>2, <1>3, <1>4, <1>5, <1>6, <1>7, <1>8, <1>9, StepKinds

--------------------------------------------------------------------------------
(* One record per reply *)

\* A request that is not closed has neither trace nor log, and gets one of each as
\* it is closed by Conclude.
LEMMA ConcludeRecords ==
    ASSUME TypeOK, OneRecordPerReply, NEW r \in Requests, NEW rep \in Reply,
           phase[r] # "closed",
           \/ rep.http \in Unrecorded /\ Abandon(r, rep)
           \/ rep.http \notin Unrecorded /\ Conclude(r, rep)
    PROVE  OneRecordPerReply'
  <1>1. flushes[r] = 0 /\ logged[r] = <<>>
    BY DEF OneRecordPerReply
  <1>2. /\ phase'[r] = "closed" /\ reply'[r] = rep
        /\ \A x \in Requests : x # r =>
              /\ phase'[x] = phase[x] /\ reply'[x] = reply[x]
              /\ flushes'[x] = flushes[x] /\ logged'[x] = logged[x]
    BY DEF Conclude, Abandon, TypeOK
  <1>3. IF rep.http \in Unrecorded
        THEN flushes'[r] = 0 /\ logged'[r] = <<>>
        ELSE flushes'[r] = 1 /\ logged'[r] = <<rep.status>>
    <2>1. CASE rep.http \in Unrecorded
      BY <1>1, <2>1 DEF Abandon
    <2>2. CASE rep.http \notin Unrecorded
      <3>1. /\ flushes' = [flushes EXCEPT ![r] = @ + 1]
            /\ logged' = [logged EXCEPT ![r] = Append(@, rep.status)]
        BY <2>2 DEF Conclude
      <3>2. flushes'[r] = 1
        BY <1>1, <3>1 DEF TypeOK
      <3>3. logged'[r] = Append(<<>>, rep.status)
        BY <1>1, <3>1 DEF TypeOK
      <3>4. Append(<<>>, rep.status) = <<rep.status>>
        OBVIOUS
      <3>5. QED
        BY <2>2, <3>2, <3>3, <3>4
    <2>3. QED
      BY <2>1, <2>2
  <1>4. QED
    BY <1>2, <1>3 DEF OneRecordPerReply, Unrecorded

LEMMA RecordStep ==
    ASSUME TypeOK, Shape, OneRecordPerReply, [Next]_vars
    PROVE  OneRecordPerReply'
  <1>1. ASSUME NEW r \in Requests, TurnedAway(r) PROVE OneRecordPerReply'
    <2>1. phase[r] # "closed"
      BY <1>1 DEF TurnedAway, Early
    <2>2. QED
      BY <1>1, <2>1, ConcludeRecords DEF TurnedAway
  <1>2. ASSUME NEW r \in Requests, Planned(r) PROVE OneRecordPerReply'
    BY <1>2 DEF Planned, OneRecordPerReply, TypeOK, Early
  <1>3. ASSUME NEW r \in Requests, Routed(r) PROVE OneRecordPerReply'
    BY <1>3 DEF Routed, Start, OneRecordPerReply, TypeOK, Early
  <1>4. ASSUME NEW r \in Requests, Answered(r) PROVE OneRecordPerReply'
    <2>1. phase[r] # "closed"
      BY <1>4 DEF Answered
    <2>2. QED
      BY <1>4, <2>1, ConcludeRecords DEF Answered
  <1>5. ASSUME NEW r \in Requests, VerifyRaises(r) PROVE OneRecordPerReply'
    <2>1. Notice(500, "error") \in Reply /\ Notice(500, "error").http = 500
      BY NoticeType
    <2>2. phase[r] # "closed" /\ Abandon(r, Notice(500, "error"))
      BY <1>5 DEF VerifyRaises
    <2>3. QED
      BY <2>1, <2>2, ConcludeRecords DEF Unrecorded
  <1>6. ASSUME NEW r \in Requests, Work(r) PROVE OneRecordPerReply'
    BY <1>6, WorkType DEF OneRecordPerReply, gatewayVars
  <1>7. CASE EditRules
    BY <1>7 DEF EditRules, OneRecordPerReply, gatewayVars
  <1>8. CASE Restart
    BY <1>8 DEF Restart, OneRecordPerReply, TypeOK, Waiting
  <1>9. CASE UNCHANGED vars
    BY <1>9 DEF OneRecordPerReply, vars, gatewayVars
  <1>10. QED
    BY <1>1, <1>2, <1>3, <1>4, <1>5, <1>6, <1>7, <1>8, <1>9, StepKinds

--------------------------------------------------------------------------------
(* The error rate *)

\* Only closed requests have finished: their replies never change again.
FinishedAreClosed ==
    \A w \in Workflows : \A i \in 1..Len(finished[w]) : phase[finished[w][i]] = "closed"

\* How many flags are kept of n invocations that ended.
Kept(n) == IF n > Window THEN Window ELSE n

\* ErrorRateExact for one workflow.
ErrorsMatch(w) ==
    LET done == finished[w]
    IN  /\ Len(errors[w]) = Kept(Len(done))
        /\ \A i \in 1..Kept(Len(done)) :
              errors[w][i] <=> reply[done[Len(done) - Kept(Len(done)) + i]].status # "success"

LEMMA ErrorsByWorkflow == ErrorRateExact <=> \A w \in Workflows : ErrorsMatch(w)
  BY DEF ErrorRateExact, ErrorsMatch, Kept

LEMMA KeptBounds ==
    ASSUME NEW n \in Nat
    PROVE  /\ Kept(n) \in Nat /\ Kept(n) <= n
           /\ Kept(n + 1) \in Nat \ {0} /\ Kept(n + 1) <= n + 1
           /\ Kept(0) = 0
           /\ \A i \in 1..Kept(n) : n - Kept(n) + i \in 1..n
  BY GatewayAssumption DEF Kept

\* Where a flag of the new window comes from in the old one.
Older(n, i) == i + (n + 1) - Kept(n + 1) - (n - Kept(n))

\* The deque of Finish once failed is appended to flags.
Shifted(flags, failed) ==
    IF Len(Append(flags, failed)) > Window
    THEN Tail(Append(flags, failed)) ELSE Append(flags, failed)

\* The newest flag goes to the end, and the oldest one out of a full deque.
LEMMA FlagsShift ==
    ASSUME NEW S, NEW flags \in Seq(S), NEW failed \in S, NEW n \in Nat,
           Len(flags) = Kept(n), NEW kept, kept = Shifted(flags, failed)
    PROVE  /\ Len(kept) = Kept(n + 1)
           /\ kept[Kept(n + 1)] = failed
           /\ \A i \in 1..(Kept(n + 1) - 1) :
                 Older(n, i) \in 1..Kept(n) /\ kept[i] = flags[Older(n, i)]
  <1> DEFINE grown == Append(flags, failed)
  <1>0. Window \in Nat \ {0}
    BY GatewayAssumption
  <1>1. /\ Len(flags) \in Nat /\ Len(grown) = Len(flags) + 1 /\ grown \in Seq(S)
        /\ \A i \in 1..Len(flags) : grown[i] = flags[i]
        /\ grown[Len(flags) + 1] = failed
    BY AppendProperties, LenProperties
  <1>k. kept = IF Len(grown) > Window THEN Tail(grown) ELSE grown
    BY DEF Shifted
  <1> HIDE DEF grown
  <1>2. CASE n < Window
    <2>1. Kept(n) = n /\ Kept(n + 1) = n + 1
      BY <1>0, <1>2 DEF Kept
    <2>2. kept = grown
      BY <1>0, <1>1, <1>2, <1>k, <2>1
    <2>3. \A i \in 1..n : Older(n, i) = i
      BY <2>1 DEF Older
    <2>4. Len(flags) = n /\ Len(kept) = n + 1 /\ kept[n + 1] = failed
      BY <1>1, <2>1, <2>2
    <2>5. \A i \in 1..n : kept[i] = flags[i]
      BY <1>1, <2>2, <2>4
    <2>6. (n + 1) - 1 = n
      OBVIOUS
    <2>7. QED
      BY <2>1, <2>3, <2>4, <2>5, <2>6
  <1>3. CASE n >= Window
    <2>1. Kept(n) = Window /\ Kept(n + 1) = Window
      BY <1>0, <1>3 DEF Kept
    <2>g. Len(grown) > Window
      BY <1>0, <1>1, <2>1
    <2>2. kept = Tail(grown)
      BY <1>0, <1>1, <1>k, <2>g
    <2>3. grown # <<>>
      BY <1>1
    <2>4. Len(Tail(grown)) = Window /\ \A i \in 1..Window : Tail(grown)[i] = grown[i + 1]
      BY <1>0, <1>1, <2>1, <2>3, HeadTailProperties
    <2>5. QED
      BY <1>0, <1>1, <2>1, <2>2, <2>4 DEF Older
  <1>4. QED
    BY <1>0, <1>2, <1>3

\* An invocation of w ends with rep.
LEMMA FinishMatches ==
    ASSUME TypeOK, FinishedAreClosed, ErrorRateExact,
           NEW r \in Requests, NEW w \in Workflows, chosen[r] = w,
           phase[r] = "invoking", NEW rep \in Reply, NEW failed \in BOOLEAN,
           failed <=> rep.status # "success",
           Finish(r, failed), Conclude(r, rep)
    PROVE  FinishedAreClosed' /\ ErrorRateExact'
  <1> DEFINE n == Len(finished[w])
             kept == Shifted(errors[w], failed)
  <1>1. /\ phase'[r] = "closed" /\ reply'[r] = rep
        /\ \A x \in Requests : x # r => phase'[x] = phase[x] /\ reply'[x] = reply[x]
    BY DEF Conclude, TypeOK
  <1>2. finished[w] \in Seq(Requests) /\ errors[w] \in Seq(BOOLEAN) /\ n \in Nat
    BY LenProperties DEF TypeOK
  <1>3. /\ finished'[w] = Append(finished[w], r) /\ errors'[w] = kept
        /\ \A v \in Workflows : v # w => finished'[v] = finished[v] /\ errors'[v] = errors[v]
    BY DEF Finish, TypeOK, Shifted
  <1>4. /\ Len(finished'[w]) = n + 1 /\ finished'[w][n + 1] = r
        /\ \A i \in 1..n : finished'[w][i] = finished[w][i]
    BY <1>2, <1>3, AppendProperties
  <1>5. \A v \in Workflows : \A i \in 1..Len(finished[v]) :
           /\ finished[v][i] \in Requests /\ finished[v][i] # r
           /\ phase'[finished[v][i]] = "closed"
           /\ reply'[finished[v][i]] = reply[finished[v][i]]
    <2>1. SUFFICES ASSUME NEW v \in Workflows, NEW i \in 1..Len(finished[v])
                   PROVE  finished[v][i] \in Requests /\ finished[v][i] # r
                          /\ phase[finished[v][i]] = "closed"
      BY <1>1
    <2>2. finished[v] \in Seq(Requests)
      BY DEF TypeOK
    <2>3. finished[v][i] \in Requests
      BY <2>2, ElementOfSeq
    <2>4. QED
      BY <2>3 DEF FinishedAreClosed
  <1>6. FinishedAreClosed'
    <2>1. SUFFICES ASSUME NEW v \in Workflows, NEW i \in 1..Len(finished'[v])
                   PROVE  phase'[finished'[v][i]] = "closed"
      BY DEF FinishedAreClosed
    <2>2. CASE v # w
      BY <1>3, <1>5, <2>2
    <2>3. CASE v = w
      <3>1. i = n + 1 \/ i \in 1..n
        BY <1>2, <1>4, <2>3
      <3>2. QED
        BY <1>1, <1>4, <1>5, <2>3, <3>1
    <2>4. QED
      BY <2>2, <2>3
  <1>7. ErrorsMatch(w)'
    <2>1. /\ Len(errors[w]) = Kept(n)
          /\ \A i \in 1..Kept(n) :
                errors[w][i] <=> reply[finished[w][n - Kept(n) + i]].status # "success"
      BY ErrorsByWorkflow DEF ErrorsMatch
    <2>2. /\ Len(kept) = Kept(n + 1) /\ kept[Kept(n + 1)] = failed
          /\ \A i \in 1..(Kept(n + 1) - 1) :
                Older(n, i) \in 1..Kept(n) /\ kept[i] = errors[w][Older(n, i)]
      <3>1. n \in Nat /\ errors[w] \in Seq(BOOLEAN) /\ Len(errors[w]) = Kept(n)
        BY <1>2, <2>1
      <3>2. kept = Shifted(errors[w], failed)
        OBVIOUS
      <3> DEFINE S == BOOLEAN
      <3>3. errors[w] \in Seq(S) /\ failed \in S
        BY <3>1
      <3> HIDE DEF n, kept, S
      <3>4. QED
        BY <3>1, <3>2, <3>3, FlagsShift
    <2>n. n \in Nat /\ Len(finished'[w]) = n + 1 /\ errors'[w] = kept
      BY <1>2, <1>3, <1>4
    <2> HIDE DEF kept, n
    <2>3. /\ Kept(n) \in Nat /\ Kept(n) <= n
          /\ Kept(n + 1) \in Nat \ {0} /\ Kept(n + 1) <= n + 1
      BY <2>n, KeptBounds
    <2>s. ASSUME \A i \in 1..Kept(n + 1) :
                    kept[i] <=> reply'[finished'[w][n + 1 - Kept(n + 1) + i]].status # "success"
          PROVE  ErrorsMatch(w)'
      <3>1. Len(errors'[w]) = Kept(Len(finished'[w]))
        BY <2>n, <2>2
      <3>2. \A i \in 1..Kept(Len(finished'[w])) :
               errors'[w][i] <=>
                 reply'[finished'[w][Len(finished'[w]) - Kept(Len(finished'[w])) + i]].status # "success"
        <4>1. Kept(Len(finished'[w])) = Kept(n + 1)
          BY <2>n
        <4> TAKE i \in 1..Kept(Len(finished'[w]))
        <4>2. kept[i] <=> reply'[finished'[w][n + 1 - Kept(n + 1) + i]].status # "success"
          BY <2>s, <4>1
        <4>3. errors'[w][i] = kept[i]
          BY <2>n
        <4>4. n + 1 - Kept(n + 1) + i = Len(finished'[w]) - Kept(Len(finished'[w])) + i
          BY <2>n, <2>3, <4>1
        <4>5. QED
          BY <4>2, <4>3, <4>4, Zenon
      <3>3. QED
        BY <3>1, <3>2, Zenon DEF ErrorsMatch, Kept
    <2>4. SUFFICES \A i \in 1..Kept(n + 1) :
                      kept[i] <=> reply'[finished'[w][n + 1 - Kept(n + 1) + i]].status # "success"
      BY <2>s
    <2> TAKE i \in 1..Kept(n + 1)
    <2>5. CASE i = Kept(n + 1)
      <3>1. n + 1 - Kept(n + 1) + i = n + 1
        BY <2>n, <2>3, <2>5
      <3>2. QED
        BY <1>1, <1>4, <2>2, <2>5, <3>1
    <2>6. CASE i # Kept(n + 1)
      <3> DEFINE j == Older(n, i)
                 k == n + 1 - Kept(n + 1) + i
      <3>1. /\ i \in 1..(Kept(n + 1) - 1) /\ k \in 1..n /\ k = n - Kept(n) + j
        BY <2>n, <2>3, <2>6 DEF Older
      <3>2. j \in 1..Kept(n) /\ kept[i] = errors[w][j]
        BY <2>2, <3>1
      <3> HIDE DEF j, k
      <3>3. errors[w][j] <=> reply[finished[w][k]].status # "success"
        BY <2>1, <3>1, <3>2
      <3>4. finished'[w][k] = finished[w][k] /\ reply'[finished[w][k]] = reply[finished[w][k]]
        BY <1>4, <1>5, <3>1 DEF n
      <3>5. QED
        BY <3>2, <3>3, <3>4 DEF k
    <2>7. QED
      BY <2>5, <2>6
  <1>8. ASSUME NEW v \in Workflows, v # w PROVE ErrorsMatch(v)'
    <2> DEFINE m == Len(finished[v])
    <2>1. /\ Len(errors[v]) = Kept(m)
          /\ \A i \in 1..Kept(m) :
                errors[v][i] <=> reply[finished[v][m - Kept(m) + i]].status # "success"
      BY ErrorsByWorkflow DEF ErrorsMatch
    <2>2. finished'[v] = finished[v] /\ errors'[v] = errors[v]
      BY <1>3, <1>8
    <2>3. m \in Nat
      BY LenProperties DEF TypeOK
    <2>4. \A i \in 1..Kept(m) : m - Kept(m) + i \in 1..m
      BY <2>3, KeptBounds
    <2>5. \A i \in 1..Kept(m) :
             reply'[finished[v][m - Kept(m) + i]] = reply[finished[v][m - Kept(m) + i]]
      BY <1>5, <2>4
    <2>6. QED
      BY <2>1, <2>2, <2>5 DEF ErrorsMatch, Kept
  <1>9. ErrorRateExact'
    BY <1>7, <1>8 DEF ErrorRateExact, ErrorsMatch, Kept
  <1>10. QED
    BY <1>6, <1>9

\* What leaves the window, and the replies of closed requests, alone.
LEMMA WindowStays ==
    ASSUME TypeOK, FinishedAreClosed, ErrorRateExact, UNCHANGED <<errors, finished>>,
           \A x \in Requests : phase[x] = "closed" =>
               phase'[x] = "closed" /\ reply'[x] = reply[x]
    PROVE  FinishedAreClosed' /\ ErrorRateExact'
  <1>1. \A v \in Workflows : \A i \in 1..Len(finished[v]) :
           /\ phase'[finished[v][i]] = "closed"
           /\ reply'[finished[v][i]] = reply[finished[v][i]]
    <2>1. SUFFICES ASSUME NEW v \in Workflows, NEW i \in 1..Len(finished[v])
                   PROVE  finished[v][i] \in Requests
      BY DEF FinishedAreClosed
    <2>2. finished[v] \in Seq(Requests)
      BY DEF TypeOK
    <2>3. QED
      BY <2>2, ElementOfSeq
  <1>2. FinishedAreClosed'
    BY <1>1 DEF FinishedAreClosed
  <1>3. ASSUME NEW v \in Workflows PROVE ErrorsMatch(v)'
    <2> DEFINE m == Len(finished[v])
    <2>1. /\ Len(errors[v]) = Kept(m)
          /\ \A i \in 1..Kept(m) :
                errors[v][i] <=> reply[finished[v][m - Kept(m) + i]].status # "success"
      BY ErrorsByWorkflow DEF ErrorsMatch
    <2>2. m \in Nat
      BY LenProperties DEF TypeOK
    <2>3. \A i \in 1..Kept(m) : m - Kept(m) + i \in 1..m
      BY <2>2, KeptBounds
    <2>4. \A i \in 1..Kept(m) :
             reply'[finished[v][m - Kept(m) + i]] = reply[finished[v][m - Kept(m) + i]]
      BY <1>1, <2>3
    <2>5. QED
      BY <2>1, <2>4 DEF ErrorsMatch, Kept
  <1>4. QED
    BY <1>2, <1>3 DEF ErrorRateExact, ErrorsMatch, Kept

\* A request that is closed or lost stays as it is.
LEMMA ClosedStays ==
    ASSUME TypeOK, Shape, [Next]_vars, NEW x \in Requests, phase[x] \in {"closed", "lost"}
    PROVE  /\ phase'[x] = phase[x] /\ reply'[x] = reply[x]
           /\ flushes'[x] = flushes[x] /\ logged'[x] = logged[x]
  <1>1. ASSUME NEW r \in Requests, TurnedAway(r) \/ Answered(r) \/ VerifyRaises(r)
        PROVE  /\ phase'[x] = phase[x] /\ reply'[x] = reply[x]
               /\ flushes'[x] = flushes[x] /\ logged'[x] = logged[x]
    <2>1. r # x
      BY <1>1 DEF TurnedAway, Answered, VerifyRaises, Early
    <2>2. \E rep : Abandon(r, rep) \/ Conclude(r, rep)
      BY <1>1 DEF TurnedAway, Answered, VerifyRaises
    <2>3. QED
      BY <2>1, <2>2 DEF Abandon, Conclude, TypeOK
  <1>2. ASSUME NEW r \in Requests, Planned(r) \/ Routed(r)
        PROVE  /\ phase'[x] = phase[x] /\ reply'[x] = reply[x]
               /\ flushes'[x] = flushes[x] /\ logged'[x] = logged[x]
    <2>1. r # x /\ \E p : phase' = [phase EXCEPT ![r] = p]
      BY <1>2 DEF Planned, Routed, Start, Early
    <2>2. UNCHANGED <<reply, flushes, logged>>
      BY <1>2 DEF Planned, Routed, Start
    <2>3. QED
      BY <2>1, <2>2 DEF TypeOK
  <1>3. ASSUME NEW r \in Requests, Work(r)
        PROVE  UNCHANGED <<phase, reply, flushes, logged>>
    BY <1>3, WorkType DEF gatewayVars
  <1>4. CASE EditRules \/ UNCHANGED vars
    BY <1>4 DEF EditRules, vars, gatewayVars
  <1>5. CASE Restart
    BY <1>5 DEF Restart, Waiting
  <1>6. QED
    BY <1>1, <1>2, <1>3, <1>4, <1>5, StepKinds

LEMMA ErrorRateStep ==
    ASSUME TypeOK, Shape, FinishedAreClosed, ErrorRateExact, [Next]_vars
    PROVE  FinishedAreClosed' /\ ErrorRateExact'
  <1>0. ASSUME UNCHANGED <<errors, finished>>
        PROVE  FinishedAreClosed' /\ ErrorRateExact'
    <2>1. \A x \in Requests : phase[x] = "closed" =>
             phase'[x] = "closed" /\ reply'[x] = reply[x]
      BY ClosedStays
    <2>2. QED
      BY <1>0, <2>1, WindowStays
  <1>1. ASSUME NEW r \in Requests, TurnedAway(r) \/ Planned(r) \/ Routed(r)
        PROVE  FinishedAreClosed' /\ ErrorRateExact'
    BY <1>0, <1>1 DEF TurnedAway, Planned, Routed, metricVars
  <1>2. ASSUME NEW r \in Requests, Answered(r)
        PROVE  FinishedAreClosed' /\ ErrorRateExact'
    <2>1. phase[r] = "invoking" /\ chosen[r] \in Workflows
      BY <1>2 DEF Answered, Shape
    <2>2. PICK rep \in Reply, failed \in BOOLEAN :
             /\ failed <=> rep.status # "success"
             /\ Finish(r, failed) /\ Conclude(r, rep)
      BY <1>2 DEF Answered
    <2>3. QED
      BY <2>1, <2>2, FinishMatches
  <1>3. ASSUME NEW r \in Requests, VerifyRaises(r) \/ Work(r)
        PROVE  FinishedAreClosed' /\ ErrorRateExact'
    <2>1. UNCHANGED <<errors, finished>>
      BY <1>3, WorkType DEF VerifyRaises, metricVars
    <2>2. QED
      BY <1>0, <2>1
  <1>4. CASE EditRules \/ UNCHANGED vars
    BY <1>0, <1>4 DEF EditRules, vars, metricVars
  <1>5. CASE Restart
    <2>1. \A w \in Workflows : errors'[w] = <<>> /\ finished'[w] = <<>>
      BY <1>5 DEF Restart
    <2>2. Len(<<>>) = 0
      OBVIOUS
    <2>3. \A w \in Workflows : Len(finished'[w]) = 0 /\ Len(errors'[w]) = 0
      BY <2>1, <2>2
    <2>4. FinishedAreClosed'
      BY <2>3 DEF FinishedAreClosed
    <2>5. \A w \in Workflows : ErrorsMatch(w)'
      <3>1. Kept(0) = 0
        BY GatewayAssumption DEF Kept
      <3>2. QED
        BY <2>3, <3>1 DEF ErrorsMatch
    <2>6. ErrorRateExact'
      BY <2>5 DEF ErrorRateExact, ErrorsMatch, Kept
    <2>7. QED
      BY <2>4, <2>6
  <1>6. QED
    BY <1>1, <1>2, <1>3, <1>4, <1>5, StepKinds

--------------------------------------------------------------------------------
(* The theorems *)

IInv ==
    /\ TypeOK /\ Shape
    /\ GaugeExact /\ SuccessIsEarned
    /\ OneRecordPerReply
    /\ FinishedAreClosed /\ ErrorRateExact

LEMMA InitEstablishes == Init => IInv
  <1> SUFFICES ASSUME Init PROVE IInv
    OBVIOUS
  <1>1. TypeOK
    BY GatewayAssumption
    DEF Init, TypeOK, Phases, Demands, RuleStates, NoJob, Job
  <1>2. Shape /\ SuccessIsEarned
    BY GatewayAssumption DEF Init, Shape, SuccessIsEarned
  <1>3. GaugeExact
    <2>1. \A w \in Workflows : InFlight(w) = {}
      BY DEF Init, InFlight
    <2>2. Cardinality({}) = 0
      BY FS_EmptySet
    <2>3. \A w \in Workflows : ongoing[w] = 0 /\ leaked[w] = 0
      BY DEF Init
    <2>4. QED
      BY <2>1, <2>2, <2>3 DEF GaugeExact
  <1>4. OneRecordPerReply
    BY DEF Init, OneRecordPerReply
  <1>5. FinishedAreClosed /\ ErrorRateExact
    <2>1. Len(<<>>) = 0
      OBVIOUS
    <2>2. \A w \in Workflows : Len(finished[w]) = 0 /\ Len(errors[w]) = 0
      BY <2>1 DEF Init
    <2>3. \A w \in Workflows : ErrorsMatch(w)
      <3>1. Kept(0) = 0
        BY GatewayAssumption DEF Kept
      <3>2. QED
        BY <2>2, <3>1 DEF ErrorsMatch
    <2>4. QED
      BY <2>2, <2>3, ErrorsByWorkflow DEF FinishedAreClosed
  <1>6. QED
    BY <1>1, <1>2, <1>3, <1>4, <1>5 DEF IInv

LEMMA NextPreserves == IInv /\ [Next]_vars => IInv'
  BY TypeStep, ShapeStep, GaugeStep, EarnedStep, RecordStep, ErrorRateStep DEF IInv

\* The inductive invariant holds in every reachable state.
THEOREM Invariance == Spec => []IInv
  BY InitEstablishes, NextPreserves, PTL DEF Spec

\* The gateway's variables keep their types; in particular the gauges never go
\* below zero and the deques of error flags never grow beyond the window.
THEOREM TypeCorrect == Spec => []TypeOK
  <1>1. IInv => TypeOK
    BY DEF IInv
  <1>2. QED
    BY <1>1, Invariance, PTL

\* RuntimeMetricsStore counts exactly the invocations in flight, however calls
\* time out, fail and restart, except the ones whose verification raised.
THEOREM GaugeIsExact == Spec => []GaugeExact
  <1>1. IInv => GaugeExact
    BY DEF IInv
  <1>2. QED
    BY <1>1, Invariance, PTL

\* No client is told success unless the verification gate found the response
\* complete and the demanded tool call recorded for this very request.
THEOREM SuccessesAreEarned == Spec => []SuccessIsEarned
  <1>1. IInv => SuccessIsEarned
    BY DEF IInv
  <1>2. QED
    BY <1>1, Invariance, PTL

\* A client is told anything but a success exactly as often as the error rate of its
\* workflow counts, whatever order the invocations ended in.
THEOREM ErrorRateIsExact == Spec => []ErrorRateExact
  <1>1. IInv => ErrorRateExact
    BY DEF IInv
  <1>2. QED
    BY <1>1, Invariance, PTL

\* Every reply but 401 and 500 has one trace and one line in the log, with its status; a
\* rejected key, a request whose gate raised and one that a restart lost have none.
THEOREM RepliesAreRecorded == Spec => []OneRecordPerReply
  <1>1. IInv => OneRecordPerReply
    BY DEF IInv
  <1>2. QED
    BY <1>1, Invariance, PTL

\* Nothing about a closed or lost request ever changes, although its job may go on.
THEOREM DecisionsStand == Spec => DecisionStands
  <1>1. IInv /\ [Next]_vars =>
           [\A r \in Requests : phase[r] \in {"closed", "lost"} =>
               /\ phase'[r] = phase[r] /\ reply'[r] = reply[r]
               /\ flushes'[r] = flushes[r] /\ logged'[r] = logged[r]]_vars
    BY ClosedStays DEF IInv
  <1>2. QED
    BY <1>1, Invariance, PTL DEF Spec, DecisionStands

\* While the scan reaches back to the first record, it finds every success.
LEMMA ScanReachesBack ==
    ASSUME TypeOK, NEW r \in Requests, Len(audit) <= AuditLimit, Recorded(r)
    PROVE  AuditShowsSuccess(r)
  <1>1. PICK i \in 1..Len(audit) : audit[i] = [trace |-> r, ok |-> TRUE]
    BY DEF Recorded
  <1>2. audit[i].trace = r /\ audit[i].ok
    BY <1>1
  <1>3. Len(audit) \in Nat /\ AuditLimit \in Nat
    BY LenProperties, GatewayAssumption DEF TypeOK
  <1>4. i > Len(audit) - AuditLimit
    BY <1>3
  <1>5. QED
    BY <1>2, <1>4 DEF AuditShowsSuccess

LEMMA RejectionStep ==
    ASSUME TypeOK, Shape, [Next]_vars, NEW r \in Requests,
           phase[r] = "invoking", phase'[r] = "closed",
           reply'[r].status = "verification_failed",
           job[r].response.complete, Len(audit) <= AuditLimit
    PROVE  "tool" \in contract[r] /\ ~Recorded(r)
  <1>1. ASSUME NEW x \in Requests,
               \/ TurnedAway(x) \/ Planned(x) \/ Routed(x) \/ VerifyRaises(x) \/ Work(x)
        PROVE  FALSE
    <2>1. CASE TurnedAway(x) \/ Planned(x) \/ Routed(x)
      <3>1. x # r /\ \E p : phase' = [phase EXCEPT ![x] = p]
        BY <2>1 DEF TurnedAway, Planned, Routed, Start, Abandon, Conclude, Early
      <3>2. QED
        BY <3>1 DEF TypeOK
    <2>2. CASE VerifyRaises(x)
      <3>1. Notice(500, "error").status = "error"
        BY NoticeType
      <3>2. /\ phase' = [phase EXCEPT ![x] = "closed"]
            /\ reply' = [reply EXCEPT ![x] = Notice(500, "error")]
        BY <2>2 DEF VerifyRaises, Abandon
      <3>3. QED
        BY <3>1, <3>2 DEF TypeOK
    <2>3. CASE Work(x)
      <3>1. phase' = phase
        BY <2>3, WorkType DEF gatewayVars
      <3>2. QED
        BY <3>1
    <2>4. QED
      BY <1>1, <2>1, <2>2, <2>3
  <1>2. ASSUME EditRules \/ UNCHANGED vars \/ Restart PROVE FALSE
    BY <1>2 DEF EditRules, vars, gatewayVars, Restart, Waiting
  <1>3. PICK x \in Requests : Answered(x)
    BY <1>1, <1>2, StepKinds
  <1>4. PICK rep \in Reply : /\ rep.status = "verification_failed" => Overruled(x)
                             /\ phase' = [phase EXCEPT ![x] = "closed"]
                             /\ reply' = [reply EXCEPT ![x] = rep]
    BY <1>3 DEF Answered, Conclude
  <1>5. x = r /\ Overruled(r)
    BY <1>4 DEF TypeOK
  <1>6. QED
    BY <1>5, ScanReachesBack DEF Overruled

\* A complete success that the gate turns away demanded a tool's success, and none was on
\* record when the gate decided, provided that the audit log was no longer than what the
\* gate scans.  Beyond that a recorded success may have scrolled out of sight, and is then
\* rejected.
THEOREM RejectionsAreJustified == Spec => NoFalseRejection
  <1>1. IInv /\ [Next]_vars =>
           [\A r \in Requests :
               /\ phase[r] = "invoking" /\ phase'[r] = "closed"
               /\ reply'[r].status = "verification_failed"
               /\ job[r].response.complete
               /\ Len(audit) <= AuditLimit
               => "tool" \in contract[r] /\ ~Recorded(r)]_vars
    BY RejectionStep DEF IInv
  <1>2. QED
    BY <1>1, Invariance, PTL DEF Spec, NoFalseRejection

--------------------------------------------------------------------------------
(* The gateway implements the service *)

\* The mapped variables, request by request, so that a step of the gateway that
\* concerns one request is seen to change one request of the service.
Outcomes == [r \in Requests |-> Outcome(r)]
Agreed == {r \in Requests : chosen[r] # None}
Owing == {r \in Requests : "tool" \in contract[r]}
Evidence == {r \in Requests : Recorded(r)}

\* The outcome of one request only depends on its phase and its reply.
LEMMA OutcomeOf ==
    ASSUME TypeOK, NEW r \in Requests
    PROVE  /\ phase[r] = "new" => Outcome(r) = "new"
           /\ phase[r] \in Waiting => Outcome(r) = "pending"
           /\ phase[r] = "lost" => Outcome(r) = "lost"
           /\ phase[r] = "closed" =>
                 Outcome(r) = IF reply[r].status = "success" THEN "accepted" ELSE "declined"
           /\ phase[r] \in Early => Outcome(r) \in {"new", "pending"}
  BY DEF Outcome, Waiting, Early, TypeOK, Phases

\* A step that moves one request from one outcome to another.
LEMMA OutcomeMoves ==
    ASSUME TypeOK, TypeOK', NEW r \in Requests, NEW o, Outcome(r)' = o,
           \A x \in Requests : x # r => phase'[x] = phase[x] /\ reply'[x] = reply[x]
    PROVE  Outcomes' = [Outcomes EXCEPT ![r] = o]
  <1>1. \A x \in Requests : x # r => Outcome(x)' = Outcome(x)
    BY DEF Outcome, Waiting
  <1>2. QED
    BY <1>1 DEF Outcomes

LEMMA InitRefines == Init => Service!Init
  <1> SUFFICES ASSUME Init PROVE Service!Init
    OBVIOUS
  <1>1. Outcomes = [r \in Requests |-> "new"]
    <2>1. \A r \in Requests : phase[r] = "new"
      BY DEF Init
    <2>2. \A r \in Requests : Outcome(r) = "new"
      BY <2>1 DEF Outcome, Waiting
    <2>3. QED
      BY <2>2 DEF Outcomes
  <1>2. Agreed = {} /\ Owing = {} /\ Evidence = {}
    <2>1. Len(audit) = 0
      BY EmptySeq DEF Init
    <2>2. QED
      BY <2>1 DEF Init, Agreed, Owing, Evidence, Recorded
  <1>3. QED
    BY <1>1, <1>2 DEF Service!Init, Outcomes, Agreed, Owing, Evidence

LEMMA TurnedAwayRefines ==
    ASSUME TypeOK, TypeOK', NEW r \in Requests, TurnedAway(r)
    PROVE  Service!Decline(r)
  <1>1. PICK rep \in Reply : /\ rep.status # "success"
                             /\ phase' = [phase EXCEPT ![r] = "closed"]
                             /\ reply' = [reply EXCEPT ![r] = rep]
    BY DEF TurnedAway, Abandon, Conclude
  <1>2. Outcome(r) \in {"new", "pending"}
    BY OutcomeOf DEF TurnedAway
  <1>3. Outcome(r)' = "declined"
    BY <1>1, OutcomeOf DEF TypeOK, Outcome, Waiting
  <1>4. Outcomes' = [Outcomes EXCEPT ![r] = "declined"]
    BY <1>1, <1>3, OutcomeMoves DEF TypeOK
  <1>5. UNCHANGED <<Agreed, Owing, Evidence>>
    BY DEF TurnedAway, Agreed, Owing, Evidence, Recorded, routeVars, outsideVars
  <1>6. QED
    BY <1>2, <1>4, <1>5
    DEF Service!Decline, Service!Undecided, Outcomes, Agreed, Owing, Evidence

LEMMA PlannedRefines ==
    ASSUME TypeOK, TypeOK', NEW r \in Requests, Planned(r)
    PROVE  Service!Submit(r) \/ UNCHANGED Service!vars
  <1>1. PICK p \in {"planning", "repairing"} : phase' = [phase EXCEPT ![r] = p]
    BY DEF Planned
  <1>2. reply' = reply /\ UNCHANGED <<Agreed, Owing, Evidence>>
    BY DEF Planned, Agreed, Owing, Evidence, Recorded, routeVars, outsideVars
  <1>3. Outcome(r)' = "pending"
    BY <1>1 DEF TypeOK, Outcome, Waiting
  <1>4. Outcomes' = [Outcomes EXCEPT ![r] = "pending"]
    BY <1>1, <1>2, <1>3, OutcomeMoves DEF TypeOK
  <1>5. CASE phase[r] = "new"
    BY <1>2, <1>4, <1>5, OutcomeOf
    DEF Service!Submit, Outcomes, Agreed, Owing, Evidence
  <1>6. CASE phase[r] # "new"
    <2>1. Outcome(r) = "pending"
      BY <1>6, OutcomeOf DEF Planned, Early, Waiting
    <2>2. Outcomes' = Outcomes
      BY <1>4, <2>1 DEF Outcomes
    <2>3. QED
      BY <1>2, <2>2 DEF Service!vars, Outcomes, Agreed, Owing, Evidence
  <1>7. QED
    BY <1>5, <1>6

LEMMA RoutedRefines ==
    ASSUME TypeOK, TypeOK', Shape, NEW r \in Requests, Routed(r)
    PROVE  Service!Agree(r)
  <1>1. PICK w \in Workflows, demands \in SUBSET Demands : Start(r, w, demands)
    BY DEF Routed
  <1>2. /\ phase' = [phase EXCEPT ![r] = "invoking"]
        /\ chosen' = [chosen EXCEPT ![r] = w]
        /\ contract' = [contract EXCEPT ![r] = demands]
        /\ reply' = reply
    BY <1>1 DEF Start
  <1>3. Outcome(r)' = "pending"
    BY <1>2 DEF TypeOK, Outcome, Waiting
  <1>4. Outcomes' = [Outcomes EXCEPT ![r] = "pending"]
    BY <1>2, <1>3, OutcomeMoves DEF TypeOK
  <1>5. Outcome(r) \in {"new", "pending"} /\ chosen[r] = None /\ contract[r] = {}
    BY OutcomeOf DEF Routed, Shape, Early
  <1>6. r \notin Agreed /\ Agreed' = Agreed \cup {r}
    <2>1. w # None
      BY GatewayAssumption
    <2>2. \A x \in Requests : chosen'[x] = IF x = r THEN w ELSE chosen[x]
      BY <1>2 DEF TypeOK
    <2>3. \A x \in Requests : chosen'[x] # None <=> (chosen[x] # None \/ x = r)
      BY <2>1, <2>2
    <2>4. QED
      BY <1>5, <2>3 DEF Agreed
  <1>7. Owing' \in {Owing, Owing \cup {r}}
    BY <1>2, <1>5 DEF Owing, TypeOK
  <1>8. Evidence' = Evidence
    BY DEF Routed, Evidence, Recorded, outsideVars
  <1>9. QED
    BY <1>4, <1>5, <1>6, <1>7, <1>8
    DEF Service!Agree, Service!Undecided, Outcomes, Agreed, Owing, Evidence

LEMMA AnsweredRefines ==
    ASSUME TypeOK, TypeOK', Shape, NEW r \in Requests, Answered(r) \/ VerifyRaises(r)
    PROVE  Service!Accept(r) \/ Service!Decline(r)
  <1>1. PICK rep \in Reply : /\ rep.status = "success" => Earned(r)
                             /\ phase' = [phase EXCEPT ![r] = "closed"]
                             /\ reply' = [reply EXCEPT ![r] = rep]
    <2>1. Notice(500, "error") \in Reply /\ Notice(500, "error").status = "error"
      BY NoticeType
    <2>2. QED
      BY <2>1 DEF Answered, VerifyRaises, Conclude, Abandon
  <1>2. phase[r] = "invoking" /\ UNCHANGED <<Agreed, Owing, Evidence>>
    BY DEF Answered, VerifyRaises, Finish, Agreed, Owing, Evidence, Recorded,
           routeVars, outsideVars
  <1>3. Outcome(r) = "pending" /\ r \in Agreed
    BY <1>2, OutcomeOf, GatewayAssumption DEF Waiting, Agreed, Shape
  <1>4. phase'[r] = "closed" /\ reply'[r] = rep
    BY <1>1 DEF TypeOK
  <1>5. \A x \in Requests : x # r => phase'[x] = phase[x] /\ reply'[x] = reply[x]
    BY <1>1 DEF TypeOK
  <1>6. CASE rep.status = "success"
    <2>1. Outcome(r)' = "accepted"
      BY <1>4, <1>6 DEF Outcome, Waiting
    <2>2. Outcomes' = [Outcomes EXCEPT ![r] = "accepted"]
      BY <1>5, <2>1, OutcomeMoves
    <2>3. r \in Owing => r \in Evidence
      BY <1>1, <1>6 DEF Earned, Owing, Evidence
    <2>4. QED
      BY <1>2, <1>3, <2>2, <2>3
      DEF Service!Accept, Outcomes, Agreed, Owing, Evidence
  <1>7. CASE rep.status # "success"
    <2>1. Outcome(r)' = "declined"
      BY <1>4, <1>7 DEF Outcome, Waiting
    <2>2. Outcomes' = [Outcomes EXCEPT ![r] = "declined"]
      BY <1>5, <2>1, OutcomeMoves
    <2>3. QED
      BY <1>2, <1>3, <2>2
      DEF Service!Decline, Service!Undecided, Outcomes, Agreed, Owing, Evidence
  <1>8. QED
    BY <1>6, <1>7

\* What a step outside the gateway does to the records.
LEMMA RecordEffect ==
    ASSUME TypeOK, NEW r \in Requests, Work(r)
    PROVE  Evidence' \in {Evidence, Evidence \cup {r}}
  <1>1. CASE audit' = audit
    BY <1>1 DEF Evidence, Recorded
  <1>2. CASE \E ok \in BOOLEAN : audit' = Append(audit, [trace |-> r, ok |-> ok])
    <2>1. PICK ok \in BOOLEAN : audit' = Append(audit, [trace |-> r, ok |-> ok])
      BY <1>2
    <2> DEFINE S == [trace : Requests, ok : BOOLEAN]
               rec == [trace |-> r, ok |-> ok]
    <2>2. rec.trace = r /\ rec \in S /\ audit \in Seq(S)
      BY DEF TypeOK
    <2> HIDE DEF S, rec
    <2>3. /\ Len(audit') = Len(audit) + 1 /\ Len(audit) \in Nat
          /\ \A i \in 1..Len(audit) : audit'[i] = audit[i]
          /\ audit'[Len(audit) + 1] = rec
      BY <2>1, <2>2, AppendProperties, LenProperties DEF rec
    <2>4. \A x \in Requests : Recorded(x) => Recorded(x)'
      BY <2>3 DEF Recorded
    <2>5. \A x \in Requests : x # r => (Recorded(x)' => Recorded(x))
      <3>1. SUFFICES ASSUME NEW x \in Requests, x # r,
                            NEW i \in 1..Len(audit'), audit'[i] = [trace |-> x, ok |-> TRUE]
                     PROVE  Recorded(x)
        BY DEF Recorded
      <3>2. i # Len(audit) + 1
        <4>1. SUFFICES ASSUME i = Len(audit) + 1 PROVE FALSE
          OBVIOUS
        <4>2. rec = [trace |-> x, ok |-> TRUE]
          BY <2>3, <3>1, <4>1
        <4>3. rec.trace = x
          BY <4>2
        <4>4. QED
          BY <2>2, <3>1, <4>3
      <3>3. i \in 1..Len(audit)
        BY <2>3, <3>2
      <3>4. audit[i] = [trace |-> x, ok |-> TRUE]
        BY <2>3, <3>1, <3>3
      <3>5. QED
        BY <3>3, <3>4 DEF Recorded
    <2>6. QED
      BY <2>4, <2>5 DEF Evidence
  <1>3. QED
    BY <1>1, <1>2 DEF Work, CallTool, RecordTool, JobAnswers, JobCrashes, outsideVars

LEMMA WorkRefines ==
    ASSUME TypeOK, Shape, NEW r \in Requests, Work(r)
    PROVE  Service!Work(r) \/ UNCHANGED Service!vars
  <1>1. UNCHANGED <<phase, reply, chosen, contract>>
    BY WorkType DEF gatewayVars
  <1>2. UNCHANGED <<Outcomes, Agreed, Owing>>
    BY <1>1 DEF Outcomes, Outcome, Agreed, Owing
  <1>3. r \in Agreed
    BY WorkEffect, GatewayAssumption DEF Agreed
  <1>4. CASE Evidence' = Evidence
    BY <1>2, <1>4 DEF Service!vars, Outcomes, Agreed, Owing, Evidence
  <1>5. CASE Evidence' = Evidence \cup {r}
    BY <1>2, <1>3, <1>5 DEF Service!Work, Outcomes, Agreed, Owing, Evidence
  <1>6. QED
    BY <1>4, <1>5, RecordEffect

LEMMA RestartRefines ==
    ASSUME TypeOK, Restart
    PROVE  Service!Restart
  <1>1. \A r \in Requests : Outcome(r)' = IF Outcome(r) = "pending" THEN "lost" ELSE Outcome(r)
    BY DEF Restart, Outcome, Waiting, TypeOK, Phases
  <1>2. Outcomes' = [r \in Requests |-> IF Outcomes[r] = "pending" THEN "lost" ELSE Outcomes[r]]
    BY <1>1 DEF Outcomes
  <1>3. UNCHANGED <<Agreed, Owing, Evidence>>
    BY DEF Restart, Agreed, Owing, Evidence, Recorded
  <1>4. QED
    BY <1>2, <1>3 DEF Service!Restart, Outcomes, Agreed, Owing, Evidence

LEMMA NextRefines ==
    ASSUME TypeOK, Shape, TypeOK', [Next]_vars
    PROVE  [Service!Next]_(Service!vars)
  <1>1. ASSUME NEW r \in Requests,
               \/ TurnedAway(r) \/ Planned(r) \/ Routed(r)
               \/ Answered(r) \/ VerifyRaises(r) \/ Work(r)
        PROVE  [Service!Next]_(Service!vars)
    BY <1>1, TurnedAwayRefines, PlannedRefines, RoutedRefines, AnsweredRefines, WorkRefines
    DEF Service!Next
  <1>2. CASE EditRules
    BY <1>2 DEF EditRules, Service!vars, Outcome, Recorded, gatewayVars, routeVars
  <1>3. CASE Restart
    BY <1>3, RestartRefines DEF Service!Next
  <1>4. CASE UNCHANGED vars
    BY <1>4 DEF Service!vars, Outcome, Recorded, vars, gatewayVars, routeVars, outsideVars
  <1>5. QED
    BY <1>1, <1>2, <1>3, <1>4, StepKinds

\* The event loop, its orchestrator and its tools implement the service: no
\* request is decided twice, and none accepted without what its contract owes.
THEOREM GatewayImplementsService == Spec => ImplementsService
  <1>1. IInv /\ IInv' /\ [Next]_vars => [Service!Next]_(Service!vars)
    BY NextRefines DEF IInv
  <1>2. QED
    BY <1>1, InitRefines, Invariance, PTL DEF Spec, ImplementsService, Service!Spec

================================================================================
