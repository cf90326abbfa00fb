-------------------------------- MODULE AgentJob --------------------------------
(***************************************************************************)
(* What POST /invoke of the agent orchestrator promises the gateway for    *)
(* one job, whatever workflow runs it: it is answered once or crashes, and *)
(* a success stands on successes of the tools that the workflow is for,    *)
(* recorded before.  Records may be added later than the end: the tool     *)
(* service does not know when a job has crashed.                           *)
(***************************************************************************)
CONSTANT AllTools       \* the tools of the tool service

VARIABLES outcome,      \* running, or how the job ended
          proven,       \* the tools whose success is on record
          needed        \* the ones a success of this job must have used

vars == <<outcome, proven, needed>>

Answers == {"success", "refused", "failed"}

Init ==
    /\ outcome = "running"
    /\ proven = {}
    /\ needed \subseteq AllTools

Record(t) ==
    /\ proven' = proven \cup {t}
    /\ UNCHANGED <<outcome, needed>>

Answer(status) ==
    /\ outcome = "running"
    /\ status = "success" => needed \subseteq proven
    /\ outcome' = status
    /\ UNCHANGED <<proven, needed>>

Crash ==
    /\ outcome = "running"
    /\ outcome' = "crashed"
    /\ UNCHANGED <<proven, needed>>

Next ==
    \/ \E t \in AllTools : Record(t)
    \/ \E status \in Answers : Answer(status)
    \/ Crash

Spec == Init /\ [][Next]_vars

================================================================================
