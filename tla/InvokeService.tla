----------------------------- MODULE InvokeService -----------------------------
(***************************************************************************)
(* What POST /v1/invoke promises for a set of requests, seen from outside: *)
(* a request is decided at most once and the decision stands; a workflow   *)
(* works for a request only under a contract; a request is accepted only   *)
(* if its contract demands no tool or the tool's success is on record by   *)
(* then.  A restart may lose undecided requests, never a decision.         *)
(***************************************************************************)
CONSTANT Requests

VARIABLES
    outcome,   \* per request: new, pending, accepted, declined or lost
    agreed,    \* the requests that have a contract
    owing,     \* of these, the ones whose contract demands a tool's success
    evidence   \* the requests with a successful tool call on record

vars == <<outcome, agreed, owing, evidence>>

Outcomes == {"new", "pending", "accepted", "declined", "lost"}

TypeOK ==
    /\ outcome \in [Requests -> Outcomes]
    /\ agreed \subseteq Requests
    /\ owing \subseteq agreed
    /\ evidence \subseteq agreed

Init ==
    /\ outcome = [r \in Requests |-> "new"]
    /\ agreed = {}
    /\ owing = {}
    /\ evidence = {}

Undecided(r) == outcome[r] \in {"new", "pending"}

\* The service takes the request on, without a contract yet.
Submit(r) ==
    /\ outcome[r] = "new"
    /\ outcome' = [outcome EXCEPT ![r] = "pending"]
    /\ UNCHANGED <<agreed, owing, evidence>>

\* The contract is made and the work begins.
Agree(r) ==
    /\ Undecided(r)
    /\ r \notin agreed
    /\ outcome' = [outcome EXCEPT ![r] = "pending"]
    /\ agreed' = agreed \cup {r}
    /\ owing' \in {owing, owing \cup {r}}
    /\ UNCHANGED evidence

\* A tool succeeds for the request, which may have been decided meanwhile.
Work(r) ==
    /\ r \in agreed
    /\ evidence' = evidence \cup {r}
    /\ UNCHANGED <<outcome, agreed, owing>>

Accept(r) ==
    /\ outcome[r] = "pending"
    /\ r \in agreed
    /\ r \in owing => r \in evidence
    /\ outcome' = [outcome EXCEPT ![r] = "accepted"]
    /\ UNCHANGED <<agreed, owing, evidence>>

Decline(r) ==
    /\ Undecided(r)
    /\ outcome' = [outcome EXCEPT ![r] = "declined"]
    /\ UNCHANGED <<agreed, owing, evidence>>

Restart ==
    /\ outcome' = [r \in Requests |-> IF outcome[r] = "pending" THEN "lost" ELSE outcome[r]]
    /\ UNCHANGED <<agreed, owing, evidence>>

Next ==
    \/ \E r \in Requests : Submit(r) \/ Agree(r) \/ Work(r) \/ Accept(r) \/ Decline(r)
    \/ Restart

Spec == Init /\ [][Next]_vars

================================================================================
