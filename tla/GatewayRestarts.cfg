\* Two requests, all rule files, the planner and a restart, with fairness and no tool
\* calls.
CONSTANTS
    Requests = {r1, r2}
    Workflows = {w1}
    None = None
    RuleFiles = {"valid", "invalid", "garbled", "lax"}
    MaxRepairs = 1
    Window = 1
    AuditLimit = 2
    MaxCalls = 0
    MaxRestarts = 1
SPECIFICATION FairSpec
INVARIANTS GaugeExact
PROPERTIES ImplementsService EventuallyAnswered
