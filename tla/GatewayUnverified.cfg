\* One request: a counterexample to UnverifiedWithheld.
CONSTANTS
    Requests = {r1}
    Workflows = {w1}
    None = None
    RuleFiles = {"valid", "lax"}
    MaxRepairs = 1
    Window = 1
    AuditLimit = 2
    MaxCalls = 1
    MaxRestarts = 0
SPECIFICATION Spec
INVARIANT UnverifiedWithheld
