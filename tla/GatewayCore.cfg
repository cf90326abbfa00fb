\* Two requests, two workflows, one tool call each, rule files that stay valid or turn lax.
CONSTANTS
    Requests = {r1, r2}
    Workflows = {w1, w2}
    None = None
    RuleFiles = {"valid", "lax"}
    MaxRepairs = 0
    Window = 1
    AuditLimit = 2
    MaxCalls = 1
    MaxRestarts = 0
SPECIFICATION Spec
SYMMETRY RequestSymmetry
INVARIANTS TypeOK GaugeExact ErrorRateExact OneRecordPerReply SuccessIsEarned
PROPERTIES NoFalseRejection DecisionStands
