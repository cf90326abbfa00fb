\* A validated plan for a document, under full permissions.
SPECIFICATION Spec
CONSTANTS
    Requests <- DocumentRequests
    PlannerEnabled = TRUE
    PlanSteps <- SomeSteps
    MemoryBoosts = {100000}
    MaxRules = 0
    Snapshots <- Idle
    None = None
INVARIANT PlannedDocumentRouted
CHECK_DEADLOCK FALSE
