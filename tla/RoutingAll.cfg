\* The configured profiles: keys with and without permissions, any plan, a plan and a route
\* rule that hint at once, an outage, and any load.
SPECIFICATION Spec
CONSTANTS
    Requests <- AllRequests
    PlannerEnabled = TRUE
    PlanSteps <- SomeSteps
    MemoryBoosts = {50000, 200000}
    MaxRules = 1
    Snapshots <- Loads
    None = None
INVARIANTS
    TypeOK
    RoutedCanUseItsTools
    RetypedOnlyToLarge
    DeepGoesLarge
    DeepStillAnswered
PROPERTIES
    ImplementsRouter
CHECK_DEADLOCK FALSE
