\* All workflows, any evidence of three items, two subquestions, several contracts.
SPECIFICATION FairSpec
CONSTANTS
    Subquestions = 2
    Part <- TwoParts
    i1 = i1
    i2 = i2
    i3 = i3
    Items = {i1, i2, i3}
    Citable = {i1}
    Garbled = {i3}
    KeyOf <- Keys
    Requests <- AllRequests
    Plans <- SomePlans
    Patches <- SomePatches
    None = None
INVARIANTS
    TypeOK
    SuccessIsAccepted
    OnlyTheseSlipThrough
    DocumentBorrows
    SuccessIsChecked
    BlockedReachesNoBackend
    NothingLeftBehind
    JoinsOnlyWhenDenied
PROPERTIES
    EveryJobEnds
    ImplementsJob
CHECK_DEADLOCK FALSE
