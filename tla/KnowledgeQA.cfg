\* Both graphs, any evidence of three items (one citable, a copy of it without a score, one
\* that cannot be read), four subquestions.
SPECIFICATION Spec
CONSTANTS
    Subquestions = 4
    Part <- FourParts
    i1 = i1
    i2 = i2
    i3 = i3
    Items = {i1, i2, i3}
    Citable = {i1}
    Garbled = {i3}
    KeyOf <- Keys
    Requests <- Questions
    None = None
INVARIANTS
    TypeOK
    SuccessIsGrounded
    StepsBounded
    DeniedIsRefused
PROPERTIES
    ImplementsJob
CHECK_DEADLOCK FALSE
