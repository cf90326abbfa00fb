\* Jobs of the coding workflow under template contracts.
SPECIFICATION Spec
CONSTANTS
    Subquestions = 1
    Part <- OnePart
    i1 = i1
    i2 = i2
    i3 = i3
    Items = {i1, i2, i3}
    Citable = {i1}
    Garbled = {i3}
    KeyOf <- Keys
    Requests <- CodingRequests
    Plans <- NoPlans
    Patches <- NoPatches
    None = None
INVARIANT RepairInstructed
CHECK_DEADLOCK FALSE
