CONSTANTS
    Plans <- MCPlans
    Keys = {key}
    Values <- MCValues
    Structure = Structure
    key = key
    other = other
    NoLimit = NoLimit
SPECIFICATION Spec
CHECK_DEADLOCK FALSE
INVARIANTS
    EachStepOnce
    AcceptedKeepsDependencies
    
    OrderKept
    GroupsAreIndependent
