\* Every fault, two members, a wanted event and one the subscription filters out.
CONSTANTS
    e1 = e1
    e2 = e2
    Events = {e1, e2}
    Wanted = {e1}
    Members = {m1, m2}
    MaxDeliver = 3
    DeadLetterFails = TRUE
    MaxCrashes = 2
SPECIFICATION FairSpec
INVARIANTS
    LossNeedsAFault
    RepeatNeedsExpiry
PROPERTIES
    EventuallyAccounted
CHECK_DEADLOCK FALSE
