\* Two calls in flight, every threshold above one, the window as long as an
\* outage and its recovery; the call timeout is below the recovery timeout.
CONSTANTS
    Calls = {c1, c2}
    FailureThreshold = 2
    SuccessThreshold = 2
    CallTimeout = 2
    RecoveryTimeout = 4
    WindowSize = 4
    FailureRate = 75
    MetricsEnabled = TRUE
    NoFailure = NoFailure
SPECIFICATION FairSpec
INVARIANTS
    CountsAreStreaks
    StaysOpenLongEnough
PROPERTIES
    ClosesOnSuccesses
    OpenIsTriedAgain
    HealthyBackendIsServed
