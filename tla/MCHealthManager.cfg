CONSTANTS
    Instances = {i1}
    Callers = {manager, gateway}
    Discoverer = manager
    NotLoading = NotLoading
    HealthyThreshold = 2
    UnhealthyThreshold = 2
SPECIFICATION FairSpec
PROPERTIES
    GoneStaysGone
    UpIsNoticed
    HealthyIsMonitored
