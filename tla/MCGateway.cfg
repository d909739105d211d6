CONSTANTS
    a1 = a1
    a2 = a2
    b1 = b1
    orders = orders
    plans = plans
    Services = {orders, plans}
    Instances = {a1, a2, b1}
    Changing = {a1}
    ServiceOf <- MCServiceOf
    Requests = {r1, r2}
    Summary = Summary
    NoList = NoList
    Idle = Idle
    Weight <- MCWeight
    ListsOf <- MCListsOf
    MaxTurns = 6
    Nobody = Nobody
    Burst = 2
    Cost = 2
    Clock <- MCClock
    MaxAsked = 5
SPECIFICATION MCSpec
INVARIANTS
    TurnsAreFair
    WeightsAreShares
    RateIsExact
PROPERTIES
    HealthyIsListed
    UnhealthyIsAvoided
