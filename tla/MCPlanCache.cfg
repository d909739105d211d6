CONSTANTS
    large = large
    small = small
    foreign = foreign
    t1 = t1
    t2 = t2
    Hashes = {large, small, foreign}
    Tenants = {t1, t2}
    TenantOf <- MCTenantOf
    SizeOf <- MCSizeOf
    Optimized = {large, small}
    Accepted = {large, foreign}
    Requests = {r1}
    MaxEntries = 2
    MaxSize = 1
    Ttl = 1
    MaxClock = 2
SPECIFICATION CacheSpec
INVARIANT CacheTypeOK
INVARIANT IndexesAgree
INVARIANT LimitsKept
INVARIANT RemovedStaysRemoved
CHECK_DEADLOCK FALSE
