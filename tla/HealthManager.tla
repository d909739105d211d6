---------------------------- MODULE HealthManager ----------------------------
(***************************************************************************)
(* Health of registered services: the health manager of the integration    *)
(* service (health_manager.py) on top of the service registry              *)
(* (service_registry.py), and the discovery client inside each instance    *)
(* (discovery_client.py).                                                  *)
(*                                                                         *)
(* All of them change an entry in Redis by reading it and writing it back: *)
(* the manager and the client to set its status, the client's heartbeat    *)
(* to renew it.  Each read and each write is a step.                       *)
(*                                                                         *)
(* There is no clock: loops take their steps in any order, and the lease   *)
(* of an entry may end while its instance runs (Lapse).                    *)
(***************************************************************************)
EXTENDS Naturals

CONSTANTS
    Instances,
    Callers,              \* tasks of the integration service that load the cache
    Discoverer,           \* the one among them that is the manager's discovery loop
    NotLoading,           \* a caller that waits for nothing
    HealthyThreshold,     \* HealthCheckConfig.healthy_threshold
    UnhealthyThreshold    \* HealthCheckConfig.unhealthy_threshold

ASSUME ThresholdsAssumption ==
    HealthyThreshold \in Nat \ {0} /\ UnhealthyThreshold \in Nat \ {0}

ASSUME DiscovererAssumption == Discoverer \in Callers

VARIABLES
    registry,     \* status in the Redis entry of each instance
    cache,        \* _services_cache of the integration service's registry
    fresh,        \* whether the cache was loaded less than _cache_ttl ago
    loading,      \* what each caller has read from Redis
    checkers,     \* health_checkers, with the position of their loops
    alive,        \* whether the instance runs, with its discovery client
    well,         \* whether its health callbacks succeed
    reachable,    \* whether a running instance answers health checks
    reports,      \* status the client is about to write
    beats         \* status the heartbeat is about to write back

vars == <<registry, cache, fresh, loading, checkers,
          alive, well, reachable, reports, beats>>
node == <<cache, fresh, loading, checkers>>
client == <<alive, reports, beats>>
world == <<well, reachable>>

-----------------------------------------------------------------------------
\* Values

Verdicts == {"healthy", "unhealthy"}
Statuses == Verdicts \cup {"absent"}

Idle == "idle"
Ended == "ended"         \* the heartbeat loop found no entry and is over
NoChecker == [pc |-> "none"]

Checker == [pc: {"checking", "reading", "writing"},
            status: Verdicts \cup {"unknown"},
            successes: 0..HealthyThreshold,
            failures: 0..UnhealthyThreshold]

\* A checker before its first result
NewChecker == [pc |-> "checking", status |-> "unknown", successes |-> 0, failures |-> 0]

Monitored(i) == checkers[i] # NoChecker
CheckerAt(i, pc) == Monitored(i) /\ checkers[i].pc = pc

\* Verdict of the last check: one of the two counts was reset by it
Verdict(c) == IF c.failures > 0 THEN "unhealthy" ELSE "healthy"

-----------------------------------------------------------------------------
\* The discovery client of an instance

\* The process starts; it believes to be healthy
Register(i) ==
    /\ ~alive[i]
    /\ alive' = [alive EXCEPT ![i] = TRUE]
    /\ registry' = [registry EXCEPT ![i] = "healthy"]
    /\ UNCHANGED <<reports, beats, node, world>>

Stops(i) ==
    /\ alive[i]
    /\ alive' = [alive EXCEPT ![i] = FALSE]
    /\ reports' = [reports EXCEPT ![i] = Idle]
    /\ beats' = [beats EXCEPT ![i] = Idle]

\* stop: a heartbeat that is being written may follow the deletion
Deregister(i) ==
    /\ Stops(i)
    /\ \/ registry' = [registry EXCEPT ![i] = "absent"]
       \/ /\ beats[i] \in Verdicts
          /\ registry' = [registry EXCEPT ![i] = beats[i]]
    /\ UNCHANGED <<node, world>>

Die(i) == Stops(i) /\ UNCHANGED <<registry, node, world>>

Ends(i) ==
    /\ registry[i] # "absent"
    /\ registry' = [registry EXCEPT ![i] = "absent"]
    /\ UNCHANGED <<node, client, world>>

\* The lease of an entry nobody renews ends
Expire(i) == ~alive[i] /\ Ends(i)

\* So does that of a running instance that cannot reach Redis in time
Lapse(i) == alive[i] /\ Ends(i)

\* DELETE /v1/services, at the integration service
Remove(i) ==
    /\ registry' = [registry EXCEPT ![i] = "absent"]
    /\ cache' = [cache EXCEPT ![i] = "absent"]
    /\ UNCHANGED <<fresh, loading, checkers, client, world>>

HeartbeatReads(i) ==
    /\ alive[i] /\ beats[i] = Idle
    /\ beats' = [beats EXCEPT ![i] = IF registry[i] = "absent" THEN Ended ELSE registry[i]]
    /\ UNCHANGED <<registry, node, alive, reports, world>>

HeartbeatWrites(i) ==
    /\ beats[i] \in Verdicts
    /\ registry' = [registry EXCEPT ![i] = beats[i]]
    /\ beats' = [beats EXCEPT ![i] = Idle]
    /\ UNCHANGED <<node, alive, reports, world>>

HeartbeatFails(i) ==
    /\ beats[i] \in Verdicts
    /\ beats' = [beats EXCEPT ![i] = Idle]
    /\ UNCHANGED <<registry, node, alive, reports, world>>

\* Mutant: the client reports failing callbacks only
MutReportReads(i) ==
    /\ alive[i] /\ reports[i] = Idle /\ registry[i] # "absent"
    /\ ~well[i]
    /\ reports' = [reports EXCEPT ![i] = "unhealthy"]
    /\ UNCHANGED <<registry, node, alive, beats, world>>

\* The client's health loop has run the callbacks and reads the entry
ReportReads(i) ==
    /\ alive[i] /\ reports[i] = Idle /\ registry[i] # "absent"
    /\ reports' = [reports EXCEPT ![i] = IF well[i] THEN "healthy" ELSE "unhealthy"]
    /\ UNCHANGED <<registry, node, alive, beats, world>>

ReportWrites(i) ==
    /\ reports[i] # Idle
    /\ registry' = [registry EXCEPT ![i] = reports[i]]
    /\ reports' = [reports EXCEPT ![i] = Idle]
    /\ UNCHANGED <<node, alive, beats, world>>

ReportFails(i) ==
    /\ reports[i] # Idle
    /\ reports' = [reports EXCEPT ![i] = Idle]
    /\ UNCHANGED <<registry, node, alive, beats, world>>

-----------------------------------------------------------------------------
\* Discovery: discover_services, for the health manager and for other callers

\* Mutant: what is cached is kept
MutMerged(found) == [i \in Instances |-> IF cache[i] # "absent" THEN cache[i] ELSE found[i]]

\* Loading overwrites what it finds in Redis and removes nothing
Merged(found) == [i \in Instances |-> IF found[i] # "absent" THEN found[i] ELSE cache[i]]

LoadReads(caller) ==
    /\ loading[caller] = NotLoading /\ ~fresh
    /\ loading' = [loading EXCEPT ![caller] = registry]
    /\ UNCHANGED <<registry, cache, fresh, checkers, client, world>>

Loads(caller) ==
    /\ loading[caller] # NotLoading
    /\ cache' = Merged(loading[caller])
    /\ fresh' = TRUE
    /\ loading' = [loading EXCEPT ![caller] = NotLoading]

(* The manager checks the services discover_services returns, those with   *)
(* status HEALTHY.  A checker that is removed is cancelled; a write it has *)
(* sent may take effect all the same.                                      *)
Monitor(found) ==
    /\ checkers' = [i \in Instances |->
            IF found[i] # "healthy" THEN NoChecker
            ELSE IF Monitored(i) THEN checkers[i] ELSE NewChecker]
    /\ \E sent \in SUBSET {i \in Instances : CheckerAt(i, "writing") /\ found[i] # "healthy"} :
        registry' = [i \in Instances |->
            IF i \in sent THEN Verdict(checkers[i]) ELSE registry[i]]

DiscoverLoads ==
    /\ Loads(Discoverer)
    /\ Monitor(loading[Discoverer])
    /\ UNCHANGED <<client, world>>

DiscoverCached ==
    /\ loading[Discoverer] = NotLoading /\ fresh
    /\ Monitor(cache)
    /\ UNCHANGED <<cache, fresh, loading, client, world>>

\* A Redis error: discover_services returns the empty list
DiscoverFails ==
    /\ loading[Discoverer] # NotLoading
    /\ Monitor([i \in Instances |-> "absent"])
    /\ loading' = [loading EXCEPT ![Discoverer] = NotLoading]
    /\ UNCHANGED <<cache, fresh, client, world>>

LookupLoads(caller) ==
    /\ caller # Discoverer
    /\ Loads(caller)
    /\ UNCHANGED <<registry, checkers, client, world>>

CacheAges ==
    /\ fresh
    /\ fresh' = FALSE
    /\ UNCHANGED <<registry, cache, loading, checkers, client, world>>

-----------------------------------------------------------------------------
\* The health check loop of an instance

\* _update_state: counts are compared with the thresholds, so they are capped there
UpdateState(c, success) ==
    IF success
    THEN LET n == IF c.successes < HealthyThreshold THEN c.successes + 1 ELSE c.successes IN
        [c EXCEPT !.successes = n, !.failures = 0,
                  !.status = IF n >= HealthyThreshold THEN "healthy" ELSE c.status]
    ELSE LET n == IF c.failures < UnhealthyThreshold THEN c.failures + 1 ELSE c.failures IN
        [c EXCEPT !.failures = n, !.successes = 0,
                  !.status = IF n >= UnhealthyThreshold THEN "unhealthy" ELSE c.status]

(* check returns; the loop compares the status it has now with the verdict. *)
(* A check of a reachable instance may fail too: by a timeout, or always,   *)
(* when configure made the checker, which nobody gives its HTTP client.     *)
Check(i) ==
    /\ CheckerAt(i, "checking")
    /\ \E success \in {FALSE, alive[i] /\ reachable[i]} :
        LET c == UpdateState(checkers[i], success) IN
        checkers' = [checkers EXCEPT ![i] =
            [c EXCEPT !.pc = IF c.status # Verdict(c) THEN "reading" ELSE "checking"]]
    /\ UNCHANGED <<registry, cache, fresh, loading, client, world>>

CheckerMoves(i, pc) ==
    checkers' = [checkers EXCEPT ![i] = [checkers[i] EXCEPT !.pc = pc]]

\* Mutant: an entry that is gone is written again
MutUpdateReads(i) ==
    /\ CheckerAt(i, "reading")
    /\ CheckerMoves(i, "writing")
    /\ UNCHANGED <<registry, cache, fresh, loading, client, world>>

\* update_service_health: nothing to update when the entry is gone
UpdateReads(i) ==
    /\ CheckerAt(i, "reading")
    /\ CheckerMoves(i, IF registry[i] = "absent" THEN "checking" ELSE "writing")
    /\ UNCHANGED <<registry, cache, fresh, loading, client, world>>

UpdateWrites(i) ==
    /\ CheckerAt(i, "writing")
    /\ registry' = [registry EXCEPT ![i] = Verdict(checkers[i])]
    /\ cache' = [cache EXCEPT ![i] = Verdict(checkers[i])]
    /\ CheckerMoves(i, "checking")
    /\ UNCHANGED <<fresh, loading, client, world>>

\* A Redis error: update_service_health returns False, which nobody looks at
UpdateFails(i) ==
    /\ CheckerAt(i, "reading") \/ CheckerAt(i, "writing")
    /\ CheckerMoves(i, "checking")
    /\ UNCHANGED <<registry, cache, fresh, loading, client, world>>

\* configure_service_health_check: a new checker and loop in place of the old
Configure(i) ==
    /\ Monitored(i)
    /\ checkers' = [checkers EXCEPT ![i] = NewChecker]
    /\ \/ UNCHANGED registry
       \/ /\ CheckerAt(i, "writing")
          /\ registry' = [registry EXCEPT ![i] = Verdict(checkers[i])]
    /\ UNCHANGED <<cache, fresh, loading, client, world>>

-----------------------------------------------------------------------------
\* The world changes

CallbacksChange(i) ==
    /\ well' = [well EXCEPT ![i] = ~well[i]]
    /\ UNCHANGED <<registry, node, client, reachable>>

ReachabilityChanges(i) ==
    /\ reachable' = [reachable EXCEPT ![i] = ~reachable[i]]
    /\ UNCHANGED <<registry, node, client, well>>

-----------------------------------------------------------------------------
Init ==
    /\ registry = [i \in Instances |-> "absent"]
    /\ cache = [i \in Instances |-> "absent"]
    /\ fresh = FALSE
    /\ loading = [caller \in Callers |-> NotLoading]
    /\ checkers = [i \in Instances |-> NoChecker]
    /\ alive = [i \in Instances |-> FALSE]
    /\ well \in [Instances -> BOOLEAN]
    /\ reachable \in [Instances -> BOOLEAN]
    /\ reports = [i \in Instances |-> Idle]
    /\ beats = [i \in Instances |-> Idle]

Client(i) ==
    \/ Register(i)
    \/ Deregister(i)
    \/ Die(i)
    \/ Expire(i)
    \/ Lapse(i)
    \/ HeartbeatReads(i)
    \/ HeartbeatWrites(i)
    \/ HeartbeatFails(i)
    \/ ReportReads(i)
    \/ ReportWrites(i)
    \/ ReportFails(i)

Discovery ==
    \/ LoadReads(Discoverer)
    \/ DiscoverLoads
    \/ DiscoverCached
    \/ DiscoverFails

Lookup(caller) == LoadReads(caller) \/ LookupLoads(caller)

Manager(i) ==
    \/ Check(i)
    \/ UpdateReads(i)
    \/ UpdateWrites(i)
    \/ UpdateFails(i)
    \/ Configure(i)

World(i) == CallbacksChange(i) \/ ReachabilityChanges(i)

Next ==
    \/ Discovery
    \/ CacheAges
    \/ \E caller \in Callers : Lookup(caller)
    \/ \E i \in Instances : Client(i) \/ Remove(i) \/ Manager(i) \/ World(i)

Spec == Init /\ [][Next]_vars

(* The loops of the three classes run, leases and the cache run out, and   *)
(* Redis answers again and again.                                          *)
FairSpec ==
    /\ Spec
    /\ WF_vars(Discovery) /\ SF_vars(DiscoverLoads \/ DiscoverCached)
    /\ WF_vars(CacheAges)
    /\ \A i \in Instances :
        /\ WF_vars(HeartbeatReads(i)) /\ WF_vars(HeartbeatWrites(i))
        /\ WF_vars(ReportReads(i)) /\ SF_vars(ReportWrites(i))
        /\ WF_vars(Expire(i))
        /\ WF_vars(Check(i)) /\ WF_vars(UpdateReads(i)) /\ SF_vars(UpdateWrites(i))

-----------------------------------------------------------------------------
\* Properties

TypeOK ==
    /\ registry \in [Instances -> Statuses]
    /\ cache \in [Instances -> Statuses]
    /\ fresh \in BOOLEAN
    /\ loading \in [Callers -> {NotLoading} \cup [Instances -> Statuses]]
    /\ checkers \in [Instances -> {NoChecker} \cup Checker]
    /\ alive \in [Instances -> BOOLEAN]
    /\ well \in [Instances -> BOOLEAN]
    /\ reachable \in [Instances -> BOOLEAN]
    /\ reports \in [Instances -> Verdicts \cup {Idle}]
    /\ beats \in [Instances -> Verdicts \cup {Idle, Ended}]

\* The entry has gone, and nobody is about to write it
Gone(i) ==
    /\ registry[i] = "absent"
    /\ reports[i] \notin Verdicts /\ beats[i] \notin Verdicts
    /\ ~CheckerAt(i, "writing")

(* An entry that has gone does not come back before the process of its     *)
(* instance starts anew, although the manager may go on checking it from   *)
(* its cache and a running instance goes on reporting its health.          *)
GoneStaysGone ==
    [][\A i \in Instances : Gone(i) => Gone(i)' \/ (~alive[i] /\ alive'[i])]_vars

(* The manager writes the result of a check only while it has not settled  *)
(* on that result: what it writes is always ahead of the thresholds.       *)
WritesBeforeThreshold ==
    \A i \in Instances :
        CheckerAt(i, "reading") \/ CheckerAt(i, "writing") =>
            /\ checkers[i].failures < UnhealthyThreshold
            /\ checkers[i].successes < HealthyThreshold

(* An instance that is up and registered for good is not out of rotation   *)
(* for good: not by a lost update, nor by what the manager wrote last.     *)
UpIsNoticed ==
    \A i \in Instances :
        <>[](alive[i] /\ well[i] /\ registry[i] # "absent") => []<>(registry[i] = "healthy")

(* An entry that stays healthy gets its instance checked again and again,  *)
(* through a cache that several callers load at the same time.             *)
HealthyIsMonitored ==
    \A i \in Instances :
        <>[](registry[i] = "healthy") => []<>Monitored(i)
=============================================================================
