------------------------------ MODULE Gateway ------------------------------
(***************************************************************************)
(* How the API gateway finds the instances of a service (api_gateway.py    *)
(* with the service registry's discover_services, service_registry.py, in  *)
(* the gateway's process).  There are two caches on top of each other: the *)
(* registry's, of entries, fresh for ten seconds after it was loaded, and  *)
(* the gateway's, of lists, emptied every thirty seconds.  Both are filled *)
(* by whatever request comes first, and requests wait for Redis between    *)
(* looking and filling.                                                    *)
(*                                                                         *)
(* There is no clock: the caches may age at any time.  A request whose     *)
(* route, key or rate is refused reads none of this and is left out, and   *)
(* so is what becomes of a request that has its instance.                  *)
(***************************************************************************)
EXTENDS FiniteSets, SequencesExt

CONSTANTS
    Services,
    Instances,
    ServiceOf,      \* the service of each instance
    Changing,       \* the instances whose entries change; the others are healthy
    Requests,       \* requests at a time
    Summary,        \* what a request for the list of routes asks for: all services
    NoList,         \* a service that is not in the gateway's cache
    Idle

VARIABLES
    entry,      \* status in the Redis entry of each instance
    redis,      \* whether Redis answers
    known,      \* _services_cache of the gateway's registry
    fresh,      \* whether it was loaded less than _cache_ttl ago
    listing,    \* _service_cache of the gateway
    lookup      \* what each request waits for

finding == <<entry, redis, known, fresh, listing, lookup>>
world == <<entry, redis>>
caches == <<known, fresh, listing>>

Statuses == {"healthy", "unhealthy", "absent"}

Lists == UNION {SetToSeqs(S) : S \in SUBSET Instances}

\* A request has the keys of all entries, or also their values
Lookups ==
    [service: Services \cup {Summary}, stage: {"keys"}, keys: SUBSET Instances]
    \cup [service: Services \cup {Summary}, stage: {"values"}, values: [Instances -> Statuses]]

GatewayTypeOK ==
    /\ entry \in [Instances -> Statuses]
    /\ redis \in BOOLEAN
    /\ known \in [Instances -> Statuses]
    /\ fresh \in BOOLEAN
    /\ listing \in [Services -> Lists \cup {NoList}]
    /\ lookup \in [Requests -> Lookups \cup {Idle}]

GatewayInit ==
    /\ entry \in [Instances -> Statuses]
    /\ \A i \in Instances \ Changing : entry[i] = "healthy"
    /\ redis = TRUE
    /\ known = [i \in Instances |-> "absent"] /\ fresh = FALSE
    /\ listing = [s \in Services |-> NoList]
    /\ lookup = [r \in Requests |-> Idle]

-----------------------------------------------------------------------------
\* Registration, expiry, deregistration and the health manager
Change(i) ==
    /\ i \in Changing
    /\ \E status \in Statuses \ {entry[i]} : entry' = [entry EXCEPT ![i] = status]
    /\ UNCHANGED <<redis, caches, lookup>>

RedisFails == redis /\ redis' = FALSE /\ UNCHANGED <<entry, caches, lookup>>

RedisRecovers == ~redis /\ redis' = TRUE /\ UNCHANGED <<entry, caches, lookup>>

\* More than ten seconds have passed since the last load
Age == fresh /\ fresh' = FALSE /\ UNCHANGED <<world, known, listing, lookup>>

\* _refresh_service_cache
Clear ==
    /\ listing' = [s \in Services |-> NoList]
    /\ UNCHANGED <<world, known, fresh, lookup>>

-----------------------------------------------------------------------------
\* Mutant: the filter is forgotten
MutHealthy(s, of) == {i \in Instances : ServiceOf[i] = s /\ of[i] # "absent"}

\* discover_services and the gateway's filter: the healthy instances of the
\* service, in the order of Redis or of the cache
Healthy(s, of) == {i \in Instances : ServiceOf[i] = s /\ of[i] = "healthy"}

List(s, of) ==
    IF s = Summary
    THEN UNCHANGED listing
    ELSE \E list \in SetToSeqs(Healthy(s, of)) : listing' = [listing EXCEPT ![s] = list]

\* A list in the gateway's cache is used as it is; the list of routes is made
\* from the registry's at every request
Missing(s) == s # Summary => listing[s] = NoList

Looks(r, s) == lookup[r] = Idle /\ Missing(s)

\* A request for a service the gateway has no list of, while the registry's
\* cache is fresh
FindInCache(r, s) ==
    /\ Looks(r, s) /\ fresh
    /\ List(s, known)
    /\ UNCHANGED <<world, known, fresh, lookup>>

Waiting(s, values) == [service |-> s, stage |-> "values", values |-> values]

\* It is not: Redis answers with the keys of all services
AskForKeys(r, s) ==
    /\ Looks(r, s) /\ ~fresh /\ redis
    /\ LET keys == {i \in Instances : entry[i] # "absent"}
       IN  lookup' = [lookup EXCEPT ![r] =
              IF keys = {}
              THEN Waiting(s, [i \in Instances |-> "absent"])
              ELSE [service |-> s, stage |-> "keys", keys |-> keys]]
    /\ UNCHANGED <<world, caches>>

At(r, stage) == lookup[r] # Idle /\ lookup[r].stage = stage

\* An entry that has gone since has no value
AskForValues(r) ==
    /\ At(r, "keys") /\ redis
    /\ lookup' = [lookup EXCEPT ![r] =
          Waiting(lookup[r].service,
                  [i \in Instances |-> IF i \in lookup[r].keys THEN entry[i] ELSE "absent"])]
    /\ UNCHANGED <<world, caches>>

\* Mutant: an entry that is in the cache stays as it is
MutRefreshed(values) ==
    [i \in Instances |-> IF known[i] = "absent" THEN values[i] ELSE known[i]]

\* An entry that is not in Redis any more stays in the cache
Refreshed(values) ==
    [i \in Instances |-> IF values[i] = "absent" THEN known[i] ELSE values[i]]

\* The values arrive: both caches are filled, whatever they hold by now
Load(r) ==
    /\ At(r, "values")
    /\ known' = Refreshed(lookup[r].values) /\ fresh' = TRUE
    /\ List(lookup[r].service, lookup[r].values)
    /\ lookup' = [lookup EXCEPT ![r] = Idle]
    /\ UNCHANGED world

\* discover_services answers an error with the empty list, which the gateway
\* keeps like any other
KeepNothing(s) == List(s, [i \in Instances |-> "absent"])

FindNothing(r, s) ==
    /\ Looks(r, s) /\ ~fresh /\ ~redis
    /\ KeepNothing(s)
    /\ UNCHANGED <<world, known, fresh, lookup>>

LoseAnswer(r) ==
    /\ lookup[r] # Idle /\ ~redis
    /\ KeepNothing(lookup[r].service)
    /\ lookup' = [lookup EXCEPT ![r] = Idle]
    /\ UNCHANGED <<world, known, fresh>>

\* The process ends and starts again: its requests and both caches are gone
Restart ==
    /\ known' = [i \in Instances |-> "absent"] /\ fresh' = FALSE
    /\ listing' = [s \in Services |-> NoList]
    /\ lookup' = [r \in Requests |-> Idle]
    /\ UNCHANGED world

GatewayNext ==
    \/ \E i \in Instances : Change(i)
    \/ RedisFails
    \/ RedisRecovers
    \/ Age
    \/ Clear
    \/ Restart
    \/ \E r \in Requests :
         \/ \E s \in Services \cup {Summary} : FindInCache(r, s) \/ AskForKeys(r, s) \/ FindNothing(r, s)
         \/ AskForValues(r)
         \/ Load(r)
         \/ LoseAnswer(r)

GatewaySpec == GatewayInit /\ [][GatewayNext]_finding

\* Time passes, and what a request has sent to Redis is answered or fails
Fairness ==
    /\ WF_finding(Age)
    /\ WF_finding(Clear)
    /\ \A r \in Requests : WF_finding(AskForValues(r) \/ Load(r) \/ LoseAnswer(r))

GatewayFairSpec == GatewaySpec /\ Fairness

-----------------------------------------------------------------------------
\* The gateway has a list of the instance's service, with or without it
Has(i) == /\ listing[ServiceOf[i]] # NoList /\ i \in ToSet(listing[ServiceOf[i]])

Lacks(i) == /\ listing[ServiceOf[i]] # NoList /\ i \notin ToSet(listing[ServiceOf[i]])

(* An instance that stays healthy is in the end in every list of its       *)
(* service, once Redis stays up: neither cache keeps an older state of it, *)
(* however the requests that fill them overlap.                            *)
HealthyIsListed ==
    \A i \in Instances : <>[](entry[i] = "healthy" /\ redis) => <>[]~Lacks(i)

(* An instance that is marked unhealthy for good is in the end in no list, *)
(* Redis up or not.                                                        *)
UnhealthyIsAvoided ==
    \A i \in Instances : <>[](entry[i] = "unhealthy") => <>[]~Has(i)
=============================================================================
