----------------------------- MODULE PlanCache -----------------------------
(***************************************************************************)
(* The plan compiler's cache and the requests that use it                  *)
(* (services/plan-compiler).                                               *)
(*                                                                         *)
(* cache_service.py keeps compiled plans by their hash, with a list for    *)
(* the order of their last use and indexes by tenant and by tag.  Nothing  *)
(* in it suspends, so an operation is one step of the event loop.  But     *)
(* FastAPI resolves get_plan_optimizer and get_plan_compiler in worker     *)
(* threads, and get_cache_service makes the cache on its first call        *)
(* without a lock: several can be made, the last one becomes the global    *)
(* one, and the optimizer keeps for ever the one that it was given.        *)
(***************************************************************************)
EXTENDS Naturals, SequencesExt

CONSTANTS
    Hashes,       \* compiled plans, by plan_hash
    Tenants,
    TenantOf,    \* the tenant of a plan; it is part of what is hashed
    SizeOf,      \* bytes of a plan
    Optimized,   \* plans compiled at a level other than none
    Accepted,       \* plans the validator accepts
    Requests,    \* compile requests being served
    MaxEntries,  \* config.max_entries
    MaxSize,     \* config.max_size_bytes
    Ttl,         \* config.default_ttl_hours: no caller gives another
    MaxClock     \* bound: hours one behaviour lasts

ASSUME HashAssumption ==
    /\ IsFiniteSet(Hashes) /\ IsFiniteSet(Requests)
    /\ TenantOf \in [Hashes -> Tenants] /\ SizeOf \in [Hashes -> Nat]
    /\ Optimized \subseteq Hashes /\ Accepted \subseteq Hashes
ASSUME ConfigAssumption == {MaxEntries, Ttl} \subseteq Nat \ {0} /\ MaxSize \in Nat
ASSUME BoundAssumption == MaxClock \in Nat

VARIABLES
    clock,      \* datetime.now, in hours
    caches,     \* the instances of PlanCacheService
    made,       \* how many have been made
    global,     \* _cache_service: the number of an instance, 0 for None
    optimizer,  \* the optimizer lru_cache has kept: its instance, 0 for none
    memo,       \* its _optimization_cache: plans it has optimized
    requests,   \* what the worker threads do for a request
    loop,       \* the event loop is "free", or "creating" a cache
    removed     \* history: plans whose invalidation succeeded, not stored since

serving == <<clock, caches, made, global, optimizer, memo, requests, loop, removed>>

\* Each caller tags what it stores; the tags that callers share are left out
Tags == {"optimized", "compiled", "api_compiled"}

\* One per thread that can find none, and one for the event loop
Instances == 1..(Cardinality(Requests) + 1)

-----------------------------------------------------------------------------
\* A cache

NotKept == [kept |-> FALSE]
Entry == [kept: {TRUE}, expires: Nat, tags: SUBSET Tags]

Cache == [entries: [Hashes -> {NotKept} \cup Entry], order: Seq(Hashes),
          byTenant: [Tenants -> SUBSET Hashes], byTag: [Tags -> SUBSET Hashes],
          cleaning: BOOLEAN]

EmptyCache == [entries |-> [h \in Hashes |-> NotKept], order |-> <<>>,
               byTenant |-> [t \in Tenants |-> {}], byTag |-> [g \in Tags |-> {}],
               cleaning |-> FALSE]

Kept(c) == {h \in Hashes : c.entries[h] # NotKept}

Expired(c, h) == c.entries[h].expires < clock

\* Bytes of some plans, those of a plan numbered from 1
Bytes(plans) == Cardinality(UNION {{h} \X (1..SizeOf[h]) : h \in plans})

Size(c) == Bytes(Kept(c))

\* The list without the first occurrence of each of some plans
Without(s, gone) ==
    LET left == {n \in DOMAIN s : s[n] \notin gone \/ (\E m \in 1..(n - 1) : s[m] = s[n])}
    IN  [k \in 1..Cardinality(left) |->
            s[CHOOSE n \in left : Cardinality({m \in left : m <= n}) = k]]

\* _evict, called for some plans in turn; it takes a plan from the indexes of the
\* tags of its entry
EvictAll(c, plans) ==
    LET gone == plans \cap Kept(c)
    IN  [c EXCEPT
            !.entries = [h \in Hashes |-> IF h \in gone THEN NotKept ELSE c.entries[h]],
            !.order = Without(c.order, gone),
            !.byTenant = [t \in Tenants |-> c.byTenant[t] \ {h \in gone : TenantOf[h] = t}],
            !.byTag = [g \in Tags |-> c.byTag[g] \ {h \in gone : g \in c.entries[h].tags}]]

Evict(c, h) == EvictAll(c, {h})

Oldest(c, n) == {c.order[k] : k \in 1..n}

EvictOldest(c) == IF c.order = <<>> THEN c ELSE Evict(c, c.order[1])

\* What ends the loop that evicts one plan after the other
Small(c) == Size(c) <= MaxSize \/ Kept(c) = {}

\* Mutant: the sizes are not looked at
MutShrink(c) == c

Shrink(c) ==
    EvictAll(c, Oldest(c, Min({n \in 0..Len(c.order) : Small(EvictAll(c, Oldest(c, n)))})))

\* _ensure_capacity does not ask whether the plan to be stored is kept already
MakeRoom(c) == Shrink(IF Cardinality(Kept(c)) >= MaxEntries THEN EvictOldest(c) ELSE c)

\* Mutant: the plan is appended without being looked for
MutUsed(c, h) == [c EXCEPT !.order = Append(c.order, h)]

\* The plan goes to the end of the order of last use
Used(c, h) == [c EXCEPT !.order = Append(Without(c.order, {h}), h)]

\* An entry that is replaced stays in the indexes of its former tags
Put(c, h, tags) ==
    LET d == MakeRoom(c)
    IN  Used([d EXCEPT
            !.entries[h] = [kept |-> TRUE, expires |-> clock + Ttl, tags |-> tags],
            !.byTenant[TenantOf[h]] = d.byTenant[TenantOf[h]] \cup {h},
            !.byTag = [g \in Tags |-> IF g \in tags THEN d.byTag[g] \cup {h} ELSE d.byTag[g]]], h)

Hit(c, h, t) == h \in Kept(c) /\ TenantOf[h] = t /\ ~Expired(c, h)

\* A cache made by a thread has no clean-up task until the first get
Cleaned(c) == [c EXCEPT !.cleaning = TRUE]

Get(c, h, t) ==
    CASE Hit(c, h, t) -> Used(Cleaned(c), h)
      [] h \in Kept(c) /\ TenantOf[h] = t /\ Expired(c, h) -> Evict(Cleaned(c), h)
      [] OTHER -> Cleaned(c)

-----------------------------------------------------------------------------
\* Worker threads: the optimizer, the compiler and the cache they are given

Idle == [pc |-> "idle"]
Asking == [pc: {"asking", "creating", "returning"}, plan: Hashes, caching: BOOLEAN]
Preparing == [pc: {"compiler"}, plan: Hashes, caching: BOOLEAN, optimizer: Instances, own: BOOLEAN]
Ready == [pc: {"compiling"}, plan: Hashes, caching: BOOLEAN, optimizer: Instances, own: BOOLEAN,
          service: Instances]

At(r, pc) == requests[r].pc = pc

Moves(r, pc) == requests' = [requests EXCEPT ![r].pc = pc]

\* An optimizer that is not the kept one (own) serves its request only
Prepared(r, q, i, own) ==
    requests' = [requests EXCEPT ![r] =
        [pc |-> "compiler", plan |-> q.plan, caching |-> q.caching, optimizer |-> i, own |-> own]]

\* POST /v1/compile: get_plan_optimizer, a function lru_cache remembers
Begin(r, h, caching) ==
    LET q == [pc |-> "asking", plan |-> h, caching |-> caching]
    IN  /\ requests[r] = Idle
        /\ IF optimizer = 0 THEN requests' = [requests EXCEPT ![r] = q]
                            ELSE Prepared(r, q, optimizer, FALSE)
        /\ UNCHANGED <<clock, caches, made, global, optimizer, memo, loop, removed>>

\* Mutant: the test is forgotten
MutAsk(r) ==
    /\ At(r, "asking")
    /\ Moves(r, "returning")
    /\ UNCHANGED <<clock, caches, made, global, optimizer, memo, loop, removed>>

\* get_cache_service tests the global variable
Ask(r) ==
    /\ At(r, "asking")
    /\ Moves(r, IF global = 0 THEN "creating" ELSE "returning")
    /\ UNCHANGED <<clock, caches, made, global, optimizer, memo, loop, removed>>

Makes == made' = made + 1 /\ global' = made + 1

Create(r) ==
    /\ At(r, "creating")
    /\ Makes
    /\ Moves(r, "returning")
    /\ UNCHANGED <<clock, caches, optimizer, memo, loop, removed>>

\* It returns the global variable, and lru_cache keeps the first optimizer
Return(r) ==
    /\ At(r, "returning")
    /\ Prepared(r, requests[r], global, optimizer # 0)
    /\ optimizer' = IF optimizer = 0 THEN global ELSE optimizer
    /\ UNCHANGED <<clock, caches, made, global, memo, loop, removed>>

\* PlanCompiler() asks again, when there is a cache for certain
Prepare(r) ==
    /\ At(r, "compiler")
    /\ requests' = [requests EXCEPT ![r] =
            [pc |-> "compiling", plan |-> requests[r].plan, caching |-> requests[r].caching,
             optimizer |-> requests[r].optimizer, own |-> requests[r].own, service |-> global]]
    /\ UNCHANGED <<clock, caches, made, global, optimizer, memo, loop, removed>>

-----------------------------------------------------------------------------
\* The event loop

\* The optimizer stores what it optimizes, whatever the request says
Tunes(q) == q.plan \in Optimized /\ (q.own \/ q.plan \notin memo)

Stores(q) == q.caching /\ q.plan \in Accepted

\* The compiler looks up a key no plan is stored under
Looked(q) == IF q.caching THEN [caches EXCEPT ![q.service] = Cleaned(caches[q.service])]
                          ELSE caches

\* The plan is stored in the optimizer's cache, in the compiler's, and by the route
\* in the global one
Compile(r) ==
    LET q == requests[r]
        tuned == IF Tunes(q)
                 THEN [Looked(q) EXCEPT ![q.optimizer] =
                          Put(Looked(q)[q.optimizer], q.plan, {"optimized"})]
                 ELSE Looked(q)
        stored == [tuned EXCEPT ![q.service] = Put(tuned[q.service], q.plan, {"compiled"})]
    IN  /\ loop = "free"
        /\ At(r, "compiling")
        /\ caches' = IF Stores(q)
                     THEN [stored EXCEPT ![global] = Put(stored[global], q.plan, {"api_compiled"})]
                     ELSE tuned
        /\ memo' = IF Tunes(q) /\ ~q.own THEN memo \cup {q.plan} ELSE memo
        /\ removed' = IF Tunes(q) \/ Stores(q) THEN removed \ {q.plan} ELSE removed
        /\ requests' = [requests EXCEPT ![r] = Idle]
        /\ UNCHANGED <<clock, made, global, optimizer, loop>>

\* The definition is invalid (looked is FALSE), a dependency is not resolved or a
\* step raises: the job fails before anything is stored
CompileFails(r, looked) ==
    /\ loop = "free"
    /\ At(r, "compiling")
    /\ caches' = IF looked THEN Looked(requests[r]) ELSE caches
    /\ requests' = [requests EXCEPT ![r] = Idle]
    /\ UNCHANGED <<clock, made, global, optimizer, memo, loop, removed>>

\* What the routes do to the global cache in one step
OnGlobal(c) ==
    /\ loop = "free"
    /\ global # 0
    /\ caches' = [caches EXCEPT ![global] = c]
    /\ UNCHANGED <<clock, made, global, optimizer, memo, requests, loop>>

\* GET /v1/plans/{plan_hash}
GetPlan(h, t) == OnGlobal(Get(caches[global], h, t)) /\ UNCHANGED removed

\* Mutant: the plan is invalidated in the cache the optimizer stores it in
MutDeletePlan(h, t) ==
    /\ loop = "free"
    /\ optimizer # 0
    /\ caches' = [caches EXCEPT ![optimizer] = Evict(caches[optimizer], h)]
    /\ removed' = IF Hit(caches[optimizer], h, t) THEN removed \cup {h} ELSE removed
    /\ UNCHANGED <<clock, made, global, optimizer, memo, requests, loop>>

\* DELETE /v1/cache/invalidate/{plan_hash}: a get, and an eviction if it was a hit
DeletePlan(h, t) ==
    LET c == caches[global]
    IN  /\ OnGlobal(IF Hit(c, h, t) THEN Evict(Get(c, h, t), h) ELSE Get(c, h, t))
        /\ removed' = IF Hit(c, h, t) THEN removed \cup {h} ELSE removed

\* The remaining operations of the class; the route for a tenant is shadowed by the
\* one for a plan, which is declared first
InvalidateTenant(t) ==
    /\ OnGlobal(EvictAll(caches[global], caches[global].byTenant[t]))
    /\ removed' = removed \cup {h \in Hashes : TenantOf[h] = t}

InvalidateTag(g) ==
    LET c == caches[global]
        d == EvictAll(c, c.byTag[g])
    IN  OnGlobal(d) /\ removed' = removed \cup (Kept(c) \ Kept(d))

Clear == OnGlobal([EmptyCache EXCEPT !.cleaning = caches[global].cleaning]) /\ removed' = Hashes

\* A route that finds no cache makes one, while threads may make theirs
LoopAsks ==
    /\ loop = "free" /\ global = 0
    /\ loop' = "creating"
    /\ UNCHANGED <<clock, caches, made, global, optimizer, memo, requests, removed>>

LoopCreates ==
    /\ loop = "creating"
    /\ Makes
    /\ caches' = [caches EXCEPT ![made + 1] = Cleaned(EmptyCache)]
    /\ loop' = "free"
    /\ UNCHANGED <<clock, optimizer, memo, requests, removed>>

\* _cleanup_expired, in an instance whose task runs
CleanUp(i) ==
    LET c == caches[i]
    IN  /\ loop = "free"
        /\ c.cleaning
        /\ caches' = [caches EXCEPT ![i] = EvictAll(c, {h \in Kept(c) : Expired(c, h)})]
        /\ UNCHANGED <<clock, made, global, optimizer, memo, requests, loop, removed>>

Tick ==
    /\ clock < MaxClock
    /\ clock' = clock + 1
    /\ UNCHANGED <<caches, made, global, optimizer, memo, requests, loop, removed>>

CacheInit ==
    /\ clock = 0
    /\ caches = [i \in Instances |-> EmptyCache]
    /\ made = 0
    /\ global = 0
    /\ optimizer = 0
    /\ memo = {}
    /\ requests = [r \in Requests |-> Idle]
    /\ loop = "free"
    /\ removed = {}

CacheNext ==
    \/ \E r \in Requests, h \in Hashes, caching \in BOOLEAN : Begin(r, h, caching)
    \/ \E r \in Requests : Ask(r) \/ Create(r) \/ Return(r) \/ Prepare(r) \/ Compile(r)
    \/ \E r \in Requests, looked \in BOOLEAN : CompileFails(r, looked)
    \/ \E h \in Hashes, t \in Tenants : GetPlan(h, t) \/ DeletePlan(h, t)
    \/ \E t \in Tenants : InvalidateTenant(t)
    \/ \E g \in Tags : InvalidateTag(g)
    \/ Clear
    \/ LoopAsks \/ LoopCreates
    \/ \E i \in Instances : CleanUp(i)
    \/ Tick

CacheSpec == CacheInit /\ [][CacheNext]_serving

-----------------------------------------------------------------------------
\* Properties

\* CacheTypeOK: values of the variables (cache_service.py, api/dependencies.py,
\* optimizer.py).  A request that has an optimizer finds a cache.
CacheTypeOK ==
    /\ clock \in 0..MaxClock
    /\ caches \in [Instances -> Cache]
    /\ \A i \in Instances : i > made => caches[i] = EmptyCache
    /\ made \in 0..Cardinality(Instances)
    /\ global = made
    /\ optimizer \in 0..made
    /\ memo \subseteq Optimized
    /\ requests \in [Requests -> {Idle} \cup Asking \cup Preparing \cup Ready]
    /\ \A r \in Requests : requests[r].pc \in {"returning", "compiler", "compiling"} => global > 0
    /\ loop \in {"free", "creating"}
    /\ removed \subseteq Hashes

Agrees(c) ==
    /\ IsInjective(c.order) /\ ToSet(c.order) = Kept(c)
    /\ \A t \in Tenants : c.byTenant[t] = {h \in Kept(c) : TenantOf[h] = t}
    /\ \A h \in Kept(c) : \A g \in c.entries[h].tags : h \in c.byTag[g]

\* Whatever is stored again under other tags, evicted, invalidated or expired, and
\* in whatever order: the list of last uses holds each kept plan once and no other,
\* the index of a tenant its plans, and that of a tag at least the plans that have it
\* (cache_service.py:124-282).  The loop that evicts until the rest is small enough
\* ends only because of this, and invalidation by tenant reaches all plans of the
\* tenant.  A plan stored again without a tag stays in the index of the tag.
IndexesAgree == \A i \in Instances : Agrees(caches[i])

WithinLimits(plans) ==
    /\ Cardinality(plans) <= MaxEntries
    /\ plans # {} => \E h \in plans : Bytes(plans \ {h}) <= MaxSize

\* An instance never keeps more plans than max_entries, and more bytes than
\* max_size_bytes only because of one plan: the limits are tested before a plan is
\* added, whatever its size (cache_service.py:139, 281-300).
LimitsKept == \A i \in Instances : WithinLimits(Kept(caches[i]))

\* A plan whose invalidation was confirmed is not served again before it has been
\* compiled again (api/routes/plans.py:319-352), although several caches may hold
\* it and the global one may be replaced after the confirmation.
RemovedStaysRemoved == global # 0 => removed \cap Kept(caches[global]) = {}
=============================================================================
