# Verification of the Anumate platform

TLA+ models, model-checking runs and machine-checked proofs for the services
and shared packages of this repository. Paths are relative to the repository
root. `PROJECT.json` lists the components, the runs, the mutants that every
checked property must catch, the source lines behind every definition, the
hazards with the line at which each one bites, and the theorems.

Contents: 1 the system · 2 the modules and their correspondence to the code ·
3 the runs · 4 the proofs · 5 where code and documents disagree · 6 what is
not modelled · 7 the plan.

To run: `tlc -config MCApprovals.cfg MCApprovals` (any cfg with the module
named in `PROJECT.json`), `tlapm ApprovalsProofs.tla`.

## 1. The system

Anumate is a set of Python services (FastAPI, asyncio, SQLAlchemy on
PostgreSQL, Redis, NATS JetStream) with shared packages. A plan is compiled,
its execution is started on Portia by the orchestrator, steps that need a
human are turned into approvals, capability tokens authorise tool calls, and
receipts and audit records are written.

### 1.1 Inventory

| Component | State | Operations | What is hard | What makes it correct |
|---|---|---|---|---|
| Approvals rows (`services/approvals/src/service.py`, `repository.py`) | rows of `approvals` in PostgreSQL, events | create, approve, reject, delegate, update, cancel, sweep of expired rows | SELECT then UPDATE without locks in overlapping sessions; re-read after commit; events after commit | an approval and its event are backed by real answers of people who were asked; a row that no two requests hold at a time is answered atomically and settles once |
| Orchestrator: execution (`services/orchestrator/api/routes/execution.py`, `src/service_mcp.py`, `src/mcp_execution.py`) | answers remembered per process, approvals, receipts | execute a payment, gated execution, wait for an approval, write a receipt | the answer is looked up and stored around the payment; calls that raise after they took effect; restarts; an approval that ends in four ways | a process pays once per key, its answers stay, every gated payment has a receipt that tells the decision |
| Orchestrator: service (`src/service.py`, `retry_handler.py`, `execution_monitor.py`) | runs, hooks, metrics | execute, pause, resume, cancel | cannot be constructed (section 6) | – |
| Capability tokens (`services/captokens`, `packages/anumate-capability-tokens`) | keys and replay guard of a process; tables of tokens, uses and audit records | issue, verify, audit, clean up | guard in memory and table in the database; whole seconds and fractions; statements that fail after their commit; restarts; clean-up jobs | a token is valid at most once, and its records outlive it |
| Idempotency package (`packages/anumate-idempotency`) | key/value store, set-if-absent | decorator around a call | no service imports it | – |
| Capsule registry (`services/capsule-registry`) | capsules, versions, contents, write-once files, stored results | create, publish, change status, delete | everything is decided from a row loaded several awaits before the commit; repeated requests | version numbers without gaps, a content once per capsule, answers that stay true |
| Registry (`services/registry`) | capsules, approvals | create, approve, reject | a second implementation of the capsule registry | – |
| Event bus (`services/eventbus`) | JetStream consumers, dead letter stream | publish, subscribe, replay, dead-letter | at-least-once delivery, crash between handler and ack, last delivery | no event is lost silently or dead-lettered twice |
| Integration: circuit breaker | one state machine per protected service, in memory | protected call, force open, force closed, reset | admission and result are separate steps; the window outlives the state | opens on evidence, stays open, recovers |
| Integration: service registry, discovery client, health manager | entries with a lease in Redis, a cache, check loops | register, heartbeat, report, discover, check, deregister | three writers read and write back one entry; stale cache | what is up is offered, what is gone stays gone, what is healthy is checked |
| Integration: API gateway, load balancer | two caches on top of each other, cursor and weights of the balancer, token buckets | find instances, choose one, limit the rate | fills of the caches overlap with their clearing and with Redis failures; one balancer for all services; a clock that may go back | instances are listed while healthy, turns are fair, weights are shares, rates are exact |
| Plan compiler: cache (`services/plan-compiler/src/cache_service.py`, `api`) | entries, order of use, indexes by tenant and tag; the optimizer and its memo | compile, get, invalidate, expire, evict | worker threads make several caches; eviction and expiry against the indexes | order and indexes match the entries, what is invalidated stays away |
| Plan compiler: optimizer, analyzer, validator | one plan | drop duplicates, merge, parallelize, reorder, group, validate | passes written one after the other, an analysis of the plan before them that may fail | no step twice, none lost but as a duplicate or by a merge; dependencies, order and independence of groups kept |
| GhostRun (`services/ghostrun`) | simulation runs in memory | start, cancel, simulate, clean up | cancellation racing completion | a finished run does not change |
| Approval workflows (`workflow_engine.py`, `workflow_manager.py`, `enhanced_service.py`) | workflow instances | start, respond, advance, escalate | loading an instance is a stub | a step advances once per response |
| Policy (`services/policy`, `packages/anumate-policy`) | loaded policies | parse, evaluate, enforce | evaluation order, defaults | the verdict is the one the rules define |
| Receipts (`services/receipt`, `packages/anumate-receipt`) | receipts, WORM records | create, sign, verify | write-once storage | a signed receipt is never rewritten |
| Audit (`services/audit`) | audit events, retention policies | log, export, archive, delete | retention boundaries, legal hold | nothing on hold is deleted |
| Infrastructure packages (config, crypto, errors, events, http, logging, oidc, planhash, redaction, tenancy, tracing, infrastructure) | mostly none | helpers | tenant context, retry policies | – |

### 1.2 Interactions

- The orchestrator's gated engine opens an approval and polls it over HTTP
  (`clarifications_bridge.py`). Of the approvals service `PlanExecution` uses
  what `ApprovalContract` leaves for a row that requests overlap on: once
  created it may be settled, and settled again, and is never pending again.
- The approvals service publishes `approval.requested`, `.granted` and
  `.rejected`; the event bus delivers events at least once to the queue group
  of each subscribing service.
- Each service instance carries a discovery client that shares its entry in
  Redis with the integration service's registry and health manager. They talk
  through that entry only.
- The API gateway takes instances from the registry through two caches, lets
  its load balancer choose one and sends the request through the circuit
  breaker of the target.
- A compile request looks up the plan cache, has the optimizer and the
  validator work on the plan and stores it, up to three times, in the caches
  of the process.
- The token service records every use in its guard, its table of uses and its
  audit table.

What actors meet on is a database row (approvals, capsules, tokens), a
JetStream consumer (event bus), a Redis entry (registry), or memory shared by
coroutines or threads (breaker, gateway, plan cache, remembered answers).

## 2. Modules

| Component | Model | Proofs | TLC instance |
|---|---|---|---|
| Approvals rows | `Approvals`, `ApprovalsOverlap`, abstract `ApprovalContract` | `ApprovalsProofs` | `MCApprovals` |
| Circuit breaker | `CircuitBreaker` | `GatewayProofs` | `MCCircuitBreaker` |
| Event delivery | `EventDelivery` | `EventDeliveryProofs` | `MCEventDelivery` |
| Health manager, registry entry, discovery client | `HealthManager` | `HealthManagerProofs` | `MCHealthManager` |
| Orchestrator: execution | `PlanExecution` | `PlanExecutionProofs` | `MCPlanExecution` |
| Token service | `TokenService` | `TokenServiceProofs` | `MCTokenService` |
| Plan compiler: cache | `PlanCache` | `PlanCompilerProofs` | `MCPlanCache` |
| Plan compiler: optimizer, analyzer, validator | `PlanOptimizer` | `PlanCompilerProofs` | `MCPlanOptimizer` |
| Capsule registry | `CapsuleRegistry` | `CapsuleRegistryProofs` | `MCCapsuleRegistry` |
| API gateway, load balancer | `Gateway`, `LoadBalancer`, `RateLimiter` | `GatewayProofs` | `MCGateway` |

Common conventions: one action per step between two awaits (database call,
Redis call, callback) of a handler; a handler that returns early without a
write is no step; definitions named `Mut...` are plausible bugs of the
definition that follows them, used only to show that the properties notice
them; variables marked "history" record what happened and are read by
properties only.

### 2.1 Approvals

`rows` is the table. `sessions[s]` is what the handler of request `s` holds in
memory between its database calls. PostgreSQL runs at READ COMMITTED and the
handlers take no row locks, so a commit writes the columns the handler changed
whatever the row holds by then (SQLAlchemy updates dirty columns by primary
key).

| Code | Actions |
|---|---|
| `create_approval_request` | `Create`, `Refresh`, `Publish` |
| `approve_request` | `ApproveLoad`, `ApproveCommit`, `Refresh`, `Publish` |
| `reject_request` | `RejectLoad`, `RejectCommit`, `Refresh`, `Publish` |
| `cancel_approval` | `CancelLoad`, `CancelCommit` (no event) |
| `delegate_approval`, `update_approval` | `DelegateLoad`, `UpdateRequest`, `ExtendRequest`, then `EditCommit` |
| `expire_old_approvals` (cleanup route) | `SweepLoad`, `SweepCommit` |
| errors, lost connections, process death | `Abort` |
| passing of `expires_at` | `ReachExpiry` |

`approvers`, `rejectors` and `requiredEver` are histories: whose answer was
committed, and which lists the row has held. They are what an approval has to
be justified by, because `approved_by` itself may lose entries.

`ReachExpiry` stands for no code: it is the moment from which the comparison
`expires_at < now` of the sweep is true of a row.

`ApprovalContract` is what the service promises of one table. An answer is one
atomic step, a row settles once, and an event is announced for a row settled
that way, as long as the row has not been overlapped, that is, no request
SELECTed it while another one was between its SELECT and its commit. Of an
overlapped row the contract says what is left (`Overwrite`): it may be settled
again and lose approvals, but it is never pending again, its list changes only
by edits, and the other rows keep the full promise. `ApprovalsOverlap` adds to
`Approvals` the history of the overlapped rows (`clashed`), which no action
reads, and implements the contract with it for any number of sessions
(`ImplementsContract`). This is more than it looks: the second read after the
commit and the publication may overlap with anything and are not part of what
makes a row overlapped, and one sweep settles a batch of rows of which some may
be overlapped.

### 2.2 CircuitBreaker

One breaker object and the calls that pass through it. `_can_execute` and the
recording of a result each run under the breaker's lock and are one step; the
awaited call is not, so any call may report in any state of the circuit.

| Code | Definitions |
|---|---|
| `_can_execute`, closed or half-open | `Admit` |
| `_can_execute`, open and due | `Probe` |
| `_handle_successful_call`, `record_call`, `_check_state_transition` | `Succeed` = `SuccessWhileTesting` or `SuccessOtherwise`, `Slide`, `OverRate` |
| `_handle_failed_call`, `_check_state_transition` | `Fail`, `FailureOpens` |
| a cancelled caller | `Cancel` |
| `force_open`, `force_closed`, `reset` | `ForceOpen`, `ForceClosed`, `Reset` |
| `_transition_to_*` | `TransitionToOpen`, `TransitionToHalfOpen`, `TransitionToClosed` |
| the clock and `asyncio.wait_for` | `Tick`: a call that has run `CallTimeout` ticks ends first |

Times are kept as ages, capped at the longest span the code compares them
with. `last_failure_time` is the time at which the failed call *started*, so
an age may grow when a failure is recorded. `openedBy` is a history.

### 2.3 EventDelivery

One durable consumer with its queue group. The server side (`stream`,
`delivered`: `Publish`, `Expire`, the effect of `Acknowledged` and `Offered`)
is JetStream, modelled from how `eventbus_core.py` configures it: explicit
acknowledgement, `ack_wait`, `max_deliver`. `members[m]` is the position of a
member in `message_handler`:

| Code | Actions |
|---|---|
| the callback starts, type filter | `Deliver` |
| `await handler(event)` returns, raises | `HandlerReturns`, `HandlerRaises` |
| `await msg.ack()`, raising inside the `try` | `Ack`, `AckRaises` |
| except clause: `num_delivered >= max_deliver` | `ExceptBranch` |
| `msg.nak()` | `Nak` |
| `_send_to_dead_letter`, then `ack` | `Bury`, `Ack` from "closing" |
| an answer lost on its way or raising in the except clause | `AnswerLost` |
| the process dies and restarts | `Crash` |

### 2.4 HealthManager

`registry[i]` is the entry of an instance in Redis, reduced to its status.
Three writers read and write it back in two steps: the manager
(`update_service_health`: `UpdateReads`, `UpdateWrites`, `UpdateFails`), the
client's heartbeat (`HeartbeatReads/Writes/Fails`) and the client's health
report (`ReportReads/Writes/Fails`).

| Code | Actions |
|---|---|
| `DiscoveryClient.start` / `stop` | `Register`, `Deregister`; `Die` without `stop` |
| Redis TTL | `Expire`; `Lapse` while the instance runs |
| `DELETE /v1/services` | `Remove` |
| `discover_services`, `_load_services_from_redis` | `LoadReads`, `LookupLoads`, `Merged`, `CacheAges` |
| `_service_discovery_loop` of the manager | `DiscoverLoads`, `DiscoverCached`, `DiscoverFails`, `Monitor` |
| `HealthChecker.check`, `_update_state`, `_health_check_loop` | `Check`, `UpdateState`, `Verdict` |
| `configure_service_health_check` | `Configure` |
| cancelling a loop whose write is on its way | the choice of `sent` in `Monitor`, the second disjunct of `Configure` |

There is no clock: loops take their steps in any order, which covers every
ratio of the intervals in the configuration.

### 2.5 PlanExecution

Processes serve requests; `tasks[r]` is the point a request has reached. Both
engines run the plan with `PortiaClient.run_plan`, which is declared async and
calls the SDK without an await, so while a request is inside it (`Calling`) its
process does nothing else (`Free`). `caches[w]` is `_idempotency_cache`.

| Code | Actions |
|---|---|
| `execute_portia_endpoint`: known key, refused request, payment, exception before it | `AnswerFromCache`, `Refuse`, `Execute`, `FailEarly`, `RouteReturns` with `HandlerAnswers` and `Remember` |
| `execute_via_portia_mcp` | `StartGated`, `PlanHasRun`, `PlanRaises` |
| `open_approval`, `wait_for_approval` | `OpenApproval`, `Poll`, `GiveUp` |
| `write_receipt`, the except clause | `WriteReceipt`, `ReceiptRaises`, `WriteErrorReceipt` |
| Portia makes the payment, whether the call returns or raises | `Pay` |
| the approvals service | `Settle` |
| a process restarts | `Restart` |

`Settle` is any commit of the approvals service. It does not look at the status
the row has by then (`repository.py:296`, `:403`), so an approval that has been
settled may be settled otherwise later. The wait ends with the first verdict it
reads.

An answer that is remembered may be the live one, the fallback after a call
that raised, or FAILED from the handler's outer except clause; all three stay.

`payments`, `paidHere` and `decisions` are histories: the payments made for a
request, those made by a process for a key since its last restart, and the
verdicts an approval has held.

### 2.6 TokenService

`guard[p]` and `life[p]` (keys and memory of a process, lost together),
`rows`, `uses` and `audited` (the tables), `calls[c]` (a call between two
statements). Time is counted in half seconds because tokens expire at full
seconds and are verified between them.

| Code | Actions |
|---|---|
| `issue_token` | `Issue`, `Store`, `StoreFails`, `Audit` |
| `verify_token` | `Verify` (signature, expiry and guard in one go), `LookUp`, `Record`, `RecordFails`, `Audit` |
| a token of another tenant | `VerifyForeign` |
| clean-up jobs | `CleanTokens`, `CleanUses`, `CleanAudits` |
| clock, restarts | `Tick`, `Restart` |

`StoreFails` and `RecordFails` happen before or after the commit of their
statement. `accepted` is a history.

The clean-up jobs compare columns that hold points in time with a naive
`utcnow()` (`database_services.py:116`, `:309`), which the driver reads as
local time, as it does the naive `fromtimestamp` of a use
(`app_production.py:437`). `Ahead` and `Behind` are what the local time of the
server is ahead of UTC or behind it; by that a row looks outdated later or
earlier (`Outdated`). West of UTC the records of a token may thus be deleted
while it is still accepted. `RecordsOutliveTokens` says by how much too early
at most; at `Behind` = 0 it says that they stay.

### 2.7 PlanCache

`caches[i]` are the instances of `PlanCacheService`, `global` the number of the
one `get_cache_service` returns, `optimizer` the one the memoized optimizer
holds. An operation of a cache is one step: nothing in it suspends. Getting the
cache is several, because FastAPI runs those functions in worker threads.

| Code | Actions |
|---|---|
| `get_plan_optimizer`, `get_plan_compiler`, `get_cache_service` | `Begin`, `Ask`, `Create`, `Return`, `Prepare` |
| `compile_capsule` | `Compile`, `CompileFails`, over `Tunes`, `Stores`, `Put`, `Get` |
| routes of plans | `GetPlan`, `DeletePlan`, `InvalidateTenant`, `InvalidateTag`, `Clear`, `LoopAsks`, `LoopCreates` |
| clean-up task | `CleanUp` |

`removed` is a history of confirmed invalidations. Both limits of the cache are
tested before a plan is added (`_ensure_capacity`): room is made for one more
entry, but bytes only until what is there is within `max_size_bytes`, whatever
the new plan weighs. The number of entries is kept, the number of bytes is
exceeded by one plan at most, which may be larger than the whole limit; this is
what `LimitsKept` says.

### 2.8 PlanOptimizer

One compilation: `pc` is its phase, `i` the step the phase has come to. A
step's identifier is the set of original positions it stands for, so merging
two is a union. It does not mean that both are done: a merged step keeps the
action of the first alone and lays the parameters and inputs of the second over
its own (`Merged`, `Overlay`), and nothing compares the actions. What the first
position of a step's identifier says is what it does (`Does`, `Done`); the
other positions are `Swallowed`. `layer` is the analysis of the plan as it was
before the optimizer touched it. The analysis may itself fail: a list or object
where the name of data or a number of iterations is expected (`Structure`)
raises a TypeError, and the compilation ends without success (`Unreadable`,
`FailAnalysis`).

| Code | Actions |
|---|---|
| `analyze_plan_dependencies` | `Analyze`, `FailAnalysis`, or `Keep` at level none |
| duplicates, `_merge_consecutive_steps` | `DropDuplicate`, `StartMerging`, `MergeNext`, `EndMerging` |
| `_optimize_flow_parallelization` | `ParallelizeByAnalysis`, `ParallelizeByGroups` |
| `_apply_graph_optimizations` | `ApplyGraph`, over `FrontFirst`, `Marked`, `Group` |
| `PlanValidator` | `Validate`, over `ValidStep`, `Known`, `Cyclic` |

The path that is moved to the front is any of the longest (`LongestPaths`):
which one the graph library returns depends on its internal order.

### 2.9 CapsuleRegistry

One database session per request at READ COMMITTED. The session's identity map
keeps the row of a capsule as first loaded (`calls[r].seen`), so a second
SELECT does not refresh it; the unique indexes and foreign keys of `models.py`
are checked at the commit.

| Code | Actions |
|---|---|
| `create_capsule`, `publish_version` | `SendCreate`, `SendPublish`, `Lookup`, `Replay`, `Check`, `ReadBlob`, `CommitCreate`, `CommitPublish`, `Refused`, `StoreResult` |
| `update_capsule_status` | `SendStatus`, `LoadStatus`, `WriteStatus` |
| `hard_delete_capsule` | `BeginDelete`, `CommitDelete` |
| death of the process, failing statement, provider or publisher | `Lost` |

A client may name the id of a new capsule (`main.py:39`, `:233`,
`api.yaml:489`), also one that was hard-deleted, so a request in flight may
have loaded another capsule than the one that has the id when it commits.
Three histories tell these apart: `born` is the etag a capsule was created
with, which a version carries too; `mixed` says of a row that a request which
had loaded an earlier owner of the id published into it; `misled` of a call
that its stored result was about an earlier owner. No guard reads them.

The properties say exactly what that costs. Into a `mixed` capsule a publish
may bring a number that does not follow the others, or a content a second time;
a repeated request may be answered with what another capsule holds under its
number if it was `misled`. Nothing else is excused: one number never stands for
two versions, and in every capsule that is not mixed, one with an id used again
included, the numbers are dense and a content is there once.

### 2.10 Gateway, LoadBalancer, RateLimiter

`Gateway` is a machine: `known` and `fresh` are the registry's cache of entries
(ten seconds), `listing` the gateway's cache of lists (cleared every thirty
seconds), `lookup[r]` what a request waits for between KEYS and MGET.

| Code | Actions |
|---|---|
| `_discover_service_instances`, `discover_services` | `FindInCache`, `AskForKeys`, `AskForValues`, `Load`, `FindNothing`, `LoseAnswer` |
| the ten seconds, `_refresh_service_cache` | `Age`, `Clear` |
| Redis and the instances | `Change`, `RedisFails`, `RedisRecovers` |
| a new gateway process | `Restart` |

`LoadBalancer` has one balancer per strategy, all given the same lists (`Turn`,
the call of `select`); `RateLimiter` is the bucket of one client (`Ask`). Both
keep the calls and their answers as histories, which the properties compare
with what a fair turn, a share and a rate are (`Weights` is what a set of
instances weighs together). Tokens are counted in exact parts; the code's are
floating point numbers, whose rounding is left out. Nothing in them suspends
and they share no state with the caches, so `MCGateway` lets one of the three
move between two starts of the process.

Three assumptions describe what the balancer is given. `ListsAssumption`: the
gateway stores an instance once in a list and never asks with an empty one.
`WeightAssumption`: `int(metadata["weight"])` is taken unchecked, and a number
below 0 is nobody's share. `ServicesAssumption`: discovery clients generate
their identifiers at random, so two services share no instance.

## 3. The runs

A passing run checks every state of its instance; a "violation" run looks for
one counterexample to what a document or comment of the repository says.
Systems with finitely many requests end when all are answered, and their
configurations say that they may stop; the breaker, the health manager and the
gateway never stop and are checked for deadlock.

| Run | Instance | Question and result |
|---|---|---|
| `approvals` | 2 sessions, 1 row, 3 users, lists {u1} and {u1,u2}, 1 edit; 260 000 states | Whatever two requests on one row do: approvals are backed by a quorum of committed answers, events are true of the history, and a row that was not overlapped follows `ApprovalContract`, with aborts anywhere. Holds. |
| `approvals_expiry` | 1 session, 1 row, 2 users | Is an overdue row settled, as `IMPLEMENTATION_SUMMARY.md` has it, if every request that is sent is served? Violated. |
| `breaker` | 2 calls, thresholds 2, window 4, rate 75 %, call timeout 2, recovery 4 ticks; 47 000 states | Counters agree with the window, an open circuit stays open long enough, closes on successes only, is tried again, and closes for good when the backend is well. Holds. |
| `eventbus_delivery` | 2 members, 1 wanted and 1 filtered event, 3 deliveries, 2 crashes, dead letters may be refused; 195 000 states | An event is lost only by a fault in its last delivery, handled again only after a late or failed acknowledgement, and accounted for in the end. Holds. |
| `health_manager` | 1 instance, 2 loaders of the cache, thresholds 2; 194 000 states | A gone entry stays gone, what is up is noticed, what is healthy is checked. Holds. |
| `plan_execution` | 2 processes, 2 requests of one key, 1 gated request with approval that may be settled again and again, 2 restarts; 136 000 states | A process pays once per key between restarts and keeps its answers, gated payments are recorded, receipts tell one verdict the approval has held, every request ends. Holds. |
| `gated_payment` | the same | Is a gated payment made after its approval, as the comment in `mcp_execution.py` has it? Violated. |
| `token_service` | 2 processes, 2 tokens of 2 s, 2 calls, 1 restart each, local time half a second behind UTC, 2.5 s; 211 000 states up to symmetry | A token is valid at most once; its row and the record of its use are there as long as it is valid, less what the server is west of UTC. Holds. |
| `plan_cache` | 3 plans of 2 tenants and 2 sizes, of which two are larger than the limit on bytes, room for 2, time to live 1 h of 2, 1 request beside the event loop; 38 000 states | Order of use and indexes agree with the entries whatever is stored, evicted, invalidated or expires; the number of entries is kept and the number of bytes exceeded by one plan at most; an invalidated plan stays away. Holds. |
| `plan_optimizer` | plans of 3 steps of 5 kinds with any dependencies, data exchanged in 3 ways, values the analyzer stumbles over, 4 levels; 410 000 states | No step is done twice, and one is left out only as a duplicate or because a merge swallowed it; what the validator accepts is in an order and in groups that respect the dependencies; a valid plan is refused for two reasons only. Holds. |
| `capsule_registry` | 3 requests, 2 keys, 2 capsules, 2 names, 3 contents, at most 3 versions, from an empty registry, one capsule, or one whose id was used before; 1 303 000 states up to symmetry | Numbers stay dense, no content is published twice, answers stay true, but for the requests that meet an id used again. Holds. |
| `gateway` | 2 requests, 2 services, 3 instances of which one changes; all sequences of 6 lists out of 5 for the balancers; all sequences of 5 requests at 6 clock readings, burst 2, a token every 2 ticks; 87 000 states | Lists end up with what Redis says; turns are fair, weights are shares, the rate is exact. Holds. |

### 3.1 Bounds

- *Two sessions, members, calls, loaders.* All conflicts in this code are
  between two actors on one object: a read by one, a write by another, a write
  by the first. The safety properties are proved for any number (section 4).
- *Three users, lists of one and two.* Enough for an approver, a co-approver
  and a delegate who was not on any list; `requiresAll` is both.
- `MaxEdits`: delegations and updates in one behaviour. One edit is enough to
  rewrite the list between another request's read and write.
- *One row* in `approvals`: the actions on different rows meet only in the
  sweep, which takes them in one batch. The refinement is proved for any number
  of rows, some overlapped and some not.
- *Thresholds of 2* are the smallest at which "one" and "enough" differ. In the
  breaker the window (4) holds an outage of two failures and a recovery of two
  successes, and the call timeout (2) is below the recovery timeout (4), as in
  the defaults, so that a late failure can fall on either side of a change of
  state.
- *Three deliveries* are a first, a middle and a last one. `MaxCrashes` = 2
  lets a crash hit the last delivery and an earlier one.
- *One instance* in HealthManager: instances share nothing but the freshness of
  the cache, which other callers change at any time anyway.
- Counters that the code lets grow (`failure_count`, consecutive successes and
  failures of a checker) are capped at the value they are compared with; ages
  at the span they are compared with. Neither changes an outcome.

- *Requests of PlanExecution*: two of one key show a repeated and a concurrent
  request, the gated one the approval. `MaxSends` is 1 because the second
  request of a key is what a retry sends.
- *Half seconds*: a token issued between two full seconds lives half a second
  less than one issued at a full second; five half seconds leave room to verify
  after the expiry and for the clean-up jobs. `Behind` = 1 is the smallest
  difference to UTC at which a row goes while its token lives; the theorem is
  about every difference, in either direction.
- *One request of PlanCache* makes a cache in a thread while the event loop
  makes another. An instance with two requests and two plans (1.75 million
  states) was also checked.
- *Three steps*: a merge needs two, a third depends on, precedes or duplicates
  them. The kinds are two actions that can be merged and have a parameter of
  one name with different values, one that looks like one of them and cannot be
  merged (it retries), and two long steps, for which the analyzer finds it
  worthwhile to run them together. With all dependencies without a circle, data
  goes from the first step to the third or back; with none, and with each step
  waiting for the one before, also from the second to the third, and the
  analyzer stumbles over a list. A plan whose steps wait for each other in a
  circle is refused whatever data it exchanges, and appears with no data and at
  most one dependency per step.
- *Three requests of CapsuleRegistry* that start from one capsule with one or
  two versions stand for four and five from nothing. In the third start the
  capsule was deleted, another has its id and two versions, and a request to
  publish to the first was answered and may be repeated: what a request must
  meet to be misled, with two more in flight.
- *One changing instance* of Gateway: the caches treat instances independently,
  except that a failed lookup empties the list of all; two that change were
  also checked. The sequences of lists hold four states of a service and
  another service's list in between, and are twice as long as the weights of
  the largest list together.

Symmetry is used where only invariants are checked (`token_service`,
`capsule_registry`). Elsewhere a liveness property or a named instance forbids
it.

### 3.2 Fairness

- *Approvals*: `ServiceSpecH` lets every request in progress proceed (the event
  loop runs it) unless it aborts. Nobody is obliged to send one: the sweep is a
  request like the others, which nothing in the service sends
  (`CLEANUP_INTERVAL_HOURS` is read nowhere).
- *CircuitBreaker*: the clock advances, clients keep calling, and again and
  again a call in progress gets an answer rather than being cancelled
  (strong, because a cancellation disables the answer).
- *EventDelivery*: the server expires missing acknowledgements (weak) and
  offers an event that is pending again and again to some idle member (strong:
  members may be busy in between); a member that is in the callback finishes
  it (weak). Crashes, lost answers, raising handlers are never forced.
- *HealthManager*: the loops of the three classes run, leases and the cache
  run out, and Redis answers again and again: strong fairness for the writes
  that `...Fails` and for the load that `DiscoverFails` may replace.
- *PlanExecution*: a request that is served goes on (strong: its process may be
  inside another one's call in between). Calls have time-outs, the wait for an
  approval has a deadline, and the event loop serves its tasks in turn. Portia,
  the approvers and the clients are not forced to do anything.
- *Gateway*: both caches age (weak), and a lookup that waits for Redis gets an
  answer or an error (weak). Requests need not come, and nothing is said of
  Redis but what the properties assume: `HealthyIsListed` that it stays up,
  `UnhealthyIsAvoided` nothing.

## 4. The proofs

All theorems hold for every value of the constants under the assumptions named
in the modules (`NoUserAssumption`, `ThresholdsAssumption`, ...), which TLC
evaluates in each run.

**Approvals.** `ApprovedHasQuorum`, `RecordedUsersWereAsked` and
`EventsAreTruthful` are not inductive: whether a commit is justified depends
on what the session read. `HistoryInvariant` adds `SessionBacked`: the list
and the approvals a session carries were once in the row, hence are covered by
the histories, and an event about to be published is already true. The
histories only grow (`NextGrown`), so every such fact is stable
(`QuorumStable`, `TruthfulStable`, `BackedStable`); what remains is one lemma
per action. Theorems: `TypeCorrect`, `HistoryCorrect`, `ApprovalsAreReal`,
`RecordedUsersReal`, `EventsReal`.

`RowsFollowContract` is the refinement, for any tables, users, lists and number
of sessions, aborts anywhere. What it rests on is `OverlapInvariant`: of a row
that was not overlapped every session carries what the row still holds, and
announces what it says (`Current`). A session that touches such a row is the
only one that holds it (`OthersCurrent`), so what it carries stays current
until it commits; one lemma per action shows it (`ApproveCommitOverlap`,
`RefreshOverlap`, ...). `NobodyApprovesNothing` gives the initial `approved_by`
of a created row. From these one lemma per commit maps it to the step of
`ApprovalContract` (`ApproveImplements`, `RejectImplements`, `SweepImplements`,
`PublishImplements`, ...), or to `Overwrite` where the row is overlapped
(`Overwritten`); a SELECT that overlaps maps to `Overlap`, and every other step
changes nothing the contract speaks of (`QuietImplements`).

**CircuitBreaker.** First types with the bounds of the counts. Then
`RecoveryInvariant`: the window stays empty when metrics are off
(`WindowUnused`), and failures in the window imply that the time of a failure
is known, which gives `AlwaysRecoverable`: a window over its rate contains a
failure (`OverRateHasFailure`; this is where the assumption that the rate is
above 0 is used). `SlideStreak` and `SlideSuccess` say what one more result
does to the last n results of a window that drops its oldest entry; with them
`StreaksCorrect`. `StaysOpenCorrect` bounds how far `last_failure_time` moves
back by the call timeout. `ClosesCorrect` is the action property, from the
invariant about streaks (`ClosingStep`).

**EventDelivery.** Types need `Limits` (an event on offer has deliveries left).
`Attempts` says that no two members hold the same delivery and that only the
last one is given up; `Buried` and `Justified` that whoever holds the last
delivery keeps it until the event is accounted for; `Exclusive` that until an
acknowledgement is late the server waits for exactly one member. Together they
are `DeliveryInv`, and the theorems `LossNeedsAFaultCorrect`,
`DeadLetteredOnceCorrect`, `RepeatNeedsExpiryCorrect` follow from it.

**HealthManager.** `IInv` adds to the types that every checker is `Settled`:
counts at a threshold agree with the settled status, and a checker about to
write disagrees with it. `WritesBeforeThresholdCorrect` follows.
`GoneStaysGoneCorrect` is an action property: `GoneStep` shows for each action
that a gone entry nobody is about to write stays so, the interesting cases
being the loops that read (they find nothing to write) and `Monitor` (no write
was on its way).

**PlanExecution.** Two inductive invariants. `CallInv` is about keys: at most
one request of a process is inside `run_plan` (`OneCall`, because the SDK is
called without an await); while a request of a key is inside, nothing is
remembered for the key and what was paid here is what that request has paid
(`InsideCall`); otherwise either nothing was paid or an answer is remembered
(`OutsideCall`). `NextCallInv` carries with it that a remembered answer changes
only when its process restarts, hence `PaysOnce` and `AnswersStay`. `GatedInv`
follows one gated request through opening, polling and closing: a verdict the
approval holds is among its `decisions`, which only grow, and so is the one the
engine took with it, whatever the row is settled to after the poll. From it
follow `GatedPaymentsAreRecorded` and `ReceiptsAgreeWithDecisions`.

**TokenService.** `TokenInv(t)`: a token that has passed the guard was
delivered and is `Spent`: the guard entry of the one process that could still
accept it (the one that signed it, in the life in which it did) lasts at least
as long as the token. `GuardOutlastsToken` is the arithmetic of half seconds
behind it. While a call that passed is between its statements it is the only
one and nothing is recorded of the token, so nothing is counted twice. Theorems
`ValidAtMostOnce`, `UsesAreCountedOnce`, and `RecordsStay` for any zone
(`ZoneAssumption` says only that a place is not both east and west of UTC).

**CapsuleRegistry**, for any requests, ids used again included. `RegistryInv`:
the tables agree with each other (`TablesOK`: numbers dense and unique), stored
results belong to the requests of their key (`KeysOK`), and each call has seen
no later state than the present one, its search having covered all versions up
to the one it saw (`CallOK`). A publish numbers its version from a stale row,
but the unique index admits it only if the row is not stale after all
(`InsertKeeps`); that is why the search needs no lock. All of this is said of a
call as long as the capsule it has loaded is the one that has the id and is not
mixed (`Same`), and of a version as long as its capsule lives (`Alive`); both
end with the deletion and never come back, because every `born` is a new etag.
Theorems `DenseNumbers`, `NoContentTwice` and `AnswersStayTrue`.

**PlanOptimizer.** `KeptInv` describes the first pass: what it kept is a sorted
choice of the author's steps, and each step it has seen is kept or has an equal
that is. `StepsInv` describes the others: identifiers stand for disjoint sets
of original steps, every result step waits for what the steps it stands for
waited for (`Faithful`), it is the first of them but for parameters that later
ones name too, each of which it could be merged with (`Speaks`), and the steps
merged so far precede the rest. Theorems `StepsOnce`, `DependenciesKept`,
`OrderIsKept`. `StepsOnce` leaves exactly two ways in which an action of the
author's plan is not done: it looked like an earlier one, or a merge swallowed
it.

`OriginInv` adds what the analysis and the merging leave behind: `layer` is
that of the original plan, and a step that stands for one original is that
original but for its group. Along an edge of the analysis the layer grows
(`LayerGrows`), so the steps of a group, which stand for originals of one layer
(`GroupIsLayer`), cannot wait for each other or hand each other data
(`GroupsCorrect`). For `RefusedForAReason` it must be shown that a valid plan
which the analyzer can read stays valid unless somebody waits for a step that
is gone: the hard part is
that no circle appears (`NoNewCircle`). A graph along whose edges a number
grows has generations, hence no circle (`GrowingIsAcyclic`). The generations of
the author's plan are such numbers for the result, with merged steps, for which
nobody waits, after all others.

**PlanCache**, for any number of requests, plans and sizes. `Good` says of one
instance that its order of use holds each entry once and the indexes exactly
the entries; `EvictAllIsGood`, `MakeRoomIsGood`, `PutIsGood` and `GetIsGood`
show that the operations keep it. The loop that evicts the oldest until the
rest is small enough is written in closed form in the model (`Shrink`: the
fewest of the oldest), as is removing hashes from the order (`Without`: the
places that stay, by rank; `EveryRank`). `CacheInv` adds what the threads need:
an instance that a request holds exists (`GivenInv`), and at most one instance
per request and one by the event loop are ever made (`MakersInv`), so that
`global` and `optimizer` always name one. Theorems `CacheTypes`,
`IndexesCorrect`, `LimitsCorrect`, `RemovedCorrect`.

**RateLimiter**, for any burst, rate and clock, one that goes back included.
`Tight`: in every stretch of requests that ends now, what was allowed and what
is in the bucket are together at most the burst and what was earned; in some
stretch they are at least that. The first half bounds what may be allowed, the
second shows that a refusal was due (`AllowsWhatIsEarned`).

**LoadBalancer**, for any weights, lists and sequence of calls.

- `EverybodyHasATurn`. While a list stays, the cursor is as far from the
  instance of the first turn as there were turns since (`RobinInv`), wherever
  other services left it. By connections, an instance of a list that was not
  remembered has one connection if it had its turn and none if not (`IdleInv`),
  and as long as the round lasts somebody had none (`SomebodyHadNoTurn`).
- `EverybodyHasHisShare`. Sums are functions from finite sets that grow by the
  term that is added (`Measure`); the code's fold over the list and the
  property's sum over the set are both such (`TotalIsMeasure`,
  `WeightsIsMeasure`). The current weights of a service add up to 0 while its
  list stays, to no less than 0 over all instances it ever had otherwise
  (`Balanced`): who is taken pays what all were given. Hence the heaviest is
  below 0 only if an instance left with the rest of the sum (`Excused`). While
  the list stays, a current weight is what the instance was due less what its
  turns cost, and above minus the sum of the weights (`Owed`); after as many
  turns as that sum it is a multiple of it, hence 0 (`FirstRound`). Every later
  stretch follows from the one before (`RoundsRepeat`): at a call everybody is
  due what he was due a round earlier, so the same instance is taken. A call
  for another service changes none of this (`ElsewhereKeeps`), which is where
  `ServicesAssumption` is used.

**Gateway.** `GatewayTypes`: whatever lookups overlap with clearings, Redis
failures and restarts, the caches hold lists and statuses only. It is not a
property of a run: what matters of the caches is liveness.

**Induction.** The library's induction theorems cannot be instantiated, since
they take a predicate. What takes their place is `LeastNatural`, from the well
foundedness of the naturals: a claim about every number is proved by looking at
the least number it fails for. `FiniteSets` does the same for finite sets.

Also proved, and not repeated as properties of a run because the others are
sharper: `HistoryInvariant` and `RecordedUsersWereAsked` of Approvals,
`AlwaysRecoverable` of CircuitBreaker, `DeadLetteredOnce` of EventDelivery,
`WritesBeforeThreshold` of HealthManager, `NoReplayIsCounted` of TokenService,
and the type invariants of the other modules that have proofs.

**Checked by TLC only.** Every invariant and every safety property of a step
that a run checks is proved, and so is the refinement. What is left is liveness
under fairness, which is beyond the prover, as ENABLED is:
`OpenIsTriedAgain`, `HealthyBackendIsServed`, `EventuallyAccounted`,
`UpIsNoticed`, `HealthyIsMonitored`, `RequestsEnd`, `HealthyIsListed`,
`UnhealthyIsAvoided`.

## 5. Where code and documents disagree

With a run and a counterexample (`PROJECT.json` quotes the lines):

1. `gated_payment`: the gated engine runs the plan, and so makes the payment,
   before it opens the approval (`mcp_execution.py:93` against the comment in
   line 134). A payment whose approval is rejected or expires has been made.
   What does hold is that its receipt tells a verdict the approval has held
   (`ReceiptsTellTheDecision`).
2. `approvals_expiry`: `IMPLEMENTATION_SUMMARY.md:34` lists automatic
   expiration. A row is swept only by a call of
   `POST /v1/admin/approvals/cleanup`, and nothing in the repository makes one.
   An overdue row stays pending for ever although every request is served.

Observed while modelling, without a run of their own. The properties of the
passing runs hold in spite of these; where a property makes an exception, it is
one of them.

*Approvals.* A reject committed between the SELECT and the UPDATE of an approve
is overwritten, so a row goes `rejected` to `approved`, which the lifecycle of
`IMPLEMENTATION_SUMMARY.md:14` does not have. The stale second write of an
approver who submits twice drops a later approver from `approved_by`, and
`approval.granted` names one of two required approvers; the grant itself is
justified (`ApprovedHasQuorum`). These rows are the overlapped ones of
`ApprovalContract`. The orchestrator may have acted on the first verdict by
then: its receipt tells what it read, not what the row ends up with.

*Orchestrator.* The answers that make a repeated request harmless are in the
memory of one process. `JUDGE_MODE.md:109` of the service promises idempotency
without that limit; after a restart, or at another process, the same payment is
made again. `OnePaymentPerLife` and `AnswersAreStable` speak of one process
between two restarts.

*Circuit breaker.* Closing does not clear the window, so the success that
completes `success_threshold` may close the circuit and open it again in the
same call (`circuit_breaker.py:355`, `:361`). It heals: each such round pushes
failures out of the window (`HealthyBackendIsServed`). `recovery_timeout`
counts from the start of the failed call, so a circuit may be tried up to one
call timeout early: the slack in `StaysOpenLongEnough`.

*Event bus.* A crash in the last delivery leaves an event that is neither
handled nor dead-lettered; a dead letter the stream refuses is acknowledged all
the same. Both are the exceptions of `LossNeedsAFault`.

*Registry and health manager.* The loop reads `old_status` after the check has
changed it (`health_manager.py:542`), so the first failed check is written
whatever the threshold, nothing is written from the threshold on, and a lost
update is never repeated. What makes up for it is the report of the instance
itself (`UpIsNoticed`, which does not say that nothing is lost meanwhile). An
update that read the entry of an instance before it was deregistered writes it
again with a new lease (`service_registry.py:344`); `GoneStaysGone` excepts the
writers that are on their way. A running instance whose lease has lapsed stays
out of the registry until it restarts (`GoneStaysGone`). The registry's cache
of entries only grows (`service_registry.py:133`, `:481`): with lookups less
than ten seconds apart an instance that is gone is offered for ever, which is
why `UnhealthyIsAvoided` speaks of unhealthy instances.

*Gateway.* A Redis error makes an empty list that is cached for up to 30
seconds. KEYS and MGET are two calls, so during a rolling replacement the list
may be empty although some instance was healthy at every moment. One balancer
serves all services: the shared cursor may starve an instance when services
alternate, and asking for one service drops the records of the others. The
weighted strategy returns nobody once the instances that hold the positive
weight are gone. The gateway passes the balancer no context, so the hash
strategy always picks the same instance. Token buckets are never evicted.
`TurnsAreFair` and `WeightsAreShares` are about lists that stay.

*Token service.* An invalid or replayed token is answered with status 500 (the
route reads `payload`, which a refusal does not have). Verifying a token for
another tenant, or when a statement fails, uses it up. Audit rows of failures
name a random token and violate a foreign key; the clean-up of expired tokens
that have audit rows fails for the same key. A token is unknown to any process
but the one that signed it. The clean-up jobs take UTC for local time
(`database_services.py:116`, `:309`): west of UTC they delete the records of
tokens that are still valid, by the difference, east of it they keep them that
much longer (`RecordsOutliveTokens`).

*Plan cache.* Two threads may make two caches, and the optimizer keeps the one
it was made with. The compiler looks plans up under a key it never stores under
(`compiler.py:77`). The optimizer stores plans that are not to be cached or not
valid. Refreshing a plan in a full cache evicts another one. The limit on bytes
is tested before the new plan is added (`cache_service.py:139`), so a plan of
any size gets in, and a plan stored again without a tag stays in the index of
the tag. The route that
invalidates a tenant is shadowed by the one that invalidates a plan.

*Plan optimizer.* Two actions of one tool are merged although nobody has looked
whether they are compatible, as the comment has it (`optimizer.py:313`): the
second is never done, and its parameters are handed to the first (`:349`). A
dropped duplicate takes its own dependencies and outputs with it. Dropped and
merged steps leave dependencies on identifiers that are gone, so that a valid
plan is refused after optimization. A list in an input or a number of
iterations that is no number makes the analyzer raise
(`dependency_analyzer.py:214`, `:641`), and a plan that is valid without the
analysis is refused. `RejectedForAReason` states that these are the only
causes. Merging a third step into two does not look whether it depends on the
second. At the aggressive level the order of the list may contradict the
dependencies, which `OrderKept` excepts. A concurrency of 0 is accepted.

*Capsule registry.* A repeated create is answered with the latest version, not
its own; a repeat at the version limit is refused before its stored answer is
looked up (`service.py:154`). The ETag is compared with the row as loaded and
not in the UPDATE (`repo.py:281`), so restoring may answer "active" for a row
that has been deleted meanwhile. The "final audit log" of a deletion is deleted
with the capsule (`repo.py:325`). The migration disagrees with `models.py`. An
id may be used again after a deletion for good: a publish in flight meanwhile
numbers its version after the capsule it had loaded, so that the new one gets a
gap or a content twice, and a publish repeated with its old key is answered
with the version another capsule has under the number.

## 6. What is not modelled

Most of the repository's lines are outside of the models: by lines the mapped
definitions cover a small part of it. The rest is of five kinds.

*Code that cannot run.* `OrchestratorService` cannot be constructed (its
monitor is not imported, and the Portia client in use lacks `create_run`).
Loading a workflow instance in the approvals' workflow engine is a stub, so it
advances nothing. The `captokens` services package is used by a CLI whose
commands fail before they reach it, and the route that checks a capability
fails on every call. `main.py` of the capsule registry cannot build its
service; the service is modelled as its class is written, since its tests build
it.

*Code that is there twice or more.* `services/registry` repeats the capsule
registry; the token service has a first version (`app.py`) beside the one with
a database (`app_production.py`, modelled); `workflow_routes_broken.py` and
`archive/` keep superseded code.

*Code without state.* HTTP routes that forward a call, request and response
types, formatting, configuration, metrics and statistics, logging, CLI output.

*Functions around libraries.* Signing, hashing, key handling, OIDC, JSON
canonicalisation and redaction are as correct as the libraries they call.

*Candidates left for later* (section 7): GhostRun, retention of audit records,
policy evaluation.

Within the modelled components, the following is left out.

- Approvals: notifications and reminders (best effort, no effect on rows),
  texts and metadata.
- Breaker: listeners and reported counters.
- Event bus: `replay_events` and `get_dead_letters` (they read without calling
  a handler), the tracking of events in Redis (its failures are swallowed).
- Registry: statuses other than healthy and unhealthy, tenants, filters by
  name, tag and capability, registrations over HTTP (which start as STARTING),
  event streams, statistics, `stop()` of the manager. The three kinds of health
  probe are reduced to their outcome: a health callback that changes its mind
  is any flip of `well`, network trouble any flip of `reachable`, and a check
  may fail although the instance answers. A checker that is cancelled while its
  write is on its way either loses the write or has it take effect at that
  moment, not later.
- Gateway: matching of routes, paths and headers, API keys, the proxied call
  (its breaker is `CircuitBreaker`). Recording results, removal of unhealthy
  instances, change of strategy and reset of the balancer have no caller.
- Orchestrator: status and control routes (they forward one call), the webhook
  and the poller, which change no state.
- Token service: revocation and listing (no verification reads the rows).
- Plan cache: counters, job records, listing and validation (they read a
  dictionary nobody fills), shutdown.
- Plan optimizer: several flows of one plan, costs and amounts, hints in the
  metadata, checks of versions, resources and policies, the resolver, which
  answers from mock data; an author who names a step like a merged one.
- Capsule registry: listing, lint, permissions, signatures, two workers writing
  the same temporary file.

`PROJECT.json` lists every component with its status and reason.

## 7. Plan

The order was chosen by shared mutable state: first the objects on which
concurrent actors meet, then algorithms with several passes.

Written: `Approvals` with `ApprovalContract`, `CircuitBreaker`,
`EventDelivery`, `HealthManager`, `PlanExecution`, `TokenService`, `PlanCache`,
`PlanOptimizer`, `CapsuleRegistry`, `Gateway` with `LoadBalancer` and
`RateLimiter`. Proved: every safety property of a run (section 4).

Next:

1. `Simulation` (ghostrun): a cancelled run that its background task completes
   afterwards, and publishes.
2. `Retention` (audit): the legal hold is read before the deletion, and as many
   events are deleted as were exported, whichever they were.
3. An abstract specification of a lookup through both caches of the gateway,
   and the proof that `Gateway` implements it.
4. `Workflow` (approvals) once the engine loads its instances.
