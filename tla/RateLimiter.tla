---------------------------- MODULE RateLimiter ----------------------------
(***************************************************************************)
(* The token bucket of one client of the API gateway (class RateLimiter in *)
(* api_gateway.py of the integration service).  A bucket is refilled when  *)
(* a request asks for a token, from the wall clock, which may go back.     *)
(*                                                                         *)
(* Time and contents are counted in ticks: a token takes Cost ticks to     *)
(* earn, so that a bucket may hold a part of one.  The code counts in      *)
(* floating point numbers: what they round is left out.                    *)
(***************************************************************************)
EXTENDS Integers, FiniteSets, SequencesExt

CONSTANTS
    Burst,     \* burst_capacity
    Cost,      \* ticks per token: 60 / requests_per_minute
    Clock,     \* readings of the wall clock
    MaxAsked   \* bound: requests of the client

ASSUME BucketAssumption == Burst \in Nat /\ Cost \in Nat \ {0} /\ Clock \subseteq Int

VARIABLES
    bucket,    \* client_buckets of the client, empty before its first request
    times,     \* history: when each request came, by the clock
    answers    \* history: whether it was allowed

limiting == <<bucket, times, answers>>

Capacity == Burst * Cost

\* The client is new at its first request
FullBucket(now) == [tokens |-> Capacity, refilled |-> now]

\* Mutant: the capacity is forgotten
MutRefill(b, now) ==
    [tokens |-> b.tokens + (now - b.refilled), refilled |-> now]

Refill(b, now) ==
    [tokens |-> Min({Capacity, b.tokens + (now - b.refilled)}), refilled |-> now]

LimiterInit == bucket = <<>> /\ times = <<>> /\ answers = <<>>

\* A request of the client at this reading of the clock
Ask(now) ==
    LET full == Refill(IF times = <<>> THEN FullBucket(now) ELSE bucket, now)
        allowed == full.tokens >= Cost
    IN  /\ Len(times) < MaxAsked
        /\ bucket' = IF allowed THEN [full EXCEPT !.tokens = @ - Cost] ELSE full
        /\ times' = Append(times, now)
        /\ answers' = Append(answers, allowed)

\* The process of the gateway starts again
LimiterRestart == bucket' = <<>> /\ times' = <<>> /\ answers' = <<>>

LimiterNext == \E now \in Clock : Ask(now)

LimiterSpec == LimiterInit /\ [][LimiterNext \/ LimiterRestart]_limiting

-----------------------------------------------------------------------------
\* Allowed requests from the m-th to the n-th
Allowed(m, n) == Cardinality({k \in m..n : answers[k]})

Fits(count, m, n) == count * Cost <= Capacity + (times[n] - times[m])

\* In no stretch of time is a client allowed more than the burst and what the
\* rate earns meanwhile, and a request is refused only if it would exceed that
\* in some stretch, even where the clock went back.
RateIsExact ==
    \A n \in DOMAIN times :
        IF answers[n]
        THEN \A m \in 1..n : Fits(Allowed(m, n), m, n)
        ELSE \E m \in 1..n : ~Fits(Allowed(m, n) + 1, m, n)
=============================================================================
