----------------------------- MODULE MCGateway -----------------------------
\* The API gateway for TLC: the discovery of instances, the load balancer and
\* the rate limiter of one process.  They share no state but the process, so
\* only one of them moves between two starts of it.
EXTENDS Gateway, LoadBalancer, RateLimiter

CONSTANTS a1, a2, b1, orders, plans

MCServiceOf == (a1 :> orders) @@ (a2 :> orders) @@ (b1 :> plans)

MCWeight == (a1 :> 1) @@ (a2 :> 2) @@ (b1 :> 1)

MCListsOf == (orders :> {<<a1, a2>>, <<a2, a1>>, <<a1>>, <<a2>>}) @@ (plans :> {<<b1>>})

MCClock == 0..5

Started == GatewayInit /\ \A i \in Instances : entry[i] = "healthy"

MCInit == GatewayInit /\ BalancerInit /\ LimiterInit

MCNext ==
    \/ GatewayNext /\ BalancerInit /\ LimiterInit /\ UNCHANGED <<balancing, limiting>>
    \/ Started /\ BalancerNext /\ LimiterInit /\ UNCHANGED <<finding, limiting>>
    \/ Started /\ LimiterNext /\ BalancerInit /\ UNCHANGED <<finding, balancing>>
    \/ Restart /\ ~(BalancerInit /\ LimiterInit) /\ BalancerRestart /\ LimiterRestart

MCSpec == MCInit /\ [][MCNext]_<<finding, balancing, limiting>> /\ Fairness
=============================================================================
