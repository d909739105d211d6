---------------------------- MODULE LoadBalancer ----------------------------
(***************************************************************************)
(* The load balancer of the API gateway (load_balancer.py of the           *)
(* integration service).  One balancer serves all services: it remembers   *)
(* the instances of the list it was last given and forgets the others.     *)
(* Three balancers, one of each strategy, are given the same lists.        *)
(*                                                                         *)
(* Nobody reports how a request ended (record_request_result has no        *)
(* caller), so every health score stays 1.0 and connections only grow.     *)
(***************************************************************************)
EXTENDS Integers, SequencesExt

CONSTANTS
    Weight,      \* metadata["weight"] of each instance, 1 where there is none
    ListsOf,     \* the lists of instances each service is looked up with
    Nobody,      \* None
    MaxTurns     \* bound: calls of select

\* The gateway has an instance once in a list, and asks for no empty one
ASSUME ListsAssumption ==
    \A service \in DOMAIN ListsOf : \A list \in ListsOf[service] :
        list \in Seq(ToSet(list)) \ {<<>>} /\ IsInjective(list) /\ Nobody \notin ToSet(list)

\* What the metadata says is taken as it is: a weight below 0 is nobody's share
ASSUME WeightAssumption ==
    \A service \in DOMAIN ListsOf : \A list \in ListsOf[service] :
        \A i \in ToSet(list) : Weight[i] \in Nat

\* Discovery clients draw their identifiers at random, whatever the service
ASSUME ServicesAssumption ==
    \A service, other \in DOMAIN ListsOf : service # other =>
        \A list \in ListsOf[service], second \in ListsOf[other] :
            ToSet(list) \cap ToSet(second) = {}

Strategies == {"round_robin", "least_connections", "weighted_round_robin"}

VARIABLES
    balancers,   \* per strategy, the balancer and what its strategy remembers
    lists,       \* history: the lists of instances given, one after the other
    picks        \* history: per strategy, who was selected from each

balancing == <<balancers, lists, picks>>

New == [records |-> [i \in {} |-> 0], cursor |-> 0, current |-> [i \in {} |-> 0]]

\* update_instances
Updated(b, list) ==
    [b EXCEPT !.records =
        [i \in ToSet(list) |->
            IF i \in DOMAIN b.records
            THEN b.records[i]
            ELSE [weight |-> Weight[i], connections |-> 0]]]

\* min and the search for the highest weight take the first of equals
FirstOf(list, candidates) == list[Min({n \in DOMAIN list : list[n] \in candidates})]

\* Mutant: the cursor is not brought back into the list
MutRoundRobin(b, list) ==
    [pick |-> list[IF b.cursor < Len(list) THEN b.cursor + 1 ELSE 1],
     balancer |-> [b EXCEPT !.cursor = b.cursor + 1]]

RoundRobin(b, list) ==
    [pick |-> list[(b.cursor % Len(list)) + 1],
     balancer |-> [b EXCEPT !.cursor = (b.cursor + 1) % Len(list)]]

LeastConnections(b, list) ==
    LET idlest == {i \in ToSet(list) : \A j \in ToSet(list) :
                      b.records[i].connections <= b.records[j].connections}
    IN  [pick |-> FirstOf(list, idlest), balancer |-> b]

Current(b, i) == IF i \in DOMAIN b.current THEN b.current[i] ELSE 0

\* current_weights after every instance of the list got its weight
Raised(b, list) ==
    [i \in DOMAIN b.current \cup ToSet(list) |->
        Current(b, i) + IF i \in ToSet(list) THEN b.records[i].weight ELSE 0]

Heaviest(raised, list) == {i \in ToSet(list) : \A j \in ToSet(list) : raised[i] >= raised[j]}

TotalWeight(b, list) == FoldLeft(LAMBDA sum, i : sum + b.records[i].weight, 0, list)

\* Mutant: the winner starts again from 0
MutWeightedRoundRobin(b, list) ==
    LET raised == Raised(b, list)
        best == FirstOf(list, Heaviest(raised, list))
    IN  IF raised[best] > -1
        THEN [pick |-> best,
              balancer |-> [b EXCEPT !.current = [raised EXCEPT ![best] = 0]]]
        ELSE [pick |-> Nobody, balancer |-> [b EXCEPT !.current = raised]]

\* The search for the highest weight starts from -1: if none is above, nobody
\* is selected
WeightedRoundRobin(b, list) ==
    LET raised == Raised(b, list)
        best == FirstOf(list, Heaviest(raised, list))
    IN  IF raised[best] > -1
        THEN [pick |-> best,
              balancer |-> [b EXCEPT !.current = [raised EXCEPT ![best] = @ - TotalWeight(b, list)]]]
        ELSE [pick |-> Nobody, balancer |-> [b EXCEPT !.current = raised]]

\* Random, IP hash and health-aware selection are left out: they take any
\* instance of the list
Chosen(strategy, b, list) ==
    CASE strategy = "round_robin" -> RoundRobin(b, list)
      [] strategy = "least_connections" -> LeastConnections(b, list)
      [] strategy = "weighted_round_robin" -> WeightedRoundRobin(b, list)

Select(strategy, b, list) ==
    LET chosen == Chosen(strategy, Updated(b, list), list)
    IN  IF chosen.pick = Nobody
        THEN chosen
        ELSE [chosen EXCEPT !.balancer.records[chosen.pick].connections = @ + 1]

BalancerInit ==
    /\ balancers = [strategy \in Strategies |-> New]
    /\ lists = <<>>
    /\ picks = [strategy \in Strategies |-> <<>>]

\* The gateway has a list of instances of some service and asks whom to take
Turn(list) ==
    LET chosen == [strategy \in Strategies |-> Select(strategy, balancers[strategy], list)]
    IN  /\ Len(lists) < MaxTurns
        /\ balancers' = [strategy \in Strategies |-> chosen[strategy].balancer]
        /\ lists' = Append(lists, list)
        /\ picks' = [strategy \in Strategies |-> Append(picks[strategy], chosen[strategy].pick)]

\* The process of the gateway starts again
BalancerRestart ==
    /\ balancers' = [strategy \in Strategies |-> New]
    /\ lists' = <<>>
    /\ picks' = [strategy \in Strategies |-> <<>>]

BalancerNext == \E service \in DOMAIN ListsOf : \E list \in ListsOf[service] : Turn(list)

BalancerSpec == BalancerInit /\ [][BalancerNext \/ BalancerRestart]_balancing

-----------------------------------------------------------------------------
Unchanged(m, n) == \A k \in m..n : lists[k] = lists[m]

\* Nothing is remembered of the instances of the n-th list
Forgotten(n) == n = 1 \/ ToSet(lists[n - 1]) \cap ToSet(lists[n]) = {}

\* As long as the balancer is given one list, nobody has a second turn before
\* all had one: with round robin wherever the cursor was left by the lists of
\* other services, by connections if none were remembered.
TurnsAreFair ==
    \A m, n \in DOMAIN lists : m < n /\ n - m < Len(lists[m]) /\ Unchanged(m, n) =>
        /\ picks["round_robin"][m] # picks["round_robin"][n]
        /\ Forgotten(m) => picks["least_connections"][m] # picks["least_connections"][n]

\* The calls for a service, and whether they all had the same list
CallsFor(service) == {n \in DOMAIN lists : lists[n] \in ListsOf[service]}

Steady(service) == \A m, n \in CallsFor(service) : lists[m] = lists[n]

\* The calls for the service from the m-th to the n-th
Stretch(service, m, n) == CallsFor(service) \cap (m..n)

Left(service, n) ==
    \E m \in CallsFor(service) : m < n /\ ~(ToSet(lists[m]) \subseteq ToSet(lists[n]))

Weights(instances) == MapThenSumSet(LAMBDA i : Weight[i], instances)

\* Weighted turns are shares: of as many requests for a service as its
\* instances weigh together each gets as many as it weighs, whatever other
\* services are asked for meanwhile.  Nobody is selected from a list of
\* instances only after another instance of the service has left.
WeightsAreShares ==
    \A service \in DOMAIN ListsOf : \A m, n \in CallsFor(service) :
        LET turns == Stretch(service, m, n)
            taken(i) == {k \in turns : picks["weighted_round_robin"][k] = i}
        IN  /\ picks["weighted_round_robin"][n] = Nobody => Left(service, n)
            /\ Steady(service)
               /\ Cardinality(turns) = Weights(ToSet(lists[n]))
               => \A i \in ToSet(lists[n]) : Cardinality(taken(i)) = Weight[i]
=============================================================================
