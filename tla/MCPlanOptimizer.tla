-------------------------- MODULE MCPlanOptimizer --------------------------
EXTENDS PlanOptimizer

CONSTANTS key, other

MCValues == {key, other, Structure}

E(name, value) == [name |-> name, value |-> value]

K(type, tool, action, params, retry) ==
    [type |-> type, tool |-> tool, action |-> action, params |-> params, retry |-> retry]

\* Actions of the exclusive tool that can be merged, with parameters of one
\* name, and one that cannot, though it looks like one of them, and two long
\* steps that are worth running together
MCKinds == {K("action", "database", "read", {E("table", key)}, FALSE),
            K("action", "database", "write", {E("table", other)}, FALSE),
            K("action", "database", "write", {E("table", other)}, TRUE),
            K("action", "http", "call", {}, FALSE), K("parallel", "", "fork", {}, FALSE)}

\* A loop over a list of things
Endless == K("loop", "http", "poll", {E("iterations", Structure)}, FALSE)

\* The second step may be a loop over a list
PlanOf(n, kind, r) ==
    LET k2 == IF r.loop THEN [kind EXCEPT ![2] = Endless] ELSE kind
    IN  [k \in 1..n |-> [id |-> {k}, kind |-> k2[k], deps |-> r.deps[k],
                         reads |-> IF r.to = k THEN {E("in", r.source)} ELSE {},
                         writes |-> IF r.from = k THEN {key} ELSE {}, group |-> 0]]

Depends == {d \in [1..3 -> SUBSET {{1}, {2}, {3}}] : \A k \in 1..3 : {k} \notin d[k]}

\* No steps wait for each other in a circle
Ordered == {d \in Depends : \E rank \in [1..3 -> 1..3] :
               \A k, m \in 1..3 : {m} \in d[k] => rank[m] < rank[k]}

Circles == {d \in Depends : \A k \in 1..3 : Cardinality(d[k]) <= 1} \ Ordered

Few == {[k \in 1..3 |-> {}], [k \in 1..3 |-> IF k = 1 THEN {} ELSE {{k - 1}}]}

\* One step writes the data that another reads
R(deps, from, to) ==
    [deps: deps, from: {from}, to: {to}, source: {key}, loop: {FALSE}]

\* A list where the name of data or a number is needed
Stumbling == [deps: Few, from: {2}, to: {1}, source: {Structure}, loop: {FALSE}]
             \cup [deps: Few, from: {0, 1}, to: {3}, source: {key}, loop: {TRUE}]

\* Nobody writes what is read, or one step does.  Steps that wait for each other
\* in a circle are refused whatever data they exchange
Relations == R(Ordered \cup Circles, 0, 0) \cup R(Ordered, 1, 3) \cup R(Ordered, 3, 1)
             \cup R(Few, 2, 3) \cup Stumbling

MCPlans == {PlanOf(n, kind, r) : n \in {0, 3}, kind \in [1..3 -> MCKinds], r \in Relations}
=============================================================================
