--------------------------- MODULE PlanOptimizer ---------------------------
(***************************************************************************)
(* One compilation of a plan, from the steps its author wrote to the       *)
(* verdict of the validator (services/plan-compiler: compiler.py,          *)
(* optimizer.py, dependency_analyzer.py, validator.py).                    *)
(*                                                                         *)
(* The optimizer drops steps it takes for duplicates, merges neighbours    *)
(* that use one tool, declares a flow parallel, moves the longest path to  *)
(* the front and marks the steps of a generation as one parallel group,    *)
(* the last three from an analysis of the plan as it was before the first  *)
(* two.  The validator then sees the result and not the original.          *)
(*                                                                         *)
(* A plan is one flow whose steps have identifiers that sort like their    *)
(* positions.  A step's identifier is the set of the original positions    *)
(* it stands for ("a_merged_b" is {1, 2}).  Times are in half seconds.     *)
(***************************************************************************)
EXTENDS Sequences, FiniteSetsExt, Functions

CONSTANTS
    Plans,     \* flows as their authors wrote them
    Keys,      \* names under which steps exchange data
    Values,    \* what an entry of a mapping holds, Keys among it
    Structure, \* a value that is neither a name nor a number: a list or a mapping
    NoLimit    \* the max_concurrency None of a flow nobody has optimized

Levels == {"none", "basic", "standard", "aggressive"}

StepTypes == {"action", "condition", "loop", "parallel", "transform", "sequence"}

\* The parameters and the inputs of a step are mappings
Mapping == SUBSET [name: STRING, value: Values]

\* What a step does
Kind == [type: StepTypes, tool: STRING, action: STRING, params: Mapping, retry: BOOLEAN]

\* An input names the data it is taken from
Step == [id: SUBSET Nat, kind: Kind, deps: SUBSET SUBSET Nat,
         reads: Mapping, writes: SUBSET Keys, group: Nat]

ASSUME ValueAssumption == Keys \cup {Structure} \subseteq Values /\ Structure \notin Keys
ASSUME LimitAssumption == NoLimit \notin Nat
ASSUME PlanAssumption ==
    \A p \in Plans : /\ p \in Seq(Step)
                     /\ \A n \in DOMAIN p : /\ p[n].id = {n} /\ p[n].group = 0
                                            /\ \A d \in p[n].deps : \E m \in d : d = {m}

VARIABLES
    input,      \* the flow the compiler made of the capsule
    level,      \* optimization_level of the request
    pc,         \* the phase of the compilation, then its outcome
    i,          \* the step the phase has come to
    kept,       \* optimized_steps: the input without duplicates
    steps,      \* the steps of the flow as it is now
    layer,      \* the analysis: the topological generation of each step
    parallel,   \* parallel_execution of the flow
    limit       \* its max_concurrency

vars == <<input, level, pc, i, kept, steps, layer, parallel, limit>>

-----------------------------------------------------------------------------
\* Graphs of steps

Ids(s) == {s[n].id : n \in DOMAIN s}

\* depends_on, as far as it names steps of the flow
Dependencies(s) == {e \in Ids(s) \X Ids(s) :
                       \E n \in DOMAIN s : s[n].id = e[2] /\ e[1] \in s[n].deps}

Writers(s, k) == {n \in DOMAIN s : k \in s[n].writes}

\* Of several steps that write a key the last one counts
DataFlow(s) ==
    {e \in Ids(s) \X Ids(s) :
        /\ e[1] # e[2]
        /\ \E k \in Keys, n \in DOMAIN s :
             /\ \E x \in s[n].reads : x.value = k
             /\ e[2] = s[n].id
             /\ Writers(s, k) # {} /\ e[1] = s[Max(Writers(s, k))].id}

Exclusive == {"database", "file_system", "network"}

\* Neighbours in the order of the identifiers of the users of an exclusive tool
ResourceOrder(s) ==
    {e \in Ids(s) \X Ids(s) :
        \E m, n \in DOMAIN s :
            /\ m < n /\ e = <<s[m].id, s[n].id>>
            /\ s[m].kind.tool \in Exclusive /\ s[n].kind.tool = s[m].kind.tool
            /\ \A l \in DOMAIN s : m < l /\ l < n => s[l].kind.tool # s[m].kind.tool}

ExplicitGraph(s) == [node |-> Ids(s), edge |-> Dependencies(s)]

\* Mutant: data that steps exchange do not order them
MutAnalysisGraph(s) == [node |-> Ids(s), edge |-> Dependencies(s) \cup ResourceOrder(s)]

AnalysisGraph(s) ==
    [node |-> Ids(s), edge |-> Dependencies(s) \cup DataFlow(s) \cup ResourceOrder(s)]

\* topological_generations: a node comes right after the last of its
\* predecessors.  There is one such numbering, and none of a cyclic graph
Generations(g) ==
    {f \in [g.node -> 1..Cardinality(g.node)] :
        \A v \in g.node :
            /\ \A e \in g.edge : e[2] = v => f[e[1]] < f[v]
            /\ f[v] = 1 \/ (\E e \in g.edge : e[2] = v /\ f[v] = f[e[1]] + 1)}

Cyclic(g) == Generations(g) = {}

Unknown == [v \in {} |-> 1]

Depth(f) == Cardinality({f[v] : v \in DOMAIN f})

Generation(f, k) == {v \in DOMAIN f : f[v] = k}

\* dag_longest_path reads its weight from the edges, which carry none of that
\* name: it returns a path with the most edges, of several any one
LongestPaths(g, f) ==
    {p \in [1..Depth(f) -> DOMAIN f] :
        /\ \A k \in 1..Depth(f) : f[p[k]] = k
        /\ \A k \in 1..(Depth(f) - 1) : <<p[k], p[k + 1]>> \in g.edge}

\* The numbers of the generations with several steps
Opportunities(f) == {k \in 1..Depth(f) : Cardinality(Generation(f, k)) > 1}

-----------------------------------------------------------------------------
\* The analysis of a generation

ActionTime(tool) == CASE tool = "database" -> 5
                      [] tool = "http" -> 20
                      [] tool = "compute" -> 30
                      [] OTHER -> 10

\* A loop counts ten iterations: no plan gives another number
Time(k) == CASE k.type = "action" -> ActionTime(k.tool)
             [] k.type = "condition" -> 2
             [] k.type = "loop" -> 100
             [] k.type = "parallel" -> 20
             [] k.type = "transform" -> 6
             [] OTHER -> 10

KindOf(s, v) == s[CHOOSE n \in DOMAIN s : s[n].id = v].kind

TotalTime(s, g) == MapThenSumSet(LAMBDA v : Time(KindOf(s, v)), g)

LongestTime(s, g) == Max({Time(KindOf(s, v)) : v \in g})

\* An estimated speed-up above 1.5
Worthwhile(s, g) == 2 * TotalTime(s, g) > 3 * LongestTime(s, g)

Conflict(s, g) ==
    \E v, w \in g : /\ v # w /\ KindOf(s, v).tool = KindOf(s, w).tool
                    /\ KindOf(s, v).tool \in {"database", "file_system"}

\* A loop whose iterations cannot be multiplied
Unmeasured(k) == k.type = "loop" /\ \E x \in k.params : x.name = "iterations" /\ x.value = Structure

\* The analyzer stumbles: it looks the value of every input up in a dict
Unreadable(s) == \E n \in DOMAIN s : \/ Unmeasured(s[n].kind)
                                     \/ \E x \in s[n].reads : x.value = Structure

\* The generations whose steps become a parallel group
Marked(s, f) == {k \in Opportunities(f) : /\ Worthwhile(s, Generation(f, k))
                                          /\ ~Conflict(s, Generation(f, k))}

Group(s, f, v) == IF v \in DOMAIN f /\ f[v] \in Marked(s, f) THEN f[v] ELSE 0

-----------------------------------------------------------------------------
\* Rewriting

\* Neither the data a step exchanges nor its dependencies are part of it
Signature(k) == <<k.type, k.tool, k.action, k.params>>

\* {**first, **second}
Overlay(first, second) ==
    second \cup {x \in first : \A y \in second : y.name # x.name}

\* The comment asks for compatible actions: the actions are not looked at
CanMerge(s, t) == /\ s.kind.tool = t.kind.tool
                  /\ s.id \notin t.deps
                  /\ s.kind.retry = t.kind.retry
                  /\ s.kind.type = "action" /\ t.kind.type = "action"

\* Mutant: the dependencies of the second step are forgotten
MutMerged(s, t) ==
    [id |-> s.id \cup t.id,
     kind |-> [s.kind EXCEPT !.params = Overlay(s.kind.params, t.kind.params)],
     deps |-> s.deps, reads |-> Overlay(s.reads, t.reads),
     writes |-> s.writes \cup t.writes, group |-> 0]

\* The action of the second step is lost, and of parameters and inputs of one
\* name those of the first
Merged(s, t) ==
    [id |-> s.id \cup t.id,
     kind |-> [s.kind EXCEPT !.params = Overlay(s.kind.params, t.kind.params)],
     deps |-> s.deps \cup t.deps, reads |-> Overlay(s.reads, t.reads),
     writes |-> s.writes \cup t.writes, group |-> 0]

\* The positions in s, those on the path first, each part in its former order
FrontFirst(s, path) ==
    {o \in Bijection(DOMAIN s, DOMAIN s) :
        \A m, n \in DOMAIN s : m < n =>
            LET a == s[o[m]].id \in path
                b == s[o[n]].id \in path
            IN  (b => a) /\ (a = b => o[m] < o[n])}

-----------------------------------------------------------------------------
\* The validator

AllowedTools == {"http", "api", "database", "sql", "file", "compute", "transform",
                 "notification", "email", "slack", "webhook", "schedule", "timer",
                 "validator", "fraud_detector", "payment_gateway"}

ValidStep(s) == /\ s.kind.type \in StepTypes \ {"transform"}
                /\ s.kind.tool \in AllowedTools \cup {""}

Known(s) == \A n \in DOMAIN s : s[n].deps \subseteq Ids(s)

\* Mutant: users of a resource have to come in the order of their identifiers
MutValid(s) == /\ s # <<>>
               /\ \A n \in DOMAIN s : ValidStep(s[n])
               /\ Cardinality(Ids(s)) = Len(s)
               /\ Known(s)
               /\ ~Cyclic(AnalysisGraph(s))

\* An empty max_concurrency, and one of 0, are not looked at
Valid(s) == /\ s # <<>>
            /\ \A n \in DOMAIN s : ValidStep(s[n])
            /\ Cardinality(Ids(s)) = Len(s)
            /\ Known(s)
            /\ ~Cyclic(ExplicitGraph(s))

-----------------------------------------------------------------------------
TypeOK ==
    /\ input \in Seq(Step) /\ level \in Levels
    /\ pc \in {"begin", "dedup", "merge", "parallelize", "graph", "validate",
               "accepted", "rejected"}
    /\ i \in Nat \ {0}
    /\ kept \in Seq(Step) /\ steps \in Seq(Step)
    /\ \A v \in DOMAIN layer : layer[v] \in Nat
    /\ parallel \in BOOLEAN /\ limit \in Nat \cup {NoLimit}

Init ==
    /\ input \in Plans /\ level \in Levels
    /\ pc = "begin" /\ i = 1 /\ kept = <<>> /\ steps = <<>> /\ layer = Unknown
    /\ parallel = FALSE /\ limit = NoLimit

\* Level none: the plan goes to the validator as it is
Keep ==
    /\ pc = "begin" /\ level = "none"
    /\ steps' = input /\ pc' = "validate"
    /\ UNCHANGED <<input, level, i, kept, layer, parallel, limit>>

Analyzed == level \in {"standard", "aggressive"}

\* The TypeError of the analyzer ends the compilation
FailAnalysis ==
    /\ pc = "begin" /\ Analyzed /\ Unreadable(input)
    /\ pc' = "rejected"
    /\ UNCHANGED <<input, level, i, kept, steps, layer, parallel, limit>>

\* The analyzer swallows what networkx raises about a cycle
Analyze ==
    /\ pc = "begin" /\ level # "none" /\ ~(Analyzed /\ Unreadable(input))
    /\ IF ~Analyzed \/ Cyclic(AnalysisGraph(input))
       THEN layer' = Unknown
       ELSE layer' \in Generations(AnalysisGraph(input))
    /\ pc' = "dedup"
    /\ UNCHANGED <<input, level, i, kept, steps, parallel, limit>>

Seen(s) == \E n \in DOMAIN kept : Signature(kept[n].kind) = Signature(s.kind)

\* One turn of the loop over flow.steps
DropDuplicate ==
    /\ pc = "dedup" /\ i <= Len(input)
    /\ kept' = IF Seen(input[i]) THEN kept ELSE Append(kept, input[i])
    /\ i' = i + 1
    /\ UNCHANGED <<input, level, pc, steps, layer, parallel, limit>>

StartMerging ==
    /\ pc = "dedup" /\ i > Len(input)
    /\ pc' = "merge" /\ i' = 1
    /\ UNCHANGED <<input, level, kept, steps, layer, parallel, limit>>

MergesWithLast(s) == steps # <<>> /\ CanMerge(steps[Len(steps)], s)

\* Mutant: the merged step replaces nothing
MutMergeNext ==
    /\ pc = "merge" /\ i <= Len(kept)
    /\ steps' = IF MergesWithLast(kept[i])
                THEN Append(steps, Merged(steps[Len(steps)], kept[i]))
                ELSE Append(steps, kept[i])
    /\ i' = i + 1
    /\ UNCHANGED <<input, level, pc, kept, layer, parallel, limit>>

\* One turn of the loop of _merge_consecutive_steps
MergeNext ==
    /\ pc = "merge" /\ i <= Len(kept)
    /\ steps' = IF MergesWithLast(kept[i])
                THEN [steps EXCEPT ![Len(steps)] = Merged(steps[Len(steps)], kept[i])]
                ELSE Append(steps, kept[i])
    /\ i' = i + 1
    /\ UNCHANGED <<input, level, pc, kept, layer, parallel, limit>>

EndMerging ==
    /\ pc = "merge" /\ i > Len(kept)
    /\ pc' = IF level = "basic" THEN "validate" ELSE "parallelize"
    /\ UNCHANGED <<input, level, i, kept, steps, layer, parallel, limit>>

AtMost(bound, n) == IF n \in 0..bound THEN n ELSE bound

\* Mutant: every level but basic goes on to the graph optimizations
MutAfterParallelize == "graph"

AfterParallelize == IF level = "aggressive" THEN "graph" ELSE "validate"

\* The flow is parallel when it has several groups, not when a group has
\* several steps
ParallelizeByAnalysis ==
    /\ pc = "parallelize" /\ Opportunities(layer) # {}
    /\ parallel' = (Cardinality(Opportunities(layer)) > 1)
    /\ limit' = AtMost(10, Max({Cardinality(Generation(layer, k)) : k \in Opportunities(layer)}))
    /\ pc' = AfterParallelize
    /\ UNCHANGED <<input, level, i, kept, steps, layer>>

\* The handler of NetworkXError does not catch NetworkXUnfeasible: a cycle
\* fails the compilation
ParallelizeByGroups ==
    /\ pc = "parallelize" /\ Opportunities(layer) = {}
    /\ \/ /\ Cyclic(ExplicitGraph(steps))
          /\ pc' = "rejected"
          /\ UNCHANGED <<parallel, limit>>
       \/ \E f \in Generations(ExplicitGraph(steps)) :
             /\ parallel' = (Depth(f) > 1)
             /\ limit' = AtMost(10, Depth(f))
             /\ pc' = AfterParallelize
    /\ UNCHANGED <<input, level, i, kept, steps, layer>>

\* The analysis speaks of original steps: merged ones are on no path and in
\* no group
ApplyGraph ==
    /\ pc = "graph"
    /\ \E path \in LongestPaths(AnalysisGraph(input), layer) :
          \E order \in FrontFirst(steps, {path[k] : k \in DOMAIN path}) :
             steps' = [n \in DOMAIN steps |->
                         [steps[order[n]] EXCEPT !.group =
                             Group(input, layer, steps[order[n]].id)]]
    /\ parallel' = TRUE
    /\ limit' = AtMost(20, Cardinality(Opportunities(layer)))
    /\ pc' = "validate"
    /\ UNCHANGED <<input, level, i, kept, layer>>

Validate ==
    /\ pc = "validate"
    /\ pc' = IF Valid(steps) THEN "accepted" ELSE "rejected"
    /\ UNCHANGED <<input, level, i, kept, steps, layer, parallel, limit>>

Next ==
    \/ Keep
    \/ FailAnalysis
    \/ Analyze
    \/ DropDuplicate
    \/ StartMerging
    \/ MergeNext
    \/ EndMerging
    \/ ParallelizeByAnalysis
    \/ ParallelizeByGroups
    \/ ApplyGraph
    \/ Validate

Spec == Init /\ [][Next]_vars

-----------------------------------------------------------------------------
\* A step of the result that stands for several does the first of them, as its
\* author wrote it but for parameters that a later one of them names as well
Does(s, n) ==
    /\ n \in s.id /\ \A m \in s.id : n <= m
    /\ s.kind = [input[n].kind EXCEPT !.params = s.kind.params]
    /\ \A x \in input[n].kind.params : x \notin s.kind.params =>
          \E m \in s.id, y \in Values : n < m /\ [name |-> x.name, value |-> y] \in input[m].kind.params

Done(n) == \E j \in DOMAIN steps : Does(steps[j], n)

\* A later one is never done: its tool is called for the action of the first
Swallowed(n) ==
    \E j \in DOMAIN steps : /\ n \in steps[j].id
                            /\ \E m \in steps[j].id : /\ m < n /\ Does(steps[j], m)
                                                      /\ input[m].kind.tool = input[n].kind.tool
                                                      /\ input[m].kind.retry = input[n].kind.retry
                            /\ steps[j].kind.type = "action" /\ input[n].kind.type = "action"

Rewritten == pc \in {"parallelize", "graph", "validate", "accepted"}

\* Whatever is dropped, merged and moved, no step of the plan is done twice.
\* One that is not done looked like one before it, or was swallowed when it was
\* merged with an action of its tool and its retry policy, or looked like one
\* that was: for no other reason does an action go undone.
EachStepOnce ==
    Rewritten => \A n \in DOMAIN input :
        /\ \A j, k \in DOMAIN steps : n \in steps[j].id \cap steps[k].id => j = k
        /\ \E m \in 1..n : /\ Done(m) \/ Swallowed(m)
                           /\ Signature(input[m].kind) = Signature(input[n].kind)

\* In a plan the validator lets through every step that is done still waits
\* for all that it waited for in the original, merging included: each is a
\* step of the plan of its own, and no step waits for itself in a circle.
AcceptedKeepsDependencies ==
    pc = "accepted" =>
        /\ \A j \in DOMAIN steps : \A n \in steps[j].id : \A d \in input[n].deps :
              d \in steps[j].deps /\ \E k \in DOMAIN steps : k # j /\ steps[k].id = d
        /\ ~Cyclic(ExplicitGraph(steps))

\* A valid plan is refused for two reasons only: a step that others name in
\* depends_on was dropped or merged, so that its identifier is gone, or the
\* analyzer, where it is asked, stumbled over a value.
RejectedForAReason ==
    pc = "rejected" => \/ ~Valid(input)
                       \/ Analyzed /\ Unreadable(input)
                       \/ ~Known(steps)

InOrder(s) == \A m, n \in DOMAIN s : s[m].id \in s[n].deps => m < n

\* A plan whose steps are listed in an order that respects depends_on is
\* returned in such an order, unless the longest path is moved to the front.
OrderKept == pc = "accepted" /\ level # "aggressive" /\ InOrder(input) => InOrder(steps)

\* The steps that wait for v: they are in every set that those are in which name v,
\* or a member of the set, in depends_on
Waits(s, v) ==
    {w \in Ids(s) : \A later \in SUBSET Ids(s) :
        (\A e \in Dependencies(s) : e[1] \in later \cup {v} => e[2] \in later) => w \in later}

\* Steps marked as one parallel group do not wait for each other, use no
\* exclusive tool together, and exchange no data, unless several steps write
\* it: the analysis counts on the last, which may have been dropped.
GroupsAreIndependent ==
    pc = "accepted" => \A m, n \in DOMAIN steps :
        m # n /\ steps[m].group = steps[n].group /\ steps[m].group # 0 =>
            /\ steps[n].id \notin Waits(steps, steps[m].id)
            /\ steps[m].kind.tool = steps[n].kind.tool => steps[m].kind.tool \notin Exclusive
            /\ \A x \in steps[n].reads :
                  x.value \in steps[m].writes => Cardinality(Writers(input, x.value)) > 1
=============================================================================
