------------------------- MODULE PlanCompilerProofs -------------------------
(***************************************************************************)
(* Proofs about PlanOptimizer, for plans of every length and any kinds of  *)
(* steps, and about PlanCache, for any number of requests, hashes and      *)
(* instances.                                                              *)
(*                                                                         *)
(* The optimizer: OptInv says what the steps of the result have from the   *)
(* originals they stand for, OriginInv that a result step that stands for  *)
(* one original is that original.  The groups are right because the layers *)
(* of the analysis grow along its edges (LayerGrows), a valid plan stays   *)
(* free of circles because what grows along the edges of a graph numbers   *)
(* its nodes (GrowingIsAcyclic).                                           *)
(*                                                                         *)
(* The cache: CacheInv says that of every instance the list of last uses,  *)
(* the entries and the indexes agree.                                      *)
(***************************************************************************)
EXTENDS PlanOptimizer, PlanCache, FiniteSetTheorems, WellFoundedInduction, TLAPS

\* What CanMerge compares of the two steps
Joins(k, n) == /\ k.type = "action" /\ input[n].kind.type = "action"
               /\ k.tool = input[n].kind.tool /\ k.retry = input[n].kind.retry

\* It does the first of its steps, with which the others could be merged
Leads(s, n) == Does(s, n) /\ \A m \in s.id : m = n \/ Joins(s.kind, m)

\* What a step of the result says of the original steps it stands for: it
\* waits for all they waited for, and for nothing else
Speaks(s) == /\ \A n \in s.id : n \in DOMAIN input /\ input[n].deps \subseteq s.deps
             /\ \A d \in s.deps : \E n \in s.id : d \in input[n].deps
             /\ \E n \in s.id : Leads(s, n)

Faithful(s) == \A j \in DOMAIN s : Speaks(s[j])

Sorted(s) == \A j, k \in DOMAIN s : j < k => \A a \in s[j].id, b \in s[k].id : a < b

Apart(s) == \A j, k \in DOMAIN s : \A n \in s[j].id : n \in s[k].id => j = k

Alike(m, n) == Signature(input[m].kind) = Signature(input[n].kind)

\* Step n, or one before it that looks the same, is in s
Stands(s, n) == \E m \in 1..n : \E j \in DOMAIN s : m \in s[j].id /\ Alike(m, n)

Taken(n) == \E j \in DOMAIN steps : n \in steps[j].id

\* Steps of the original, each by itself
Selected(s) == \A k \in DOMAIN s : \E n \in DOMAIN input : s[k] = input[n]

KeptInv ==
    /\ Selected(kept) /\ Sorted(kept)
    /\ pc = "begin" => i = 1 /\ kept = <<>> /\ steps = <<>>
    /\ pc = "dedup" => /\ steps = <<>>
                       /\ \A n \in 1..(i - 1) : Stands(kept, n)
                       /\ \A k \in DOMAIN kept : \A a \in kept[k].id : a < i
    /\ pc = "merge" => \A n \in DOMAIN input : Stands(kept, n)

Moved == level = "aggressive" /\ pc \in {"validate", "accepted", "rejected"}

StepsInv ==
    /\ Faithful(steps) /\ Apart(steps)
    /\ ~Moved => Sorted(steps)
    /\ pc = "graph" => level = "aggressive"
    /\ pc = "merge" =>
         /\ \A k \in DOMAIN kept : k < i => \A n \in kept[k].id : Taken(n)
         /\ \A k \in DOMAIN kept : k >= i =>
               \A j \in DOMAIN steps : \A a \in steps[j].id, b \in kept[k].id : a < b
    /\ Rewritten => \A n \in DOMAIN input : Stands(steps, n)
    /\ pc = "accepted" => Valid(steps)

OptInv == TypeOK /\ input \in Plans /\ KeptInv /\ StepsInv

-----------------------------------------------------------------------------
\* Numbers

(* Any set of naturals has a least element.                                *)
LEMMA LeastNatural ==
    ASSUME NEW S \in SUBSET Nat, S # {}
    PROVE  \E n \in S : \A k \in S : n <= k
<1>1. IsWellFoundedOn(OpToRel(<, Nat), Nat)
  BY NatLessThanWellFounded
<1>2. \E n \in S : \A k \in S : <<k, n>> \notin OpToRel(<, Nat)
  BY <1>1, WFMin
<1>3. ASSUME NEW n \in S, NEW k \in S, <<k, n>> \notin OpToRel(<, Nat)
      PROVE  n <= k
  BY <1>3 DEF OpToRel
<1> QED
  BY <1>2, <1>3

-----------------------------------------------------------------------------
\* Sequences

LEMMA AppendFacts ==
  ASSUME NEW S, NEW s \in Seq(S), NEW e \in S
  PROVE  /\ Append(s, e) \in Seq(S)
         /\ Len(Append(s, e)) = Len(s) + 1
         /\ DOMAIN Append(s, e) = 1..(Len(s) + 1)
         /\ \A n \in 1..Len(s) : Append(s, e)[n] = s[n]
         /\ Append(s, e)[Len(s) + 1] = e
  OBVIOUS

LEMMA ReplaceFacts ==
  ASSUME NEW S, NEW s \in Seq(S), NEW e \in S, s # <<>>,
         NEW t, t = [s EXCEPT ![Len(s)] = e]
  PROVE  /\ t \in Seq(S) /\ Len(t) = Len(s) /\ DOMAIN t = 1..Len(s)
         /\ Len(s) \in Nat \ {0}
         /\ \A n \in 1..(Len(s) - 1) : t[n] = s[n]
         /\ t[Len(s)] = e
  OBVIOUS

LEMMA IdNat ==
  ASSUME NEW s \in Seq(Step), NEW j \in DOMAIN s, NEW a \in s[j].id
  PROVE  a \in Nat
  <1>1. s[j] \in Step
    OBVIOUS
  <1>2. QED
    BY <1>1 DEF Step

\* A sequence of steps whose last one is new
LEMMA NewLast ==
  ASSUME NEW s \in Seq(Step), NEW t \in Seq(Step),
         Len(t) \in 1..(Len(s) + 1), \A n \in 1..(Len(t) - 1) : t[n] = s[n],
         Faithful(s), Sorted(s), Speaks(t[Len(t)]),
         \A n \in 1..(Len(t) - 1) : \A a \in s[n].id, b \in t[Len(t)].id : a < b
  PROVE  Faithful(t) /\ Sorted(t)
  <1>1. DOMAIN t = 1..Len(t) /\ DOMAIN s = 1..Len(s) /\ Len(s) \in Nat /\ Len(t) \in Nat
    OBVIOUS
  <1>2. Faithful(t)
    BY <1>1 DEF Faithful
  <1>3. ASSUME NEW j \in DOMAIN t, NEW k \in DOMAIN t, j < k,
               NEW a \in t[j].id, NEW b \in t[k].id
        PROVE  a < b
    <2>1. j \in 1..(Len(t) - 1) /\ t[j] = s[j] /\ j \in DOMAIN s
      BY <1>1, <1>3
    <2>2. CASE k = Len(t)
      BY <2>1, <2>2, <1>3
    <2>3. CASE k # Len(t)
      <3>1. k \in 1..(Len(t) - 1) /\ t[k] = s[k] /\ k \in DOMAIN s
        BY <2>3, <1>1
      <3>2. QED
        BY <3>1, <2>1, <1>3 DEF Sorted
    <2>4. QED
      BY <2>2, <2>3
  <1>4. QED
    BY <1>2, <1>3 DEF Sorted

\* In a sorted sequence no step stands for what another stands for
LEMMA SortedApart ==
  ASSUME NEW s \in Seq(Step), Sorted(s)
  PROVE  Apart(s)
  <1>1. ASSUME NEW j \in DOMAIN s, NEW k \in DOMAIN s, NEW n \in s[j].id, n \in s[k].id
        PROVE  j = k
    <2>1. j \in Nat /\ k \in Nat /\ s[j] \in Step
      OBVIOUS
    <2>2. n \in Nat
      BY <2>1 DEF Step
    <2>3. ~(j < k) /\ ~(k < j)
      BY <1>1, <2>2 DEF Sorted
    <2>4. QED
      BY <2>1, <2>3
  <1>2. QED
    BY <1>1 DEF Apart

\* The steps as their author wrote them
LEMMA Originals ==
  ASSUME input \in Plans
  PROVE  /\ input \in Seq(Step)
         /\ DOMAIN input = 1..Len(input) /\ Len(input) \in Nat
         /\ \A n \in DOMAIN input : input[n] \in Step /\ input[n].id = {n}
         /\ Faithful(input) /\ Sorted(input) /\ Selected(input)
         /\ \A n \in DOMAIN input : Stands(input, n)
  <1>1. input \in Seq(Step) /\ \A n \in DOMAIN input : input[n].id = {n}
    BY PlanAssumption
  <1>2. DOMAIN input = 1..Len(input) /\ Len(input) \in Nat
    BY <1>1
  <1>3. \A n \in DOMAIN input : input[n] \in Step
    BY <1>1
  <1>4. Faithful(input)
    <2>1. ASSUME NEW n \in DOMAIN input
          PROVE  Speaks(input[n])
      <3>1. input[n].id = {n} /\ n \in Nat /\ input[n] \in Step
        BY <1>1, <1>2, <1>3
      <3>2. input[n].kind \in Kind
        BY <3>1 DEF Step
      <3>3. Does(input[n], n)
        BY <3>1, <3>2 DEF Does, Kind
      <3>4. Leads(input[n], n)
        BY <3>1, <3>3 DEF Leads
      <3>5. QED
        BY <3>1, <3>4 DEF Speaks
    <2>2. QED
      BY <2>1 DEF Faithful
  <1>5. Sorted(input)
    BY <1>1, <1>2 DEF Sorted
  <1>6. Selected(input)
    BY DEF Selected
  <1>7. ASSUME NEW n \in DOMAIN input
        PROVE  Stands(input, n)
    BY <1>1, <1>2 DEF Stands, Alike
  <1>8. QED
    BY <1>1, <1>2, <1>3, <1>4, <1>5, <1>6, <1>7

LEMMA SelectedFaithful ==
  ASSUME input \in Plans, NEW s \in Seq(Step), Selected(s)
  PROVE  Faithful(s)
  BY Originals DEF Faithful, Selected

-----------------------------------------------------------------------------
\* Types

LEMMA MergedType ==
  ASSUME NEW s \in Step, NEW t \in Step
  PROVE  Merged(s, t) \in Step
  <1>1. /\ s.kind \in Kind /\ s.kind.params \in Mapping /\ t.kind.params \in Mapping
        /\ s.reads \in Mapping /\ t.reads \in Mapping
    BY DEF Step, Kind
  <1>2. Overlay(s.kind.params, t.kind.params) \in Mapping /\ Overlay(s.reads, t.reads) \in Mapping
    BY <1>1 DEF Overlay, Mapping
  <1>3. [s.kind EXCEPT !.params = Overlay(s.kind.params, t.kind.params)] \in Kind
    BY <1>1, <1>2 DEF Kind
  <1>4. QED
    BY <1>2, <1>3 DEF Merged, Step

LEMMA GroupType ==
  ASSUME TypeOK, NEW v
  PROVE  Group(input, layer, v) \in Nat
  BY DEF Group, TypeOK

LEMMA MarkedStep ==
  ASSUME NEW s \in Step, NEW g \in Nat
  PROVE  /\ [s EXCEPT !.group = g] \in Step
         /\ [s EXCEPT !.group = g].id = s.id
         /\ [s EXCEPT !.group = g].deps = s.deps
         /\ [s EXCEPT !.group = g].kind = s.kind
  BY DEF Step

LEMMA AtMostType ==
  ASSUME NEW bound \in Nat, NEW n
  PROVE  AtMost(bound, n) \in Nat
  BY DEF AtMost

LEMMA UnknownType == \A v \in DOMAIN Unknown : Unknown[v] \in Nat
  BY DEF Unknown

LEMMA GenerationsType ==
  ASSUME NEW g, NEW f \in Generations(g), Cardinality(g.node) \in Nat
  PROVE  \A v \in DOMAIN f : f[v] \in Nat
  BY DEF Generations

\* A plan has finitely many identifiers
LEMMA IdsAreFinite ==
  ASSUME NEW s \in Seq(Step)
  PROVE  IsFiniteSet(Ids(s))
  <1>1. Len(s) \in Nat /\ DOMAIN s = 1..Len(s)
    OBVIOUS
  <1>2. IsFiniteSet(1..Len(s))
    BY <1>1, FS_Interval
  <1> DEFINE f == [n \in 1..Len(s) |-> s[n].id]
  <1>3. f \in Surjection(1..Len(s), Ids(s))
    BY <1>1 DEF Surjection, Ids
  <1>4. QED
    BY <1>2, <1>3, FS_Surjection

LEMMA IdsFinite ==
  ASSUME NEW s \in Seq(Step)
  PROVE  Cardinality(Ids(s)) \in Nat
  BY IdsAreFinite, FS_CardinalityType

LEMMA LayerType ==
  ASSUME input \in Plans, NEW f \in Generations(AnalysisGraph(input))
  PROVE  \A v \in DOMAIN f : f[v] \in Nat
  <1>1. AnalysisGraph(input).node = Ids(input)
    BY DEF AnalysisGraph
  <1>2. Cardinality(AnalysisGraph(input).node) \in Nat
    BY <1>1, Originals, IdsFinite
  <1>3. QED
    BY <1>2, GenerationsType

\* Every step keeps the declared types
LEMMA NextTypeOK ==
  ASSUME TypeOK, input \in Plans, [Next]_vars
  PROVE  TypeOK' /\ input' \in Plans
  <1>0. /\ input \in Seq(Step) /\ Len(input) \in Nat /\ DOMAIN input = 1..Len(input)
        /\ kept \in Seq(Step) /\ steps \in Seq(Step) /\ i \in Nat
        /\ DOMAIN kept = 1..Len(kept) /\ DOMAIN steps = 1..Len(steps)
    BY Originals DEF TypeOK
  <1>1. CASE Keep
    BY <1>0, <1>1 DEF Keep, TypeOK
  <1>1a. CASE FailAnalysis
    BY <1>0, <1>1a DEF FailAnalysis, TypeOK
  <1>2. CASE Analyze
    BY <1>0, <1>2, LayerType, UnknownType DEF Analyze, TypeOK
  <1>3. CASE DropDuplicate
    <2>1. input[i] \in Step /\ i + 1 \in Nat \ {0}
      BY <1>0, <1>3 DEF DropDuplicate, TypeOK
    <2>2. Append(kept, input[i]) \in Seq(Step)
      BY <1>0, <2>1, AppendFacts
    <2>3. QED
      BY <1>3, <2>1, <2>2 DEF DropDuplicate, TypeOK
  <1>4. CASE StartMerging
    BY <1>0, <1>4 DEF StartMerging, TypeOK
  <1>5. CASE MergeNext
    <2>1. kept[i] \in Step /\ i + 1 \in Nat \ {0}
      BY <1>0, <1>5 DEF MergeNext, TypeOK
    <2>2. Append(steps, kept[i]) \in Seq(Step)
      BY <1>0, <2>1, AppendFacts
    <2>3. ASSUME steps # <<>>
          PROVE  [steps EXCEPT ![Len(steps)] = Merged(steps[Len(steps)], kept[i])] \in Seq(Step)
      <3>1. Len(steps) \in DOMAIN steps
        BY <1>0, <2>3
      <3>2. Merged(steps[Len(steps)], kept[i]) \in Step
        BY <3>1, <2>1, <1>0, MergedType
      <3>3. QED
        BY <3>2, <1>0, <2>3, ReplaceFacts
    <2>4. steps' \in Seq(Step)
      BY <1>5, <2>2, <2>3 DEF MergeNext, MergesWithLast
    <2>5. QED
      BY <1>5, <2>4, <2>1, <1>0 DEF MergeNext, TypeOK
  <1>6. CASE EndMerging
    BY <1>6 DEF EndMerging, TypeOK
  <1>7. CASE ParallelizeByAnalysis
    <2>1. limit' \in Nat
      BY <1>7, AtMostType DEF ParallelizeByAnalysis
    <2>2. parallel' \in BOOLEAN
      BY <1>7 DEF ParallelizeByAnalysis
    <2>3. QED
      BY <1>7, <2>1, <2>2 DEF ParallelizeByAnalysis, AfterParallelize, TypeOK
  <1>8. CASE ParallelizeByGroups
    <2>1. limit' \in Nat \cup {NoLimit}
      BY <1>8, AtMostType DEF ParallelizeByGroups, TypeOK
    <2>2. parallel' \in BOOLEAN
      <3>1. CASE UNCHANGED parallel
        BY <3>1 DEF TypeOK
      <3>2. CASE \E f \in Generations(ExplicitGraph(steps)) : parallel' = (Depth(f) > 1)
        BY <3>2
      <3>3. QED
        BY <1>8, <3>1, <3>2 DEF ParallelizeByGroups
    <2>3. QED
      BY <1>8, <2>1, <2>2 DEF ParallelizeByGroups, AfterParallelize, TypeOK
  <1>9. CASE ApplyGraph
    <2>1. limit' \in Nat
      BY <1>9, AtMostType DEF ApplyGraph
    <2>2. PICK o \in [DOMAIN steps -> DOMAIN steps] :
              steps' = [n \in DOMAIN steps |->
                          [steps[o[n]] EXCEPT !.group = Group(input, layer, steps[o[n]].id)]]
      BY <1>9 DEF ApplyGraph, FrontFirst, Bijection, Injection
    <2>3. ASSUME NEW n \in DOMAIN steps
          PROVE  [steps[o[n]] EXCEPT !.group = Group(input, layer, steps[o[n]].id)] \in Step
      BY <1>0, GroupType, MarkedStep
    <2>4. steps' \in Seq(Step)
      BY <1>0, <2>2, <2>3
    <2>5. QED
      BY <1>9, <2>1, <2>4 DEF ApplyGraph, TypeOK
  <1>10. CASE Validate
    BY <1>10 DEF Validate, TypeOK
  <1>11. CASE UNCHANGED vars
    BY <1>11 DEF vars, TypeOK
  <1>12. QED
    BY <1>1, <1>2, <1>3, <1>4, <1>5, <1>6, <1>7, <1>8, <1>9, <1>10, <1>11, <1>1a DEF Next

-----------------------------------------------------------------------------
\* Dropping duplicates

\* What stood in s stands in a sequence that holds the steps of s
LEMMA StandsInLonger ==
  ASSUME NEW s \in Seq(Step), NEW t \in Seq(Step), NEW n,
         \A j \in DOMAIN s : \E k \in DOMAIN t : s[j].id \subseteq t[k].id,
         Stands(s, n)
  PROVE  Stands(t, n)
  BY DEF Stands

\* A turn of the first loop
LEMMA DropKeeps ==
  ASSUME OptInv, DropDuplicate
  PROVE  KeptInv'
  <1>0. /\ kept \in Seq(Step) /\ kept' \in Seq(Step) /\ i \in DOMAIN input /\ i \in Nat
        /\ DOMAIN kept = 1..Len(kept) /\ Len(kept) \in Nat
        /\ input[i] \in Step /\ input[i].id = {i} /\ input' = input /\ i' = i + 1
        /\ pc = "dedup" /\ pc' = pc /\ steps = <<>> /\ steps' = <<>>
    <2>1. i \in DOMAIN input /\ i \in Nat
      BY Originals DEF OptInv, TypeOK, DropDuplicate
    <2>2. kept \in Seq(Step) /\ input[i] \in Step /\ input[i].id = {i}
      BY <2>1, Originals DEF OptInv, TypeOK
    <2>3. Append(kept, input[i]) \in Seq(Step)
      BY <2>2, AppendFacts
    <2>4. kept' \in Seq(Step)
      BY <2>2, <2>3 DEF DropDuplicate
    <2>5. QED
      BY <2>1, <2>2, <2>4 DEF OptInv, KeptInv, DropDuplicate
  <1>1. /\ Selected(kept) /\ Sorted(kept) /\ Faithful(kept)
        /\ \A n \in 1..(i - 1) : Stands(kept, n)
        /\ \A k \in DOMAIN kept : \A a \in kept[k].id : a < i
    BY <1>0, SelectedFaithful DEF OptInv, KeptInv
  <1>2. CASE Seen(input[i])
    <2>1. kept' = kept
      BY <1>2 DEF DropDuplicate
    <2>2. PICK k \in DOMAIN kept : Signature(kept[k].kind) = Signature(input[i].kind)
      BY <1>2 DEF Seen
    <2>3. PICK m \in DOMAIN input : kept[k] = input[m]
      BY <1>1 DEF Selected
    <2>4. m \in kept[k].id /\ m \in Nat \ {0}
      BY <2>3, Originals DEF OptInv
    <2>5. m \in 1..i
      BY <2>4, <1>1, <1>0
    <2>6. Stands(kept, i)
      BY <2>2, <2>3, <2>4, <2>5 DEF Stands, Alike
    <2>7. \A n \in 1..i : Stands(kept, n)
      BY <2>6, <1>1, <1>0
    <2>8. \A k1 \in DOMAIN kept : \A a \in kept[k1].id : a < i + 1
      <3>1. ASSUME NEW k1 \in DOMAIN kept, NEW a \in kept[k1].id
            PROVE  a < i + 1
        <4>1. a \in Nat /\ a < i
          BY <1>0, <1>1, IdNat
        <4>2. QED
          BY <4>1, <1>0
      <3>2. QED
        BY <3>1
    <2>9. (i + 1) - 1 = i
      BY <1>0
    <2>10. QED
      BY <2>1, <2>7, <2>8, <2>9, <1>0, <1>1 DEF KeptInv, Selected, Sorted, Stands, Alike
  <1>3. CASE ~Seen(input[i])
    <2> DEFINE t == Append(kept, input[i])
    <2>1. kept' = t
      BY <1>3 DEF DropDuplicate
    <2>2. /\ t \in Seq(Step) /\ Len(t) = Len(kept) + 1 /\ DOMAIN t = 1..(Len(kept) + 1)
          /\ \A n \in 1..Len(kept) : t[n] = kept[n]
          /\ t[Len(kept) + 1] = input[i]
      BY <1>0, AppendFacts
    <2> HIDE DEF t
    <2>3. Selected(t)
      <3>1. ASSUME NEW k \in DOMAIN t
            PROVE  \E n \in DOMAIN input : t[k] = input[n]
        <4>1. CASE k \in DOMAIN kept
          BY <4>1, <2>2, <1>0, <1>1 DEF Selected
        <4>2. CASE k = Len(kept) + 1
          BY <4>2, <2>2, <1>0
        <4>3. QED
          BY <4>1, <4>2, <2>2, <1>0
      <3>2. QED
        BY <3>1 DEF Selected
    <2>4. Sorted(t)
      <3>1. Speaks(t[Len(t)])
        BY <2>2, <1>0, Originals DEF Faithful, OptInv
      <3>2. \A n \in 1..(Len(t) - 1) : \A a \in kept[n].id, b \in t[Len(t)].id : a < b
        BY <2>2, <1>0, <1>1, SMTT(30)
      <3>3. Len(t) \in 1..(Len(kept) + 1) /\ \A n \in 1..(Len(t) - 1) : t[n] = kept[n]
        BY <2>2, <1>0
      <3>4. QED
        BY <3>1, <3>2, <3>3, <2>2, <1>0, <1>1, NewLast
    <2>5. \A n \in 1..i : Stands(t, n)
      <3>1. \A j \in DOMAIN kept : j \in DOMAIN t /\ kept[j].id \subseteq t[j].id
        BY <2>2, <1>0
      <3>2. \A n \in 1..(i - 1) : Stands(t, n)
        BY <3>1, <1>1, <1>0, <2>2, StandsInLonger
      <3>3. Stands(t, i)
        <4>1. Len(kept) + 1 \in DOMAIN t /\ i \in t[Len(kept) + 1].id /\ i \in 1..i
          BY <2>2, <1>0, Originals DEF OptInv
        <4>2. QED
          BY <4>1 DEF Stands, Alike
      <3>4. QED
        BY <3>2, <3>3, <1>0
    <2>6. \A k \in DOMAIN t : \A a \in t[k].id : a < i + 1
      <3>1. ASSUME NEW k \in DOMAIN t, NEW a \in t[k].id
            PROVE  a < i + 1
        <4>1. a \in Nat
          BY <2>2, IdNat
        <4>2. CASE k \in DOMAIN kept
          <5>1. a < i
            BY <4>2, <2>2, <1>0, <1>1
          <5>2. QED
            BY <5>1, <4>1, <1>0
        <4>3. CASE k = Len(kept) + 1
          BY <4>3, <2>2, <1>0
        <4>4. QED
          BY <4>2, <4>3, <2>2, <1>0
      <3>2. QED
        BY <3>1
    <2>7. (i + 1) - 1 = i
      BY <1>0
    <2>8. QED
      BY <2>1, <2>3, <2>4, <2>5, <2>6, <2>7, <1>0 DEF KeptInv, Selected, Sorted, Stands, Alike
  <1>4. QED
    BY <1>2, <1>3

\* No other action touches the selected steps
LEMMA OthersKeepKept ==
  ASSUME OptInv, [Next]_vars, ~DropDuplicate
  PROVE  KeptInv'
  <1>0. kept' = kept /\ input' = input
    BY DEF Next, vars, Keep, FailAnalysis, Analyze, StartMerging, MergeNext, EndMerging,
           ParallelizeByAnalysis, ParallelizeByGroups, ApplyGraph, Validate
  <1>1. Selected(kept)' /\ Sorted(kept)'
    BY <1>0 DEF OptInv, KeptInv, Selected, Sorted
  <1>2. pc' = "begin" => i' = 1 /\ kept' = <<>> /\ steps' = <<>>
    BY DEF OptInv, KeptInv, Next, vars, Keep, FailAnalysis, Analyze, StartMerging, MergeNext, EndMerging,
           ParallelizeByAnalysis, ParallelizeByGroups, ApplyGraph, Validate, AfterParallelize
  <1>3. ASSUME pc' = "dedup"
        PROVE  /\ steps' = <<>>
               /\ (\A n \in 1..(i - 1) : Stands(kept, n))'
               /\ (\A k \in DOMAIN kept : \A a \in kept[k].id : a < i)'
    <2>1. CASE pc = "dedup"
      <3>1. UNCHANGED <<steps, i>>
        BY <1>3, <2>1 DEF Next, vars, Keep, FailAnalysis, Analyze, StartMerging, MergeNext, EndMerging,
           ParallelizeByAnalysis, ParallelizeByGroups, ApplyGraph, Validate
      <3>2. QED
        BY <3>1, <2>1, <1>0 DEF OptInv, KeptInv, Stands, Alike
    <2>2. CASE pc # "dedup"
      <3>1. pc = "begin" /\ i' = i /\ steps' = steps
        BY <1>3, <2>2 DEF Next, vars, Keep, FailAnalysis, Analyze, StartMerging, MergeNext, EndMerging,
           ParallelizeByAnalysis, ParallelizeByGroups, ApplyGraph, Validate, AfterParallelize
      <3>2. i = 1 /\ kept = <<>>
        BY <3>1 DEF OptInv, KeptInv
      <3>3. QED
        BY <3>1, <3>2, <1>0 DEF OptInv, KeptInv
    <2>3. QED
      BY <2>1, <2>2
  <1>4. ASSUME pc' = "merge"
        PROVE  (\A n \in DOMAIN input : Stands(kept, n))'
    <2>1. CASE pc = "merge"
      BY <2>1, <1>0 DEF OptInv, KeptInv, Stands, Alike
    <2>2. CASE pc # "merge"
      <3>1. pc = "dedup" /\ i > Len(input)
        BY <1>4, <2>2 DEF Next, vars, Keep, FailAnalysis, Analyze, StartMerging, MergeNext, EndMerging,
           ParallelizeByAnalysis, ParallelizeByGroups, ApplyGraph, Validate, AfterParallelize
      <3>2. \A n \in DOMAIN input : n \in 1..(i - 1)
        BY <3>1, Originals DEF OptInv, TypeOK
      <3>3. \A n \in DOMAIN input : Stands(kept, n)
        BY <3>1, <3>2 DEF OptInv, KeptInv
      <3>4. QED
        BY <3>3, <1>0 DEF Stands, Alike
    <2>3. QED
      BY <2>1, <2>2
  <1>5. QED
    BY <1>1, <1>2, <1>3, <1>4 DEF KeptInv

-----------------------------------------------------------------------------
\* Merging

\* What holds of a sequence holds of the steps that become it
LEMMA AsSteps ==
  ASSUME input' = input, NEW t, steps' = t
  PROVE  /\ Faithful(t) => Faithful(steps)'
         /\ Sorted(t) => Sorted(steps)'
         /\ Apart(t) => Apart(steps)'
         /\ (\A n \in DOMAIN input : Stands(t, n)) => (\A n \in DOMAIN input : Stands(steps, n))'
         /\ Valid(t) => Valid(steps)'
  <1>1. Faithful(t) => Faithful(steps)'
    BY DEF Faithful, Speaks, Leads, Does, Joins
  <1>2. Sorted(t) => Sorted(steps)'
    BY DEF Sorted
  <1>3. Apart(t) => Apart(steps)'
    BY DEF Apart
  <1>4. (\A n \in DOMAIN input : Stands(t, n)) => (\A n \in DOMAIN input : Stands(steps, n))'
    BY DEF Stands, Alike
  <1>5. Valid(t) => Valid(steps)'
    OBVIOUS
  <1>6. QED
    BY <1>1, <1>2, <1>3, <1>4, <1>5

\* The result t of a turn of the second loop, whose last step is new
LEMMA TurnKeeps ==
  ASSUME OptInv, pc = "merge", pc' = "merge", i' = i + 1, i \in DOMAIN kept,
         UNCHANGED <<input, level, kept>>,
         NEW t \in Seq(Step), steps' = t,
         Len(t) \in 1..(Len(steps) + 1), \A n \in 1..(Len(t) - 1) : t[n] = steps[n],
         Speaks(t[Len(t)]), kept[i].id \subseteq t[Len(t)].id,
         \A j \in DOMAIN steps : \E k \in DOMAIN t : steps[j].id \subseteq t[k].id,
         \A n \in 1..(Len(t) - 1) : \A a \in steps[n].id, b \in t[Len(t)].id : a < b,
         \A k \in DOMAIN kept : k > i => \A a \in t[Len(t)].id, b \in kept[k].id : a < b
  PROVE  StepsInv'
  <1>0. /\ steps \in Seq(Step) /\ i \in Nat /\ Len(t) \in DOMAIN t /\ Len(t) \in Nat
        /\ DOMAIN t = 1..Len(t) /\ DOMAIN steps = 1..Len(steps) /\ Len(steps) \in Nat
        /\ DOMAIN kept = 1..Len(kept) /\ Len(kept) \in Nat
    BY DEF OptInv, TypeOK
  <1>1. Faithful(steps) /\ Sorted(steps)
    BY DEF OptInv, StepsInv, Moved
  <1>2. Faithful(t) /\ Sorted(t)
    BY <1>0, <1>1, NewLast
  <1>3. Apart(t)
    BY <1>2, SortedApart
  <1>4. Faithful(steps)' /\ Apart(steps)' /\ Sorted(steps)'
    BY <1>2, <1>3, AsSteps
  <1>5. ASSUME NEW k \in DOMAIN kept, k < i + 1, NEW n \in kept[k].id
        PROVE  \E j \in DOMAIN t : n \in t[j].id
    <2>1. CASE k = i
      BY <2>1, <1>5, <1>0
    <2>2. CASE k # i
      <3>1. k < i
        BY <2>2, <1>5, <1>0
      <3>2. Taken(n)
        BY <3>1, <1>5 DEF OptInv, StepsInv
      <3>3. QED
        BY <3>2 DEF Taken
    <2>3. QED
      BY <2>1, <2>2
  <1>6. ASSUME NEW k \in DOMAIN kept, k >= i + 1, NEW j \in DOMAIN t,
               NEW a \in t[j].id, NEW b \in kept[k].id
        PROVE  a < b
    <2>1. k > i /\ k >= i
      BY <1>6, <1>0
    <2>2. CASE j = Len(t)
      BY <2>1, <2>2, <1>6
    <2>3. CASE j # Len(t)
      <3>1. j \in 1..(Len(t) - 1) /\ j \in DOMAIN steps /\ t[j] = steps[j]
        BY <2>3, <1>0, SMTT(30)
      <3>2. QED
        BY <3>1, <2>1, <1>6 DEF OptInv, StepsInv
    <2>4. QED
      BY <2>2, <2>3
  <1>7. QED
    BY <1>4, <1>5, <1>6 DEF StepsInv, Moved, Rewritten, Taken

\* A merged step speaks for the steps of both, and does what the first did
LEMMA MergedSpeaks ==
  ASSUME input \in Plans, NEW s \in Step, NEW b \in DOMAIN input, Speaks(s),
         CanMerge(s, input[b]), \A a \in s.id : a < b
  PROVE  Speaks(Merged(s, input[b])) /\ Merged(s, input[b]).id = s.id \cup {b}
  <1> DEFINE t == input[b]
             e == Merged(s, t)
  <1>1. t \in Step /\ t.id = {b} /\ Speaks(t) /\ b \in Nat /\ t.kind \in Kind /\ s.kind \in Kind
    BY Originals DEF Faithful, Step
  <1>2. /\ e.id = s.id \cup {b} /\ e.deps = s.deps \cup t.deps
        /\ e.kind = [s.kind EXCEPT !.params = Overlay(s.kind.params, t.kind.params)]
    BY <1>1 DEF Merged
  <1>3. PICK n \in s.id : Leads(s, n)
    BY DEF Speaks
  <1>4. n < b
    OBVIOUS
  <1>5. /\ e.kind.type = s.kind.type /\ e.kind.tool = s.kind.tool /\ e.kind.retry = s.kind.retry
        /\ e.kind.params = Overlay(s.kind.params, t.kind.params)
        /\ e.kind = [s.kind EXCEPT !.params = e.kind.params]
    BY <1>1, <1>2 DEF Kind
  <1>6. n \in Nat /\ \A m \in e.id : n <= m
    <2>1. n \in DOMAIN input /\ \A m \in s.id : n <= m
      BY <1>3 DEF Leads, Does, Speaks
    <2>2. n \in Nat
      BY <2>1, Originals
    <2>3. QED
      BY <1>1, <1>2, <1>4, <2>1, <2>2
  <1> HIDE DEF e
  <1>7. e.kind = [input[n].kind EXCEPT !.params = e.kind.params]
    <2>1. s.kind = [input[n].kind EXCEPT !.params = s.kind.params]
      BY <1>3 DEF Leads, Does
    <2>2. input[n].kind \in Kind
      <3>1. n \in DOMAIN input
        BY <1>3 DEF Speaks
      <3>2. QED
        BY <3>1, Originals DEF Step
    <2>3. QED
      BY <1>1, <1>5, <2>1, <2>2 DEF Kind
  <1>8. ASSUME NEW x \in input[n].kind.params, x \notin e.kind.params
        PROVE  \E m \in e.id, y \in Values :
                  n < m /\ [name |-> x.name, value |-> y] \in input[m].kind.params
    <2>1. CASE x \in s.kind.params
      <3>1. PICK z \in t.kind.params : z.name = x.name
        BY <1>5, <1>8, <2>1 DEF Overlay
      <3>2. z \in [name: STRING, value: Values]
        BY <1>1 DEF Kind, Mapping
      <3>3. z = [name |-> x.name, value |-> z.value] /\ z.value \in Values
        BY <3>1, <3>2
      <3>4. QED
        BY <1>2, <1>4, <3>1, <3>3
    <2>2. CASE x \notin s.kind.params
      BY <1>2, <1>3, <2>2 DEF Leads, Does
    <2>3. QED
      BY <2>1, <2>2
  <1>9. Does(e, n)
    BY <1>2, <1>6, <1>7, <1>8 DEF Does
  <1>10. ASSUME NEW m \in e.id, m # n PROVE Joins(e.kind, m)
    <2>1. CASE m = b
      BY <1>5, <2>1 DEF CanMerge, Joins
    <2>2. CASE m # b
      BY <1>2, <1>3, <1>5, <1>10, <2>2 DEF Leads, Joins
    <2>3. QED
      BY <2>1, <2>2
  <1>11. \E k \in e.id : Leads(e, k)
    BY <1>2, <1>9, <1>10 DEF Leads
  <1>12. /\ \A k \in e.id : k \in DOMAIN input /\ input[k].deps \subseteq e.deps
         /\ \A d \in e.deps : \E k \in e.id : d \in input[k].deps
    BY <1>1, <1>2 DEF Speaks
  <1>13. QED
    BY <1>2, <1>11, <1>12 DEF Speaks, e

\* A turn of the second loop
LEMMA MergeKeeps ==
  ASSUME OptInv, MergeNext
  PROVE  StepsInv'
  <1>0. /\ steps \in Seq(Step) /\ kept \in Seq(Step) /\ i \in DOMAIN kept /\ i \in Nat
        /\ DOMAIN steps = 1..Len(steps) /\ Len(steps) \in Nat
        /\ DOMAIN kept = 1..Len(kept) /\ Len(kept) \in Nat /\ kept[i] \in Step
        /\ pc = "merge" /\ pc' = "merge" /\ i' = i + 1
        /\ UNCHANGED <<input, level, kept>>
    BY DEF OptInv, TypeOK, MergeNext
  <1>1. Faithful(steps) /\ Sorted(steps) /\ Sorted(kept) /\ Faithful(kept)
    BY <1>0, SelectedFaithful DEF OptInv, KeptInv, StepsInv, Moved
  <1>2. Speaks(kept[i])
    BY <1>0, <1>1 DEF Faithful
  <1>3. \A k \in DOMAIN kept : k >= i =>
            \A j \in DOMAIN steps : \A a \in steps[j].id, b \in kept[k].id : a < b
    BY <1>0 DEF OptInv, StepsInv
  <1>4. \A k \in DOMAIN kept : k > i => \A a \in kept[i].id, b \in kept[k].id : a < b
    BY <1>0, <1>1 DEF Sorted
  <1>5. CASE MergesWithLast(kept[i])
    <2> DEFINE l == Len(steps)
               e == Merged(steps[l], kept[i])
               t == [steps EXCEPT ![l] = e]
    <2>1. steps # <<>> /\ l \in DOMAIN steps /\ steps' = t
      BY <1>5, <1>0 DEF MergesWithLast, MergeNext
    <2>2. steps[l] \in Step /\ Speaks(steps[l])
      BY <2>1, <1>0, <1>1 DEF Faithful
    <2>3. e \in Step /\ Speaks(e) /\ e.id = steps[l].id \cup kept[i].id
      <3>1. PICK b \in DOMAIN input : kept[i] = input[b]
        BY <1>0 DEF OptInv, KeptInv, Selected
      <3>2. input \in Plans /\ kept[i].id = {b}
        BY <3>1, Originals DEF OptInv
      <3>3. \A a \in steps[l].id : a < b
        BY <1>0, <1>3, <2>1, <3>2
      <3>4. CanMerge(steps[l], input[b])
        BY <1>5, <3>1 DEF MergesWithLast
      <3>5. Speaks(Merged(steps[l], input[b])) /\ Merged(steps[l], input[b]).id = steps[l].id \cup {b}
        BY <2>2, <3>2, <3>3, <3>4, MergedSpeaks
      <3>6. QED
        BY <2>2, <1>0, <3>1, <3>2, <3>5, MergedType
    <2> HIDE DEF e
    <2>0. t = [steps EXCEPT ![Len(steps)] = e]
      OBVIOUS
    <2> HIDE DEF t
    <2>4. /\ t \in Seq(Step) /\ Len(t) = l /\ DOMAIN t = 1..l /\ l \in Nat \ {0}
          /\ \A n \in 1..(l - 1) : t[n] = steps[n]
          /\ t[l] = e
      <3>1. steps \in Seq(Step) /\ e \in Step /\ steps # <<>>
        BY <2>1, <2>3, <1>0
      <3>2. /\ t \in Seq(Step) /\ Len(t) = Len(steps) /\ DOMAIN t = 1..Len(steps)
            /\ Len(steps) \in Nat \ {0}
            /\ \A n \in 1..(Len(steps) - 1) : t[n] = steps[n]
            /\ t[Len(steps)] = e
        BY ONLY <2>0, <3>1, ReplaceFacts
      <3>3. QED
        BY <3>2
    <2>5. \A n \in 1..(l - 1) : \A a \in steps[n].id, b \in e.id : a < b
      <3>1. ASSUME NEW n \in 1..(l - 1), NEW a \in steps[n].id, NEW b \in e.id
            PROVE  a < b
        <4>1. n \in DOMAIN steps /\ n < l
          BY <1>0, <2>4
        <4>2. CASE b \in steps[l].id
          BY <4>1, <4>2, <2>1, <1>1 DEF Sorted
        <4>3. CASE b \in kept[i].id
          BY <4>1, <4>3, <1>3, <1>0
        <4>4. QED
          BY <4>2, <4>3, <2>3
      <3>2. QED
        BY <3>1
    <2>6. \A k \in DOMAIN kept : k > i => \A a \in e.id, b \in kept[k].id : a < b
      BY <2>3, <2>1, <1>3, <1>4, <1>0
    <2>7. \A j \in DOMAIN steps : \E k \in DOMAIN t : steps[j].id \subseteq t[k].id
      <3>1. ASSUME NEW j \in DOMAIN steps
            PROVE  j \in DOMAIN t /\ steps[j].id \subseteq t[j].id
        <4>1. CASE j = l
          BY <4>1, <2>4, <2>3
        <4>2. CASE j # l
          BY <4>2, <2>4, <1>0
        <4>3. QED
          BY <4>1, <4>2
      <3>2. QED
        BY <3>1
    <2>8. Len(t) \in 1..(Len(steps) + 1) /\ t[Len(t)] = e /\ kept[i].id \subseteq e.id
      BY <2>4, <2>3
    <2>9. QED
      BY <2>1, <2>3, <2>4, <2>5, <2>6, <2>7, <2>8, <1>0, TurnKeeps
  <1>6. CASE ~MergesWithLast(kept[i])
    <2> DEFINE t == Append(steps, kept[i])
    <2>1. steps' = t
      BY <1>6 DEF MergeNext
    <2>2. /\ t \in Seq(Step) /\ Len(t) = Len(steps) + 1 /\ DOMAIN t = 1..(Len(steps) + 1)
          /\ \A n \in 1..Len(steps) : t[n] = steps[n]
          /\ t[Len(steps) + 1] = kept[i]
      BY <1>0, AppendFacts
    <2> HIDE DEF t
    <2>3. /\ Len(t) \in 1..(Len(steps) + 1) /\ t[Len(t)] = kept[i]
          /\ \A n \in 1..(Len(t) - 1) : t[n] = steps[n] /\ n \in DOMAIN steps
          /\ \A j \in DOMAIN steps : j \in DOMAIN t /\ t[j] = steps[j]
      BY <2>2, <1>0
    <2>4. \A n \in 1..(Len(t) - 1) : \A a \in steps[n].id, b \in kept[i].id : a < b
      <3>1. \A j \in DOMAIN steps : \A a \in steps[j].id, b \in kept[i].id : a < b
        BY <1>3, <1>0
      <3>2. QED
        BY <3>1, <2>3
    <2>5. \A j \in DOMAIN steps : \E k \in DOMAIN t : steps[j].id \subseteq t[k].id
      BY <2>3
    <2>6. QED
      BY <2>1, <2>2, <2>3, <2>4, <2>5, <1>0, <1>2, <1>4, TurnKeeps
  <1>7. QED
    BY <1>5, <1>6

-----------------------------------------------------------------------------
\* The other phases

\* Level none: the result is the original
LEMMA KeepKeeps ==
  ASSUME OptInv, Keep
  PROVE  StepsInv'
  <1>1. steps' = input /\ input' = input /\ pc' = "validate" /\ level' = "none"
    BY DEF Keep
  <1>2. /\ Faithful(input) /\ Sorted(input) /\ Apart(input)
        /\ \A n \in DOMAIN input : Stands(input, n)
    BY Originals, SortedApart DEF OptInv
  <1>3. PICK t : t = input
    OBVIOUS
  <1>4. Faithful(t) /\ Sorted(t) /\ Apart(t) /\ \A n \in DOMAIN input : Stands(t, n)
    BY <1>2, <1>3
  <1>5. QED
    BY <1>1, <1>3, <1>4, AsSteps DEF StepsInv, Moved, Rewritten

\* Nothing has been merged yet
LEMMA StartKeeps ==
  ASSUME OptInv, FailAnalysis \/ Analyze \/ StartMerging \/ DropDuplicate
  PROVE  StepsInv'
  <1>1. steps' = <<>> /\ pc' \in {"dedup", "merge", "rejected"} /\ (pc' = "merge" => i' = 1) /\ kept' \in Seq(Step)
    <2>1. CASE Analyze
      BY <2>1 DEF OptInv, KeptInv, TypeOK, Analyze
    <2>2. CASE StartMerging
      BY <2>2 DEF OptInv, KeptInv, TypeOK, StartMerging
    <2>3. CASE DropDuplicate
      BY <2>3, NextTypeOK DEF OptInv, KeptInv, TypeOK, DropDuplicate, Next
    <2>4. CASE FailAnalysis
      BY <2>4 DEF OptInv, KeptInv, TypeOK, FailAnalysis
    <2>5. QED
      BY <2>1, <2>2, <2>3, <2>4
  <1>2. \A k \in DOMAIN kept' : ~(k < 1)
    BY <1>1
  <1>3. QED
    BY <1>1, <1>2 DEF StepsInv, Faithful, Sorted, Apart, Moved, Rewritten

\* After the last turn every original step stands in the result
LEMMA EndKeeps ==
  ASSUME OptInv, EndMerging
  PROVE  StepsInv'
  <1>1. /\ UNCHANGED <<input, level, kept, steps, i>> /\ pc = "merge"
        /\ pc' \in {"validate", "parallelize"} /\ (pc' = "validate" => level = "basic")
        /\ \A k \in DOMAIN kept : k < i
    BY DEF EndMerging, OptInv, TypeOK
  <1>2. ASSUME NEW n \in DOMAIN input
        PROVE  Stands(steps, n)
    <2>1. Stands(kept, n)
      BY <1>1 DEF OptInv, KeptInv
    <2>2. PICK m \in 1..n, k \in DOMAIN kept : m \in kept[k].id /\ Alike(m, n)
      BY <2>1 DEF Stands
    <2>3. Taken(m)
      BY <2>2, <1>1 DEF OptInv, StepsInv
    <2>4. QED
      BY <2>2, <2>3 DEF Stands, Taken
  <1>3. Faithful(steps) /\ Apart(steps) /\ Sorted(steps)
    BY <1>1 DEF OptInv, StepsInv, Moved
  <1>4. PICK t : t = steps
    OBVIOUS
  <1>5. /\ Faithful(t) /\ Apart(t) /\ Sorted(t) /\ (\A n \in DOMAIN input : Stands(t, n))
        /\ steps' = t /\ input' = input
    BY <1>1, <1>2, <1>3, <1>4
  <1>6. QED
    BY <1>1, <1>5, AsSteps DEF StepsInv, Moved, Rewritten

\* A phase that leaves the steps as they are
LEMMA SameSteps ==
  ASSUME OptInv, UNCHANGED <<input, level, steps>>, Rewritten,
         pc' \in {"graph", "validate", "accepted", "rejected"},
         pc' = "graph" => level = "aggressive", Moved => Moved',
         pc' = "accepted" => Valid(steps)
  PROVE  StepsInv'
  <1>1. PICK t : t = steps
    OBVIOUS
  <1>2. /\ Faithful(t) /\ Apart(t) /\ (~Moved' => Sorted(t))
        /\ \A n \in DOMAIN input : Stands(t, n)
        /\ pc' = "accepted" => Valid(t)
    BY <1>1 DEF OptInv, StepsInv
  <1>3. QED
    BY <1>1, <1>2, AsSteps DEF StepsInv, Moved, Rewritten

\* Moving steps and marking them changes neither whom they stand for nor what
\* they wait for
LEMMA ApplyKeeps ==
  ASSUME OptInv, ApplyGraph
  PROVE  StepsInv'
  <1>0. /\ steps \in Seq(Step) /\ DOMAIN steps = 1..Len(steps) /\ Len(steps) \in Nat
        /\ UNCHANGED <<input, level>> /\ pc' = "validate" /\ level = "aggressive"
        /\ Faithful(steps) /\ Apart(steps) /\ \A n \in DOMAIN input : Stands(steps, n)
    BY DEF OptInv, TypeOK, ApplyGraph, StepsInv, Rewritten
  <1>1. PICK o \in Bijection(DOMAIN steps, DOMAIN steps) :
            steps' = [n \in DOMAIN steps |->
                        [steps[o[n]] EXCEPT !.group = Group(input, layer, steps[o[n]].id)]]
    BY DEF ApplyGraph, FrontFirst
  <1>2. /\ o \in [DOMAIN steps -> DOMAIN steps]
        /\ \A m, n \in DOMAIN steps : o[m] = o[n] => m = n
        /\ \A k \in DOMAIN steps : \E n \in DOMAIN steps : o[n] = k
    BY DEF Bijection, Injection, IsInjective, Surjection
  <1>3. PICK t : t = steps'
    OBVIOUS
  <1>4. /\ DOMAIN t = DOMAIN steps
        /\ \A n \in DOMAIN steps : /\ t[n].id = steps[o[n]].id /\ t[n].deps = steps[o[n]].deps
                                    /\ t[n].kind = steps[o[n]].kind
    <2>1. DOMAIN t = DOMAIN steps
      BY <1>1, <1>3
    <2>2. ASSUME NEW n \in DOMAIN steps
          PROVE  /\ t[n].id = steps[o[n]].id /\ t[n].deps = steps[o[n]].deps
                 /\ t[n].kind = steps[o[n]].kind
      <3>1. t[n] = [steps[o[n]] EXCEPT !.group = Group(input, layer, steps[o[n]].id)]
        BY <1>1, <1>3
      <3>2. steps[o[n]] \in Step /\ Group(input, layer, steps[o[n]].id) \in Nat
        BY <1>0, <1>2, GroupType DEF OptInv
      <3>3. QED
        BY <3>1, <3>2, MarkedStep
    <2>3. QED
      BY <2>1, <2>2
  <1>5. ASSUME NEW j \in DOMAIN t
        PROVE  Speaks(t[j])
    <2>1. /\ o[j] \in DOMAIN steps /\ t[j].id = steps[o[j]].id /\ t[j].deps = steps[o[j]].deps
          /\ t[j].kind = steps[o[j]].kind
      BY <1>2, <1>4
    <2>2. Speaks(steps[o[j]])
      BY <2>1, <1>0 DEF Faithful
    <2>3. QED
      BY <2>1, <2>2 DEF Speaks, Leads, Does, Joins
  <1>6. ASSUME NEW j \in DOMAIN t, NEW k \in DOMAIN t, NEW n \in t[j].id, n \in t[k].id
        PROVE  j = k
    <2>1. o[j] \in DOMAIN steps /\ o[k] \in DOMAIN steps
      BY <1>2, <1>4
    <2>2. n \in steps[o[j]].id /\ n \in steps[o[k]].id
      BY <1>6, <1>4
    <2>3. o[j] = o[k]
      BY <2>1, <2>2, <1>0 DEF Apart
    <2>4. QED
      BY <2>3, <1>2, <1>4
  <1>7. ASSUME NEW n \in DOMAIN input
        PROVE  Stands(t, n)
    <2>1. PICK m \in 1..n, j \in DOMAIN steps : m \in steps[j].id /\ Alike(m, n)
      BY <1>0 DEF Stands
    <2>2. PICK k \in DOMAIN steps : o[k] = j
      BY <1>2
    <2>3. QED
      BY <2>1, <2>2, <1>4 DEF Stands
  <1>8. Faithful(t) /\ Apart(t)
    BY <1>5, <1>6 DEF Faithful, Apart
  <1>9. QED
    BY <1>0, <1>3, <1>7, <1>8, AsSteps DEF StepsInv, Moved, Rewritten

LEMMA NextKeepsSteps ==
  ASSUME OptInv, [Next]_vars
  PROVE  StepsInv'
  <1>1. CASE ParallelizeByAnalysis
    BY <1>1, SameSteps DEF ParallelizeByAnalysis, AfterParallelize, Moved, Rewritten
  <1>2. CASE ParallelizeByGroups
    BY <1>2, SameSteps DEF ParallelizeByGroups, AfterParallelize, Moved, Rewritten
  <1>3. CASE Validate
    BY <1>3, SameSteps DEF Validate, Moved, Rewritten
  <1>4. CASE UNCHANGED vars
    <2>1. PICK t : t = steps
      OBVIOUS
    <2>2. /\ Faithful(t) /\ Apart(t) /\ (~Moved => Sorted(t))
          /\ Rewritten => \A n \in DOMAIN input : Stands(t, n)
          /\ pc = "accepted" => Valid(t)
      BY <2>1 DEF OptInv, StepsInv
    <2>3. steps' = t /\ UNCHANGED <<input, level, pc, kept, i, steps>>
      BY <1>4, <2>1 DEF vars
    <2>4. /\ Faithful(steps)' /\ Apart(steps)' /\ (~Moved' => Sorted(steps)')
          /\ Rewritten' => (\A n \in DOMAIN input : Stands(steps, n))'
          /\ pc' = "accepted" => Valid(steps)'
      BY <2>2, <2>3, AsSteps DEF Moved, Rewritten
    <2>5. QED
      BY <2>3, <2>4 DEF OptInv, StepsInv, Taken
  <1>5. QED
    BY <1>1, <1>2, <1>3, <1>4, KeepKeeps, StartKeeps, MergeKeeps, EndKeeps, ApplyKeeps DEF Next

-----------------------------------------------------------------------------
\* Whatever the levels and phases do to a plan, its steps stand for steps of
\* the original, none for the same, and say of them what the original said.
THEOREM Invariance == Spec => []OptInv
  <1>1. Init => OptInv
    <2>1. ASSUME Init
          PROVE  TypeOK /\ input \in Plans
      <3>1. input \in Plans /\ input \in Seq(Step)
        BY <2>1, Originals DEF Init
      <3>2. \A v \in DOMAIN layer : layer[v] \in Nat
        BY <2>1, UnknownType DEF Init
      <3>3. kept \in Seq(Step) /\ steps \in Seq(Step)
        BY <2>1 DEF Init
      <3>4. /\ level \in Levels /\ pc = "begin"
            /\ i \in Nat \ {0} /\ limit \in Nat \cup {NoLimit}
            /\ parallel \in BOOLEAN
        <4>1. level \in Levels /\ pc = "begin"
          BY <2>1 DEF Init
        <4>2. i \in Nat \ {0}
          BY <2>1 DEF Init
        <4>3. limit \in Nat \cup {NoLimit}
          BY <2>1 DEF Init
        <4>4. parallel \in BOOLEAN
          BY <2>1 DEF Init
        <4>5. QED
          BY <4>1, <4>2, <4>3, <4>4
      <3>5. QED
        BY <3>1, <3>2, <3>3, <3>4 DEF TypeOK
    <2>2. Init => KeptInv
      BY DEF Init, KeptInv, Selected, Sorted
    <2>3. Init => StepsInv
      BY DEF Init, StepsInv, Faithful, Apart, Sorted, Moved, Rewritten
    <2>4. QED
      BY <2>1, <2>2, <2>3 DEF OptInv
  <1>2. OptInv /\ [Next]_vars => OptInv'
    BY NextTypeOK, DropKeeps, OthersKeepKept, NextKeepsSteps DEF OptInv
  <1>3. QED
    BY <1>1, <1>2, PTL DEF Spec

\* No step of the plan (optimizer.py:289-364, 528-534) is done twice, and one that
\* is not done looked like one before it that is, or one of the two was swallowed
\* by a merge: dropping, merging and moving lose nothing else, at any level.
THEOREM StepsOnce == Spec => []EachStepOnce
  <1>1. OptInv => EachStepOnce
    <2>1. SUFFICES ASSUME OptInv, Rewritten, NEW n \in DOMAIN input
                   PROVE  /\ \A j, k \in DOMAIN steps :
                               n \in steps[j].id \cap steps[k].id => j = k
                          /\ \E m \in 1..n : /\ Done(m) \/ Swallowed(m)
                                             /\ Alike(m, n)
      BY DEF EachStepOnce, Alike
    <2>2. \A j, k \in DOMAIN steps : n \in steps[j].id \cap steps[k].id => j = k
      BY <2>1 DEF OptInv, StepsInv, Apart
    <2>3. PICK m \in 1..n, j \in DOMAIN steps : m \in steps[j].id /\ Alike(m, n)
      BY <2>1 DEF OptInv, StepsInv, Stands
    <2>3a. Speaks(steps[j])
      BY <2>1, <2>3 DEF OptInv, StepsInv, Faithful
    <2>4. PICK l \in steps[j].id : Leads(steps[j], l)
      BY <2>3a DEF Speaks
    <2>5. CASE l = m
      BY <2>2, <2>3, <2>4, <2>5 DEF Done, Leads
    <2>6. CASE l # m
      <3>1. l <= m /\ l \in Nat /\ m \in Nat /\ Does(steps[j], l) /\ Joins(steps[j].kind, m)
        <4>1. l \in DOMAIN input /\ m \in DOMAIN input
          BY <2>3, <2>3a DEF Speaks
        <4>2. l \in Nat /\ m \in Nat
          BY <4>1, Originals DEF OptInv
        <4>3. QED
          BY <2>3, <2>4, <2>6, <4>2 DEF Leads, Does
      <3>2. l < m
        BY <2>6, <3>1
      <3>3. input[l].kind.tool = steps[j].kind.tool /\ input[l].kind.retry = steps[j].kind.retry
        <4>1. steps[j].kind = [input[l].kind EXCEPT !.params = steps[j].kind.params]
          BY <3>1 DEF Does
        <4>2. input[l].kind \in Kind
          <5>1. l \in DOMAIN input
            BY <2>3a DEF Speaks
          <5>2. QED
            BY <2>1, <5>1, Originals DEF OptInv, Step
        <4>3. QED
          BY <4>1, <4>2 DEF Kind
      <3>4. Swallowed(m)
        BY <2>3, <3>1, <3>2, <3>3 DEF Swallowed, Joins
      <3>5. QED
        BY <2>2, <2>3, <3>4
    <2>7. QED
      BY <2>5, <2>6
  <1>2. QED
    BY <1>1, Invariance, PTL

\* In a plan without a cycle no step waits for itself
LEMMA NoSelfWait ==
  ASSUME NEW s \in Seq(Step), ~Cyclic(ExplicitGraph(s)), NEW j \in DOMAIN s
  PROVE  s[j].id \notin s[j].deps
  <1>1. PICK f : f \in Generations(ExplicitGraph(s))
    BY DEF Cyclic
  <1>2. ExplicitGraph(s).node = Ids(s) /\ ExplicitGraph(s).edge = Dependencies(s)
    BY DEF ExplicitGraph
  <1>3. s[j].id \in Ids(s)
    BY DEF Ids
  <1>4. f[s[j].id] \in Nat
    <2>1. Cardinality(Ids(s)) \in Nat
      BY IdsFinite
    <2>2. f \in [Ids(s) -> 1..Cardinality(Ids(s))]
      BY <1>1, <1>2 DEF Generations
    <2>3. QED
      BY <2>1, <2>2, <1>3
  <1>5. ASSUME s[j].id \in s[j].deps
        PROVE  FALSE
    <2>1. <<s[j].id, s[j].id>> \in Dependencies(s)
      BY <1>3, <1>5 DEF Dependencies
    <2>2. f[s[j].id] < f[s[j].id]
      BY <2>1, <1>1, <1>2, <1>3 DEF Generations
    <2>3. QED
      BY <2>2, <1>4
  <1>6. QED
    BY <1>5

\* What passes the validator after all the rewriting still waits for whatever
\* the original waited for, in steps of their own and without a circle.
THEOREM DependenciesKept == Spec => []AcceptedKeepsDependencies
  <1>1. OptInv => AcceptedKeepsDependencies
    <2>1. SUFFICES ASSUME OptInv, pc = "accepted"
                   PROVE  /\ \A j \in DOMAIN steps : \A n \in steps[j].id :
                               \A d \in input[n].deps :
                                 /\ d \in steps[j].deps
                                 /\ \E k \in DOMAIN steps : k # j /\ steps[k].id = d
                          /\ ~Cyclic(ExplicitGraph(steps))
      BY DEF AcceptedKeepsDependencies
    <2>2. /\ steps \in Seq(Step) /\ Faithful(steps)
          /\ Known(steps) /\ ~Cyclic(ExplicitGraph(steps))
      BY <2>1 DEF OptInv, TypeOK, StepsInv, Valid
    <2>3. ASSUME NEW j \in DOMAIN steps, NEW n \in steps[j].id, NEW d \in input[n].deps
          PROVE  d \in steps[j].deps /\ \E k \in DOMAIN steps : k # j /\ steps[k].id = d
      <3>1. d \in steps[j].deps
        BY <2>2, <2>3 DEF Faithful, Speaks
      <3>2. PICK k \in DOMAIN steps : steps[k].id = d
        BY <2>2, <3>1 DEF Known, Ids
      <3>3. k # j
        BY <3>1, <3>2, <2>2, NoSelfWait
      <3>4. QED
        BY <3>1, <3>2, <3>3
    <2>4. QED
      BY <2>2, <2>3
  <1>2. QED
    BY <1>1, Invariance, PTL

\* A list that respects depends_on is returned as one, merging included, at
\* every level that does not move the longest path to the front.
THEOREM OrderIsKept == Spec => []OrderKept
  <1>1. OptInv => OrderKept
    <2>1. SUFFICES ASSUME OptInv, pc = "accepted", level # "aggressive", InOrder(input),
                          NEW m \in DOMAIN steps, NEW n \in DOMAIN steps,
                          steps[m].id \in steps[n].deps
                   PROVE  m < n
      BY DEF OrderKept, InOrder
    <2>2. /\ steps \in Seq(Step) /\ Faithful(steps) /\ Sorted(steps)
          /\ ~Cyclic(ExplicitGraph(steps))
      BY <2>1 DEF OptInv, TypeOK, StepsInv, Valid, Moved
    <2>3. PICK b \in steps[n].id : steps[m].id \in input[b].deps
      BY <2>1, <2>2 DEF Faithful, Speaks
    <2>4. b \in DOMAIN input
      BY <2>2, <2>3 DEF Faithful, Speaks
    <2>5. PICK x \in steps[m].id : steps[m].id = {x}
      BY <2>1, <2>3, <2>4, PlanAssumption DEF OptInv
    <2>6. x \in DOMAIN input
      BY <2>2, <2>5 DEF Faithful, Speaks
    <2>7. x < b
      BY <2>1, <2>3, <2>4, <2>5, <2>6, Originals DEF OptInv, InOrder
    <2>8. x \in Nat /\ b \in Nat
      BY <2>2, <2>3, <2>5, IdNat
    <2>9. ~(n < m)
      BY <2>2, <2>3, <2>5, <2>7, <2>8, SMTT(30) DEF Sorted
    <2>10. m # n
      BY <2>1, <2>2, NoSelfWait
    <2>11. m \in Nat /\ n \in Nat
      BY <2>2
    <2>12. QED
      BY <2>9, <2>10, <2>11
  <1>2. QED
    BY <1>1, Invariance, PTL

-----------------------------------------------------------------------------
\* Graphs

\* A numbering of part of a graph in which each node comes right after the last
\* of its predecessors, all of which belong to the part
Numbers(g, part, f) ==
    /\ f \in [part -> 1..Cardinality(part)]
    /\ \A v \in part :
         /\ \A e \in g.edge : e[2] = v => e[1] \in part /\ f[e[1]] < f[v]
         /\ f[v] = 1 \/ (\E e \in g.edge : e[2] = v /\ f[v] = f[e[1]] + 1)

(* A set of numbers with an upper bound has a greatest element.            *)
LEMMA GreatestNatural ==
  ASSUME NEW S \in SUBSET Nat, S # {}, NEW b \in Nat, \A k \in S : k <= b
  PROVE  \E n \in S : \A k \in S : k <= n
  <1> DEFINE T == {b - k : k \in S}
  <1>1. T \in SUBSET Nat /\ T # {}
    <2>1. \A k \in S : b - k \in Nat
      OBVIOUS
    <2>2. QED
      BY <2>1
  <1> HIDE DEF T
  <1>2. PICK t \in T : \A k \in T : t <= k
    BY <1>1, LeastNatural
  <1>3. PICK n \in S : t = b - n
    BY <1>2 DEF T
  <1>4. ASSUME NEW k \in S
        PROVE  k <= n
    <2>1. b - k \in T
      BY DEF T
    <2>2. b - n <= b - k
      BY <1>2, <1>3, <2>1
    <2>3. QED
      BY <2>2
  <1>5. QED
    BY <1>4

(* A numbering extends to nodes all of whose predecessors it numbers.      *)
LEMMA NumbersExtend ==
  ASSUME NEW g, NEW part, NEW more, IsFiniteSet(part \cup more), part \cap more = {},
         \A e \in g.edge : e[2] \in more => e[1] \in part,
         NEW f, Numbers(g, part, f)
  PROVE  \E h : Numbers(g, part \cup more, h)
  <1> DEFINE Before(v) == {f[e[1]] : e \in {d \in g.edge : d[2] = v}}
             Latest(v) == CHOOSE n \in Before(v) : \A k \in Before(v) : k <= n
             whole == part \cup more
             h == [v \in whole |-> IF v \in part THEN f[v]
                                   ELSE IF Before(v) = {} THEN 1 ELSE Latest(v) + 1]
  <1>1. /\ IsFiniteSet(part) /\ Cardinality(part) \in Nat /\ Cardinality(whole) \in Nat
        /\ Cardinality(part) <= Cardinality(whole)
    BY FS_Subset, FS_CardinalityType
  <1>2. \A v \in part : f[v] \in 1..Cardinality(part)
    BY DEF Numbers
  <1>3. ASSUME NEW v \in more, Before(v) # {}
        PROVE  /\ Latest(v) \in Before(v) /\ Latest(v) \in 1..Cardinality(part)
               /\ \A k \in Before(v) : k <= Latest(v)
    <2>1. Before(v) \subseteq 1..Cardinality(part)
      BY <1>2
    <2>2. Before(v) \in SUBSET Nat /\ \A k \in Before(v) : k <= Cardinality(part)
      BY <1>1, <2>1
    <2> DEFINE B == Before(v)
    <2>3. B # {} /\ B \in SUBSET Nat /\ \A k \in B : k <= Cardinality(part)
      BY <1>3, <2>2
    <2> HIDE DEF B
    <2>4. \E n \in B : \A k \in B : k <= n
      BY <1>1, <2>3, GreatestNatural
    <2>5. QED
      BY <2>1, <2>4 DEF B
  <1>4. ASSUME NEW v \in more
        PROVE  /\ v \notin part /\ Cardinality(part) + 1 <= Cardinality(whole)
    <2>1. v \notin part
      OBVIOUS
    <2>2. part \cup {v} \subseteq whole
      OBVIOUS
    <2>3. Cardinality(part \cup {v}) = Cardinality(part) + 1
      BY <1>1, <2>1, FS_AddElement
    <2>4. Cardinality(part \cup {v}) <= Cardinality(whole)
      BY <2>2, FS_Subset
    <2>5. QED
      BY <2>1, <2>3, <2>4
  <1> HIDE DEF Latest, Before
  <1>5. \A v \in part : h[v] = f[v]
    OBVIOUS
  <1>6. \A v \in more : h[v] = IF Before(v) = {} THEN 1 ELSE Latest(v) + 1
    BY <1>4
  <1>7. \A v \in whole : h[v] \in 1..Cardinality(whole)
    <2>1. ASSUME NEW v \in part
          PROVE  h[v] \in 1..Cardinality(whole)
      BY <1>1, <1>2, <1>5
    <2>2. ASSUME NEW v \in more
          PROVE  h[v] \in 1..Cardinality(whole)
      <3>1. CASE Before(v) = {}
        BY <1>1, <1>4, <1>6, <3>1
      <3>2. CASE Before(v) # {}
        <4>1. Latest(v) \in 1..Cardinality(part)
          BY <1>3, <2>2, <3>2
        <4>2. h[v] = Latest(v) + 1
          BY <1>6, <2>2, <3>2
        <4>3. Cardinality(part) + 1 <= Cardinality(whole)
          BY <1>4, <2>2
        <4>4. QED
          BY <1>1, <4>1, <4>2, <4>3
      <3>3. QED
        BY <3>1, <3>2
    <2>3. QED
      BY <2>1, <2>2
  <1>8. h = [v \in whole |-> h[v]]
    OBVIOUS
  <1> HIDE DEF h
  <1>9. h \in [whole -> 1..Cardinality(whole)]
    BY <1>7, <1>8
  <1>10. ASSUME NEW v \in whole, NEW e \in g.edge, e[2] = v
         PROVE  e[1] \in whole /\ h[e[1]] < h[v]
    <2>1. CASE v \in part
      BY <1>5, <1>10, <2>1 DEF Numbers
    <2>2. CASE v \in more
      <3>1. e[1] \in part /\ f[e[1]] \in Before(v)
        BY <1>10, <2>2 DEF Before
      <3>2. f[e[1]] <= Latest(v) /\ Latest(v) \in 1..Cardinality(part)
        BY <1>3, <2>2, <3>1
      <3>3. h[v] = Latest(v) + 1 /\ h[e[1]] = f[e[1]] /\ f[e[1]] \in 1..Cardinality(part)
        BY <1>2, <1>5, <1>6, <2>2, <3>1
      <3>4. QED
        BY <1>1, <3>1, <3>2, <3>3
    <2>3. QED
      BY <2>1, <2>2
  <1>11. ASSUME NEW v \in whole
         PROVE  h[v] = 1 \/ (\E e \in g.edge : e[2] = v /\ h[v] = h[e[1]] + 1)
    <2>1. CASE v \in part
      <3>1. CASE f[v] = 1
        BY <1>5, <2>1, <3>1
      <3>2. CASE f[v] # 1
        <4>1. PICK e \in g.edge : e[2] = v /\ f[v] = f[e[1]] + 1
          BY <2>1, <3>2 DEF Numbers
        <4>2. e[1] \in part
          BY <2>1, <4>1 DEF Numbers
        <4>3. QED
          BY <1>5, <2>1, <4>1, <4>2
      <3>3. QED
        BY <3>1, <3>2
    <2>2. CASE v \in more /\ Before(v) = {}
      BY <1>6, <2>2
    <2>3. CASE v \in more /\ Before(v) # {}
      <3>1. Latest(v) \in Before(v)
        BY <1>3, <2>3
      <3>2. PICK e \in g.edge : e[2] = v /\ f[e[1]] = Latest(v)
        BY <3>1 DEF Before
      <3>3. e[1] \in part
        BY <2>3, <3>2
      <3>4. QED
        BY <1>5, <1>6, <2>3, <3>2, <3>3
    <2>4. QED
      BY <2>1, <2>2, <2>3
  <1>12. Numbers(g, whole, h)
    BY <1>9, <1>10, <1>11 DEF Numbers
  <1>13. QED
    BY <1>12

(* A finite graph along whose edges some number grows is not cyclic.       *)
LEMMA GrowingIsAcyclic ==
  ASSUME NEW g, IsFiniteSet(g.node), g.edge \subseteq g.node \X g.node,
         NEW b \in Nat, NEW r \in [g.node -> 0..b],
         \A e \in g.edge : r[e[1]] < r[e[2]]
  PROVE  ~Cyclic(g)
  <1> DEFINE Part(k) == {v \in g.node : r[v] < k}
             Bad == {k \in Nat : ~\E f : Numbers(g, Part(k), f)}
  <1>1. Bad = {}
    <2> SUFFICES ASSUME Bad # {} PROVE FALSE
      OBVIOUS
    <2>1. PICK k \in Bad : \A j \in Bad : k <= j
      <3>1. Bad \in SUBSET Nat
        OBVIOUS
      <3> HIDE DEF Bad
      <3>2. QED
        BY <3>1, LeastNatural
    <2>2. k \in Nat /\ ~\E f : Numbers(g, Part(k), f)
      BY <2>1
    <2>3. CASE k = 0
      <3>1. Part(k) = {}
        BY <2>3
      <3> DEFINE f == [v \in {} |-> 1]
      <3>2. Numbers(g, {}, f)
        BY FS_EmptySet DEF Numbers
      <3> HIDE DEF f, Part
      <3>3. Numbers(g, Part(k), f)
        BY <3>1, <3>2
      <3>4. QED
        BY <2>2, <3>3
    <2>4. CASE k # 0
      <3>1. k - 1 \in Nat /\ k - 1 \notin Bad
        BY <2>1, <2>2, <2>4, SMTT(30)
      <3>2. PICK f : Numbers(g, Part(k - 1), f)
        BY <3>1
      <3> DEFINE part == Part(k - 1)
                 more == {v \in g.node : r[v] = k - 1}
      <3>3. part \cup more = Part(k) /\ part \cap more = {}
        BY <2>2, <3>1
      <3>4. IsFiniteSet(part \cup more)
        BY FS_Subset
      <3>5. \A e \in g.edge : e[2] \in more => e[1] \in part
        <4> TAKE e \in g.edge
        <4>1. e[1] \in g.node /\ r[e[1]] < r[e[2]]
          OBVIOUS
        <4>2. QED
          BY <4>1
      <3> HIDE DEF part, more
      <3>6. Numbers(g, part, f)
        BY <3>2 DEF part
      <3>7. \E h : Numbers(g, part \cup more, h)
        BY <3>3, <3>4, <3>5, <3>6, NumbersExtend
      <3>8. QED
        BY <2>2, <3>3, <3>7
    <2>5. QED
      BY <2>3, <2>4
  <1>2. PICK f : Numbers(g, Part(b + 1), f)
    <2>1. b + 1 \in Nat /\ b + 1 \notin Bad
      BY <1>1
    <2>2. QED
      BY <2>1
  <1>3. Part(b + 1) = g.node
    OBVIOUS
  <1> HIDE DEF Part
  <1>4. Numbers(g, g.node, f)
    BY <1>2, <1>3
  <1>5. f \in Generations(g)
    BY <1>4 DEF Numbers, Generations
  <1>6. QED
    BY <1>5 DEF Cyclic
-----------------------------------------------------------------------------
\* What is left of the author's steps

\* A step that stands for one original is that original, but for its group
AsWritten(s) ==
    \A n \in DOMAIN input : s.id = {n} =>
        /\ s.kind = input[n].kind /\ s.deps = input[n].deps
        /\ s.reads = input[n].reads /\ s.writes = input[n].writes

Comes(s) ==
    /\ s.id # {} /\ s.id \subseteq DOMAIN input
    /\ \E n \in DOMAIN input : s.kind.type = input[n].kind.type /\ s.kind.tool = input[n].kind.tool
    /\ AsWritten(s)
    /\ s.group = 0 \/ s.group = Group(input, layer, s.id)

OriginInv ==
    /\ layer = Unknown \/ layer \in Generations(AnalysisGraph(input))
    /\ \A j \in DOMAIN steps : Comes(steps[j])

LEMMA OriginalsCome ==
  ASSUME input \in Plans, NEW n \in DOMAIN input
  PROVE  Comes(input[n])
  <1>1. \A k \in DOMAIN input : input[k].id = {k} /\ input[k].group = 0
    BY PlanAssumption
  <1>2. AsWritten(input[n])
    <2>1. \A k \in DOMAIN input : input[n].id = {k} => k = n
      BY <1>1
    <2>2. QED
      BY <2>1 DEF AsWritten
  <1>3. input[n].id # {} /\ input[n].id \subseteq DOMAIN input /\ input[n].group = 0
    BY <1>1
  <1>4. QED
    BY <1>2, <1>3 DEF Comes

(* A merged step stands for at least two.                                  *)
LEMMA MergedComes ==
  ASSUME input \in Plans, NEW s \in Step, NEW t \in Step, Comes(s), Comes(t),
         \A a \in s.id, b \in t.id : a < b
  PROVE  Comes(Merged(s, t))
  <1> DEFINE m == Merged(s, t)
  <1>1. /\ m.id = s.id \cup t.id /\ m.group = 0
        /\ m.kind.type = s.kind.type /\ m.kind.tool = s.kind.tool
    BY DEF Merged, Step, Kind
  <1>2. \A n \in DOMAIN input : m.id # {n}
    <2> SUFFICES ASSUME NEW n \in DOMAIN input, m.id = {n} PROVE FALSE
      OBVIOUS
    <2>1. PICK a \in s.id, b \in t.id : TRUE
      BY DEF Comes
    <2>2. a = n /\ b = n /\ a < b
      BY <1>1, <2>1
    <2>3. n \in Nat
      BY Originals
    <2>4. QED
      BY <2>2, <2>3
  <1> HIDE DEF m
  <1>3. QED
    BY <1>1, <1>2 DEF Comes, AsWritten, m

LEMMA OriginInit == Init => OriginInv
  BY DEF Init, OriginInv

LEMMA OriginStep == OptInv /\ OriginInv /\ [Next]_vars => OriginInv'
  <1> SUFFICES ASSUME OptInv, OriginInv, [Next]_vars PROVE OriginInv'
    OBVIOUS
  <1>1. /\ input \in Plans /\ steps \in Seq(Step) /\ kept \in Seq(Step) /\ Selected(kept)
        /\ DOMAIN steps = 1..Len(steps) /\ Len(steps) \in Nat
        /\ input' = input /\ TypeOK
    BY DEF OptInv, TypeOK, KeptInv, Next, vars, Keep, FailAnalysis, Analyze, DropDuplicate, StartMerging,
           MergeNext, EndMerging, ParallelizeByAnalysis, ParallelizeByGroups, ApplyGraph, Validate
  <1>2. ASSUME UNCHANGED <<layer, steps>> PROVE OriginInv'
    <2>1. PICK t, f : t = steps /\ f = layer
      OBVIOUS
    <2>2. t = steps' /\ f = layer'
      BY <1>2, <2>1
    <2>3. QED
      BY <1>1, <2>1, <2>2 DEF OriginInv, Comes, AsWritten
  <1>3. ASSUME Keep PROVE OriginInv'
    <2>1. steps' = input /\ layer' = layer
      BY <1>3 DEF Keep
    <2>2. \A j \in DOMAIN input : Comes(input[j])
      BY <1>1, OriginalsCome
    <2>3. QED
      BY <1>1, <2>1, <2>2 DEF OriginInv, Comes, AsWritten
  <1>3a. ASSUME FailAnalysis PROVE OriginInv'
    BY <1>2, <1>3a DEF FailAnalysis
  <1>4. ASSUME Analyze PROVE OriginInv'
    <2>1. /\ layer' = Unknown \/ layer' \in Generations(AnalysisGraph(input))
          /\ steps' = <<>>
      BY <1>4 DEF Analyze, OptInv, KeptInv
    <2>2. QED
      BY <1>1, <2>1 DEF OriginInv
  <1>5. ASSUME MergeNext PROVE OriginInv'
    <2>1. /\ i \in DOMAIN kept /\ kept[i] \in Step /\ pc = "merge" /\ layer' = layer
      BY <1>1, <1>5 DEF MergeNext, TypeOK
    <2>2. Comes(kept[i])
      BY <1>1, <2>1, OriginalsCome DEF Selected
    <2>3. \A j \in DOMAIN steps : \A a \in steps[j].id, b \in kept[i].id : a < b
      BY <2>1, <1>1 DEF OptInv, StepsInv, TypeOK
    <2>4. ASSUME NEW t, t = steps', \A j \in DOMAIN t : Comes(t[j]) PROVE OriginInv'
      BY <1>1, <2>1, <2>4 DEF OriginInv, Comes, AsWritten
    <2>5. CASE MergesWithLast(kept[i])
      <3> DEFINE l == Len(steps)
                 m == Merged(steps[l], kept[i])
                 t == [steps EXCEPT ![l] = m]
      <3>1. l \in DOMAIN steps /\ steps[l] \in Step
        BY <1>1, <2>5 DEF MergesWithLast
      <3>2. Comes(m)
        <4>1. Comes(steps[l]) /\ \A a \in steps[l].id, b \in kept[i].id : a < b
          BY <2>3, <3>1 DEF OriginInv
        <4>2. QED
          BY <1>1, <2>1, <2>2, <3>1, <4>1, MergedComes
      <3>3. steps' = t
        BY <1>5, <2>5 DEF MergeNext
      <3> HIDE DEF m
      <3>4. \A j \in DOMAIN t : Comes(t[j])
        BY <3>1, <3>2 DEF OriginInv
      <3> HIDE DEF t
      <3>5. QED
        BY <2>4, <3>3, <3>4
    <2>6. CASE ~MergesWithLast(kept[i])
      <3> DEFINE t == Append(steps, kept[i])
      <3>1. steps' = t
        BY <1>5, <2>6 DEF MergeNext
      <3>2. /\ DOMAIN t = 1..(Len(steps) + 1) /\ t[Len(steps) + 1] = kept[i]
            /\ \A j \in 1..Len(steps) : t[j] = steps[j]
        BY <1>1, <2>1, AppendFacts
      <3> HIDE DEF t
      <3>3. \A j \in DOMAIN t : Comes(t[j])
        BY <1>1, <2>2, <3>2 DEF OriginInv
      <3>4. QED
        BY <2>4, <3>1, <3>3
    <2>7. QED
      BY <2>5, <2>6
  <1>6. ASSUME ApplyGraph PROVE OriginInv'
    <2>1. PICK o \in Bijection(DOMAIN steps, DOMAIN steps) :
            steps' = [n \in DOMAIN steps |->
                        [steps[o[n]] EXCEPT !.group = Group(input, layer, steps[o[n]].id)]]
      BY <1>6 DEF ApplyGraph, FrontFirst
    <2>2. layer' = layer
      BY <1>6 DEF ApplyGraph
    <2>3. PICK t : t = steps'
      OBVIOUS
    <2>4. o \in [DOMAIN steps -> DOMAIN steps]
      BY DEF Bijection, Injection
    <2>5. ASSUME NEW n \in DOMAIN t PROVE Comes(t[n])
      <3>1. n \in DOMAIN steps /\ o[n] \in DOMAIN steps
        BY <2>1, <2>3, <2>4
      <3> DEFINE s == steps[o[n]]
                 g == Group(input, layer, s.id)
      <3>2. s \in Step /\ Comes(s) /\ g \in Nat
        BY <1>1, <3>1, GroupType DEF OriginInv
      <3>3. t[n] = [s EXCEPT !.group = g]
        BY <2>1, <2>3, <3>1
      <3> HIDE DEF s
      <3>4. /\ t[n].id = s.id /\ t[n].kind = s.kind /\ t[n].deps = s.deps
            /\ t[n].reads = s.reads /\ t[n].writes = s.writes /\ t[n].group = g
        BY <3>2, <3>3 DEF Step
      <3>5. QED
        BY <3>2, <3>4 DEF Comes, AsWritten
    <2>6. QED
      BY <1>1, <2>2, <2>3, <2>5 DEF OriginInv, Comes, AsWritten
  <1>7. QED
    BY <1>2, <1>3, <1>4, <1>5, <1>6, <1>3a DEF Next, vars, DropDuplicate, StartMerging, EndMerging,
       ParallelizeByAnalysis, ParallelizeByGroups, Validate

-----------------------------------------------------------------------------
\* Groups

(* The layers of the analysis grow along its edges.                        *)
LEMMA LayerGrows ==
  ASSUME input \in Plans, NEW f \in Generations(AnalysisGraph(input))
  PROVE  /\ DOMAIN f = Ids(input)
         /\ \A v \in Ids(input) : f[v] \in Nat
         /\ \A e \in Dependencies(input) \cup DataFlow(input) \cup ResourceOrder(input) :
               e \in Ids(input) \X Ids(input) /\ f[e[1]] < f[e[2]]
  <1>1. /\ AnalysisGraph(input).node = Ids(input)
        /\ AnalysisGraph(input).edge
             = Dependencies(input) \cup DataFlow(input) \cup ResourceOrder(input)
    BY DEF AnalysisGraph
  <1>2. DOMAIN f = Ids(input)
    BY <1>1 DEF Generations
  <1>3. \A v \in Ids(input) : f[v] \in Nat
    BY <1>2, LayerType
  <1>4. Dependencies(input) \cup DataFlow(input) \cup ResourceOrder(input)
          \subseteq Ids(input) \X Ids(input)
    BY DEF Dependencies, DataFlow, ResourceOrder
  <1>5. \A v \in Ids(input) : \A e \in AnalysisGraph(input).edge : e[2] = v => f[e[1]] < f[v]
    BY <1>1 DEF Generations
  <1>6. ASSUME NEW e \in Dependencies(input) \cup DataFlow(input) \cup ResourceOrder(input)
        PROVE  e \in Ids(input) \X Ids(input) /\ f[e[1]] < f[e[2]]
    <2>1. e \in Ids(input) \X Ids(input)
      BY <1>4
    <2>2. e[2] \in Ids(input)
      BY <2>1
    <2>3. QED
      BY <1>1, <1>5, <2>1, <2>2
  <1>7. QED
    BY <1>2, <1>3, <1>6

(* All users of an exclusive tool lie in layers of their own, in their     *)
(* order: the analysis orders neighbours, and the rest follows.            *)
LEMMA UsersInOrder ==
  ASSUME input \in Plans, NEW f \in Generations(AnalysisGraph(input)),
         NEW a \in DOMAIN input, NEW b \in DOMAIN input, a < b,
         input[a].kind.tool = input[b].kind.tool, input[b].kind.tool \in Exclusive
  PROVE  f[{a}] < f[{b}]
  <1> DEFINE tool == input[b].kind.tool
             User(n) == n \in DOMAIN input /\ input[n].kind.tool = tool
             Late == {n \in DOMAIN input : User(n) /\ a < n /\ ~(f[{a}] < f[{n}])}
  <1>1. DOMAIN input = 1..Len(input) /\ Len(input) \in Nat
        /\ \A n \in DOMAIN input : input[n].id = {n}
    BY Originals
  <1>2. \A n \in DOMAIN input : {n} \in Ids(input) /\ f[{n}] \in Nat
    BY <1>1, LayerGrows DEF Ids
  <1>3. Late = {}
    <2> SUFFICES ASSUME Late # {} PROVE FALSE
      OBVIOUS
    <2>1. PICK n \in Late : \A k \in Late : n <= k
      <3>1. Late \in SUBSET Nat
        BY <1>1
      <3> HIDE DEF Late
      <3>2. QED
        BY <3>1, LeastNatural
    <2>2. n \in DOMAIN input /\ User(n) /\ a < n /\ ~(f[{a}] < f[{n}])
      BY <2>1
    <2> DEFINE Between == {l \in DOMAIN input : User(l) /\ a <= l /\ l < n}
    <2>3. PICK l \in Between : \A k \in Between : k <= l
      <3>1. a \in Between
        BY <1>1, <2>2
      <3>2. Between \in SUBSET Nat /\ \A k \in Between : k <= n
        BY <1>1, <2>2
      <3>3. n \in Nat
        BY <1>1, <2>2
      <3> HIDE DEF Between
      <3>4. QED
        BY <3>1, <3>2, <3>3, GreatestNatural
    <2>4. l \in DOMAIN input /\ User(l) /\ a <= l /\ l < n
      BY <2>3
    <2>5. \A k \in DOMAIN input : l < k /\ k < n => ~User(k)
      BY <1>1, <2>2, <2>3, <2>4
    <2> DEFINE e == <<{l}, {n}>>
    <2>6. e \in ResourceOrder(input)
      <3>1. /\ input[l].id = {l} /\ input[n].id = {n}
            /\ {l} \in Ids(input) /\ {n} \in Ids(input)
        BY <1>1, <1>2, <2>2, <2>4
      <3>2. /\ input[l].kind.tool = tool /\ input[n].kind.tool = tool
            /\ \A k \in DOMAIN input : l < k /\ k < n => input[k].kind.tool # tool
        BY <2>2, <2>4, <2>5
      <3> HIDE DEF tool
      <3>3. tool \in Exclusive
        BY DEF tool
      <3>4. e \in Ids(input) \X Ids(input) /\ e = <<input[l].id, input[n].id>>
        BY <3>1
      <3>5. input[l].kind.tool \in Exclusive /\ input[n].kind.tool = input[l].kind.tool
        BY <3>2, <3>3
      <3>6. \A k \in DOMAIN input : l < k /\ k < n => input[k].kind.tool # input[l].kind.tool
        BY <3>2
      <3> HIDE DEF e
      <3>7. QED
        BY <2>2, <2>4, <3>4, <3>5, <3>6 DEF ResourceOrder
    <2>7. f[{l}] < f[{n}]
      <3>1. f[e[1]] < f[e[2]]
        BY <2>6, LayerGrows
      <3>2. QED
        BY <3>1
    <2>8. CASE l = a
      BY <2>2, <2>7, <2>8
    <2>9. CASE l # a
      <3>0. a \in Nat /\ l \in Nat /\ n \in Nat
        BY <1>1, <2>2, <2>4
      <3>1. a < l /\ l \notin Late
        <4>1. a < l
          BY <2>4, <2>9, <3>0
        <4>2. ~(n <= l)
          BY <2>4, <3>0
        <4> HIDE DEF Late
        <4>3. QED
          BY <2>1, <4>1, <4>2
      <3>2. f[{a}] < f[{l}]
        BY <2>4, <3>1
      <3>3. QED
        BY <1>2, <2>2, <2>4, <2>7, <3>2
    <2>10. QED
      BY <2>8, <2>9
  <1>4. b \notin Late
    BY <1>3
  <1>5. QED
    BY <1>4

(* Two steps of one group stand for one original each, of the same layer.  *)
LEMMA GroupIsLayer ==
  ASSUME OptInv, OriginInv, NEW m \in DOMAIN steps, NEW n \in DOMAIN steps,
         m # n, steps[m].group = steps[n].group, steps[m].group # 0
  PROVE  /\ layer \in Generations(AnalysisGraph(input))
         /\ \E a, b \in DOMAIN input :
              /\ a # b /\ steps[m].id = {a} /\ steps[n].id = {b}
              /\ layer[{a}] = layer[{b}]
              /\ AsWritten(steps[m]) /\ AsWritten(steps[n])
  <1>1. Comes(steps[m]) /\ Comes(steps[n])
    BY DEF OriginInv
  <1>2. /\ steps[m].id \in DOMAIN layer /\ steps[m].group = layer[steps[m].id]
        /\ steps[n].id \in DOMAIN layer /\ steps[n].group = layer[steps[n].id]
    BY <1>1 DEF Comes, Group
  <1>3. layer \in Generations(AnalysisGraph(input))
    BY <1>2 DEF OriginInv, Unknown
  <1>4. input \in Plans /\ Apart(steps)
    BY DEF OptInv, StepsInv
  <1>5. DOMAIN layer = Ids(input)
    BY <1>3, <1>4, LayerGrows
  <1>6. PICK a \in DOMAIN input : steps[m].id = {a}
    BY <1>2, <1>4, <1>5, Originals DEF Ids
  <1>7. PICK b \in DOMAIN input : steps[n].id = {b}
    BY <1>2, <1>4, <1>5, Originals DEF Ids
  <1>8. a # b
    BY <1>4, <1>6, <1>7 DEF Apart
  <1>9. layer[{a}] = layer[{b}]
    BY <1>2, <1>6, <1>7
  <1>10. QED
    BY <1>1, <1>3, <1>6, <1>7, <1>8, <1>9 DEF Comes

(* Whoever waits for an original lies in a later layer, or is merged and   *)
(* waited for by nobody.                                                   *)
LEMMA WaitsIsLater ==
  ASSUME OptInv, OriginInv, layer \in Generations(AnalysisGraph(input)),
         NEW a \in DOMAIN input, NEW b \in DOMAIN input, {a} \in Ids(steps),
         {b} \in Waits(steps, {a})
  PROVE  layer[{a}] < layer[{b}]
  <1> DEFINE later == {w \in Ids(steps) : w \in Ids(input) => layer[{a}] < layer[w]}
  <1>1. /\ input \in Plans /\ Faithful(steps)
        /\ \A n \in DOMAIN input : input[n].id = {n} /\ \A d \in input[n].deps : \E x \in d : d = {x}
    BY PlanAssumption DEF OptInv, StepsInv
  <1>2. /\ \A v \in Ids(input) : layer[v] \in Nat
        /\ \A e \in Dependencies(input) : layer[e[1]] < layer[e[2]]
    BY <1>1, LayerGrows
  <1>3. \A n \in DOMAIN input : {n} \in Ids(input)
    BY <1>1 DEF Ids
  <1>4. ASSUME NEW e \in Dependencies(steps), e[1] \in later \cup {{a}}
        PROVE  e[2] \in later
    <2>1. e[1] \in Ids(steps) /\ e[2] \in Ids(steps)
      BY DEF Dependencies
    <2>2. PICK n \in DOMAIN steps : steps[n].id = e[2] /\ e[1] \in steps[n].deps
      BY DEF Dependencies
    <2>3. PICK x \in e[2] : e[1] \in input[x].deps /\ x \in DOMAIN input
      BY <1>1, <2>2 DEF Faithful, Speaks
    <2>4. PICK y \in e[1] : e[1] = {y}
      BY <1>1, <2>3
    <2>5. PICK k \in DOMAIN steps : steps[k].id = e[1]
      BY <2>1 DEF Ids
    <2>6. y \in DOMAIN input
      BY <2>4, <2>5 DEF OriginInv, Comes
    <2>7. e[1] \in Ids(input) /\ layer[{a}] <= layer[e[1]]
      <3>1. e[1] \in Ids(input)
        BY <1>3, <2>4, <2>6
      <3>2. layer[{a}] \in Nat /\ layer[e[1]] \in Nat
        BY <1>2, <1>3, <3>1
      <3>3. e[1] = {a} \/ layer[{a}] < layer[e[1]]
        BY <1>4, <3>1
      <3>4. CASE e[1] = {a}
        <4>1. layer[e[1]] = layer[{a}]
          BY <3>4
        <4>2. QED
          BY <3>1, <3>2, <4>1
      <3>5. QED
        BY <3>1, <3>2, <3>3, <3>4
    <2>8. ASSUME e[2] \in Ids(input)
          PROVE  layer[{a}] < layer[e[2]]
      <3>1. PICK z \in DOMAIN input : e[2] = {z}
        BY <1>1, <2>8 DEF Ids
      <3>2. x = z
        BY <2>3, <3>1
      <3> DEFINE d == <<e[1], e[2]>>
      <3>3. d \in Dependencies(input)
        BY <1>1, <2>3, <2>7, <2>8, <3>1, <3>2 DEF Dependencies
      <3>4. layer[d[1]] < layer[d[2]]
        BY <1>2, <3>3
      <3>5. layer[e[1]] < layer[e[2]]
        BY <3>4
      <3>6. QED
        BY <1>2, <1>3, <2>7, <2>8, <3>5
    <2>9. QED
      BY <2>1, <2>8
  <1>5. later \in SUBSET Ids(steps)
    OBVIOUS
  <1>6. {b} \in later
    <2> HIDE DEF later
    <2>1. QED
      BY <1>4, <1>5 DEF Waits
  <1>7. QED
    BY <1>3, <1>6

\* Steps marked as one parallel group (optimizer.py:815-849) do not wait for each
\* other, share no exclusive tool, and exchange no data that has one writer,
\* whatever was dropped, merged and moved since the analysis.
THEOREM GroupsCorrect == Spec => []GroupsAreIndependent
  <1>1. OptInv /\ OriginInv => GroupsAreIndependent
    <2> SUFFICES ASSUME OptInv, OriginInv, NEW m \in DOMAIN steps, NEW n \in DOMAIN steps,
                        m # n, steps[m].group = steps[n].group, steps[m].group # 0
                 PROVE  /\ steps[n].id \notin Waits(steps, steps[m].id)
                        /\ steps[m].kind.tool = steps[n].kind.tool
                             => steps[m].kind.tool \notin Exclusive
                        /\ \A x \in steps[n].reads : x.value \in steps[m].writes =>
                              Cardinality(Writers(input, x.value)) > 1
      BY DEF GroupsAreIndependent
    <2>1. layer \in Generations(AnalysisGraph(input))
      BY GroupIsLayer
    <2>2. PICK a \in DOMAIN input, b \in DOMAIN input :
              /\ a # b /\ steps[m].id = {a} /\ steps[n].id = {b}
              /\ layer[{a}] = layer[{b}]
              /\ AsWritten(steps[m]) /\ AsWritten(steps[n])
      BY GroupIsLayer
    <2>3. /\ input \in Plans /\ input \in Seq(Step) /\ DOMAIN input = 1..Len(input)
          /\ Len(input) \in Nat /\ \A k \in DOMAIN input : input[k].id = {k}
      BY Originals DEF OptInv
    <2>4. layer[{a}] \in Nat /\ layer[{b}] \in Nat /\ {a} \in Ids(input) /\ {b} \in Ids(input)
      <3>1. {a} \in Ids(input) /\ {b} \in Ids(input)
        BY <2>3 DEF Ids
      <3>2. QED
        BY <2>1, <2>3, <3>1, LayerGrows
    <2>5. /\ steps[m].kind = input[a].kind /\ steps[n].kind = input[b].kind
          /\ steps[m].writes = input[a].writes /\ steps[n].reads = input[b].reads
      BY <2>2 DEF AsWritten
    <2>6. steps[n].id \notin Waits(steps, steps[m].id)
      <3>1. {a} \in Ids(steps)
        BY <2>2 DEF Ids
      <3>2. QED
        BY <2>1, <2>2, <2>4, <3>1, WaitsIsLater
    <2>7. ASSUME steps[m].kind.tool = steps[n].kind.tool, steps[m].kind.tool \in Exclusive
          PROVE  FALSE
      <3>1. a < b \/ b < a
        BY <2>2, <2>3
      <3>2. input[a].kind.tool = input[b].kind.tool /\ input[b].kind.tool \in Exclusive
        BY <2>5, <2>7
      <3>3. layer[{a}] < layer[{b}] \/ layer[{b}] < layer[{a}]
        BY <2>1, <2>3, <3>1, <3>2, UsersInOrder
      <3>4. QED
        BY <2>2, <2>4, <3>3
    <2>8. ASSUME NEW x \in steps[n].reads, x.value \in steps[m].writes
          PROVE  Cardinality(Writers(input, x.value)) > 1
      <3> DEFINE k == x.value
                 W == Writers(input, k)
      <3>1. a \in W /\ W \subseteq 1..Len(input)
        BY <2>3, <2>5, <2>8 DEF Writers
      <3>2. IsFiniteSet(W) /\ Cardinality(W) \in Nat
        <4>1. IsFiniteSet(1..Len(input))
          BY <2>3, FS_Interval
        <4>2. IsFiniteSet(W)
          BY <3>1, <4>1, FS_Subset
        <4>3. QED
          BY <4>2, FS_CardinalityType
      <3>3. ASSUME Cardinality(W) <= 1
            PROVE  FALSE
        <4>1. Cardinality(W) = 1
          <5> HIDE DEF W
          <5>1. Cardinality(W) # 0
            BY <3>1, <3>2, FS_EmptySet
          <5>2. QED
            BY <3>2, <3>3, <5>1
        <4>2. W = {a}
          <5> HIDE DEF W
          <5>1. \E w : W = {w}
            BY <3>2, <4>1, FS_Singleton
          <5>2. QED
            BY <3>1, <5>1
        <4>3. Max(W) = a
          BY <2>3, <4>2 DEF Max
        <4> DEFINE e == <<{a}, {b}>>
        <4>4. e \in DataFlow(input)
          <5>1. input[Max(W)].id = {a} /\ W # {}
            BY <2>3, <4>2, <4>3
          <5>2. x \in input[b].reads /\ x.value = k /\ input[b].id = {b}
            BY <2>3, <2>5
          <5>3. k \in Keys
            <6>1. input[a] \in Step /\ k \in input[a].writes
              BY <2>3, <2>5, <2>8
            <6>2. QED
              BY <6>1 DEF Step
          <5>4. {a} # {b}
            BY <2>2
          <5>5. e \in Ids(input) \X Ids(input) /\ e[1] = {a} /\ e[2] = {b}
            BY <2>4
          <5> HIDE DEF e
          <5>6. QED
            BY <5>1, <5>2, <5>3, <5>4, <5>5 DEF DataFlow
        <4>5. layer[e[1]] < layer[e[2]]
          BY <2>1, <2>3, <4>4, LayerGrows
        <4>6. layer[{a}] < layer[{b}]
          BY <4>5
        <4>7. QED
          BY <2>2, <2>4, <4>6
      <3> HIDE DEF W
      <3>4. Cardinality(W) > 1
        BY <3>2, <3>3
      <3>5. QED
        BY <3>4 DEF W
    <2>9. QED
      BY <2>6, <2>7, <2>8
  <1>2. QED
    BY <1>1, Invariance, OriginInit, OriginStep, PTL DEF Spec

-----------------------------------------------------------------------------
\* Refusals

(* Apart from each other, the steps have as many identifiers as there are  *)
(* of them.                                                                *)
LEMMA ApartCounts ==
  ASSUME NEW s \in Seq(Step), Apart(s), \A j \in DOMAIN s : s[j].id # {}
  PROVE  Cardinality(Ids(s)) = Len(s)
  <1>1. Len(s) \in Nat /\ DOMAIN s = 1..Len(s)
    OBVIOUS
  <1> DEFINE S == 1..Len(s)
             f == [n \in S |-> s[n].id]
  <1>2. f \in [S -> Ids(s)] /\ \A n \in S : f[n] = s[n].id
    BY <1>1 DEF Ids
  <1>3. \A m, n \in S : f[m] = f[n] => m = n
    <2> SUFFICES ASSUME NEW m \in S, NEW n \in S, f[m] = f[n] PROVE m = n
      OBVIOUS
    <2>1. s[m].id = s[n].id /\ s[m].id # {}
      BY <1>1, <1>2
    <2>2. PICK x : x \in s[m].id
      BY <2>1
    <2>3. QED
      BY <1>1, <2>1, <2>2 DEF Apart
  <1>4. \A v \in Ids(s) : \E n \in S : f[n] = v
    BY <1>1, <1>2 DEF Ids
  <1> HIDE DEF f
  <1>5. f \in Bijection(S, Ids(s))
    BY <1>2, <1>3, <1>4 DEF Bijection, Injection, Surjection, IsInjective
  <1>6. ExistsBijection(S, Ids(s))
    BY <1>5 DEF ExistsBijection
  <1>7. QED
    BY <1>1, <1>6, FS_CountingElements

(* Dependencies of the result lead from originals, either to originals     *)
(* that depended on them, or to merged steps, on which nobody depends: the *)
(* rewriting makes no circle where there was none.                         *)
LEMMA NoNewCircle ==
  ASSUME OptInv, OriginInv, ~Cyclic(ExplicitGraph(input))
  PROVE  ~Cyclic(ExplicitGraph(steps))
  <1>1. /\ input \in Plans /\ input \in Seq(Step) /\ steps \in Seq(Step) /\ Faithful(steps)
        /\ \A n \in DOMAIN input : input[n].id = {n} /\ \A d \in input[n].deps : \E x \in d : d = {x}
    BY PlanAssumption DEF OptInv, StepsInv, TypeOK
  <1> DEFINE c == Cardinality(Ids(input))
             b == c + 1
  <1>2. c \in Nat
    BY <1>1, IdsFinite
  <1>3. PICK f : f \in Generations(ExplicitGraph(input))
    BY DEF Cyclic
  <1>4. /\ f \in [Ids(input) -> 1..c]
        /\ \A v \in Ids(input) : \A e \in Dependencies(input) : e[2] = v => f[e[1]] < f[v]
    BY <1>3 DEF Generations, ExplicitGraph
  <1> HIDE DEF c
  <1>5. \A v \in Ids(input) : f[v] \in Nat /\ f[v] <= c
    BY <1>2, <1>4
  <1> DEFINE r == [v \in Ids(steps) |-> IF v \in Ids(input) THEN f[v] ELSE b]
  <1>6. b \in Nat /\ r \in [Ids(steps) -> 0..b]
    BY <1>2, <1>5
  <1>7. ASSUME NEW e \in Dependencies(steps)
        PROVE  r[e[1]] < r[e[2]]
    <2>1. e[1] \in Ids(steps) /\ e[2] \in Ids(steps)
      BY DEF Dependencies
    <2>2. PICK n \in DOMAIN steps : steps[n].id = e[2] /\ e[1] \in steps[n].deps
      BY DEF Dependencies
    <2>3. PICK x \in e[2] : e[1] \in input[x].deps /\ x \in DOMAIN input
      BY <1>1, <2>2 DEF Faithful, Speaks
    <2>4. PICK y \in e[1] : e[1] = {y}
      BY <1>1, <2>3
    <2>5. PICK k \in DOMAIN steps : steps[k].id = e[1]
      BY <2>1 DEF Ids
    <2>6. y \in DOMAIN input
      BY <2>4, <2>5 DEF OriginInv, Comes
    <2>7. e[1] \in Ids(input)
      BY <1>1, <2>4, <2>6 DEF Ids
    <2>8. r[e[1]] = f[e[1]]
      BY <2>1, <2>7
    <2>9. CASE e[2] \in Ids(input)
      <3>1. PICK z \in DOMAIN input : e[2] = {z}
        BY <1>1, <2>9 DEF Ids
      <3>2. x = z
        BY <2>3, <3>1
      <3> DEFINE d == <<e[1], e[2]>>
      <3>3. d \in Dependencies(input)
        BY <1>1, <2>3, <2>7, <2>9, <3>1, <3>2 DEF Dependencies
      <3>4. d[2] = e[2] /\ d[1] = e[1]
        OBVIOUS
      <3> HIDE DEF d
      <3>5. f[e[1]] < f[e[2]]
        BY <1>4, <2>9, <3>3, <3>4
      <3>6. r[e[2]] = f[e[2]]
        BY <2>1, <2>9
      <3> HIDE DEF r
      <3>7. QED
        BY <2>8, <3>5, <3>6
    <2>10. CASE e[2] \notin Ids(input)
      <3>1. r[e[2]] = b
        BY <2>1, <2>10
      <3>2. f[e[1]] \in Nat /\ f[e[1]] <= c
        BY <1>5, <2>7
      <3> HIDE DEF r
      <3>3. QED
        BY <1>2, <2>8, <3>1, <3>2
    <2>11. QED
      BY <2>9, <2>10
  <1>8. IsFiniteSet(Ids(steps))
    BY <1>1, IdsAreFinite
  <1>9. Dependencies(steps) \subseteq Ids(steps) \X Ids(steps)
    BY DEF Dependencies
  <1>10. ExplicitGraph(steps).node = Ids(steps) /\ ExplicitGraph(steps).edge = Dependencies(steps)
    BY DEF ExplicitGraph
  <1> HIDE DEF b, r
  <1>11. QED
    BY <1>6, <1>7, <1>8, <1>9, <1>10, GrowingIsAcyclic

(* A result of a valid plan in which every name in depends_on is still     *)
(* there is valid.                                                         *)
LEMMA ResultIsValid ==
  ASSUME OptInv, OriginInv, Rewritten, Valid(input), Known(steps)
  PROVE  Valid(steps)
  <1>1. /\ input \in Seq(Step) /\ steps \in Seq(Step) /\ Faithful(steps) /\ Apart(steps)
        /\ \A j \in DOMAIN steps : Comes(steps[j])
    BY DEF OptInv, StepsInv, TypeOK, OriginInv
  <1>2. steps # <<>>
    <2>1. 1 \in DOMAIN input
      BY <1>1 DEF Valid
    <2>2. Stands(steps, 1)
      BY <2>1 DEF OptInv, StepsInv
    <2>3. QED
      BY <1>1, <2>2 DEF Stands
  <1>3. \A j \in DOMAIN steps : ValidStep(steps[j])
    BY <1>1 DEF Comes, Valid, ValidStep
  <1>4. Cardinality(Ids(steps)) = Len(steps)
    BY <1>1, ApartCounts DEF Comes
  <1>6. ~Cyclic(ExplicitGraph(steps))
    BY NoNewCircle DEF Valid
  <1>7. QED
    BY <1>2, <1>3, <1>4, <1>6 DEF Valid

\* A valid plan is refused (compiler.py:149-206, optimizer.py:340-346) only when a
\* step that others name in depends_on was dropped or merged, or when the analyzer
\* stumbled over a value: no rewriting makes a circle, an empty flow, a step twice
\* or a step the validator does not know.
THEOREM RefusedForAReason == Spec => []RejectedForAReason
  <1>1. Init => RejectedForAReason
    BY DEF Init, RejectedForAReason
  <1>2. OptInv /\ OriginInv /\ RejectedForAReason /\ [Next]_vars => RejectedForAReason'
    <2> SUFFICES ASSUME OptInv, OriginInv, RejectedForAReason, [Next]_vars,
                        pc' = "rejected", Valid(input'), ~(Analyzed' /\ Unreadable(input')),
                        Known(steps')
                 PROVE  FALSE
      BY DEF RejectedForAReason
    <2>1. CASE UNCHANGED vars
      BY <2>1 DEF vars, RejectedForAReason, Analyzed
    <2>1a. CASE FailAnalysis
      BY <2>1a DEF FailAnalysis, Analyzed
    <2>2. CASE ParallelizeByGroups
      <3>1. input' = input /\ steps' = steps /\ pc = "parallelize"
        BY <2>2 DEF ParallelizeByGroups
      <3>2. Valid(steps)
        BY <3>1, ResultIsValid DEF Rewritten
      <3>3. ~Cyclic(ExplicitGraph(steps))
        BY <3>2 DEF Valid
      <3>4. pc' = AfterParallelize
        BY <2>2, <3>3 DEF ParallelizeByGroups
      <3>5. QED
        BY <3>4 DEF AfterParallelize
    <2>3. CASE Validate
      <3>1. input' = input /\ steps' = steps /\ pc = "validate"
        BY <2>3 DEF Validate
      <3>2. Valid(steps)
        BY <3>1, ResultIsValid DEF Rewritten
      <3>3. QED
        BY <2>3, <3>2 DEF Validate
    <2>4. CASE Keep
      BY <2>4 DEF Keep
    <2>5. CASE Analyze
      BY <2>5 DEF Analyze
    <2>6. CASE DropDuplicate
      BY <2>6 DEF DropDuplicate
    <2>7. CASE StartMerging
      BY <2>7 DEF StartMerging
    <2>8. CASE MergeNext
      BY <2>8 DEF MergeNext
    <2>9. CASE EndMerging
      BY <2>9 DEF EndMerging
    <2>10. CASE ParallelizeByAnalysis
      BY <2>10 DEF ParallelizeByAnalysis, AfterParallelize
    <2>11. CASE ApplyGraph
      BY <2>11 DEF ApplyGraph
    <2>12. QED
      BY <2>1, <2>2, <2>3, <2>4, <2>5, <2>6, <2>7, <2>8, <2>9, <2>10, <2>11, <2>1a DEF Next
  <1>3. QED
    BY <1>1, <1>2, Invariance, OriginInit, OriginStep, PTL DEF Spec

-----------------------------------------------------------------------------
\* Lists

\* The place of n among the members of a set of numbers
Rank(S, n) == Cardinality({m \in S : m <= n})

(* Finitely many numbers have the ranks from 1 to their number, each once. *)
LEMMA RankGrows ==
    ASSUME NEW S \in SUBSET Nat, IsFiniteSet(S), NEW m \in S, NEW n \in S, m < n
    PROVE  Rank(S, m) < Rank(S, n) /\ Rank(S, m) \in 1..Cardinality(S)
                                   /\ Rank(S, n) \in 1..Cardinality(S)
<1> DEFINE A == {l \in S : l <= m}
           B == {l \in S : l <= n}
<1>1. A \subseteq B /\ B \subseteq S /\ A # B /\ A # {}
  <2>1. m \in A /\ n \in B /\ n \notin A /\ \A l \in S : l <= m => l <= n
    OBVIOUS
  <2>2. B \subseteq S
    OBVIOUS
  <2>3. A \subseteq B
    BY <2>1
  <2> QED
    BY <2>1, <2>2, <2>3
<1> HIDE DEF A, B
<1>2. /\ IsFiniteSet(B) /\ IsFiniteSet(A)
      /\ Cardinality(A) <= Cardinality(B) /\ Cardinality(A) # Cardinality(B)
      /\ Cardinality(B) <= Cardinality(S)
  BY <1>1, FS_Subset
<1>3. Cardinality(A) \in Nat /\ Cardinality(B) \in Nat /\ Cardinality(S) \in Nat
      /\ Cardinality(A) # 0
  BY <1>1, <1>2, FS_CardinalityType, FS_EmptySet
<1> QED
  BY <1>2, <1>3 DEF Rank, A, B

LEMMA RankType ==
    ASSUME NEW S \in SUBSET Nat, IsFiniteSet(S), NEW n \in S
    PROVE  Rank(S, n) \in 1..Cardinality(S)
<1> DEFINE B == {l \in S : l <= n}
<1>1. B \subseteq S /\ B # {}
  OBVIOUS
<1> HIDE DEF B
<1>2. IsFiniteSet(B) /\ Cardinality(B) <= Cardinality(S)
  BY <1>1, FS_Subset
<1>3. Cardinality(B) \in Nat /\ Cardinality(S) \in Nat /\ Cardinality(B) # 0
  BY <1>1, <1>2, FS_CardinalityType, FS_EmptySet
<1> QED
  BY <1>2, <1>3 DEF Rank, B

LEMMA EveryRank ==
    ASSUME NEW S \in SUBSET Nat, IsFiniteSet(S), NEW k \in 1..Cardinality(S)
    PROVE  \E n \in S : Rank(S, n) = k
<1> DEFINE Open == {l \in 1..Cardinality(S) : \A n \in S : Rank(S, n) # l}
<1>0. Cardinality(S) \in Nat
  BY FS_CardinalityType
<1> SUFFICES ASSUME Open # {} PROVE FALSE
  OBVIOUS
<1>1. PICK l \in Open : \A j \in Open : l <= j
  <2>1. Open \in SUBSET Nat
    BY <1>0
  <2> HIDE DEF Open
  <2> QED
    BY <2>1, LeastNatural
<1>2. l \in 1..Cardinality(S) /\ \A n \in S : Rank(S, n) # l
  BY <1>1
\* the numbers of a smaller rank, of which there are l - 1
<1> DEFINE Below == {n \in S : Rank(S, n) < l}
           Above == S \ Below
<1>3. Above # {}
  <2> SUFFICES ASSUME Below = S PROVE FALSE
    OBVIOUS
  <2>1. S # {}
    BY <1>0, <1>2, FS_EmptySet
  <2>2. \E n \in S : \A m \in S : m <= n
    <3> DEFINE Ranks == {Cardinality(S) - Rank(S, n) : n \in S}
    <3>1. \A n \in S : Rank(S, n) \in 1..Cardinality(S)
      BY RankType
    <3>2. Ranks \in SUBSET Nat /\ Ranks # {}
      <4>1. \A n \in S : Cardinality(S) - Rank(S, n) \in Nat
        BY <1>0, <3>1
      <4> QED
        BY <2>1, <4>1
    <3> HIDE DEF Ranks
    <3>3. PICK r \in Ranks : \A q \in Ranks : r <= q
      BY <3>2, LeastNatural
    <3>4. PICK n \in S : r = Cardinality(S) - Rank(S, n)
      BY <3>3 DEF Ranks
    <3>5. \A m \in S : Rank(S, m) <= Rank(S, n)
      <4> TAKE m \in S
      <4>1. Cardinality(S) - Rank(S, n) <= Cardinality(S) - Rank(S, m)
        BY <3>3, <3>4 DEF Ranks
      <4>2. Rank(S, m) \in Nat /\ Rank(S, n) \in Nat
        BY <3>1
      <4> QED
        BY <1>0, <4>1, <4>2
    <3>6. \A m \in S : m <= n
      BY <3>5, <3>1, RankGrows
    <3> QED
      BY <3>6
  <2>3. PICK n \in S : \A m \in S : m <= n
    BY <2>2
  <2>4. {m \in S : m <= n} = S
    BY <2>3
  <2>5. Rank(S, n) = Cardinality(S)
    BY <2>4 DEF Rank
  <2>6. Rank(S, n) < l
    BY <2>3
  <2> QED
    BY <1>0, <1>2, <2>5, <2>6
<1>4. PICK n \in Above : \A m \in Above : n <= m
  BY <1>3, LeastNatural
<1>5. \A m \in S : m <= n => m \in Below \/ m = n
  BY <1>4
<1>6. CASE l = 1
  <2>1. \A m \in S : ~(Rank(S, m) < l)
    BY <1>6, <1>0, RankType
  <2>2. {m \in S : m <= n} = {n}
    <3>1. \A m \in S : m <= n <=> m = n
      BY <1>4, <1>5, <2>1
    <3> QED
      BY <1>4, <3>1
  <2>3. Rank(S, n) = 1
    BY <2>2, FS_Singleton DEF Rank
  <2> QED
    BY <1>2, <1>4, <1>6, <2>3
<1>7. CASE l # 1
  <2>1. l - 1 \in 1..Cardinality(S) /\ l - 1 \notin Open
    BY <1>0, <1>1, <1>2, <1>7
  <2>2. PICK m \in S : Rank(S, m) = l - 1
    BY <2>1
  <2>3. m < n
    <3>1. m # n
      BY <1>0, <1>2, <1>4, <2>2
    <3>2. m \in Nat /\ n \in Nat /\ n \in S
      BY <1>4
    <3>3. ~(n < m)
      <4>1. SUFFICES ASSUME n < m PROVE FALSE
        OBVIOUS
      <4>2. Rank(S, n) < Rank(S, m) /\ Rank(S, n) \in 1..Cardinality(S)
        BY <4>1, <3>2, RankGrows
      <4> QED
        BY <1>0, <1>2, <1>4, <2>2, <4>2
    <3> QED
      BY <3>1, <3>2, <3>3
  <2>4. {j \in S : j <= n} = {j \in S : j <= m} \cup {n}
    <3>1. ASSUME NEW j \in S, j <= n, j # n, ~(j <= m) PROVE FALSE
      <4>1. j \in Below
        BY <1>4, <3>1
      <4>2. Rank(S, m) < Rank(S, j) /\ Rank(S, j) \in 1..Cardinality(S)
        BY <3>1, RankGrows
      <4> QED
        BY <1>0, <1>2, <2>2, <4>1, <4>2
    <3>2. \A j \in S : j <= n <=> j <= m \/ j = n
      BY <1>4, <2>3, <3>1
    <3> QED
      BY <1>4, <3>2
  <2>5. IsFiniteSet({j \in S : j <= m}) /\ n \notin {j \in S : j <= m}
    BY <1>4, <2>3, FS_Subset
  <2>6. Rank(S, n) = (l - 1) + 1
    <3> DEFINE T == {j \in S : j <= m}
    <3>1. Cardinality(T) = l - 1 /\ IsFiniteSet(T) /\ n \notin T
      BY <2>2, <2>5 DEF Rank
    <3>2. Rank(S, n) = Cardinality(T \cup {n})
      BY <2>4 DEF Rank
    <3> HIDE DEF T
    <3> QED
      BY <3>1, <3>2, FS_AddElement
  <2> QED
    BY <1>0, <1>2, <1>4, <2>6
<1> QED
  BY <1>6, <1>7

(* Taking plans from a list in which none comes twice leaves the others,   *)
(* each once.                                                              *)
LEMMA WithoutFacts ==
    ASSUME NEW S, NEW s \in Seq(S), IsInjective(s), NEW gone
    PROVE  /\ Without(s, gone) \in Seq(S)
           /\ IsInjective(Without(s, gone))
           /\ ToSet(Without(s, gone)) = ToSet(s) \ gone
<1> DEFINE left == {n \in DOMAIN s : s[n] \notin gone \/ (\E m \in 1..(n - 1) : s[m] = s[n])}
           w == Without(s, gone)
<1>1. DOMAIN s = 1..Len(s) /\ Len(s) \in Nat
  OBVIOUS
<1>2. \A n \in DOMAIN s : n \in left <=> s[n] \notin gone
  BY <1>1 DEF IsInjective
<1>3. left \in SUBSET Nat /\ IsFiniteSet(left)
  <2>1. IsFiniteSet(1..Len(s))
    BY <1>1, FS_Interval
  <2> QED
    BY <1>1, <2>1, FS_Subset
<1>4. w = [k \in 1..Cardinality(left) |-> s[CHOOSE n \in left : Rank(left, n) = k]]
  BY DEF Without, Rank
<1>5. Cardinality(left) \in Nat
  BY <1>3, FS_CardinalityType
<1>6. left \subseteq DOMAIN s
  OBVIOUS
<1> HIDE DEF left, w
<1>7. \A k \in 1..Cardinality(left) : \E n \in left : w[k] = s[n] /\ Rank(left, n) = k
  <2> TAKE k \in 1..Cardinality(left)
  <2>1. \E n \in left : Rank(left, n) = k
    BY <1>3, EveryRank
  <2> QED
    BY <2>1, <1>4
<1>8. DOMAIN w = 1..Cardinality(left) /\ w \in Seq(S) /\ Len(w) = Cardinality(left)
  <2>1. \A k \in 1..Cardinality(left) : w[k] \in S
    BY <1>1, <1>6, <1>7
  <2>2. DOMAIN w = 1..Cardinality(left) /\ w = [k \in 1..Cardinality(left) |-> w[k]]
    BY <1>4
  <2> QED
    BY <1>5, <2>1, <2>2
<1>9. IsInjective(w)
  <2> SUFFICES ASSUME NEW j \in DOMAIN w, NEW k \in DOMAIN w, w[j] = w[k] PROVE j = k
    BY DEF IsInjective
  <2>1. PICK m \in left : w[j] = s[m] /\ Rank(left, m) = j
    BY <1>7, <1>8
  <2>2. PICK n \in left : w[k] = s[n] /\ Rank(left, n) = k
    BY <1>7, <1>8
  <2> QED
    BY <1>6, <2>1, <2>2 DEF IsInjective
<1>10. ToSet(w) = ToSet(s) \ gone
  <2>1. ASSUME NEW e \in ToSet(w) PROVE e \in ToSet(s) \ gone
    BY <1>2, <1>6, <1>7, <1>8 DEF ToSet
  <2>2. ASSUME NEW e \in ToSet(s), e \notin gone PROVE e \in ToSet(w)
    <3>1. PICK m \in DOMAIN s : e = s[m]
      BY DEF ToSet
    <3>2. m \in left
      BY <1>2, <2>2, <3>1
    <3>3. Rank(left, m) \in 1..Cardinality(left)
      BY <1>3, <3>2, RankType
    <3>4. PICK n \in left : w[Rank(left, m)] = s[n] /\ Rank(left, n) = Rank(left, m)
      BY <1>7, <3>3
    <3>5. m \in Nat /\ n \in Nat
      BY <1>3, <3>2
    <3>6. n = m
      <4>1. ~(m < n)
        BY <1>3, <1>5, <3>2, <3>4, RankGrows
      <4>2. ~(n < m)
        BY <1>3, <1>5, <3>2, <3>4, RankGrows
      <4> QED
        BY <3>5, <4>1, <4>2
    <3> QED
      BY <1>8, <3>1, <3>3, <3>4, <3>6 DEF ToSet
  <2> QED
    BY <2>1, <2>2
<1> QED
  BY <1>8, <1>9, <1>10 DEF w

-----------------------------------------------------------------------------
\* A cache whose list and indexes agree with its entries, and that is not too large

Good(c) == c \in Cache /\ Agrees(c) /\ WithinLimits(Kept(c))

LEMMA KeptFinite ==
    ASSUME NEW c
    PROVE  Kept(c) \subseteq Hashes /\ IsFiniteSet(Kept(c)) /\ Cardinality(Kept(c)) \in Nat
<1>1. Kept(c) \subseteq Hashes
  BY DEF Kept
<1>2. IsFiniteSet(Kept(c))
  BY <1>1, HashAssumption, FS_Subset
<1> QED
  BY <1>1, <1>2, FS_CardinalityType

(* Bytes of plans: fewer plans have fewer.                                 *)
LEMMA BytesFacts ==
    ASSUME NEW K \in SUBSET Hashes, NEW J \in SUBSET K
    PROVE  Bytes(K) \in Nat /\ Bytes(J) \in Nat /\ Bytes(J) <= Bytes(K)
<1> DEFINE Of(h) == {h} \X (1..SizeOf[h])
           all == {Of(h) : h \in K}
           some == {Of(h) : h \in J}
<1>1. ASSUME NEW h \in K PROVE IsFiniteSet(Of(h))
  <2>1. SizeOf[h] \in Nat
    BY HashAssumption
  <2>2. IsFiniteSet(1..SizeOf[h])
    BY <2>1, FS_Interval
  <2>3. IsFiniteSet({h})
    BY FS_Singleton
  <2> QED
    BY <2>2, <2>3, FS_Product
<1>2. IsFiniteSet(K)
  BY HashAssumption, FS_Subset
<1> HIDE DEF Of
<1>3. IsFiniteSet(all)
  <2> DEFINE f == [h \in K |-> Of(h)]
  <2>1. f \in Surjection(K, all)
    BY DEF Surjection
  <2> QED
    BY <1>2, <2>1, FS_Surjection
<1>4. \A T \in all : IsFiniteSet(T)
  BY <1>1
<1> HIDE DEF all, some
<1>5. IsFiniteSet(UNION all)
  BY <1>3, <1>4, FS_UNION
<1>6. UNION some \subseteq UNION all
  BY DEF all, some
<1>7. /\ Cardinality(UNION all) \in Nat /\ Cardinality(UNION some) \in Nat
      /\ Cardinality(UNION some) <= Cardinality(UNION all)
  BY <1>5, <1>6, FS_Subset, FS_CardinalityType
<1>8. Bytes(K) = Cardinality(UNION all) /\ Bytes(J) = Cardinality(UNION some)
  BY DEF Bytes, all, some, Of
<1> QED
  BY <1>7, <1>8

LEMMA NoBytes == Bytes({}) = 0
<1>1. UNION {{h} \X (1..SizeOf[h]) : h \in {}} = {}
  OBVIOUS
<1> QED
  BY <1>1, FS_EmptySet DEF Bytes

(* Fewer plans are within the limits too.                                  *)
LEMMA FewerFit ==
    ASSUME NEW K \in SUBSET Hashes, NEW J \in SUBSET K, WithinLimits(K)
    PROVE  WithinLimits(J)
<1>1. Cardinality(J) <= MaxEntries
  <2>1. IsFiniteSet(K)
    BY HashAssumption, FS_Subset
  <2>2. Cardinality(J) <= Cardinality(K) /\ Cardinality(J) \in Nat /\ Cardinality(K) \in Nat
    BY <2>1, FS_Subset, FS_CardinalityType
  <2> QED
    BY <2>2, ConfigAssumption DEF WithinLimits
<1>2. ASSUME J # {} PROVE \E h \in J : Bytes(J \ {h}) <= MaxSize
  <2>1. PICK h \in K : Bytes(K \ {h}) <= MaxSize
    BY <1>2 DEF WithinLimits
  <2>2. PICK j \in J : J \ {j} \subseteq K \ {h}
    <3>1. CASE h \in J
      BY <3>1
    <3>2. CASE h \notin J
      BY <1>2, <3>2
    <3> QED
      BY <3>1, <3>2
  <2>3. Bytes(J \ {j}) <= Bytes(K \ {h}) /\ Bytes(J \ {j}) \in Nat /\ Bytes(K \ {h}) \in Nat
    <3> DEFINE L == K \ {h}
               M == J \ {j}
    <3>1. L \in SUBSET Hashes /\ M \in SUBSET L
      BY <2>2
    <3> HIDE DEF L, M
    <3>2. Bytes(M) <= Bytes(L) /\ Bytes(M) \in Nat /\ Bytes(L) \in Nat
      BY <3>1, BytesFacts
    <3> QED
      BY <3>2 DEF L, M
  <2> QED
    BY <2>1, <2>3, ConfigAssumption
<1> QED
  BY <1>1, <1>2 DEF WithinLimits

(* One plan more is, if there is room for its entry and the others fit.    *)
LEMMA OneMoreFits ==
    ASSUME NEW K \in SUBSET Hashes, Cardinality(K) < MaxEntries, Bytes(K) <= MaxSize,
           NEW h \in Hashes
    PROVE  WithinLimits(K \cup {h})
<1>1. IsFiniteSet(K)
  BY HashAssumption, FS_Subset
<1>2. Cardinality(K \cup {h}) <= MaxEntries
  <2>1. Cardinality(K \cup {h}) <= Cardinality(K) + 1 /\ Cardinality(K) \in Nat
        /\ Cardinality(K \cup {h}) \in Nat
    <3>1. IsFiniteSet(K \cup {h})
      BY <1>1, FS_AddElement
    <3>2. Cardinality(K \cup {h}) = IF h \in K THEN Cardinality(K) ELSE Cardinality(K) + 1
      BY <1>1, FS_AddElement
    <3>3. Cardinality(K) \in Nat /\ Cardinality(K \cup {h}) \in Nat
      BY <1>1, <3>1, FS_CardinalityType
    <3> QED
      BY <3>2, <3>3
  <2> QED
    BY <2>1, ConfigAssumption
<1>3. Bytes((K \cup {h}) \ {h}) <= MaxSize
  <2> DEFINE J == (K \cup {h}) \ {h}
  <2>1. J \in SUBSET K
    OBVIOUS
  <2> HIDE DEF J
  <2>2. Bytes(J) <= Bytes(K) /\ Bytes(J) \in Nat /\ Bytes(K) \in Nat
    BY <2>1, BytesFacts
  <2>3. Bytes(J) <= MaxSize
    BY <2>2, ConfigAssumption
  <2> QED
    BY <2>3 DEF J
<1> QED
  BY <1>2, <1>3 DEF WithinLimits

LEMMA EmptyIsGood == Good(EmptyCache) /\ Kept(EmptyCache) = {}
<1>1. Kept(EmptyCache) = {}
  BY DEF Kept, EmptyCache
<1>2. EmptyCache \in Cache
  BY DEF EmptyCache, Cache
<1>3. IsInjective(EmptyCache.order) /\ ToSet(EmptyCache.order) = {}
  BY DEF EmptyCache, IsInjective, ToSet
<1>4. \A t \in Tenants : EmptyCache.byTenant[t] = {}
  BY DEF EmptyCache
<1>5. Cardinality({}) = 0
  BY FS_EmptySet
<1>6. Agrees(EmptyCache)
  BY <1>1, <1>3, <1>4 DEF Agrees
<1>7. WithinLimits({})
  BY <1>5, ConfigAssumption DEF WithinLimits
<1> QED
  BY <1>1, <1>2, <1>6, <1>7 DEF Good

LEMMA CleanedIsGood ==
    ASSUME NEW c, Good(c)
    PROVE  Good(Cleaned(c)) /\ Kept(Cleaned(c)) = Kept(c)
<1>1. /\ Cleaned(c) \in Cache /\ Cleaned(c).entries = c.entries
      /\ Cleaned(c).order = c.order /\ Cleaned(c).byTenant = c.byTenant
      /\ Cleaned(c).byTag = c.byTag
  BY DEF Good, Cache, Cleaned
<1>2. Kept(Cleaned(c)) = Kept(c)
  BY <1>1 DEF Kept
<1> QED
  BY <1>1, <1>2 DEF Good, Agrees

(* Evicting takes the plans out of the entries, the list and the indexes.  *)
LEMMA EvictAllIsGood ==
    ASSUME NEW c, Good(c), NEW plans
    PROVE  /\ Good(EvictAll(c, plans))
           /\ Kept(EvictAll(c, plans)) = Kept(c) \ plans
           /\ EvictAll(c, plans).order = Without(c.order, plans \cap Kept(c))
<1> DEFINE gone == plans \cap Kept(c)
           d == EvictAll(c, plans)
           entries == [h \in Hashes |-> IF h \in gone THEN NotKept ELSE c.entries[h]]
           byTenant == [t \in Tenants |-> c.byTenant[t] \ {h \in gone : TenantOf[h] = t}]
           byTag == [g \in Tags |-> c.byTag[g] \ {h \in gone : g \in c.entries[h].tags}]
<1>1. /\ c \in Cache
      /\ c.order \in Seq(Hashes) /\ IsInjective(c.order) /\ ToSet(c.order) = Kept(c)
      /\ c.entries \in [Hashes -> {NotKept} \cup Entry]
      /\ c.byTenant \in [Tenants -> SUBSET Hashes]
      /\ c.byTag \in [Tags -> SUBSET Hashes]
  BY DEF Good, Agrees, Cache
<1>2. d = [c EXCEPT !.entries = entries, !.order = Without(c.order, gone),
                    !.byTenant = byTenant, !.byTag = byTag]
  BY DEF EvictAll
<1>3. /\ Without(c.order, gone) \in Seq(Hashes) /\ IsInjective(Without(c.order, gone))
      /\ ToSet(Without(c.order, gone)) = Kept(c) \ gone
  BY <1>1, WithoutFacts
<1>4. entries \in [Hashes -> {NotKept} \cup Entry]
  BY <1>1
<1>5. byTenant \in [Tenants -> SUBSET Hashes]
  BY <1>1
<1>6. byTag \in [Tags -> SUBSET Hashes]
  BY <1>1
<1> HIDE DEF d, entries, byTenant, byTag
<1>7. /\ d \in Cache
      /\ d.entries = entries /\ d.order = Without(c.order, gone)
      /\ d.byTenant = byTenant /\ d.byTag = byTag
  BY <1>1, <1>2, <1>3, <1>4, <1>5, <1>6 DEF Cache
<1>8. Kept(d) = Kept(c) \ plans
  BY <1>7 DEF Kept, entries
<1>9. \A t \in Tenants : d.byTenant[t] = {h \in Kept(d) : TenantOf[h] = t}
  <2> TAKE t \in Tenants
  <2>1. c.byTenant[t] = {h \in Kept(c) : TenantOf[h] = t}
    BY DEF Good, Agrees
  <2>2. d.byTenant[t] = c.byTenant[t] \ {h \in gone : TenantOf[h] = t}
    BY <1>7 DEF byTenant
  <2> QED
    BY <1>8, <2>1, <2>2
<1>10. \A h \in Kept(d) : \A g \in d.entries[h].tags : h \in d.byTag[g]
  <2> SUFFICES ASSUME NEW h \in Kept(d), NEW g \in d.entries[h].tags PROVE h \in d.byTag[g]
    OBVIOUS
  <2>1. h \in Kept(c) /\ h \notin gone /\ h \in Hashes
    BY <1>8, KeptFinite
  <2>2. d.entries[h] = c.entries[h]
    BY <1>7, <2>1 DEF entries
  <2>3. h \in c.byTag[g] /\ g \in Tags
    BY <1>1, <2>1, <2>2 DEF Good, Agrees, Kept, Entry
  <2> QED
    BY <1>7, <2>1, <2>3 DEF byTag
<1>11. WithinLimits(Kept(d))
  <2>1. Kept(d) \subseteq Kept(c) /\ Kept(c) \subseteq Hashes
    BY <1>8, KeptFinite
  <2>2. WithinLimits(Kept(c))
    BY DEF Good
  <2> QED
    BY <2>1, <2>2, FewerFit
<1>12. Good(d)
  <2>1. IsInjective(d.order) /\ ToSet(d.order) = Kept(d)
    BY <1>3, <1>7, <1>8
  <2> QED
    BY <1>7, <1>9, <1>10, <1>11, <2>1 DEF Good, Agrees
<1> QED
  BY <1>7, <1>8, <1>12 DEF d

LEMMA EvictOldestIsGood ==
    ASSUME NEW c, Good(c)
    PROVE  /\ Good(EvictOldest(c))
           /\ Kept(EvictOldest(c)) \subseteq Kept(c)
           /\ Kept(c) # {} => Kept(EvictOldest(c)) # Kept(c)
<1>1. CASE c.order = <<>>
  <2>1. Kept(c) = {}
    BY <1>1 DEF Good, Agrees, ToSet
  <2> QED
    BY <1>1, <2>1 DEF EvictOldest
<1>2. CASE c.order # <<>>
  <2>1. c.order[1] \in Kept(c)
    BY <1>2 DEF Good, Agrees, ToSet, Cache
  <2>2. EvictOldest(c) = EvictAll(c, {c.order[1]})
    BY <1>2 DEF EvictOldest, Evict
  <2>3. \A p : Good(EvictAll(c, p)) /\ Kept(EvictAll(c, p)) = Kept(c) \ p
    BY EvictAllIsGood
  <2>4. Good(EvictOldest(c)) /\ Kept(EvictOldest(c)) = Kept(c) \ {c.order[1]}
    BY <2>2, <2>3
  <2> QED
    BY <2>1, <2>4
<1> QED
  BY <1>1, <1>2

(* There is room for one more plan.                                        *)
LEMMA ShrinkFits ==
    ASSUME NEW c, Good(c)
    PROVE  /\ Good(Shrink(c))
           /\ Kept(Shrink(c)) \subseteq Kept(c)
           /\ Bytes(Kept(Shrink(c))) <= MaxSize
<1> DEFINE Left(n) == EvictAll(c, Oldest(c, n))
           S == {n \in 0..Len(c.order) : Small(Left(n))}
<1>1. c.order \in Seq(Hashes) /\ ToSet(c.order) = Kept(c)
  BY DEF Good, Agrees, Cache
<1>2. Len(c.order) \in Nat /\ DOMAIN c.order = 1..Len(c.order)
  BY <1>1
<1>3. \A p : Good(EvictAll(c, p)) /\ Kept(EvictAll(c, p)) = Kept(c) \ p
  BY EvictAllIsGood
<1>4. Len(c.order) \in S
  <2>1. Oldest(c, Len(c.order)) = Kept(c)
    BY <1>1, <1>2 DEF Oldest, ToSet
  <2>2. Kept(Left(Len(c.order))) = {}
    BY <1>3, <2>1
  <2> QED
    BY <1>2, <2>2 DEF Small
<1> HIDE DEF Left
<1>5. S \in SUBSET Nat
  BY <1>2
<1>6. Shrink(c) = Left(Min(S))
  BY DEF Shrink, Left
<1>7. Min(S) \in S
  <2> DEFINE T == S
  <2> HIDE DEF T
  <2>1. T \in SUBSET Nat /\ T # {}
    BY <1>4, <1>5 DEF T
  <2>2. PICK n \in T : \A k \in T : n <= k
    BY <2>1, LeastNatural
  <2>3. Min(T) \in T
    BY <2>2 DEF Min
  <2> QED
    BY <2>3 DEF T
<1>8. Small(Shrink(c))
  BY <1>6, <1>7
<1>9. Good(Shrink(c)) /\ Kept(Shrink(c)) \subseteq Kept(c)
  BY <1>3, <1>6 DEF Left
<1>10. Bytes(Kept(Shrink(c))) <= MaxSize
  BY <1>8, NoBytes, ConfigAssumption DEF Small, Size
<1> QED
  BY <1>9, <1>10

LEMMA MakeRoomIsGood ==
    ASSUME NEW c, Good(c)
    PROVE  /\ Good(MakeRoom(c))
           /\ Kept(MakeRoom(c)) \subseteq Kept(c)
           /\ Cardinality(Kept(MakeRoom(c))) < MaxEntries
           /\ Bytes(Kept(MakeRoom(c))) <= MaxSize
<1> DEFINE d == IF Cardinality(Kept(c)) >= MaxEntries THEN EvictOldest(c) ELSE c
<1>1. MaxEntries \in Nat \ {0} /\ Cardinality(Kept(c)) \in Nat /\ Cardinality(Kept(c)) <= MaxEntries
  BY ConfigAssumption, KeptFinite DEF Good, WithinLimits
<1>2. Good(d) /\ Kept(d) \subseteq Kept(c) /\ Cardinality(Kept(d)) < MaxEntries
  <2>1. CASE Cardinality(Kept(c)) >= MaxEntries
    <3>1. d = EvictOldest(c)
      BY <2>1
    <3>2. Kept(c) # {}
      BY <1>1, <2>1, FS_EmptySet
    <3>3. Kept(d) \subseteq Kept(c) /\ Kept(d) # Kept(c) /\ Good(d)
      BY <3>1, <3>2, EvictOldestIsGood
    <3>4. Cardinality(Kept(d)) <= Cardinality(Kept(c)) /\ Cardinality(Kept(d)) # Cardinality(Kept(c))
      BY <3>3, KeptFinite, FS_Subset
    <3> QED
      BY <1>1, <3>3, <3>4, KeptFinite
  <2>2. CASE ~(Cardinality(Kept(c)) >= MaxEntries)
    BY <1>1, <2>2
  <2> QED
    BY <2>1, <2>2
<1> HIDE DEF d
<1>3. Good(Shrink(d)) /\ Kept(Shrink(d)) \subseteq Kept(d) /\ Bytes(Kept(Shrink(d))) <= MaxSize
  BY <1>2, ShrinkFits
<1>5. Cardinality(Kept(Shrink(d))) <= Cardinality(Kept(d))
  BY <1>3, KeptFinite, FS_Subset
<1>6. Cardinality(Kept(Shrink(d))) < MaxEntries
  BY <1>1, <1>2, <1>5, KeptFinite
<1>7. MakeRoom(c) = Shrink(d)
  BY DEF MakeRoom, d
<1> QED
  BY <1>2, <1>3, <1>6, <1>7

(* A list to whose end an element is moved.                                *)
LEMMA AppendOnce ==
    ASSUME NEW S, NEW s \in Seq(S), IsInjective(s), NEW e \in S, e \notin ToSet(s)
    PROVE  /\ Append(s, e) \in Seq(S) /\ IsInjective(Append(s, e))
           /\ ToSet(Append(s, e)) = ToSet(s) \cup {e}
<1> DEFINE t == Append(s, e)
<1>1. /\ t \in Seq(S) /\ DOMAIN t = 1..(Len(s) + 1) /\ DOMAIN s = 1..Len(s) /\ Len(s) \in Nat
      /\ t[Len(s) + 1] = e
      /\ \A n \in 1..Len(s) : t[n] = s[n]
  OBVIOUS
<1> HIDE DEF t
<1>2. \A n \in 1..Len(s) : t[n] # e
  BY <1>1 DEF ToSet
<1>3. IsInjective(t)
  <2> SUFFICES ASSUME NEW a \in 1..(Len(s) + 1), NEW b \in 1..(Len(s) + 1), t[a] = t[b]
               PROVE  a = b
    BY <1>1 DEF IsInjective
  <2>1. CASE a = Len(s) + 1 \/ b = Len(s) + 1
    BY <1>1, <1>2, <2>1
  <2>2. CASE a # Len(s) + 1 /\ b # Len(s) + 1
    BY <1>1, <2>2 DEF IsInjective
  <2> QED
    BY <2>1, <2>2
<1>4. ToSet(t) = ToSet(s) \cup {e}
  <2>1. ASSUME NEW x \in ToSet(t) PROVE x \in ToSet(s) \cup {e}
    BY <1>1 DEF ToSet
  <2>2. ASSUME NEW x \in ToSet(s) PROVE x \in ToSet(t)
    BY <1>1 DEF ToSet
  <2>3. e \in ToSet(t)
    BY <1>1 DEF ToSet
  <2> QED
    BY <2>1, <2>2, <2>3
<1> QED
  BY <1>1, <1>3, <1>4 DEF t

LEMMA UsedIsGood ==
    ASSUME NEW c, Good(c), NEW h \in Kept(c)
    PROVE  Good(Used(c, h)) /\ Kept(Used(c, h)) = Kept(c)
<1> DEFINE s == Without(c.order, {h})
           t == Append(s, h)
<1>1. c \in Cache /\ c.order \in Seq(Hashes) /\ IsInjective(c.order) /\ ToSet(c.order) = Kept(c)
  BY DEF Good, Agrees, Cache
<1>2. s \in Seq(Hashes) /\ IsInjective(s) /\ ToSet(s) = Kept(c) \ {h}
  BY <1>1, WithoutFacts
<1> HIDE DEF s
<1>3. h \in Hashes
  BY KeptFinite
<1>4. t \in Seq(Hashes) /\ IsInjective(t) /\ ToSet(t) = Kept(c)
  <2>1. t \in Seq(Hashes) /\ IsInjective(t) /\ ToSet(t) = ToSet(s) \cup {h}
    BY <1>2, <1>3, AppendOnce
  <2> QED
    BY <1>2, <2>1
<1> HIDE DEF t
<1>5. Used(c, h) = [c EXCEPT !.order = t]
  BY DEF Used, t, s
<1>6. /\ Used(c, h) \in Cache /\ Used(c, h).order = t
      /\ Used(c, h).entries = c.entries /\ Used(c, h).byTenant = c.byTenant
      /\ Used(c, h).byTag = c.byTag
  BY <1>1, <1>4, <1>5 DEF Cache
<1>7. Kept(Used(c, h)) = Kept(c)
  BY <1>6 DEF Kept
<1> QED
  BY <1>4, <1>6, <1>7 DEF Good, Agrees

LEMMA GetIsGood ==
    ASSUME NEW c, Good(c), NEW h \in Hashes, NEW t
    PROVE  Good(Get(c, h, t)) /\ Kept(Get(c, h, t)) \subseteq Kept(c)
<1> DEFINE d == Cleaned(c)
<1>1. Good(d) /\ Kept(d) = Kept(c)
  BY CleanedIsGood
<1> HIDE DEF d
<1>2. Good(Evict(d, h)) /\ Kept(Evict(d, h)) \subseteq Kept(c)
  <2>1. \A p : Good(EvictAll(d, p)) /\ Kept(EvictAll(d, p)) = Kept(d) \ p
    BY <1>1, EvictAllIsGood
  <2> QED
    BY <1>1, <2>1 DEF Evict
<1>3. h \in Kept(c) => Good(Used(d, h)) /\ Kept(Used(d, h)) = Kept(c)
  BY <1>1, UsedIsGood
<1>4. \/ Get(c, h, t) = d \/ Get(c, h, t) = Evict(d, h)
      \/ (h \in Kept(c) /\ Get(c, h, t) = Used(d, h))
  BY DEF Get, Hit, d
<1> QED
  BY <1>1, <1>2, <1>3, <1>4

(* A plan that is stored is kept, in the list and in the indexes it was in *)
(* and those of its tags.                                                  *)
LEMMA PutIsGood ==
    ASSUME NEW c, Good(c), NEW h \in Hashes, NEW tags \in SUBSET Tags, clock \in Nat
    PROVE  Good(Put(c, h, tags)) /\ Kept(Put(c, h, tags)) \subseteq Kept(c) \cup {h}
<1> DEFINE d == MakeRoom(c)
           entry == [kept |-> TRUE, expires |-> clock + Ttl, tags |-> tags]
           entries == [d.entries EXCEPT ![h] = entry]
           byTenant == [d.byTenant EXCEPT ![TenantOf[h]] = d.byTenant[TenantOf[h]] \cup {h}]
           byTag == [g \in Tags |-> IF g \in tags THEN d.byTag[g] \cup {h} ELSE d.byTag[g]]
           s == Without(d.order, {h})
           order == Append(s, h)
           p == Put(c, h, tags)
<1>1. /\ Good(d) /\ Kept(d) \subseteq Kept(c)
      /\ Cardinality(Kept(d)) < MaxEntries /\ Bytes(Kept(d)) <= MaxSize
  BY MakeRoomIsGood
<1> HIDE DEF d
<1>2. /\ d \in Cache
      /\ d.order \in Seq(Hashes) /\ IsInjective(d.order) /\ ToSet(d.order) = Kept(d)
      /\ d.entries \in [Hashes -> {NotKept} \cup Entry]
      /\ d.byTenant \in [Tenants -> SUBSET Hashes]
      /\ d.byTag \in [Tags -> SUBSET Hashes]
  BY <1>1 DEF Good, Agrees, Cache
<1>3. entry \in Entry /\ entry # NotKept
  <2>1. clock + Ttl \in Nat
    BY ConfigAssumption
  <2> QED
    BY <2>1 DEF Entry, NotKept
<1>4. TenantOf[h] \in Tenants
  BY HashAssumption
<1>5. entries \in [Hashes -> {NotKept} \cup Entry]
  BY <1>2, <1>3
<1>6. byTenant \in [Tenants -> SUBSET Hashes] /\ byTag \in [Tags -> SUBSET Hashes]
  BY <1>2, <1>4
<1>7. s \in Seq(Hashes) /\ IsInjective(s) /\ ToSet(s) = Kept(d) \ {h}
  BY <1>2, WithoutFacts
<1> HIDE DEF s
<1>8. order \in Seq(Hashes) /\ IsInjective(order) /\ ToSet(order) = Kept(d) \cup {h}
  <2>1. ToSet(order) = ToSet(s) \cup {h} /\ order \in Seq(Hashes) /\ IsInjective(order)
    BY <1>7, AppendOnce
  <2> QED
    BY <1>7, <2>1
<1>9. p = [d EXCEPT !.entries = entries, !.byTenant = byTenant, !.byTag = byTag, !.order = order]
  <2> DEFINE e == [d EXCEPT
            !.entries[h] = [kept |-> TRUE, expires |-> clock + Ttl, tags |-> tags],
            !.byTenant[TenantOf[h]] = d.byTenant[TenantOf[h]] \cup {h},
            !.byTag = [g \in Tags |-> IF g \in tags THEN d.byTag[g] \cup {h} ELSE d.byTag[g]]]
  <2>1. p = Used(e, h)
    BY DEF Put, d
  <2>2. e = [d EXCEPT !.entries = entries, !.byTenant = byTenant, !.byTag = byTag]
    BY <1>2 DEF Cache
  <2>3. e.order = d.order
    BY <1>2, <2>2 DEF Cache
  <2> HIDE DEF e, entries, byTenant, byTag
  <2>4. p = [e EXCEPT !.order = order]
    BY <2>1, <2>3 DEF Used, s
  <2> QED
    BY <1>2, <2>2, <2>4 DEF Cache
<1> HIDE DEF entry, entries, byTenant, byTag, order, p
<1>10. /\ p \in Cache /\ p.entries = entries /\ p.byTenant = byTenant /\ p.byTag = byTag
       /\ p.order = order
  BY <1>2, <1>5, <1>6, <1>8, <1>9 DEF Cache
<1>11. Kept(p) = Kept(d) \cup {h}
  BY <1>2, <1>3, <1>10 DEF Kept, entries
<1>12. \A t \in Tenants : p.byTenant[t] = {j \in Kept(p) : TenantOf[j] = t}
  <2> TAKE t \in Tenants
  <2>1. d.byTenant[t] = {j \in Kept(d) : TenantOf[j] = t}
    BY <1>1 DEF Good, Agrees
  <2>2. p.byTenant[t] = IF t = TenantOf[h] THEN d.byTenant[t] \cup {h} ELSE d.byTenant[t]
    BY <1>2, <1>10 DEF byTenant
  <2> QED
    BY <1>11, <2>1, <2>2
<1>13. \A j \in Kept(p) : \A g \in p.entries[j].tags : j \in p.byTag[g]
  <2> SUFFICES ASSUME NEW j \in Kept(p), NEW g \in p.entries[j].tags PROVE j \in p.byTag[g]
    OBVIOUS
  <2>1. CASE j = h
    <3>1. p.entries[j] = entry
      BY <1>2, <1>10, <2>1 DEF entries
    <3>2. g \in tags
      BY <3>1 DEF entry
    <3> QED
      BY <1>10, <2>1, <3>2 DEF byTag
  <2>2. CASE j # h
    <3>1. j \in Kept(d) /\ j \in Hashes
      BY <1>11, <2>2, KeptFinite
    <3>2. p.entries[j] = d.entries[j]
      BY <1>2, <1>10, <2>2, <3>1 DEF entries
    <3>3. j \in d.byTag[g] /\ g \in Tags
      BY <1>1, <1>2, <3>1, <3>2 DEF Good, Agrees, Kept, Entry
    <3> QED
      BY <1>10, <3>3 DEF byTag
  <2> QED
    BY <2>1, <2>2
<1>14. WithinLimits(Kept(p))
  BY <1>1, <1>11, KeptFinite, OneMoreFits
<1>15. Good(p)
  BY <1>8, <1>10, <1>11, <1>12, <1>13, <1>14 DEF Good, Agrees
<1> QED
  BY <1>1, <1>11, <1>15 DEF p

-----------------------------------------------------------------------------
\* The caches that are made

Creating == {r \in Requests : At(r, "creating")}

\* Those that found no cache have not made theirs: there are as many instances as
\* makers at most
MakersInv ==
    made # 0 => made + Cardinality(Creating) + (IF loop = "creating" THEN 1 ELSE 0)
                    <= Cardinality(Requests) + 1

\* What a request was given exists
GivenInv ==
    \A r \in Requests :
        /\ At(r, "compiler") \/ At(r, "compiling") => requests[r].optimizer \in 1..made
        /\ At(r, "compiling") => requests[r].service \in 1..made

CachesGood == IndexesAgree /\ LimitsKept

CacheInv == CacheTypeOK /\ CachesGood /\ RemovedStaysRemoved /\ MakersInv /\ GivenInv

LEMMA CacheInitGood == CacheInit => CacheInv
<1> SUFFICES ASSUME CacheInit PROVE CacheInv
  OBVIOUS
<1>1. Cardinality(Requests) \in Nat
  BY HashAssumption, FS_CardinalityType
<1>2. Cardinality(Instances) \in Nat
  BY <1>1, FS_Interval DEF Instances
<1>3. CacheTypeOK
  BY <1>2, EmptyIsGood, BoundAssumption DEF CacheInit, CacheTypeOK, Good, Idle
<1>4. CachesGood
  BY EmptyIsGood DEF CacheInit, CachesGood, IndexesAgree, LimitsKept, Good
<1>5. GivenInv
  BY DEF CacheInit, GivenInv, At, Idle
<1> QED
  BY <1>3, <1>4, <1>5 DEF CacheInv, CacheInit, RemovedStaysRemoved, MakersInv

LEMMA MadeFacts ==
    ASSUME CacheTypeOK
    PROVE  /\ Cardinality(Requests) \in Nat /\ Instances = 1..(Cardinality(Requests) + 1)
           /\ made \in 0..(Cardinality(Requests) + 1) /\ global = made
           /\ Cardinality(Instances) = Cardinality(Requests) + 1
           /\ clock \in Nat
           /\ global # 0 => global \in Instances
           /\ made + 1 \in 1..(Cardinality(Requests) + 1) => made + 1 \in Instances
<1>1. Cardinality(Requests) \in Nat
  BY HashAssumption, FS_CardinalityType
<1>2. Cardinality(Instances) = Cardinality(Requests) + 1
  BY <1>1, FS_Interval DEF Instances
<1>3. clock \in Nat
  BY BoundAssumption DEF CacheTypeOK
<1> QED
  BY <1>1, <1>2, <1>3 DEF Instances, CacheTypeOK

\* A request is served, or none moves
Served == \/ requests' = requests
          \/ \E r \in Requests : requests' = [requests EXCEPT ![r] = Idle]

LEMMA ServedKeeps ==
    ASSUME CacheTypeOK, Served
    PROVE  /\ requests' \in [Requests -> {Idle} \cup Asking \cup Preparing \cup Ready]
           /\ \A q \in Requests : requests'[q] = requests[q] \/ requests'[q] = Idle
BY DEF Served, CacheTypeOK

(* A step of the event loop that makes no cache.                           *)
LEMMA CachesChange ==
    ASSUME CacheInv, Served, UNCHANGED <<made, global, optimizer, loop>>,
           clock' \in 0..MaxClock, memo' \subseteq Optimized, removed' \subseteq Hashes,
           caches' \in [Instances -> Cache],
           \A j \in Instances : /\ Good(caches'[j])
                                /\ j > made => caches'[j] = EmptyCache,
           global # 0 => removed' \cap Kept(caches'[global]) = {}
    PROVE  CacheInv'
<1>1. CacheTypeOK /\ MakersInv /\ GivenInv
  BY DEF CacheInv
<1>2. /\ requests' \in [Requests -> {Idle} \cup Asking \cup Preparing \cup Ready]
      /\ \A q \in Requests : requests'[q] = requests[q] \/ requests'[q] = Idle
  BY <1>1, ServedKeeps
<1>3. \A q \in Requests : requests'[q] = Idle => requests'[q].pc = "idle"
  BY DEF Idle
<1>4. \A q \in Requests : requests'[q].pc \in {"returning", "compiler", "compiling"} => global' > 0
  BY <1>1, <1>2, <1>3 DEF CacheTypeOK
<1>5. CacheTypeOK'
  BY <1>1, <1>2, <1>4 DEF CacheTypeOK
<1>6. CachesGood'
  BY DEF CachesGood, IndexesAgree, LimitsKept, Good
<1>7. RemovedStaysRemoved'
  BY DEF RemovedStaysRemoved
<1>8. MakersInv'
  <2>1. Creating' \subseteq Creating
    BY <1>2, <1>3 DEF Creating, At
  <2>2. IsFiniteSet(Creating)
    BY HashAssumption, FS_Subset DEF Creating
  <2>3. Cardinality(Creating') <= Cardinality(Creating)
    BY <2>1, <2>2, FS_Subset
  <2>4. IsFiniteSet(Creating')
    BY <2>1, <2>2, FS_Subset
  <2>5. Cardinality(Creating') \in Nat /\ Cardinality(Creating) \in Nat
    BY <2>2, <2>4, FS_CardinalityType
  <2> QED
    BY <1>1, <2>3, <2>5, MadeFacts DEF MakersInv
<1>9. GivenInv'
  BY <1>1, <1>2, <1>3 DEF GivenInv, At
<1> QED
  BY <1>5, <1>6, <1>7, <1>8, <1>9 DEF CacheInv

(* What the routes do to the global cache.                                 *)
LEMMA OnGlobalStep ==
    ASSUME CacheInv, NEW c, OnGlobal(c), Good(c), removed' \subseteq Hashes,
           removed' \cap Kept(c) = {}
    PROVE  CacheInv'
<1>1. CacheTypeOK /\ CachesGood
  BY DEF CacheInv
<1>2. /\ global # 0 /\ caches' = [caches EXCEPT ![global] = c]
      /\ UNCHANGED <<clock, made, global, optimizer, memo, requests, loop>>
  BY DEF OnGlobal
<1>3. global \in Instances
  BY <1>1, <1>2, MadeFacts
<1>4. caches' \in [Instances -> Cache]
  BY <1>1, <1>2 DEF CacheTypeOK, Good
<1>5. \A j \in Instances : Good(caches'[j])
  BY <1>1, <1>2, <1>4 DEF CacheTypeOK, CachesGood, IndexesAgree, LimitsKept, Good
<1>6. \A j \in Instances : j > made => caches'[j] = EmptyCache
  <2> TAKE j \in Instances
  <2>1. j > made => j # global
    BY <1>1, MadeFacts
  <2> QED
    BY <1>1, <1>2, <2>1 DEF CacheTypeOK
<1>7. caches'[global] = c
  BY <1>1, <1>2, <1>3 DEF CacheTypeOK
<1>8. Served /\ clock' \in 0..MaxClock /\ memo' \subseteq Optimized
  BY <1>1, <1>2 DEF Served, CacheTypeOK
<1> QED
  BY <1>2, <1>4, <1>5, <1>6, <1>7, <1>8, CachesChange

LEMMA RouteSteps ==
    ASSUME CacheInv,
           \/ \E h \in Hashes, t \in Tenants : GetPlan(h, t) \/ DeletePlan(h, t)
           \/ \E t \in Tenants : InvalidateTenant(t)
           \/ \E g \in Tags : InvalidateTag(g)
           \/ Clear
    PROVE  CacheInv'
<1> DEFINE c == caches[global]
<1>1. CacheTypeOK /\ CachesGood /\ RemovedStaysRemoved /\ removed \subseteq Hashes
  BY DEF CacheInv, CacheTypeOK
<1>2. global # 0 => Good(c) /\ removed \cap Kept(c) = {}
  BY <1>1, MadeFacts DEF CacheTypeOK, CachesGood, IndexesAgree, LimitsKept, Good, RemovedStaysRemoved
<1> HIDE DEF c
<1>3. global # 0 => \A p : /\ Good(EvictAll(c, p))
                           /\ Kept(EvictAll(c, p)) = Kept(c) \ p
  BY <1>2, EvictAllIsGood
<1>4. ASSUME NEW h \in Hashes, NEW t \in Tenants, GetPlan(h, t) PROVE CacheInv'
  <2>1. global # 0 /\ OnGlobal(Get(c, h, t)) /\ removed' = removed
    BY <1>4 DEF GetPlan, OnGlobal, c
  <2> DEFINE d == Get(c, h, t)
  <2>2. Good(d) /\ Kept(d) \subseteq Kept(c)
    BY <1>2, <2>1, GetIsGood
  <2> HIDE DEF d
  <2>3. OnGlobal(d)
    BY <2>1 DEF d
  <2> QED
    BY <1>1, <1>2, <2>1, <2>2, <2>3, OnGlobalStep
<1>5. ASSUME NEW h \in Hashes, NEW t \in Tenants, DeletePlan(h, t) PROVE CacheInv'
  <2> DEFINE g == Get(c, h, t)
             d == IF Hit(c, h, t) THEN Evict(g, h) ELSE g
  <2>1. /\ OnGlobal(d)
        /\ removed' = IF Hit(c, h, t) THEN removed \cup {h} ELSE removed
    BY <1>5 DEF DeletePlan, c
  <2> HIDE DEF d
  <2>2. global # 0
    BY <2>1 DEF OnGlobal
  <2>3. Good(g) /\ Kept(g) \subseteq Kept(c)
    BY <1>2, <2>2, GetIsGood
  <2> HIDE DEF g
  <2>4. \A p : Good(EvictAll(g, p)) /\ Kept(EvictAll(g, p)) = Kept(g) \ p
    BY <2>3, EvictAllIsGood
  <2>5. Good(d) /\ removed' \cap Kept(d) = {}
    <3>1. CASE Hit(c, h, t)
      BY <1>2, <2>1, <2>2, <2>3, <2>4, <3>1 DEF d, Evict
    <3>2. CASE ~Hit(c, h, t)
      BY <1>2, <2>1, <2>2, <2>3, <3>2 DEF d
    <3> QED
      BY <3>1, <3>2
  <2> QED
    BY <1>1, <2>1, <2>5, OnGlobalStep
<1>6. ASSUME NEW t \in Tenants, InvalidateTenant(t) PROVE CacheInv'
  <2> DEFINE d == EvictAll(c, c.byTenant[t])
  <2>1. OnGlobal(d) /\ removed' = removed \cup {h \in Hashes : TenantOf[h] = t} /\ global # 0
    BY <1>6 DEF InvalidateTenant, OnGlobal, c
  <2>2. c.byTenant[t] = {h \in Kept(c) : TenantOf[h] = t}
    BY <1>2, <2>1 DEF Good, Agrees
  <2>3. Good(d) /\ Kept(d) = Kept(c) \ c.byTenant[t]
    BY <1>3, <2>1
  <2> HIDE DEF d
  <2>4. removed' \cap Kept(d) = {}
    BY <1>2, <2>1, <2>2, <2>3
  <2> QED
    BY <1>1, <2>1, <2>3, <2>4, OnGlobalStep
<1>7. ASSUME NEW g \in Tags, InvalidateTag(g) PROVE CacheInv'
  <2> DEFINE d == EvictAll(c, c.byTag[g])
  <2>1. OnGlobal(d) /\ removed' = removed \cup (Kept(c) \ Kept(d)) /\ global # 0
    BY <1>7 DEF InvalidateTag, OnGlobal, c
  <2>2. Good(d) /\ Kept(d) \subseteq Kept(c)
    BY <1>3, <2>1
  <2> HIDE DEF d
  <2>3. removed' \cap Kept(d) = {} /\ removed' \subseteq Hashes
    BY <1>1, <1>2, <2>1, <2>2, KeptFinite
  <2> QED
    BY <2>1, <2>2, <2>3, OnGlobalStep
<1>8. ASSUME Clear PROVE CacheInv'
  <2> DEFINE d == [EmptyCache EXCEPT !.cleaning = c.cleaning]
  <2>1. OnGlobal(d) /\ removed' = Hashes /\ global # 0
    BY <1>8 DEF Clear, OnGlobal, c
  <2>2. c.cleaning \in BOOLEAN /\ EmptyCache \in Cache
    BY <1>2, <2>1, EmptyIsGood DEF Good, Cache
  <2>3. /\ d \in Cache /\ d.entries = EmptyCache.entries /\ d.order = EmptyCache.order
        /\ d.byTenant = EmptyCache.byTenant /\ d.byTag = EmptyCache.byTag
    BY <2>2 DEF Cache
  <2> HIDE DEF d
  <2>4. Kept(d) = Kept(EmptyCache)
    BY <2>3 DEF Kept
  <2>5. Good(d) /\ Kept(d) = {}
    BY <2>3, <2>4, EmptyIsGood DEF Good, Agrees
  <2> QED
    BY <2>1, <2>5, OnGlobalStep
<1> QED
  BY <1>4, <1>5, <1>6, <1>7, <1>8

\* All caches are good, and those not yet made are empty
AllGood(cs) == /\ cs \in [Instances -> Cache]
               /\ \A j \in Instances : Good(cs[j]) /\ (j > made => cs[j] = EmptyCache)

(* A change to one of the caches that were made.                           *)
LEMMA OneChanges ==
    ASSUME CacheTypeOK, NEW cs, AllGood(cs), NEW j \in 1..made, NEW c, Good(c)
    PROVE  /\ AllGood([cs EXCEPT ![j] = c])
           /\ j \in Instances
           /\ [cs EXCEPT ![j] = c][j] = c
           /\ \A k \in Instances : k # j => [cs EXCEPT ![j] = c][k] = cs[k]
<1>1. j \in Instances
  BY MadeFacts
<1>2. made \in Nat /\ j \in Nat /\ ~(j > made)
  BY MadeFacts
<1> QED
  BY <1>1, <1>2 DEF AllGood, Good

LEMMA PutInOne ==
    ASSUME CacheTypeOK, NEW cs, AllGood(cs), NEW j \in 1..made, NEW h \in Hashes,
           NEW tags \in SUBSET Tags
    PROVE  /\ AllGood([cs EXCEPT ![j] = Put(cs[j], h, tags)])
           /\ \A k \in Instances :
                 Kept([cs EXCEPT ![j] = Put(cs[j], h, tags)][k]) \subseteq Kept(cs[k]) \cup {h}
<1> DEFINE c == Put(cs[j], h, tags)
<1>1. j \in Instances /\ clock \in Nat
  BY MadeFacts
<1>2. Good(cs[j])
  BY <1>1 DEF AllGood
<1>3. Good(c) /\ Kept(c) \subseteq Kept(cs[j]) \cup {h}
  BY <1>1, <1>2, PutIsGood
<1> HIDE DEF c
<1>4. AllGood([cs EXCEPT ![j] = c]) /\ [cs EXCEPT ![j] = c][j] = c
      /\ \A k \in Instances : k # j => [cs EXCEPT ![j] = c][k] = cs[k]
  BY <1>3, OneChanges
<1>5. \A k \in Instances : Kept([cs EXCEPT ![j] = c][k]) \subseteq Kept(cs[k]) \cup {h}
  BY <1>3, <1>4
<1> QED
  BY <1>4, <1>5 DEF c

(* What a compilation looks up changes no cache but for its clean-up task. *)
LEMMA LookedIsGood ==
    ASSUME CacheInv, NEW r \in Requests, At(r, "compiling")
    PROVE  /\ requests[r].plan \in Hashes
           /\ requests[r].optimizer \in 1..made /\ requests[r].service \in 1..made
           /\ made # 0 /\ AllGood(caches)
           /\ AllGood(Looked(requests[r]))
           /\ \A k \in Instances : Kept(Looked(requests[r])[k]) = Kept(caches[k])
<1> DEFINE q == requests[r]
<1>1. CacheTypeOK /\ GivenInv /\ CachesGood
  BY DEF CacheInv
<1>2. q \in Ready
  BY <1>1 DEF CacheTypeOK, At, Idle, Asking, Preparing
<1>3. q.plan \in Hashes /\ q.optimizer \in 1..made /\ q.service \in 1..made
  BY <1>1, <1>2 DEF Ready, GivenInv
<1>4. made # 0
  BY <1>1, <1>3, MadeFacts
<1>5. AllGood(caches)
  BY <1>1 DEF AllGood, CacheTypeOK, CachesGood, IndexesAgree, LimitsKept, Good
<1> HIDE DEF q
<1>6. CASE q.caching
  <2> DEFINE j == q.service
             c == Cleaned(caches[j])
  <2>1. j \in Instances
    BY <1>1, <1>3, MadeFacts
  <2>2. Good(caches[j])
    BY <1>5, <2>1 DEF AllGood
  <2>3. Good(c) /\ Kept(c) = Kept(caches[j])
    BY <2>2, CleanedIsGood
  <2>4. Looked(q) = [caches EXCEPT ![j] = c]
    BY <1>6 DEF Looked
  <2>5. j \in 1..made
    BY <1>3
  <2> HIDE DEF j, c
  <2>6. /\ AllGood([caches EXCEPT ![j] = c]) /\ [caches EXCEPT ![j] = c][j] = c
        /\ \A k \in Instances : k # j => [caches EXCEPT ![j] = c][k] = caches[k]
    BY <1>1, <1>5, <2>3, <2>5, OneChanges
  <2>7. \A k \in Instances : Kept(Looked(q)[k]) = Kept(caches[k])
    BY <2>3, <2>4, <2>6
  <2> QED
    BY <1>3, <1>4, <1>5, <2>4, <2>6, <2>7 DEF q
<1>7. CASE ~q.caching
  <2>1. Looked(q) = caches
    BY <1>7 DEF Looked
  <2> QED
    BY <1>3, <1>4, <1>5, <2>1 DEF q
<1> QED
  BY <1>6, <1>7

LEMMA CompileStep ==
    ASSUME CacheInv, NEW r \in Requests, Compile(r)
    PROVE  CacheInv'
<1> DEFINE q == requests[r]
           looked == Looked(q)
           put == [looked EXCEPT ![q.optimizer] = Put(looked[q.optimizer], q.plan, {"optimized"})]
           tuned == IF Tunes(q) THEN put ELSE looked
           stored == [tuned EXCEPT ![q.service] = Put(tuned[q.service], q.plan, {"compiled"})]
           last == [stored EXCEPT ![global] = Put(stored[global], q.plan, {"api_compiled"})]
<1>1. CacheTypeOK /\ RemovedStaysRemoved /\ At(r, "compiling")
  BY DEF CacheInv, Compile
<1>2. /\ q.plan \in Hashes /\ q.optimizer \in 1..made /\ q.service \in 1..made /\ made # 0
      /\ AllGood(looked)
      /\ \A k \in Instances : Kept(looked[k]) = Kept(caches[k])
  BY <1>1, LookedIsGood
<1>3. global \in 1..made /\ global \in Instances
  BY <1>1, <1>2, MadeFacts
<1>4. /\ caches' = IF Stores(q) THEN last ELSE tuned
      /\ memo' = IF Tunes(q) /\ ~q.own THEN memo \cup {q.plan} ELSE memo
      /\ removed' = IF Tunes(q) \/ Stores(q) THEN removed \ {q.plan} ELSE removed
      /\ requests' = [requests EXCEPT ![r] = Idle]
      /\ UNCHANGED <<clock, made, global, optimizer, loop>>
  BY DEF Compile
<1>5. {"optimized"} \subseteq Tags /\ {"compiled"} \subseteq Tags /\ {"api_compiled"} \subseteq Tags
  BY DEF Tags
<1> DEFINE plan == q.plan
<1> HIDE DEF q, looked
<1>6. /\ AllGood(put)
      /\ \A k \in Instances : Kept(put[k]) \subseteq Kept(looked[k]) \cup {plan}
  BY <1>1, <1>2, <1>5, PutInOne
<1> HIDE DEF put
<1>7. /\ AllGood(tuned)
      /\ \A k \in Instances : Kept(tuned[k]) \subseteq Kept(caches[k]) \cup {plan}
      /\ ~Tunes(q) => \A k \in Instances : Kept(tuned[k]) \subseteq Kept(caches[k])
  BY <1>2, <1>6
<1> HIDE DEF tuned
<1>8. /\ AllGood(stored)
      /\ \A k \in Instances : Kept(stored[k]) \subseteq Kept(tuned[k]) \cup {plan}
  BY <1>1, <1>2, <1>5, <1>7, PutInOne
<1> HIDE DEF stored
<1>9. /\ AllGood(last)
      /\ \A k \in Instances : Kept(last[k]) \subseteq Kept(stored[k]) \cup {plan}
  BY <1>1, <1>2, <1>3, <1>5, <1>8, PutInOne
<1> HIDE DEF last
<1>10. AllGood(caches')
  BY <1>4, <1>7, <1>9
<1>11. removed' \cap Kept(caches'[global]) = {}
  <2>1. removed \cap Kept(caches[global]) = {}
    BY <1>1, <1>2, MadeFacts DEF RemovedStaysRemoved
  <2>2. Kept(caches'[global]) \subseteq Kept(caches[global]) \cup {plan}
    BY <1>3, <1>4, <1>7, <1>8, <1>9
  <2>3. CASE Tunes(q) \/ Stores(q)
    BY <1>4, <2>1, <2>2, <2>3
  <2>4. CASE ~(Tunes(q) \/ Stores(q))
    BY <1>3, <1>4, <1>7, <2>1, <2>4
  <2> QED
    BY <2>3, <2>4
<1>12. memo' \subseteq Optimized
  BY <1>1, <1>4 DEF CacheTypeOK, Tunes
<1>13. removed' \subseteq Hashes /\ clock' \in 0..MaxClock /\ Served
  BY <1>1, <1>4 DEF CacheTypeOK, Served
<1> QED
  BY <1>4, <1>10, <1>11, <1>12, <1>13, CachesChange DEF AllGood

LEMMA CompileFailsStep ==
    ASSUME CacheInv, NEW r \in Requests, NEW looked \in BOOLEAN, CompileFails(r, looked)
    PROVE  CacheInv'
<1>1. CacheTypeOK /\ RemovedStaysRemoved /\ At(r, "compiling")
  BY DEF CacheInv, CompileFails
<1>2. /\ caches' = IF looked THEN Looked(requests[r]) ELSE caches
      /\ requests' = [requests EXCEPT ![r] = Idle]
      /\ UNCHANGED <<clock, made, global, optimizer, memo, loop, removed>>
  BY DEF CompileFails
<1>3. /\ AllGood(caches) /\ AllGood(Looked(requests[r]))
      /\ \A k \in Instances : Kept(Looked(requests[r])[k]) = Kept(caches[k])
  BY <1>1, LookedIsGood
<1>4. AllGood(caches') /\ \A k \in Instances : Kept(caches'[k]) = Kept(caches[k])
  BY <1>2, <1>3
<1>5. global # 0 => removed' \cap Kept(caches'[global]) = {}
  BY <1>1, <1>2, <1>4, MadeFacts DEF RemovedStaysRemoved
<1>6. removed' \subseteq Hashes /\ clock' \in 0..MaxClock /\ Served /\ memo' \subseteq Optimized
  BY <1>1, <1>2 DEF CacheTypeOK, Served
<1> QED
  BY <1>2, <1>4, <1>5, <1>6, CachesChange DEF AllGood

LEMMA CleanUpStep ==
    ASSUME CacheInv, NEW j \in Instances, CleanUp(j)
    PROVE  CacheInv'
<1> DEFINE plans == {h \in Kept(caches[j]) : Expired(caches[j], h)}
           c == EvictAll(caches[j], plans)
<1>1. CacheTypeOK /\ RemovedStaysRemoved /\ CachesGood
  BY DEF CacheInv
<1>2. /\ caches[j].cleaning /\ caches' = [caches EXCEPT ![j] = c]
      /\ UNCHANGED <<clock, made, global, optimizer, memo, requests, loop, removed>>
  BY DEF CleanUp
<1>3. AllGood(caches)
  BY <1>1 DEF AllGood, CacheTypeOK, CachesGood, IndexesAgree, LimitsKept, Good
<1>4. \A p : /\ Good(EvictAll(caches[j], p))
             /\ Kept(EvictAll(caches[j], p)) = Kept(caches[j]) \ p
  BY <1>3, EvictAllIsGood DEF AllGood
<1>5. Good(c) /\ Kept(c) \subseteq Kept(caches[j])
  BY <1>4
<1>6. j \in 1..made
  <2>1. caches[j] # EmptyCache
    BY <1>2 DEF EmptyCache
  <2> QED
    BY <1>1, <1>3, <2>1, MadeFacts DEF AllGood
<1> HIDE DEF c
<1>7. /\ AllGood(caches') /\ caches'[j] = c
      /\ \A k \in Instances : k # j => caches'[k] = caches[k]
  <2>1. /\ AllGood([caches EXCEPT ![j] = c]) /\ [caches EXCEPT ![j] = c][j] = c
        /\ \A k \in Instances : k # j => [caches EXCEPT ![j] = c][k] = caches[k]
    BY <1>1, <1>3, <1>5, <1>6, OneChanges
  <2> QED
    BY <1>2, <2>1
<1>8. \A k \in Instances : Kept(caches'[k]) \subseteq Kept(caches[k])
  BY <1>5, <1>7
<1>9. global # 0 => removed' \cap Kept(caches'[global]) = {}
  BY <1>1, <1>2, <1>8, MadeFacts DEF RemovedStaysRemoved
<1>10. removed' \subseteq Hashes /\ clock' \in 0..MaxClock /\ Served /\ memo' \subseteq Optimized
  BY <1>1, <1>2 DEF CacheTypeOK, Served
<1> QED
  BY <1>2, <1>7, <1>9, <1>10, CachesChange DEF AllGood

LEMMA TickStep ==
    ASSUME CacheInv, Tick
    PROVE  CacheInv'
<1>1. CacheTypeOK /\ RemovedStaysRemoved /\ CachesGood
  BY DEF CacheInv
<1>2. /\ clock' \in 0..MaxClock
      /\ UNCHANGED <<caches, made, global, optimizer, memo, requests, loop, removed>>
  BY <1>1, BoundAssumption DEF Tick, CacheTypeOK
<1>3. AllGood(caches')
  BY <1>1, <1>2 DEF AllGood, CacheTypeOK, CachesGood, IndexesAgree, LimitsKept, Good
<1>4. global # 0 => removed' \cap Kept(caches'[global]) = {}
  BY <1>1, <1>2 DEF RemovedStaysRemoved
<1>5. removed' \subseteq Hashes /\ Served /\ memo' \subseteq Optimized
  BY <1>1, <1>2 DEF CacheTypeOK, Served
<1> QED
  BY <1>2, <1>3, <1>4, <1>5, CachesChange DEF AllGood

(* A worker thread comes to its next place, or a request begins.           *)
LEMMA RequestMoves ==
    ASSUME CacheInv, NEW r \in Requests, NEW q \in {Idle} \cup Asking \cup Preparing \cup Ready,
           requests' = [requests EXCEPT ![r] = q],
           UNCHANGED <<clock, caches, made, global, memo, loop, removed>>,
           optimizer' \in 0..made,
           q.pc \in {"returning", "compiler", "compiling"} => global > 0,
           q.pc = "creating" => global = 0,
           q.pc \in {"compiler", "compiling"} => q.optimizer \in 1..made,
           q.pc = "compiling" => q.service \in 1..made
    PROVE  CacheInv'
<1>1. CacheTypeOK /\ CachesGood /\ RemovedStaysRemoved /\ MakersInv /\ GivenInv
  BY DEF CacheInv
<1>2. /\ requests' \in [Requests -> {Idle} \cup Asking \cup Preparing \cup Ready]
      /\ requests'[r] = q
      /\ \A p \in Requests : p # r => requests'[p] = requests[p]
  BY <1>1 DEF CacheTypeOK
<1>3. \A p \in Requests : requests'[p].pc \in {"returning", "compiler", "compiling"} => global' > 0
  BY <1>1, <1>2 DEF CacheTypeOK
<1>4. CacheTypeOK'
  BY <1>1, <1>2, <1>3 DEF CacheTypeOK
<1>5. CachesGood' /\ RemovedStaysRemoved'
  BY <1>1 DEF CachesGood, IndexesAgree, LimitsKept, RemovedStaysRemoved
<1>6. MakersInv'
  <2> SUFFICES ASSUME made # 0
               PROVE  made + Cardinality(Creating') + (IF loop = "creating" THEN 1 ELSE 0)
                        <= Cardinality(Requests) + 1
    BY DEF MakersInv
  <2>1. global # 0
    BY <1>1 DEF CacheTypeOK
  <2>2. Creating' \subseteq Creating
    BY <1>2, <2>1 DEF Creating, At
  <2>3. IsFiniteSet(Creating)
    BY HashAssumption, FS_Subset DEF Creating
  <2>4. Cardinality(Creating') <= Cardinality(Creating) /\ IsFiniteSet(Creating')
    BY <2>2, <2>3, FS_Subset
  <2>5. Cardinality(Creating') \in Nat /\ Cardinality(Creating) \in Nat
    BY <2>3, <2>4, FS_CardinalityType
  <2> QED
    BY <1>1, <2>4, <2>5, MadeFacts DEF MakersInv
<1>7. GivenInv'
  BY <1>1, <1>2 DEF GivenInv, At
<1> QED
  BY <1>4, <1>5, <1>6, <1>7 DEF CacheInv

LEMMA ThreadSteps ==
    ASSUME CacheInv, NEW r \in Requests,
           \/ \E h \in Hashes, caching \in BOOLEAN : Begin(r, h, caching)
           \/ Ask(r) \/ Return(r) \/ Prepare(r)
    PROVE  CacheInv'
<1>1. CacheTypeOK /\ GivenInv /\ global = made /\ made \in Nat /\ optimizer \in 0..made
  BY MadeFacts DEF CacheInv, CacheTypeOK
<1>2. requests[r] \in {Idle} \cup Asking \cup Preparing \cup Ready
  BY <1>1 DEF CacheTypeOK
<1>3. global # 0 => global \in Instances /\ global \in 1..made
  BY <1>1, MadeFacts
<1>4. optimizer # 0 => optimizer \in Instances /\ optimizer \in 1..made
  BY <1>1, MadeFacts
<1>5. ASSUME NEW h \in Hashes, NEW caching \in BOOLEAN, Begin(r, h, caching) PROVE CacheInv'
  <2> DEFINE q == IF optimizer = 0
                  THEN [pc |-> "asking", plan |-> h, caching |-> caching]
                  ELSE [pc |-> "compiler", plan |-> h, caching |-> caching,
                        optimizer |-> optimizer, own |-> FALSE]
  <2>1. /\ requests' = [requests EXCEPT ![r] = q]
        /\ UNCHANGED <<clock, caches, made, global, optimizer, memo, loop, removed>>
    BY <1>5 DEF Begin, Prepared
  <2>2. CASE optimizer = 0
    <3>1. q \in Asking /\ q.pc = "asking"
      BY <2>2 DEF Asking
    <3> HIDE DEF q
    <3> QED
      BY <1>1, <2>1, <3>1, RequestMoves
  <2>3. CASE optimizer # 0
    <3>1. q \in Preparing /\ q.pc = "compiler" /\ q.optimizer \in 1..made
      BY <1>4, <2>3 DEF Preparing
    <3>2. global > 0
      BY <1>1, <2>3
    <3> HIDE DEF q
    <3> QED
      BY <1>1, <2>1, <3>1, <3>2, RequestMoves
  <2> QED
    BY <2>2, <2>3
<1>6. ASSUME Ask(r) PROVE CacheInv'
  <2> DEFINE place == IF global = 0 THEN "creating" ELSE "returning"
             q == [requests[r] EXCEPT !.pc = place]
  <2>1. /\ requests' = [requests EXCEPT ![r] = q]
        /\ UNCHANGED <<clock, caches, made, global, optimizer, memo, loop, removed>>
        /\ requests[r].pc = "asking"
    BY <1>1, <1>6 DEF Ask, Moves, At, CacheTypeOK
  <2>2. requests[r] \in Asking
    BY <1>2, <2>1 DEF Idle, Preparing, Ready
  <2>3. q \in Asking /\ q.pc = place
    BY <2>2 DEF Asking
  <2>4. q.pc = "creating" => global = 0
    BY <2>3
  <2>5. q.pc = "returning" => global > 0
    BY <1>1, <2>3
  <2>6. q.pc \notin {"compiler", "compiling"}
    BY <2>3
  <2> HIDE DEF q
  <2> QED
    BY <1>1, <2>1, <2>3, <2>4, <2>5, <2>6, RequestMoves
<1>7. ASSUME Return(r) PROVE CacheInv'
  <2> DEFINE own == optimizer # 0
             q == [pc |-> "compiler", plan |-> requests[r].plan,
                   caching |-> requests[r].caching, optimizer |-> global, own |-> own]
  <2>1. /\ requests' = [requests EXCEPT ![r] = q]
        /\ optimizer' = IF optimizer = 0 THEN global ELSE optimizer
        /\ UNCHANGED <<clock, caches, made, global, memo, loop, removed>>
        /\ requests[r].pc = "returning"
    BY <1>7 DEF Return, Prepared, At
  <2>2. global > 0
    BY <1>1, <2>1 DEF CacheTypeOK
  <2>3. requests[r] \in Asking
    BY <1>2, <2>1 DEF Idle, Preparing, Ready
  <2>4. own \in BOOLEAN /\ global \in Instances
    BY <1>1, <1>3, <2>2
  <2> HIDE DEF own
  <2>5. q \in Preparing /\ q.pc = "compiler" /\ q.optimizer \in 1..made
    BY <1>1, <1>3, <2>2, <2>3, <2>4 DEF Preparing, Asking
  <2>6. optimizer' \in 0..made
    BY <1>1, <2>1
  <2> HIDE DEF q
  <2> QED
    BY <2>1, <2>2, <2>5, <2>6, RequestMoves
<1>8. ASSUME Prepare(r) PROVE CacheInv'
  <2> DEFINE q == [pc |-> "compiling", plan |-> requests[r].plan,
                   caching |-> requests[r].caching, optimizer |-> requests[r].optimizer,
                   own |-> requests[r].own, service |-> global]
  <2>1. /\ requests' = [requests EXCEPT ![r] = q]
        /\ UNCHANGED <<clock, caches, made, global, optimizer, memo, loop, removed>>
        /\ requests[r].pc = "compiler"
    BY <1>8 DEF Prepare, At
  <2>2. global > 0
    BY <1>1, <2>1 DEF CacheTypeOK
  <2>3. requests[r] \in Preparing /\ requests[r].optimizer \in 1..made
    BY <1>1, <1>2, <2>1 DEF Idle, Asking, Ready, GivenInv, At
  <2>4. /\ q \in Ready /\ q.pc = "compiling" /\ q.optimizer \in 1..made
        /\ q.service \in 1..made
    BY <1>1, <1>3, <2>2, <2>3 DEF Preparing, Ready
  <2> HIDE DEF q
  <2> QED
    BY <1>1, <2>1, <2>2, <2>4, RequestMoves
<1> QED
  BY <1>5, <1>6, <1>7, <1>8

(* A cache is made, by a worker thread or the event loop.                  *)
LEMMA MakeSteps ==
    ASSUME CacheInv, (\E r \in Requests : Create(r)) \/ LoopCreates
    PROVE  CacheInv'
<1>1. CacheTypeOK /\ CachesGood /\ RemovedStaysRemoved /\ MakersInv /\ GivenInv
  BY DEF CacheInv
<1>2. /\ made \in Nat /\ global = made /\ Cardinality(Requests) \in Nat
      /\ Instances = 1..(Cardinality(Requests) + 1)
      /\ Cardinality(Instances) = Cardinality(Requests) + 1
  BY <1>1, MadeFacts
<1>3. IsFiniteSet(Creating) /\ Cardinality(Creating) \in Nat
  <2>1. IsFiniteSet(Creating)
    BY HashAssumption, FS_Subset DEF Creating
  <2> QED
    BY <2>1, FS_CardinalityType
<1>4. Cardinality(Creating) <= Cardinality(Requests)
  BY HashAssumption, FS_Subset DEF Creating
<1>5. Good(EmptyCache) /\ Kept(EmptyCache) = {}
      /\ Good(Cleaned(EmptyCache)) /\ Kept(Cleaned(EmptyCache)) = {}
  BY EmptyIsGood, CleanedIsGood
<1>6. ASSUME NEW r \in Requests, Create(r) PROVE CacheInv'
  <2>1. /\ made' = made + 1 /\ global' = made + 1
        /\ requests' = [requests EXCEPT ![r].pc = "returning"]
        /\ requests[r].pc = "creating"
        /\ UNCHANGED <<clock, caches, optimizer, memo, loop, removed>>
    BY <1>6 DEF Create, Makes, Moves, At
  <2>2. requests[r] \in Asking
    <3>1. requests[r] \in {Idle} \cup Asking \cup Preparing \cup Ready
      BY <1>1 DEF CacheTypeOK
    <3> QED
      BY <2>1, <3>1 DEF Idle, Preparing, Ready
  <2>3. /\ requests' \in [Requests -> {Idle} \cup Asking \cup Preparing \cup Ready]
        /\ requests'[r].pc = "returning"
        /\ \A p \in Requests : p # r => requests'[p] = requests[p]
    <3>1. [requests[r] EXCEPT !.pc = "returning"] \in Asking
      BY <2>2 DEF Asking
    <3> QED
      BY <1>1, <2>1, <2>2, <3>1 DEF CacheTypeOK, Asking
  <2>4. Creating' = Creating \ {r} /\ r \in Creating
    BY <2>1, <2>3 DEF Creating, At
  <2>5. Cardinality(Creating') = Cardinality(Creating) - 1
    BY <1>3, <2>4, FS_RemoveElement
  <2>6. made + 1 \in Instances
    <3>1. CASE made = 0
      BY <1>2, <3>1
    <3>2. CASE made # 0
      <4>1. Cardinality(Creating) >= 1
        BY <1>3, <2>4, FS_EmptySet
      <4> QED
        BY <1>1, <1>2, <1>3, <3>2, <4>1 DEF MakersInv
    <3> QED
      BY <3>1, <3>2
  <2>7. CacheTypeOK'
    <3>1. made' \in 0..Cardinality(Instances)
      BY <1>2, <2>1, <2>6
    <3>2. optimizer' \in 0..made'
      BY <1>1, <1>2, <2>1 DEF CacheTypeOK
    <3>3. \A k \in Instances : k > made' => caches'[k] = EmptyCache
      BY <1>1, <1>2, <2>1 DEF CacheTypeOK
    <3>4. global' > 0
      BY <1>2, <2>1
    <3> QED
      BY <1>1, <2>1, <2>3, <3>1, <3>2, <3>3, <3>4 DEF CacheTypeOK
  <2>8. CachesGood'
    BY <1>1, <2>1 DEF CachesGood, IndexesAgree, LimitsKept
  <2>9. RemovedStaysRemoved'
    <3>1. caches[made + 1] = EmptyCache
      BY <1>1, <1>2, <2>6 DEF CacheTypeOK
    <3> QED
      BY <1>5, <2>1, <3>1 DEF RemovedStaysRemoved
  <2>10. MakersInv'
    BY <1>1, <1>2, <1>3, <1>4, <2>1, <2>5 DEF MakersInv, CacheTypeOK
  <2>11. GivenInv'
    BY <1>1, <1>2, <2>1, <2>3 DEF GivenInv, At
  <2> QED
    BY <2>7, <2>8, <2>9, <2>10, <2>11 DEF CacheInv
<1>7. ASSUME LoopCreates PROVE CacheInv'
  <2> DEFINE c == Cleaned(EmptyCache)
  <2>1. /\ made' = made + 1 /\ global' = made + 1 /\ loop = "creating" /\ loop' = "free"
        /\ caches' = [caches EXCEPT ![made + 1] = c]
        /\ UNCHANGED <<clock, optimizer, memo, requests, removed>>
    BY <1>7 DEF LoopCreates, Makes
  <2>2. made + 1 \in Instances
    BY <1>1, <1>2, <1>3, <2>1 DEF MakersInv
  <2> HIDE DEF c
  <2>3. Good(c) /\ Kept(c) = {}
    BY <1>5 DEF c
  <2>4. /\ caches' \in [Instances -> Cache] /\ caches'[made + 1] = c
        /\ \A k \in Instances : k # made + 1 => caches'[k] = caches[k]
    BY <1>1, <2>1, <2>2, <2>3 DEF CacheTypeOK, Good
  <2>5. CacheTypeOK'
    <3>1. made' \in 0..Cardinality(Instances)
      BY <1>2, <2>1, <2>2
    <3>2. optimizer' \in 0..made'
      BY <1>1, <1>2, <2>1 DEF CacheTypeOK
    <3>3. \A k \in Instances : k > made' => caches'[k] = EmptyCache
      BY <1>1, <1>2, <2>1, <2>4 DEF CacheTypeOK
    <3>4. global' > 0
      BY <1>2, <2>1
    <3> QED
      BY <1>1, <2>1, <2>4, <3>1, <3>2, <3>3, <3>4 DEF CacheTypeOK
  <2>6. CachesGood'
    BY <1>1, <2>3, <2>4 DEF CachesGood, IndexesAgree, LimitsKept, Good
  <2>7. RemovedStaysRemoved'
    BY <2>1, <2>3, <2>4 DEF RemovedStaysRemoved
  <2>8. Creating' = Creating
    BY <2>1 DEF Creating, At
  <2>9. MakersInv'
    BY <1>1, <1>2, <1>3, <1>4, <2>1, <2>8 DEF MakersInv
  <2>10. GivenInv'
    BY <1>1, <1>2, <2>1 DEF GivenInv, At
  <2> QED
    BY <2>5, <2>6, <2>7, <2>9, <2>10 DEF CacheInv
<1> QED
  BY <1>6, <1>7

LEMMA LoopAsksStep ==
    ASSUME CacheInv, LoopAsks
    PROVE  CacheInv'
<1>1. /\ global = 0 /\ loop' = "creating"
      /\ UNCHANGED <<clock, caches, made, global, optimizer, memo, requests, removed>>
  BY DEF LoopAsks
<1>2. CacheTypeOK'
  BY <1>1 DEF CacheInv, CacheTypeOK
<1>3. MakersInv'
  BY <1>1 DEF CacheInv, CacheTypeOK, MakersInv
<1>4. CachesGood' /\ RemovedStaysRemoved' /\ GivenInv'
  BY <1>1 DEF CacheInv, CachesGood, IndexesAgree, LimitsKept, RemovedStaysRemoved, GivenInv, At
<1> QED
  BY <1>2, <1>3, <1>4 DEF CacheInv

LEMMA CacheStep == CacheInv /\ [CacheNext]_serving => CacheInv'
<1> SUFFICES ASSUME CacheInv, [CacheNext]_serving PROVE CacheInv'
  OBVIOUS
<1>1. CASE UNCHANGED serving
  BY <1>1 DEF serving, CacheInv, CacheTypeOK, CachesGood, IndexesAgree, LimitsKept, RemovedStaysRemoved, MakersInv,
              GivenInv, Creating, At
<1>2. CASE CacheNext
  BY <1>2, ThreadSteps, MakeSteps, CompileStep, CompileFailsStep, RouteSteps, LoopAsksStep,
     CleanUpStep, TickStep DEF CacheNext
<1> QED
  BY <1>1, <1>2

\* The types of the cache's state (cache_service.py, api/dependencies.py): in
\* particular no more instances are made than there are places for one.
THEOREM CacheTypes == CacheSpec => []CacheTypeOK
<1>1. CacheInv => CacheTypeOK
  BY DEF CacheInv
<1> QED
  BY <1>1, CacheInitGood, CacheStep, PTL DEF CacheSpec

\* List, indexes and entries agree in every instance (cache_service.py:124-282).
THEOREM IndexesCorrect == CacheSpec => []IndexesAgree
<1>1. CacheInv => IndexesAgree
  BY DEF CacheInv, CachesGood
<1> QED
  BY <1>1, CacheInitGood, CacheStep, PTL DEF CacheSpec

\* No instance keeps more plans than it may, and all but one of them fit the size
\* it may have (cache_service.py:139, 281-300).
THEOREM LimitsCorrect == CacheSpec => []LimitsKept
<1>1. CacheInv => LimitsKept
  BY DEF CacheInv, CachesGood
<1> QED
  BY <1>1, CacheInitGood, CacheStep, PTL DEF CacheSpec

\* A plan that was invalidated stays away until it is stored again, whatever
\* caches are made (api/routes/plans.py:319-352).
THEOREM RemovedCorrect == CacheSpec => []RemovedStaysRemoved
<1>1. CacheInv => RemovedStaysRemoved
  BY DEF CacheInv
<1> QED
  BY <1>1, CacheInitGood, CacheStep, PTL DEF CacheSpec
=============================================================================
