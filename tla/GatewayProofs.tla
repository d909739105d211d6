---------------------------- MODULE GatewayProofs ----------------------------
(***************************************************************************)
(* Proofs about what stands between a client of the API gateway and a      *)
(* backend: the circuit breaker its calls pass through, the rate limiter,  *)
(* the load balancer and the discovery of instances.  They share no state, *)
(* and each theorem is about the specification of one of them.             *)
(*                                                                         *)
(* Circuit breaker, for all thresholds, timeouts, window sizes, rates and  *)
(* sets of calls: TypeOK is inductive.  CountsAreStreaks, OpenCanRecover   *)
(* and StaysOpenLongEnough are inductive on top of it, in this order: an   *)
(* open circuit has a dated failure because the window it was opened on    *)
(* has.                                                                    *)
(*                                                                         *)
(* Rate limiter: in every stretch that ends now what was allowed and what  *)
(* is left in the bucket are at most what was earned, and in some stretch  *)
(* they are exactly that (Tight).  The first gives the limit, the second   *)
(* the reason for each refusal.                                            *)
(*                                                                         *)
(* Load balancer: while a list stays as it is the cursor is as far from    *)
(* the instance of the first turn as there were turns (RobinInv), and the  *)
(* connections of an instance say whether it had its turn (IdleInv).       *)
(* The current weights of a service add up to 0 as long as it has one      *)
(* list, to no less if it had several, since who is taken pays what all    *)
(* were given (Balanced, on sums over finite sets).  So somebody can       *)
(* always be taken unless an instance has left, every first round ends     *)
(* with the weights used up, and from then on the turns repeat             *)
(* (RoundsRepeat).                                                         *)
(***************************************************************************)
EXTENDS CircuitBreaker, Gateway, LoadBalancer, RateLimiter, FiniteSetTheorems,
        WellFoundedInduction, TLAPS

-----------------------------------------------------------------------------
\* The circuit breaker: the window

(* A window stays a sequence of results no longer than WindowSize.         *)
LEMMA SlideType ==
    ASSUME NEW w \in Seq(Result), Len(w) <= WindowSize, NEW r \in Result
    PROVE  Slide(w, r) \in Seq(Result) /\ Len(Slide(w, r)) <= WindowSize
<1>1. CASE Len(w) < WindowSize
  BY <1>1, ThresholdsAssumption DEF Slide
<1>2. CASE ~(Len(w) < WindowSize) /\ WindowSize # 0
  <2>1. Len(w) = WindowSize /\ w # <<>>
    BY <1>2, ThresholdsAssumption
  <2>2. Tail(w) \in Seq(Result) /\ Len(Tail(w)) = WindowSize - 1
    BY <2>1
  <2> QED
    BY <1>2, <2>2, ThresholdsAssumption DEF Slide
<1>3. CASE WindowSize = 0
  BY <1>3 DEF Slide
<1> QED
  BY <1>1, <1>2, <1>3

(* A result of the same kind makes a streak at the end one longer.         *)
LEMMA SlideStreak ==
    ASSUME NEW w \in Seq(Result), Len(w) <= WindowSize, NEW r \in Result,
           NEW n \in Nat, LastResultsAre(w, n, r),
           MetricsEnabled \/ w = <<>>
    PROVE  LastResultsAre(Slide(w, r), n + 1, r)
<1>1. CASE Len(w) < WindowSize /\ MetricsEnabled
  BY <1>1, ThresholdsAssumption DEF Slide, LastResultsAre
<1>2. CASE ~(Len(w) < WindowSize) /\ WindowSize # 0 /\ MetricsEnabled
  <2>1. Len(w) = WindowSize /\ w # <<>>
    BY <1>2, ThresholdsAssumption
  <2>2. /\ Tail(w) \in Seq(Result)
        /\ Len(Tail(w)) = Len(w) - 1
        /\ \A i \in 1..(Len(w) - 1) : Tail(w)[i] = w[i + 1]
    BY <2>1
  <2>3. LastResultsAre(Tail(w), n, r)
    BY <2>2 DEF LastResultsAre
  <2> DEFINE t == Tail(w)
  <2>4. LastResultsAre(Append(t, r), n + 1, r)
    <3> HIDE DEF t
    <3>1. t \in Seq(Result) /\ LastResultsAre(t, n, r)
      BY <2>2, <2>3 DEF t
    <3> QED
      BY <3>1 DEF LastResultsAre
  <2> QED
    BY <1>2, <2>4 DEF Slide
<1>3. CASE w = <<>> /\ (WindowSize = 0 \/ ~MetricsEnabled)
  BY <1>3 DEF Slide, LastResultsAre
<1> QED
  BY <1>1, <1>2, <1>3, ThresholdsAssumption

(* A success adds no failure to the window.                                *)
LEMMA SlideSuccess ==
    ASSUME NEW w \in Seq(Result), Len(w) <= WindowSize, Failures(w) = {}
    PROVE  Failures(Slide(w, "success")) = {}
<1>1. CASE Len(w) < WindowSize
  BY <1>1, ThresholdsAssumption DEF Slide, Failures, Result
<1>2. CASE ~(Len(w) < WindowSize) /\ WindowSize # 0
  <2>1. Len(w) = WindowSize /\ w # <<>>
    BY <1>2, ThresholdsAssumption
  <2>2. /\ Tail(w) \in Seq(Result)
        /\ Len(Tail(w)) = Len(w) - 1
        /\ \A i \in 1..(Len(w) - 1) : Tail(w)[i] = w[i + 1]
    BY <2>1
  <2>3. Failures(Tail(w)) = {}
    BY <2>2 DEF Failures
  <2> QED
    BY <1>2, <2>2, <2>3 DEF Slide, Failures, Result
<1>3. CASE WindowSize = 0
  BY <1>3 DEF Slide
<1> QED
  BY <1>1, <1>2, <1>3

(* The product of positive numbers is positive.                            *)
LEMMA PositiveProduct ==
    ASSUME NEW m \in Nat, m > 0, NEW n \in Nat, n > 0
    PROVE  m * n > 0
  BY SMT

(* A window over the failure rate holds a failure.                         *)
LEMMA OverRateHasFailure ==
    ASSUME NEW w \in Seq(Result), OverRate(w)
    PROVE  Failures(w) # {}
<1> SUFFICES ASSUME Failures(w) = {} PROVE FALSE
  OBVIOUS
<1>1. Cardinality(Failures(w)) = 0
  BY FS_EmptySet
<1>2. Len(w) \in Nat /\ Len(w) > 0
  BY DEF OverRate
<1>3. FailureRate \in Nat /\ FailureRate > 0
  BY ThresholdsAssumption
<1>4. FailureRate * Len(w) > 0
  BY <1>2, <1>3, PositiveProduct
<1>5. 100 * Cardinality(Failures(w)) >= FailureRate * Len(w)
  BY DEF OverRate
<1> QED
  BY <1>1, <1>2, <1>4, <1>5, ThresholdsAssumption

-----------------------------------------------------------------------------
\* Types

(* The initial state has the types.                                        *)
LEMMA InitTypeOK == Init => TypeOK
  BY ThresholdsAssumption DEF Init, TypeOK, CircuitState

(* Every step keeps them.                                                  *)
LEMMA NextTypeOK == TypeOK /\ [Next]_vars => TypeOK'
<1> SUFFICES ASSUME TypeOK, [Next]_vars PROVE TypeOK'
  OBVIOUS
<1> USE ThresholdsAssumption
<1>1. ASSUME NEW c \in Calls, Admit(c) PROVE TypeOK'
  BY <1>1 DEF TypeOK, Admit, Start
<1>2. ASSUME NEW c \in Calls, Probe(c) PROVE TypeOK'
  BY <1>2 DEF TypeOK, Probe, Start, TransitionToHalfOpen, CircuitState
<1>3. ASSUME NEW c \in Calls, Succeed(c) PROVE TypeOK'
  <2>1. window' \in Seq(Result) /\ Len(window') <= WindowSize
    BY <1>3, SlideType DEF TypeOK, Succeed, Result
  <2>2. running' \subseteq Calls /\ elapsed' \in [Calls -> 0..CallTimeout]
    BY <1>3 DEF TypeOK, Succeed, End
  <2>3. CASE SuccessWhileTesting
    BY <1>3, <2>1, <2>2, <2>3, SMTT(30)
    DEF TypeOK, Succeed, SuccessWhileTesting, TransitionToOpen,
        TransitionToClosed, StayInState, CircuitState
  <2>4. CASE SuccessOtherwise
    BY <1>3, <2>1, <2>2, <2>4
    DEF TypeOK, Succeed, SuccessOtherwise, TransitionToOpen, StayInState,
        CircuitState
  <2> QED
    BY <1>3, <2>3, <2>4 DEF Succeed
<1>4. ASSUME NEW c \in Calls, Fail(c) PROVE TypeOK'
  <2>1. window' \in Seq(Result) /\ Len(window') <= WindowSize
    BY <1>4, SlideType DEF TypeOK, Fail, Result
  <2>2. running' \subseteq Calls /\ elapsed' \in [Calls -> 0..CallTimeout]
    BY <1>4 DEF TypeOK, Fail, End
  <2>3. /\ failureCount' \in 0..FailureThreshold
        /\ sinceFailure' \in 0..RecoveryTimeout
    BY <1>4 DEF TypeOK, Fail, Bump, AtMost
  <2> QED
    BY <1>4, <2>1, <2>2, <2>3, SMTT(30)
    DEF TypeOK, Fail, TransitionToOpen, StayInState, CircuitState
<1>5. ASSUME NEW c \in Calls, Cancel(c) PROVE TypeOK'
  BY <1>5 DEF TypeOK, Cancel, End
<1>6. CASE ForceOpen
  BY <1>6 DEF TypeOK, ForceOpen, TransitionToOpen, CircuitState
<1>7. CASE ForceClosed
  BY <1>7 DEF TypeOK, ForceClosed, TransitionToClosed, CircuitState
<1>8. CASE Reset
  BY <1>8 DEF TypeOK, Reset, TransitionToClosed, CircuitState
<1>9. CASE Tick
  <2>1. ASSUME NEW c \in Calls
        PROVE  (IF c \in running THEN elapsed[c] + 1 ELSE 0) \in 0..CallTimeout
    BY <1>9 DEF TypeOK, Tick
  <2>2. elapsed' \in [Calls -> 0..CallTimeout]
    BY <1>9, <2>1 DEF Tick
  <2> QED
    BY <1>9, <2>2 DEF TypeOK, Tick, Bump
<1>10. CASE UNCHANGED vars
  BY <1>10 DEF TypeOK, vars
<1> QED
  BY <1>1, <1>2, <1>3, <1>4, <1>5, <1>6, <1>7, <1>8, <1>9, <1>10 DEF Next

(* Type correctness of the breaker.                                        *)
THEOREM TypeCorrect == Spec => []TypeOK
  BY InitTypeOK, NextTypeOK, PTL DEF Spec

-----------------------------------------------------------------------------
\* An open circuit can recover

(* With the metrics off the window stays empty: that is part of the        *)
(* inductive invariant.                                                    *)
WindowUnused == MetricsEnabled \/ window = <<>>

RecoveryInvariant == TypeOK /\ WindowUnused /\ OpenCanRecover

(* Every step keeps the invariant: a step that opens the circuit finds a   *)
(* failure in the window or records one, and only Reset forgets the time   *)
(* of a failure, which empties the window and closes the circuit.          *)
LEMMA NextRecovery == RecoveryInvariant /\ [Next]_vars => RecoveryInvariant'
<1> SUFFICES ASSUME RecoveryInvariant, [Next]_vars PROVE RecoveryInvariant'
  OBVIOUS
<1> USE ThresholdsAssumption
<1>0. TypeOK /\ TypeOK' /\ WindowUnused /\ OpenCanRecover
  BY NextTypeOK DEF RecoveryInvariant
<1> SUFFICES WindowUnused' /\ OpenCanRecover'
  BY <1>0 DEF RecoveryInvariant
<1>1. ASSUME NEW c \in Calls, Admit(c) PROVE WindowUnused' /\ OpenCanRecover'
  BY <1>0, <1>1 DEF Admit, WindowUnused, OpenCanRecover, Failures
<1>2. ASSUME NEW c \in Calls, Probe(c) PROVE WindowUnused' /\ OpenCanRecover'
  BY <1>0, <1>2
  DEF Probe, TransitionToHalfOpen, WindowUnused, OpenCanRecover, Failures
<1>3. ASSUME NEW c \in Calls, Succeed(c) PROVE WindowUnused' /\ OpenCanRecover'
  <2>1. WindowUnused'
    BY <1>0, <1>3 DEF Succeed, WindowUnused, Slide
  <2>2. sinceFailure = NoFailure => Failures(window') = {}
    BY <1>0, <1>3, SlideSuccess DEF Succeed, OpenCanRecover, TypeOK
  <2>3. OverRate(window') => sinceFailure # NoFailure
    BY <1>0, <2>2, OverRateHasFailure DEF TypeOK
  <2>4. sinceFailure' = sinceFailure /\ (sinceFailure' = NoFailure => Failures(window)' = {})
    BY <1>3, <2>2 DEF Succeed, Failures
  <2>5. CASE SuccessWhileTesting
    <3>1. state = "half_open" /\ sinceFailure # NoFailure
      BY <1>0, <2>5 DEF SuccessWhileTesting, OpenCanRecover
    <3> QED
      BY <2>1, <2>4, <3>1 DEF OpenCanRecover
  <2>6. CASE SuccessOtherwise
    <3>1. CASE state' = state /\ openedBy' = openedBy
      BY <1>0, <2>1, <2>4, <3>1 DEF OpenCanRecover
    <3>2. CASE OverRate(window')
      BY <2>1, <2>3, <2>4, <3>2 DEF OpenCanRecover
    <3> QED
      BY <2>6, <3>1, <3>2 DEF SuccessOtherwise, StayInState
  <2> QED
    BY <1>3, <2>5, <2>6 DEF Succeed
<1>4. ASSUME NEW c \in Calls, Fail(c) PROVE WindowUnused' /\ OpenCanRecover'
  <2>1. WindowUnused'
    BY <1>0, <1>4 DEF Fail, WindowUnused, Slide
  <2>2. sinceFailure' # NoFailure
    BY <1>0, <1>4 DEF Fail, AtMost, TypeOK
  <2> QED
    BY <2>1, <2>2 DEF OpenCanRecover
<1>5. ASSUME NEW c \in Calls, Cancel(c) PROVE WindowUnused' /\ OpenCanRecover'
  BY <1>0, <1>5 DEF Cancel, WindowUnused, OpenCanRecover, Failures
<1>6. CASE ForceOpen
  BY <1>0, <1>6
  DEF ForceOpen, TransitionToOpen, WindowUnused, OpenCanRecover, Failures
<1>7. CASE ForceClosed
  BY <1>0, <1>7
  DEF ForceClosed, TransitionToClosed, WindowUnused, OpenCanRecover, Failures
<1>8. CASE Reset
  BY <1>0, <1>8
  DEF Reset, TransitionToClosed, WindowUnused, OpenCanRecover, Failures
<1>9. CASE Tick
  <2>1. sinceFailure' = NoFailure => sinceFailure = NoFailure
    BY <1>0, <1>9 DEF Tick, Bump, TypeOK
  <2> QED
    BY <1>0, <1>9, <2>1 DEF Tick, WindowUnused, OpenCanRecover, Failures
<1>10. CASE UNCHANGED vars
  BY <1>0, <1>10 DEF vars, WindowUnused, OpenCanRecover, Failures
<1> QED
  BY <1>1, <1>2, <1>3, <1>4, <1>5, <1>6, <1>7, <1>8, <1>9, <1>10 DEF Next

(* The invariant holds in every reachable state.                           *)
LEMMA RecoveryCorrect == Spec => []RecoveryInvariant
<1>1. Init => RecoveryInvariant
  BY InitTypeOK
  DEF Init, RecoveryInvariant, WindowUnused, OpenCanRecover, Failures
<1> QED
  BY <1>1, NextRecovery, PTL DEF Spec

(* A circuit that no operator opened always knows the time of a failure,   *)
(* so that it will be tried again (_can_execute).                          *)
THEOREM AlwaysRecoverable == Spec => []OpenCanRecover
  BY RecoveryCorrect, PTL DEF RecoveryInvariant

-----------------------------------------------------------------------------
\* The counters are streaks of the window

(* Every step keeps CountsAreStreaks.                                      *)
LEMMA NextStreaks ==
    RecoveryInvariant /\ CountsAreStreaks /\ [Next]_vars => CountsAreStreaks'
<1> SUFFICES ASSUME RecoveryInvariant, CountsAreStreaks, [Next]_vars
             PROVE  CountsAreStreaks'
  OBVIOUS
<1> USE ThresholdsAssumption
<1>0. TypeOK /\ TypeOK' /\ WindowUnused
  BY NextTypeOK DEF RecoveryInvariant
<1>e. \A r : LastResultsAre(window, 0, r)' /\ LastResultsAre(window', 0, r)
  BY <1>0 DEF LastResultsAre, TypeOK
<1>z. ASSUME failureCount' = 0 \/ state' # "closed",
             successCount' = 0 \/ state' # "half_open"
      PROVE  CountsAreStreaks'
  BY <1>e, <1>z DEF CountsAreStreaks
<1>s. ASSUME UNCHANGED <<state, failureCount, successCount, window>>
      PROVE  CountsAreStreaks'
  BY <1>s DEF CountsAreStreaks, LastResultsAre
<1>1. ASSUME NEW c \in Calls, Admit(c) PROVE CountsAreStreaks'
  BY <1>1, <1>s DEF Admit
<1>2. ASSUME NEW c \in Calls, Probe(c) PROVE CountsAreStreaks'
  BY <1>2, <1>z DEF Probe, TransitionToHalfOpen
<1>3. ASSUME NEW c \in Calls, Succeed(c) PROVE CountsAreStreaks'
  <2>1. CASE SuccessWhileTesting
    <3>1. CASE successCount + 1 < SuccessThreshold
      <4>1. LastResultsAre(window, successCount, "success")
        BY <2>1 DEF SuccessWhileTesting, CountsAreStreaks
      <4>2. LastResultsAre(Slide(window, "success"), successCount + 1, "success")
        BY <1>0, <4>1, SlideStreak DEF TypeOK, WindowUnused, Result
      <4> QED
        BY <1>3, <2>1, <3>1, <4>2
        DEF Succeed, SuccessWhileTesting, StayInState, CountsAreStreaks, LastResultsAre
    <3>2. CASE ~(successCount + 1 < SuccessThreshold)
      BY <2>1, <3>2, <1>z
      DEF SuccessWhileTesting, TransitionToOpen, TransitionToClosed
    <3> QED
      BY <3>1, <3>2
  <2>2. CASE SuccessOtherwise
    BY <2>2, <1>z DEF SuccessOtherwise, TransitionToOpen, StayInState
  <2> QED
    BY <1>3, <2>1, <2>2 DEF Succeed
<1>4. ASSUME NEW c \in Calls, Fail(c) PROVE CountsAreStreaks'
  <2>1. CASE FailureOpens
    BY <1>4, <2>1, <1>z DEF Fail, TransitionToOpen
  <2>2. CASE ~FailureOpens /\ state = "closed"
    <3>1. failureCount < FailureThreshold /\ LastResultsAre(window, failureCount, "failure")
      BY <2>2 DEF CountsAreStreaks
    <3>2. failureCount' = failureCount + 1
      BY <1>4, <3>1 DEF Fail, Bump
    <3>3. LastResultsAre(Slide(window, "failure"), failureCount + 1, "failure")
      BY <1>0, <3>1, SlideStreak DEF TypeOK, WindowUnused, Result
    <3>4. failureCount' < FailureThreshold
      BY <1>0, <2>2 DEF FailureOpens, TypeOK
    <3> QED
      BY <1>4, <2>2, <3>2, <3>3, <3>4
      DEF Fail, StayInState, CountsAreStreaks, LastResultsAre
  <2>3. CASE ~FailureOpens /\ state # "closed"
    BY <1>4, <2>3, <1>z DEF Fail, StayInState, FailureOpens
  <2> QED
    BY <2>1, <2>2, <2>3
<1>5. ASSUME NEW c \in Calls, Cancel(c) PROVE CountsAreStreaks'
  BY <1>5, <1>s DEF Cancel
<1>6. CASE ForceOpen
  BY <1>6, <1>z DEF ForceOpen, TransitionToOpen
<1>7. CASE ForceClosed
  BY <1>7, <1>z DEF ForceClosed, TransitionToClosed
<1>8. CASE Reset
  BY <1>8, <1>z DEF Reset, TransitionToClosed
<1>9. CASE Tick
  BY <1>9, <1>s DEF Tick
<1>10. CASE UNCHANGED vars
  BY <1>10, <1>s DEF vars
<1> QED
  BY <1>1, <1>2, <1>3, <1>4, <1>5, <1>6, <1>7, <1>8, <1>9, <1>10 DEF Next

(* In a closed circuit failure_count counts failures recorded in a row, in *)
(* a half-open one success_count counts successes recorded in a row.       *)
THEOREM StreaksCorrect == Spec => []CountsAreStreaks
<1>1. Init => CountsAreStreaks
  BY ThresholdsAssumption DEF Init, CountsAreStreaks, LastResultsAre
<1> QED
  BY <1>1, RecoveryCorrect, NextStreaks, PTL DEF Spec

-----------------------------------------------------------------------------
\* How early an open circuit is tried

(* Every step keeps StaysOpenLongEnough: a failure recorded while the      *)
(* circuit is open is at most one call timeout old, and both ages grow     *)
(* together.                                                               *)
LEMMA NextStaysOpen ==
    RecoveryInvariant /\ StaysOpenLongEnough /\ [Next]_vars => StaysOpenLongEnough'
<1> SUFFICES ASSUME RecoveryInvariant, StaysOpenLongEnough, [Next]_vars
             PROVE  StaysOpenLongEnough'
  OBVIOUS
<1> USE ThresholdsAssumption
<1>0. TypeOK /\ TypeOK' /\ OpenCanRecover
  BY NextTypeOK DEF RecoveryInvariant
<1>s. ASSUME UNCHANGED <<state, openedBy, sinceFailure, sinceChange>>
      PROVE  StaysOpenLongEnough'
  BY <1>s DEF StaysOpenLongEnough
<1>1. ASSUME NEW c \in Calls, Admit(c) PROVE StaysOpenLongEnough'
  BY <1>1, <1>s DEF Admit
<1>2. ASSUME NEW c \in Calls, Probe(c) PROVE StaysOpenLongEnough'
  BY <1>2 DEF Probe, TransitionToHalfOpen, StaysOpenLongEnough
<1>3. ASSUME NEW c \in Calls, Succeed(c) PROVE StaysOpenLongEnough'
  BY <1>3, <1>s
  DEF Succeed, SuccessWhileTesting, SuccessOtherwise, TransitionToOpen,
      TransitionToClosed, StayInState, StaysOpenLongEnough
<1>4. ASSUME NEW c \in Calls, Fail(c) PROVE StaysOpenLongEnough'
  <2>1. sinceFailure' \in Nat /\ sinceFailure' <= CallTimeout
    BY <1>0, <1>4 DEF Fail, AtMost, TypeOK
  <2>2. sinceChange' \in Nat /\ CallTimeout \in Nat
    BY <1>0 DEF TypeOK
  <2>3. \A a, b, t \in Nat : a <= t => a <= b + t
    OBVIOUS
  <2>4. sinceFailure' <= sinceChange' + CallTimeout
    BY <2>1, <2>2, <2>3
  <2> QED
    BY <2>4 DEF StaysOpenLongEnough
<1>5. ASSUME NEW c \in Calls, Cancel(c) PROVE StaysOpenLongEnough'
  BY <1>5, <1>s DEF Cancel
<1>6. CASE ForceOpen
  BY <1>6 DEF ForceOpen, TransitionToOpen, StaysOpenLongEnough
<1>7. CASE ForceClosed
  BY <1>7 DEF ForceClosed, TransitionToClosed, StaysOpenLongEnough
<1>8. CASE Reset
  BY <1>8 DEF Reset, TransitionToClosed, StaysOpenLongEnough
<1>9. CASE Tick
  <2> SUFFICES ASSUME state = "open", openedBy = "failure"
               PROVE  sinceFailure' <= sinceChange' + CallTimeout
    BY <1>9 DEF Tick, StaysOpenLongEnough
  <2>1. sinceFailure # NoFailure /\ sinceFailure <= sinceChange + CallTimeout
    BY <1>0 DEF OpenCanRecover, StaysOpenLongEnough
  <2> QED
    BY <1>0, <1>9, <2>1 DEF Tick, Bump, TypeOK
<1>10. CASE UNCHANGED vars
  BY <1>10, <1>s DEF vars
<1> QED
  BY <1>1, <1>2, <1>3, <1>4, <1>5, <1>6, <1>7, <1>8, <1>9, <1>10 DEF Next

(* A circuit a failure opened is not tried before it has been open for the *)
(* recovery time less one call timeout (call, lines 256-292, and           *)
(* _can_execute).                                                          *)
THEOREM StaysOpenCorrect == Spec => []StaysOpenLongEnough
<1>1. Init => StaysOpenLongEnough
  BY DEF Init, StaysOpenLongEnough
<1> QED
  BY <1>1, RecoveryCorrect, NextStaysOpen, PTL DEF Spec

-----------------------------------------------------------------------------
\* What closes a circuit

(* The step that closes a half-open circuit records the last of            *)
(* SuccessThreshold successes in a row.                                    *)
LEMMA ClosingStep ==
    ASSUME RecoveryInvariant, CountsAreStreaks, [Next]_vars,
           state # "closed", state' = "closed", ~ForceClosed, ~Reset
    PROVE  /\ state = "half_open"
           /\ LastResultsAre(window', SuccessThreshold, "success")
<1> USE ThresholdsAssumption
<1>0. TypeOK /\ WindowUnused
  BY DEF RecoveryInvariant
<1>1. PICK c \in Calls : Succeed(c)
  BY DEF Next, Admit, Probe, Fail, FailureOpens, Cancel, ForceOpen, Tick, vars,
         TransitionToOpen, TransitionToHalfOpen, StayInState
<1>2. state = "half_open" /\ ~(successCount + 1 < SuccessThreshold)
  BY <1>1
  DEF Succeed, SuccessWhileTesting, SuccessOtherwise, TransitionToOpen, StayInState
<1>3. successCount + 1 = SuccessThreshold
  BY <1>0, <1>2 DEF TypeOK
<1>4. LastResultsAre(window, successCount, "success")
  BY <1>2 DEF CountsAreStreaks
<1>5. LastResultsAre(Slide(window, "success"), successCount + 1, "success")
  BY <1>0, <1>4, SlideStreak DEF TypeOK, WindowUnused, Result
<1> QED
  BY <1>1, <1>2, <1>3, <1>5 DEF Succeed

(* Unless an operator closes it, a circuit closes only on SuccessThreshold *)
(* successes recorded in a row (_handle_successful_call).                  *)
THEOREM ClosesCorrect == Spec => ClosesOnSuccesses
<1>1. RecoveryInvariant /\ CountsAreStreaks /\ [Next]_vars =>
        [state # "closed" /\ state' = "closed" /\ ~ForceClosed /\ ~Reset =>
            /\ state = "half_open"
            /\ LastResultsAre(window', SuccessThreshold, "success")]_vars
  BY ClosingStep
<1> QED
  BY <1>1, RecoveryCorrect, StreaksCorrect, PTL DEF Spec, ClosesOnSuccesses

-----------------------------------------------------------------------------
\* The rate limiter

(* The smaller of two numbers.                                             *)
LEMMA MinOfTwo ==
    ASSUME NEW a \in Int, NEW b \in Int
    PROVE  Min({a, b}) = IF a <= b THEN a ELSE b
<1> DEFINE least == IF a <= b THEN a ELSE b
<1>1. least \in {a, b} /\ \A y \in {a, b} : least =< y
  OBVIOUS
<1>2. \A x \in {a, b} : (\A y \in {a, b} : x =< y) => x = least
  OBVIOUS
<1> QED
  BY <1>1, <1>2 DEF Min

\* Ticks a number of tokens costs
Price(count) == count * Cost

LEMMA OneMoreToken ==
    ASSUME NEW count \in Nat
    PROVE  /\ Price(count) \in Nat /\ Price(count + 1) = Price(count) + Cost
           /\ Price(0) = 0
BY BucketAssumption DEF Price

LEMMA CapacityType == Capacity \in Nat
BY BucketAssumption DEF Capacity

\* The definitions of the property, of any history
Count(a, m, n) == Cardinality({k \in m..n : a[k]})

Exact(t, a) ==
    \A n \in DOMAIN t :
        IF a[n]
        THEN \A m \in 1..n : Price(Count(a, m, n)) <= Capacity + (t[n] - t[m])
        ELSE \E m \in 1..n : ~(Price(Count(a, m, n) + 1) <= Capacity + (t[n] - t[m]))

\* What was allowed in a stretch that ends now and what is in the bucket are
\* together no more than was earned, and in one stretch no less
Spent(b, a, m, n) == Price(Count(a, m, n)) + b.tokens

Tight(b, t, a) ==
    LET n == Len(t)
    IN  /\ b \in [tokens : Int, refilled : {t[n]}]
        /\ \A m \in 1..n : Spent(b, a, m, n) <= Capacity + (t[n] - t[m])
        /\ \E m \in 1..n : Spent(b, a, m, n) >= Capacity + (t[n] - t[m])

LimiterInv ==
    /\ times \in Seq(Int) /\ answers \in Seq(BOOLEAN) /\ Len(answers) = Len(times)
    /\ times # <<>> => Tight(bucket, times, answers)
    /\ Exact(times, answers)

(* One more answer changes no earlier count, and the count up to now by    *)
(* one if it allows the request.                                           *)
LEMMA CountType ==
    ASSUME NEW a \in Seq(BOOLEAN), NEW m \in Int, NEW n \in Int
    PROVE  IsFiniteSet({k \in m..n : a[k]}) /\ Count(a, m, n) \in Nat
<1>1. IsFiniteSet(m..n)
  BY FS_Interval
<1>2. {k \in m..n : a[k]} \in SUBSET (m..n)
  OBVIOUS
<1>3. IsFiniteSet({k \in m..n : a[k]})
  BY <1>1, <1>2, FS_Subset
<1> QED
  BY <1>3, FS_CardinalityType DEF Count

LEMMA CountAppend ==
    ASSUME NEW a \in Seq(BOOLEAN), NEW answer \in BOOLEAN, NEW m \in 1..(Len(a) + 1)
    PROVE  /\ \A n \in 0..Len(a) : Count(Append(a, answer), m, n) = Count(a, m, n)
           /\ Count(Append(a, answer), m, Len(a) + 1)
                = Count(a, m, Len(a)) + IF answer THEN 1 ELSE 0
<1> DEFINE N == Len(a)
           b == Append(a, answer)
           before == {k \in m..N : a[k]}
<1>1. N \in Nat /\ (\A k \in 1..N : b[k] = a[k]) /\ b[N + 1] = answer
  OBVIOUS
<1>2. ASSUME NEW n \in 0..N
      PROVE  Count(b, m, n) = Count(a, m, n)
  <2>1. \A k \in m..n : b[k] = a[k]
    BY <1>1
  <2>2. {k \in m..n : b[k]} = {k \in m..n : a[k]}
    BY <2>1
  <2> QED
    BY <2>2 DEF Count
<1>3. IsFiniteSet(before) /\ Cardinality(before) \in Nat /\ N + 1 \notin before
  <2>1. IsFiniteSet(before) /\ Count(a, m, N) \in Nat
    <3>1. m \in Int /\ N \in Int
      BY <1>1
    <3> HIDE DEF N
    <3> QED
      BY <3>1, CountType
  <2>2. N + 1 \notin m..N
    BY <1>1
  <2> QED
    BY <2>1, <2>2 DEF Count
<1>4. {k \in m..(N + 1) : b[k]} = IF answer THEN before \cup {N + 1} ELSE before
  <2>1. m..(N + 1) = (m..N) \cup {N + 1}
    BY <1>1
  <2>2. {k \in m..(N + 1) : b[k]} = {k \in m..N : b[k]} \cup {k \in {N + 1} : b[k]}
    BY <2>1
  <2>3. {k \in m..N : b[k]} = before
    BY <1>1
  <2>4. {k \in {N + 1} : b[k]} = IF answer THEN {N + 1} ELSE {}
    BY <1>1
  <2> QED
    BY <2>2, <2>3, <2>4
<1>5. Cardinality(before \cup {N + 1}) = Cardinality(before) + 1
  BY <1>3, FS_AddElement
<1>6. Count(b, m, N + 1) = IF answer THEN Cardinality(before) + 1 ELSE Cardinality(before)
  BY <1>4, <1>5 DEF Count
<1>7. Count(a, m, N) = Cardinality(before)
  BY DEF Count
<1> HIDE DEF before, b
<1>8. Count(b, m, N + 1) = Count(a, m, N) + IF answer THEN 1 ELSE 0
  BY <1>3, <1>6, <1>7
<1> QED
  BY <1>2, <1>8 DEF b

(* What an answer leaves in the bucket.                                    *)
LEMMA AskKeepsTight ==
    ASSUME NEW t \in Seq(Int), NEW a \in Seq(BOOLEAN), Len(a) = Len(t), NEW now \in Int,
           NEW b, t # <<>> => Tight(b, t, a), Exact(t, a),
           NEW full, full = Refill(IF t = <<>> THEN FullBucket(now) ELSE b, now),
           NEW allowed \in BOOLEAN, allowed <=> full.tokens >= Cost
    PROVE  /\ Tight(IF allowed THEN [full EXCEPT !.tokens = full.tokens - Cost] ELSE full,
                    Append(t, now), Append(a, allowed))
           /\ Exact(Append(t, now), Append(a, allowed))
<1> DEFINE N == Len(t)
           u == Append(t, now)
           c == Append(a, allowed)
           tokens == full.tokens
           left == IF allowed THEN full.tokens - Cost ELSE full.tokens
           d == IF allowed THEN [full EXCEPT !.tokens = full.tokens - Cost] ELSE full
<1>1. /\ N \in Nat /\ Len(u) = N + 1 /\ Len(c) = N + 1
      /\ u \in Seq(Int) /\ u[N + 1] = now /\ c[N + 1] = allowed
      /\ (\A k \in 1..N : u[k] = t[k] /\ c[k] = a[k])
      /\ t = <<>> <=> N = 0
  OBVIOUS
<1>2. Cost \in Nat \ {0} /\ Capacity \in Nat
  BY BucketAssumption, CapacityType
<1>3. \A m \in 1..N : Count(a, m, N) \in Nat
  <2> TAKE m \in 1..N
  <2>1. m \in Int /\ N \in Int
    BY <1>1
  <2> HIDE DEF N
  <2> QED
    BY <2>1, CountType
<1>4. Count(a, N + 1, N) = 0
  <2>1. {k \in (N + 1)..N : a[k]} = {}
    BY <1>1
  <2> QED
    BY <2>1, FS_EmptySet DEF Count
<1>5. /\ full \in [tokens : Int, refilled : {now}]
      /\ full.tokens <= Capacity
      /\ \A m \in 1..N : Spent(full, a, m, N) <= Capacity + (now - t[m])
      /\ \/ full.tokens = Capacity
         \/ \E m \in 1..N : Spent(full, a, m, N) >= Capacity + (now - t[m])
  <2>1. CASE t = <<>>
    <3>1. full = [tokens |-> Capacity, refilled |-> now]
      <4>1. Capacity + (now - now) = Capacity
        BY <1>2
      <4>2. Min({Capacity, Capacity}) = Capacity
        BY <1>2, MinOfTwo
      <4> QED
        BY <2>1, <4>1, <4>2 DEF Refill, FullBucket
    <3> QED
      BY <2>1, <3>1, <1>1, <1>2
  <2>2. CASE t # <<>>
    <3> DEFINE earned == b.tokens + (now - b.refilled)
    <3>1. Tight(b, t, a) /\ N \in 1..N
      BY <2>2, <1>1
    <3>2. b.tokens \in Int /\ b.refilled = t[N] /\ t[N] \in Int
      BY <3>1 DEF Tight
    <3>3. full = [tokens |-> IF Capacity <= earned THEN Capacity ELSE earned, refilled |-> now]
      <4>1. Min({Capacity, earned}) = IF Capacity <= earned THEN Capacity ELSE earned
        BY <1>2, <3>2, MinOfTwo, SMTT(30)
      <4>2. full = [tokens |-> Min({Capacity, earned}), refilled |-> now]
        BY <2>2 DEF Refill
      <4> QED
        BY <4>1, <4>2
    <3>4. /\ full \in [tokens : Int, refilled : {now}]
          /\ full.tokens <= Capacity /\ full.tokens <= b.tokens + (now - t[N])
          /\ full.tokens = Capacity \/ full.tokens = b.tokens + (now - t[N])
      BY <3>2, <3>3, <1>2
    <3>5. \A m \in 1..N : Price(Count(a, m, N)) \in Nat /\ t[m] \in Int
      <4> TAKE m \in 1..N
      <4>1. Price(Count(a, m, N)) \in Nat
        BY <1>3, OneMoreToken
      <4>2. t[m] \in Int
        BY <1>1
      <4> QED
        BY <4>1, <4>2
    <3>6. \A m \in 1..N : Spent(b, a, m, N) <= Capacity + (t[N] - t[m])
      BY <3>1 DEF Tight
    <3>7. \E m \in 1..N : Spent(b, a, m, N) >= Capacity + (t[N] - t[m])
      BY <3>1 DEF Tight
    <3>8. \A m \in 1..N : Spent(full, a, m, N) <= Capacity + (now - t[m])
      <4> TAKE m \in 1..N
      <4>1. Price(Count(a, m, N)) + b.tokens <= Capacity + (t[N] - t[m])
        BY <3>6 DEF Spent
      <4>2. full.tokens \in Int /\ full.tokens <= b.tokens + (now - t[N])
        BY <3>4
      <4>3. Price(Count(a, m, N)) \in Nat /\ t[m] \in Int
        BY <3>5
      <4>4. Price(Count(a, m, N)) + full.tokens <= Capacity + (now - t[m])
        <5> DEFINE price == Price(Count(a, m, N))
                   last == t[N]
                   from == t[m]
        <5>1. /\ price \in Int /\ from \in Int /\ last \in Int
              /\ b.tokens \in Int /\ full.tokens \in Int /\ Capacity \in Int
          BY <3>2, <3>4, <4>3, <1>2
        <5>2. /\ price + b.tokens <= Capacity + (last - from)
              /\ full.tokens <= b.tokens + (now - last)
          BY <4>1, <4>2
        <5> HIDE DEF price, last, from
        <5>3. price + full.tokens <= Capacity + (now - from)
          BY <5>1, <5>2, SMTT(30)
        <5> QED
          BY <5>3 DEF price, from
      <4> QED
        BY <4>4 DEF Spent
    <3>9. ASSUME full.tokens # Capacity
          PROVE  \E m \in 1..N : Spent(full, a, m, N) >= Capacity + (now - t[m])
      <4>1. PICK m \in 1..N : Price(Count(a, m, N)) + b.tokens >= Capacity + (t[N] - t[m])
        BY <3>7 DEF Spent
      <4>2. full.tokens >= b.tokens + (now - t[N])
        BY <3>2, <3>4, <3>9, <1>2
      <4>3. Price(Count(a, m, N)) \in Nat /\ t[m] \in Int
        BY <3>5
      <4>4. Price(Count(a, m, N)) + full.tokens >= Capacity + (now - t[m])
        <5> DEFINE price == Price(Count(a, m, N))
                   last == t[N]
                   from == t[m]
        <5>1. /\ price \in Int /\ from \in Int /\ last \in Int
              /\ b.tokens \in Int /\ full.tokens \in Int /\ Capacity \in Int
          BY <3>2, <3>4, <4>3, <1>2
        <5>2. /\ price + b.tokens >= Capacity + (last - from)
              /\ full.tokens >= b.tokens + (now - last)
          BY <4>1, <4>2
        <5> HIDE DEF price, last, from
        <5>3. price + full.tokens >= Capacity + (now - from)
          BY <5>1, <5>2, SMTT(30)
        <5> QED
          BY <5>3 DEF price, from
      <4> QED
        BY <4>4 DEF Spent
    <3> QED
      BY <3>4, <3>8, <3>9
  <2> QED
    BY <2>1, <2>2
<1>6. /\ d \in [tokens : Int, refilled : {now}]
      /\ d.tokens = left
  BY <1>2, <1>5
<1>0. full.tokens \in Int /\ left \in Int
  BY <1>2, <1>5
<1> HIDE DEF left
<1>7. ASSUME NEW m \in 1..(N + 1)
      PROVE  /\ Count(a, m, N) \in Nat /\ Price(Count(a, m, N)) \in Nat
             /\ Spent(d, c, m, N + 1) = Spent(full, a, m, N)
             /\ Price(Count(c, m, N + 1)) = Spent(full, a, m, N) - left
  <2>1. Count(a, m, N) \in Nat
    BY <1>1, <1>3, <1>4
  <2>2. /\ Price(Count(a, m, N)) \in Nat
        /\ Price(Count(a, m, N) + 1) = Price(Count(a, m, N)) + Cost
    BY <2>1, OneMoreToken
  <2>3. Count(c, m, N + 1) = Count(a, m, N) + IF allowed THEN 1 ELSE 0
    BY <1>2, CountAppend
  <2>4. Price(Count(c, m, N + 1)) = Price(Count(a, m, N)) + IF allowed THEN Cost ELSE 0
    BY <2>1, <2>2, <2>3
  <2>5. full.tokens \in Int
    BY <1>5
  <2> QED
    BY <2>1, <2>2, <2>4, <2>5, <1>2, <1>6 DEF Spent
<1>8. Spent(full, a, N + 1, N) = full.tokens
  <2>1. Price(Count(a, N + 1, N)) = 0
    BY <1>4, OneMoreToken
  <2> QED
    BY <1>0, <2>1 DEF Spent
<1>9. \A m \in 1..(N + 1) : Spent(full, a, m, N) <= Capacity + (now - u[m])
  BY <1>1, <1>2, <1>5, <1>8
<1>10. \E m \in 1..(N + 1) : Spent(full, a, m, N) >= Capacity + (now - u[m])
  <2>1. CASE full.tokens = Capacity
    <3>1. N + 1 \in 1..(N + 1) /\ Spent(full, a, N + 1, N) >= Capacity + (now - u[N + 1])
      BY <1>1, <1>2, <1>8, <2>1
    <3> QED
      BY <3>1
  <2>2. CASE full.tokens # Capacity
    <3>1. PICK m \in 1..N : Spent(full, a, m, N) >= Capacity + (now - t[m])
      BY <1>5, <2>2
    <3>2. m \in 1..(N + 1) /\ u[m] = t[m]
      BY <1>1
    <3> QED
      BY <3>1, <3>2
  <2> QED
    BY <2>1, <2>2
<1>11. Tight(d, u, c)
  <2>1. \A m \in 1..(N + 1) : Spent(d, c, m, N + 1) <= Capacity + (u[N + 1] - u[m])
    BY <1>1, <1>7, <1>9
  <2>2. \E m \in 1..(N + 1) : Spent(d, c, m, N + 1) >= Capacity + (u[N + 1] - u[m])
    BY <1>1, <1>7, <1>10
  <2> QED
    BY <1>1, <1>6, <2>1, <2>2 DEF Tight
<1>12. ASSUME NEW n \in DOMAIN u
       PROVE  IF c[n]
              THEN \A m \in 1..n : Price(Count(c, m, n)) <= Capacity + (u[n] - u[m])
              ELSE \E m \in 1..n : ~(Price(Count(c, m, n) + 1) <= Capacity + (u[n] - u[m]))
  <2>1. n \in 1..(N + 1)
    BY <1>1
  <2>2. CASE n \in 1..N
    <3>1. c[n] = a[n] /\ \A m \in 1..n : u[n] = t[n] /\ u[m] = t[m] /\ m \in 1..(N + 1)
      BY <1>1, <2>2
    <3>2. \A m \in 1..n : Count(c, m, n) = Count(a, m, n)
      BY <1>1, <1>2, <2>2, <3>1, CountAppend
    <3>3. n \in DOMAIN t
      BY <2>2
    <3>4. IF a[n]
          THEN \A m \in 1..n : Price(Count(a, m, n)) <= Capacity + (t[n] - t[m])
          ELSE \E m \in 1..n : ~(Price(Count(a, m, n) + 1) <= Capacity + (t[n] - t[m]))
      BY <3>3 DEF Exact
    <3> HIDE DEF u, c
    <3>5. CASE a[n]
      BY <3>1, <3>2, <3>4, <3>5
    <3>6. CASE ~a[n]
      BY <3>1, <3>2, <3>4, <3>6
    <3> QED
      BY <3>5, <3>6
  <2>3. CASE n = N + 1
    <3>1. u[n] = now /\ c[n] = allowed /\ n \in Nat /\ full.tokens \in Int
      BY <1>1, <1>5, <2>3
    <3>2. \A m \in 1..n : u[m] \in Int
      BY <1>1, <2>3
    <3>3. CASE allowed
      <4>1. left >= 0
        BY <1>0, <1>2, <3>3 DEF left
      <4>2. ASSUME NEW m \in 1..n
            PROVE  Price(Count(c, m, n)) <= Capacity + (now - u[m])
        <5>1. Price(Count(c, m, n)) = Spent(full, a, m, N) - left
          BY <1>7, <2>3
        <5>2. Spent(full, a, m, N) <= Capacity + (now - u[m])
          BY <1>9, <2>3
        <5>3. Spent(full, a, m, N) \in Int /\ left \in Int
          BY <1>0, <1>7, <2>3 DEF Spent
        <5> DEFINE price == Price(Count(c, m, n))
                   spent == Spent(full, a, m, N)
                   from == u[m]
        <5>4. Capacity \in Int /\ from \in Int
          BY <1>2, <3>2
        <5> HIDE DEF price, spent, from, left
        <5>5. price <= Capacity + (now - from)
          BY <4>1, <5>1, <5>2, <5>3, <5>4, SMTT(30) DEF price, spent, from
        <5> QED
          BY <5>5 DEF price, from
      <4> QED
        BY <3>1, <3>3, <4>2
    <3>4. CASE ~allowed
      <4>1. full.tokens < Cost
        BY <1>2, <1>5, <3>4
      <4>2. PICK m \in 1..n : Spent(full, a, m, N) >= Capacity + (now - u[m])
        BY <1>10, <2>3
      <4>3. Count(c, m, n) = Count(a, m, N) /\ Count(a, m, N) \in Nat
        BY <1>2, <1>7, <2>3, <3>4, CountAppend
      <4>4. /\ Price(Count(a, m, N)) \in Nat
            /\ Price(Count(c, m, n) + 1) = Price(Count(a, m, N)) + Cost
        BY <4>3, OneMoreToken
      <4>5. ~(Price(Count(c, m, n) + 1) <= Capacity + (now - u[m]))
        <5> DEFINE price == Price(Count(a, m, N))
                   next == Price(Count(c, m, n) + 1)
                   from == u[m]
                   had == full.tokens
        <5>1. /\ price \in Int /\ had \in Int /\ from \in Int
              /\ Capacity \in Int /\ Cost \in Int
          BY <1>2, <3>1, <3>2, <4>4
        <5>2. price + had >= Capacity + (now - from)
          BY <4>2 DEF Spent
        <5>3. next = price + Cost /\ had < Cost
          BY <4>1, <4>4
        <5> HIDE DEF price, next, from, had
        <5>4. ~(next <= Capacity + (now - from))
          BY ONLY <5>1, <5>2, <5>3, now \in Int
        <5> QED
          BY ONLY <5>4 DEF next, from
      <4> QED
        BY <3>1, <3>4, <4>5
    <3> QED
      BY <1>2, <3>3, <3>4
  <2> QED
    BY <1>1, <2>1, <2>2, <2>3
<1> QED
  BY <1>2, <1>11, <1>12 DEF Exact

LEMMA LimiterStep == LimiterInv /\ [LimiterNext \/ LimiterRestart]_limiting => LimiterInv'
<1> SUFFICES ASSUME LimiterInv, [LimiterNext \/ LimiterRestart]_limiting
             PROVE  LimiterInv'
  OBVIOUS
<1>1. ASSUME NEW now \in Clock, Ask(now)
      PROVE  LimiterInv'
  <2> DEFINE full == Refill(IF times = <<>> THEN FullBucket(now) ELSE bucket, now)
             allowed == full.tokens >= Cost
             left == IF allowed THEN [full EXCEPT !.tokens = full.tokens - Cost] ELSE full
  <2>1. /\ bucket' = left
        /\ times' = Append(times, now)
        /\ answers' = Append(answers, allowed)
    BY <1>1 DEF Ask
  <2>2. now \in Int
    BY BucketAssumption
  <2>3. /\ allowed \in BOOLEAN
        /\ Tight(left, Append(times, now), Append(answers, allowed))
        /\ Exact(Append(times, now), Append(answers, allowed))
    <3> HIDE DEF full
    <3>1. allowed \in BOOLEAN /\ (allowed <=> full.tokens >= Cost)
      OBVIOUS
    <3>2. full = Refill(IF times = <<>> THEN FullBucket(now) ELSE bucket, now)
      BY DEF full
    <3> HIDE DEF allowed
    <3> QED
      BY <2>2, <3>1, <3>2, AskKeepsTight DEF LimiterInv
  <2> HIDE DEF full, allowed, left
  <2>4. /\ times' \in Seq(Int) /\ answers' \in Seq(BOOLEAN) /\ Len(answers') = Len(times')
    BY <2>1, <2>2, <2>3 DEF LimiterInv
  <2>5. Tight(bucket', times', answers') /\ Exact(times', answers')
    BY <2>1, <2>3
  <2> QED
    BY <2>4, <2>5 DEF LimiterInv, Tight, Exact, Spent, Count
<1>2. ASSUME LimiterRestart
      PROVE  LimiterInv'
  BY <1>2 DEF LimiterRestart, LimiterInv, Exact
<1>3. ASSUME UNCHANGED limiting
      PROVE  LimiterInv'
  BY <1>3 DEF limiting, LimiterInv
<1> QED
  BY <1>1, <1>2, <1>3 DEF LimiterNext

(* Whatever the burst, the rate and the clock, which may go back: in no    *)
(* stretch of time more requests are allowed than the burst and the rate,  *)
(* and none is refused that would not exceed them in some stretch          *)
(* (RateLimiter.is_allowed, _refill_bucket).                               *)
THEOREM AllowsWhatIsEarned == LimiterSpec => []RateIsExact
<1>1. LimiterInit => LimiterInv
  BY DEF LimiterInit, LimiterInv, Exact
<1>2. LimiterInv => RateIsExact
  <2> SUFFICES ASSUME LimiterInv, NEW n \in DOMAIN times
               PROVE  IF answers[n]
                      THEN \A m \in 1..n : Fits(Allowed(m, n), m, n)
                      ELSE \E m \in 1..n : ~Fits(Allowed(m, n) + 1, m, n)
    BY DEF RateIsExact
  <2>1. IF answers[n]
        THEN \A m \in 1..n : Price(Count(answers, m, n)) <= Capacity + (times[n] - times[m])
        ELSE \E m \in 1..n : ~(Price(Count(answers, m, n) + 1) <= Capacity + (times[n] - times[m]))
    BY DEF LimiterInv, Exact
  <2>2. \A m \in 1..n : /\ Fits(Allowed(m, n), m, n) <=>
                              Price(Count(answers, m, n)) <= Capacity + (times[n] - times[m])
                        /\ Fits(Allowed(m, n) + 1, m, n) <=>
                              Price(Count(answers, m, n) + 1) <= Capacity + (times[n] - times[m])
    BY DEF Count, Allowed, Fits, Price
  <2> QED
    BY <2>1, <2>2
<1> QED
  BY <1>1, <1>2, LimiterStep, PTL DEF LimiterSpec

-----------------------------------------------------------------------------
\* The load balancer

AllLists == UNION {ListsOf[service] : service \in DOMAIN ListsOf}

\* The instances that can be selected
Taken == UNION {ToSet(list) : list \in AllLists}

(* Any set of naturals has a least element: what takes the place of an     *)
(* induction wherever a first or smallest one is needed.                   *)
LEMMA LeastNatural ==
    ASSUME NEW S \in SUBSET Nat, S # {}
    PROVE  \E n \in S : \A k \in S : n <= k
<1>1. IsWellFoundedOn(OpToRel(<, Nat), Nat)
  BY NatLessThanWellFounded
<1>2. \E n \in S : \A k \in S : <<k, n>> \notin OpToRel(<, Nat)
  BY <1>1, WFMin
<1>3. ASSUME NEW n \in S, NEW k \in S, <<k, n>> \notin OpToRel(<, Nat)
      PROVE  n <= k
  BY <1>3 DEF OpToRel
<1> QED
  BY <1>2, <1>3

(* A set of numbers with an upper bound has a greatest element.            *)
LEMMA GreatestNatural ==
  ASSUME NEW S \in SUBSET Nat, S # {}, NEW b \in Nat, \A k \in S : k <= b
  PROVE  \E n \in S : \A k \in S : k <= n
  <1> DEFINE T == {b - k : k \in S}
  <1>1. T \in SUBSET Nat /\ T # {}
    <2>1. \A k \in S : b - k \in Nat
      OBVIOUS
    <2>2. QED
      BY <2>1
  <1> HIDE DEF T
  <1>2. PICK t \in T : \A k \in T : t <= k
    BY <1>1, LeastNatural
  <1>3. PICK n \in S : t = b - n
    BY <1>2 DEF T
  <1>4. ASSUME NEW k \in S
        PROVE  k <= n
    <2>1. b - k \in T
      BY DEF T
    <2>2. b - n <= b - k
      BY <1>2, <1>3, <2>1
    <2>3. QED
      BY <2>2
  <1>5. QED
    BY <1>4

LEMMA MinOfNaturals ==
    ASSUME NEW S \in SUBSET Nat, S # {}
    PROVE  Min(S) \in S /\ \A k \in S : Min(S) <= k
BY LeastNatural DEF Min

(* The turn after the a-th of n.                                           *)
LEMMA ModOf ==
    ASSUME NEW n \in Nat \ {0}, NEW q \in Int, NEW r \in 0..(n - 1)
    PROVE  (n * q + r) % n = r
OBVIOUS

LEMMA ModNext ==
    ASSUME NEW a \in Int, NEW n \in Nat \ {0}
    PROVE  /\ a % n \in 0..(n - 1)
           /\ (a + 1) % n = IF (a % n) + 1 < n THEN (a % n) + 1 ELSE 0
           /\ a \in 0..(n - 1) => a % n = a
<1> DEFINE q == a \div n
           r == a % n
<1>1. q \in Int /\ r \in 0..(n - 1) /\ a = n * q + r
  OBVIOUS
<1> HIDE DEF q, r
<1>2. CASE r + 1 < n
  <2>1. a + 1 = n * q + (r + 1) /\ r + 1 \in 0..(n - 1)
    BY <1>1, <1>2
  <2>2. (n * q + (r + 1)) % n = r + 1
    BY <1>1, <2>1, ModOf
  <2> QED
    BY <1>1, <1>2, <2>1, <2>2 DEF r
<1>3. CASE ~(r + 1 < n)
  <2>1. a + 1 = n * (q + 1) + 0 /\ 0 \in 0..(n - 1) /\ q + 1 \in Int
    BY <1>1, <1>3
  <2>2. (n * (q + 1) + 0) % n = 0
    BY <2>1, ModOf
  <2> QED
    BY <1>1, <1>3, <2>1, <2>2 DEF r
<1>4. a \in 0..(n - 1) => n * 0 + a = a /\ (n * 0 + a) % n = a
  BY ModOf
<1> QED
  BY <1>1, <1>2, <1>3, <1>4 DEF r

(* What the assumption says of a list.                                     *)
LEMMA ListType ==
    ASSUME NEW list \in AllLists
    PROVE  /\ list \in Seq(ToSet(list)) /\ Len(list) \in Nat \ {0}
           /\ \A p \in 1..Len(list) : list[p] \in ToSet(list)
           /\ \A x \in ToSet(list) : \E p \in 1..Len(list) : x = list[p]
           /\ \A p, q \in 1..Len(list) : list[p] = list[q] => p = q
           /\ Nobody \notin ToSet(list)
<1>1. /\ list \in Seq(ToSet(list)) \ {<<>>} /\ IsInjective(list) /\ Nobody \notin ToSet(list)
  BY ListsAssumption DEF AllLists
<1>2. Len(list) \in Nat \ {0} /\ DOMAIN list = 1..Len(list)
  BY <1>1
<1> QED
  BY <1>1, <1>2 DEF ToSet, IsInjective

(* The first of the candidates is one of them.                             *)
LEMMA FirstOfType ==
    ASSUME NEW list \in AllLists, NEW C \in SUBSET ToSet(list), C # {}
    PROVE  FirstOf(list, C) \in C
<1> DEFINE S == {n \in DOMAIN list : list[n] \in C}
<1>1. DOMAIN list = 1..Len(list) /\ Len(list) \in Nat
  BY ListType
<1>2. S \in SUBSET Nat /\ S # {}
  BY <1>1, ListType, SMTT(30)
<1>3. Min(S) \in S
  BY <1>2, MinOfNaturals
<1> QED
  BY <1>3 DEF FirstOf

\* What is known of a balancer whatever it was given
Balancer(b) ==
    /\ b = [records |-> b.records, cursor |-> b.cursor, current |-> b.current]
    /\ b.cursor \in Nat
    /\ b.records = [j \in DOMAIN b.records |-> b.records[j]]
    /\ \A j \in DOMAIN b.records :
          /\ b.records[j] = [weight |-> b.records[j].weight,
                             connections |-> b.records[j].connections]
          /\ b.records[j].connections \in Nat

Connections(b, j) == IF j \in DOMAIN b.records THEN b.records[j].connections ELSE 0

(* A balancer that is given a list has a record of each instance in it.    *)
LEMMA UpdatedType ==
    ASSUME NEW b, Balancer(b), NEW list
    PROVE  /\ Balancer(Updated(b, list))
           /\ DOMAIN Updated(b, list).records = ToSet(list)
           /\ Updated(b, list).cursor = b.cursor
           /\ Updated(b, list).current = b.current
           /\ \A j \in ToSet(list) :
                 Updated(b, list).records[j].connections = Connections(b, j)
<1> DEFINE records == [j \in ToSet(list) |->
                          IF j \in DOMAIN b.records
                          THEN b.records[j]
                          ELSE [weight |-> Weight[j], connections |-> 0]]
<1>1. Updated(b, list) = [records |-> records, cursor |-> b.cursor, current |-> b.current]
  BY DEF Updated, Balancer
<1>2. /\ \A j \in ToSet(list) :
            /\ records[j] = [weight |-> records[j].weight,
                             connections |-> records[j].connections]
            /\ records[j].connections \in Nat
            /\ records[j].connections = Connections(b, j)
      /\ DOMAIN records = ToSet(list)
  BY DEF Balancer, Connections
<1> HIDE DEF records
<1>3. records = [j \in DOMAIN records |-> records[j]]
  BY DEF records
<1>4. b.cursor \in Nat
  BY DEF Balancer
<1> QED
  BY <1>1, <1>2, <1>3, <1>4 DEF Balancer

LEMMA WithConnections ==
    ASSUME NEW weight, NEW old, NEW new, NEW e, e = [weight |-> weight, connections |-> old]
    PROVE  [e EXCEPT !.connections = new] = [weight |-> weight, connections |-> new]
OBVIOUS

(* Who is taken has one connection more.                                   *)
LEMMA OneMoreConnection ==
    ASSUME NEW u, Balancer(u), NEW pick \in DOMAIN u.records, NEW next \in Nat, NEW x,
           NEW v, v = [records |-> [u.records EXCEPT ![pick].connections =
                                       u.records[pick].connections + 1],
                       cursor |-> next, current |-> x]
    PROVE  /\ Balancer(v) /\ DOMAIN v.records = DOMAIN u.records
           /\ v.cursor = next
           /\ \A j \in DOMAIN u.records :
                 v.records[j].connections
                    = u.records[j].connections + IF j = pick THEN 1 ELSE 0
<1> DEFINE c == u.records[pick].connections
           d == [u.records EXCEPT ![pick].connections = c + 1]
<1>1. /\ u.records = [j \in DOMAIN u.records |-> u.records[j]]
      /\ \A j \in DOMAIN u.records :
            /\ u.records[j] = [weight |-> u.records[j].weight,
                               connections |-> u.records[j].connections]
            /\ u.records[j].connections \in Nat
  BY DEF Balancer
<1>2. DOMAIN d = DOMAIN u.records /\ d = [j \in DOMAIN d |-> d[j]]
  BY <1>1
<1>3. c \in Nat
  BY <1>1
<1>4. d[pick] = [weight |-> u.records[pick].weight, connections |-> c + 1]
  <2> HIDE DEF c
  <2>1. d[pick] = [u.records[pick] EXCEPT !.connections = c + 1]
    BY <1>1
  <2>2. u.records[pick] = [weight |-> u.records[pick].weight,
                           connections |-> u.records[pick].connections]
    BY <1>1
  <2> QED
    BY <2>1, <2>2, WithConnections
<1>5. \A j \in DOMAIN u.records : j # pick => d[j] = u.records[j]
  BY <1>1
<1> HIDE DEF d, c
<1>6. ASSUME NEW j \in DOMAIN d
      PROVE  /\ d[j] = [weight |-> d[j].weight, connections |-> d[j].connections]
             /\ d[j].connections \in Nat
             /\ d[j].connections = u.records[j].connections + IF j = pick THEN 1 ELSE 0
  <2>1. CASE j = pick
    BY <1>3, <1>4, <2>1 DEF c
  <2>2. CASE j # pick
    BY <1>1, <1>2, <1>5, <2>2
  <2> QED
    BY <2>1, <2>2
<1>7. v.records = d /\ v.cursor = next /\ v.current = x
  BY DEF d, c
<1>8. v = [records |-> v.records, cursor |-> v.cursor, current |-> v.current]
  OBVIOUS
<1> QED
  BY <1>2, <1>6, <1>7, <1>8 DEF Balancer

(* A turn of round robin.                                                  *)
LEMMA RoundRobinTurns ==
    ASSUME NEW b, Balancer(b), NEW list \in AllLists,
           NEW r, r = Select("round_robin", b, list)
    PROVE  /\ r.pick = list[(b.cursor % Len(list)) + 1]
           /\ r.balancer.cursor = (b.cursor + 1) % Len(list)
           /\ Balancer(r.balancer)
<1> DEFINE u == Updated(b, list)
           pick == list[(b.cursor % Len(list)) + 1]
<1>1. /\ Balancer(u) /\ DOMAIN u.records = ToSet(list) /\ u.cursor = b.cursor
  BY UpdatedType
<1>2. b.cursor \in Nat /\ Len(list) \in Nat \ {0}
  BY ListType DEF Balancer
<1>3. pick \in ToSet(list) /\ pick # Nobody
  <2>1. (b.cursor % Len(list)) + 1 \in 1..Len(list)
    BY <1>2
  <2> QED
    BY <2>1, ListType, SMTT(30)
<1> HIDE DEF u
<1> DEFINE next == (b.cursor + 1) % Len(list)
           chosen == [pick |-> pick, balancer |-> [u EXCEPT !.cursor = next]]
<1>4. Chosen("round_robin", u, list) = chosen
  BY <1>1 DEF Chosen, RoundRobin
<1>5. next \in Nat
  BY <1>2
<1>6. chosen.balancer = [records |-> u.records, cursor |-> next, current |-> u.current]
  BY <1>1 DEF Balancer
<1> HIDE DEF pick, next
<1> DEFINE d == [u.records EXCEPT ![pick].connections = u.records[pick].connections + 1]
<1>7. r = [pick |-> pick,
           balancer |-> [records |-> d, cursor |-> next, current |-> u.current]]
  BY <1>3, <1>4, <1>6 DEF Select, u
<1> HIDE DEF d
<1>8. Balancer(r.balancer) /\ r.balancer.cursor = next
  <2>1. r.balancer = [records |-> [u.records EXCEPT ![pick].connections =
                                      u.records[pick].connections + 1],
                      cursor |-> next, current |-> u.current]
    BY <1>7 DEF d
  <2>2. pick \in DOMAIN u.records
    BY <1>1, <1>3
  <2> QED
    BY <1>1, <1>5, <2>1, <2>2, OneMoreConnection
<1> QED
  BY <1>7, <1>8 DEF pick, next

(* A turn by connections: the first of the idlest, which has one more now. *)
LEMMA LeastConnectionsTurns ==
    ASSUME NEW b, Balancer(b), NEW list \in AllLists,
           NEW r, r = Select("least_connections", b, list)
    PROVE  /\ r.pick \in ToSet(list)
           /\ \A j \in ToSet(list) : Connections(b, r.pick) <= Connections(b, j)
           /\ Balancer(r.balancer)
           /\ DOMAIN r.balancer.records = ToSet(list)
           /\ \A j \in ToSet(list) :
                 Connections(r.balancer, j)
                    = Connections(b, j) + IF j = r.pick THEN 1 ELSE 0
<1> DEFINE u == Updated(b, list)
           idlest == {j \in ToSet(list) : \A k \in ToSet(list) :
                         u.records[j].connections <= u.records[k].connections}
           pick == FirstOf(list, idlest)
<1>1. /\ Balancer(u) /\ DOMAIN u.records = ToSet(list)
      /\ \A j \in ToSet(list) : u.records[j].connections = Connections(b, j)
  BY UpdatedType
<1>2. \A j \in ToSet(list) : Connections(b, j) \in Nat
  BY <1>1 DEF Balancer
<1> HIDE DEF u
<1>3. idlest # {}
  <2> DEFINE S == {Connections(b, j) : j \in ToSet(list)}
  <2>1. S \in SUBSET Nat
    BY <1>2
  <2>2. S # {}
    <3>1. 1 \in 1..Len(list) /\ list[1] \in ToSet(list)
      BY ListType
    <3> QED
      BY <3>1
  <2>3. PICK n \in S : \A k \in S : n <= k
    BY <2>1, <2>2, LeastNatural
  <2> QED
    BY <1>1, <2>3
<1>4. pick \in idlest
  BY <1>3, FirstOfType
<1> HIDE DEF pick
<1>5. /\ pick \in ToSet(list) /\ pick # Nobody
      /\ \A j \in ToSet(list) : Connections(b, pick) <= Connections(b, j)
  <2>1. pick \in ToSet(list)
    BY <1>4
  <2>2. \A j \in ToSet(list) : u.records[pick].connections <= u.records[j].connections
    BY <1>4
  <2>3. pick # Nobody
    BY <2>1, ListType
  <2> QED
    BY <1>1, <2>1, <2>2, <2>3
<1> DEFINE chosen == [pick |-> pick, balancer |-> u]
<1>6. Chosen("least_connections", u, list) = chosen
  BY DEF Chosen, LeastConnections, pick
<1> DEFINE d == [u.records EXCEPT ![pick].connections = u.records[pick].connections + 1]
<1>7. chosen.balancer = [records |-> u.records, cursor |-> u.cursor, current |-> u.current]
  BY <1>1 DEF Balancer
<1>8. r = [pick |-> pick,
           balancer |-> [records |-> d, cursor |-> u.cursor, current |-> u.current]]
  BY <1>5, <1>6, <1>7 DEF Select, u
<1> HIDE DEF d
<1>9. /\ Balancer(r.balancer) /\ DOMAIN r.balancer.records = ToSet(list)
      /\ \A j \in ToSet(list) : r.balancer.records[j].connections
            = u.records[j].connections + IF j = pick THEN 1 ELSE 0
  <2>1. r.balancer = [records |-> [u.records EXCEPT ![pick].connections =
                                      u.records[pick].connections + 1],
                      cursor |-> u.cursor, current |-> u.current]
    BY <1>8 DEF d
  <2>2. pick \in DOMAIN u.records /\ u.cursor \in Nat
    BY <1>1, <1>5 DEF Balancer
  <2> QED
    BY <1>1, <2>1, <2>2, OneMoreConnection
<1>10. r.pick = pick
  BY <1>8
<1>11. ASSUME NEW j \in ToSet(list)
       PROVE  Connections(r.balancer, j) = Connections(b, j) + IF j = r.pick THEN 1 ELSE 0
  <2>1. Connections(r.balancer, j) = r.balancer.records[j].connections
    BY <1>9 DEF Connections
  <2> QED
    BY <1>1, <1>9, <1>10, <2>1
<1> QED
  BY <1>5, <1>9, <1>10, <1>11

\* The definitions of the property, of any history
Same(l, m, n) == \A k \in m..n : l[k] = l[m]

Forgot(l, n) == n = 1 \/ ToSet(l[n - 1]) \cap ToSet(l[n]) = {}

\* The turns from the m-th to the n-th have one list and end before everybody
\* had one
Round(l, m, n) == Same(l, m, n) /\ n - m < Len(l[m])

\* Round robin will take the instance after the last one it took
Cursor(p, len) == IF p < len THEN p ELSE p - len

RobinInv(b, l, p) ==
    LET n == Len(l)
    IN  \A m \in 1..n : Round(l, m, n) =>
            \E k \in 1..Len(l[m]) : /\ p[m] = l[m][k]
                                    /\ b.cursor = Cursor(k + (n - m), Len(l[m]))

RobinFair(l, p) ==
    \A m, n \in 1..Len(l) : m < n /\ Round(l, m, n) => p[m] # p[n]

(* Round robin goes on as it should.                                       *)
LEMMA RobinStep ==
    ASSUME NEW b, Balancer(b), NEW l \in Seq(AllLists), NEW p \in Seq(Taken),
           Len(p) = Len(l), RobinInv(b, l, p), RobinFair(l, p),
           NEW list \in AllLists,
           NEW r, r = Select("round_robin", b, list)
    PROVE  /\ RobinInv(r.balancer, Append(l, list), Append(p, r.pick))
           /\ RobinFair(Append(l, list), Append(p, r.pick))
           /\ r.pick \in ToSet(list)
<1> DEFINE N == Len(l)
           l2 == Append(l, list)
           p2 == Append(p, r.pick)
           len == Len(list)
           c == b.cursor
<1>1. /\ N \in Nat /\ Len(l2) = N + 1
      /\ (\A k \in 1..N : l2[k] = l[k] /\ p2[k] = p[k])
      /\ l2[N + 1] = list /\ p2[N + 1] = r.pick
  OBVIOUS
<1>2. /\ r.pick = list[(c % len) + 1] /\ r.balancer.cursor = (c + 1) % len
      /\ c \in Nat /\ len \in Nat \ {0}
  <2>1. /\ r.pick = list[(c % len) + 1] /\ r.balancer.cursor = (c + 1) % len
    BY RoundRobinTurns
  <2>2. c \in Nat
    BY DEF Balancer
  <2>3. len \in Nat \ {0}
    BY ListType
  <2> QED
    BY <2>1, <2>2, <2>3
<1> HIDE DEF l2, p2, len, c
<1>3. /\ c % len \in 0..(len - 1)
      /\ (c + 1) % len = IF (c % len) + 1 < len THEN (c % len) + 1 ELSE 0
      /\ c \in 0..(len - 1) => c % len = c
  <2>1. c \in Int /\ c \in Nat /\ len \in Nat \ {0}
    BY <1>2
  <2> QED
    BY <2>1, ModNext
<1>4. r.pick \in ToSet(list)
  <2>1. (c % len) + 1 \in 1..len
    BY <1>2, <1>3
  <2> QED
    BY <1>2, <2>1, ListType DEF len
<1>5. ASSUME NEW m \in 1..N, Round(l2, m, N + 1)
      PROVE  /\ list = l[m] /\ Round(l, m, N) /\ l2[m] = list
             /\ N + 1 - m < len
             /\ p[m] # r.pick
             /\ \E k \in 1..len : p[m] = list[k] /\ r.balancer.cursor = Cursor(k + (N + 1 - m), len)
  <2>1. list = l[m] /\ l2[m] = list
    BY <1>1, <1>5 DEF Round, Same
  <2>2. N + 1 - m < len
    BY <1>5, <2>1 DEF Round, len
  <2>3. Round(l, m, N)
    <3>1. Same(l, m, N)
      BY <1>1, <1>5 DEF Round, Same
    <3> QED
      BY <1>1, <1>2, <2>1, <2>2, <3>1 DEF Round, len
  <2>4. PICK k \in 1..len : p[m] = list[k] /\ c = Cursor(k + (N - m), len)
    BY <2>1, <2>3 DEF RobinInv, len, c
  <2>5. c \in 0..(len - 1) /\ c + 1 # k
    BY <1>1, <1>2, <2>2, <2>4 DEF Cursor
  <2>6. c % len = c
    BY <1>3, <2>5
  <2>7. r.pick = list[c + 1] /\ c + 1 \in 1..len
    <3>1. c + 1 \in 1..len
      BY <1>2, <2>5
    <3>2. r.pick = list[c + 1]
      BY <1>2, <2>6
    <3> QED
      BY <3>1, <3>2
  <2>8. p[m] # r.pick
    BY <2>4, <2>5, <2>7, ListType, ZenonT(60) DEF len
  <2>9. r.balancer.cursor = Cursor(k + (N + 1 - m), len)
    <3>1. r.balancer.cursor = IF c + 1 < len THEN c + 1 ELSE 0
      BY <1>2, <1>3, <2>6
    <3>2. c + 1 <= len /\ k + (N + 1 - m) = (k + (N - m)) + 1 /\ k + (N - m) \in Int
      BY <1>1, <1>2, <2>5
    <3>3. /\ k + (N - m) < len => c = k + (N - m)
          /\ ~(k + (N - m) < len) => c = k + (N - m) - len
      BY <1>2, <2>4, <3>2 DEF Cursor
    <3>4. k + (N - m) >= 1 /\ k + (N - m) < 2 * len
      BY <1>1, <1>2, <2>2, SMTT(30)
    <3>5. (IF c + 1 < len THEN c + 1 ELSE 0) = Cursor(k + (N + 1 - m), len)
      BY <1>1, <1>2, <2>2, <3>2, <3>3, <3>4, SMTT(30) DEF Cursor
    <3> QED
      BY <3>1, <3>5
  <2> QED
    BY <2>1, <2>2, <2>3, <2>4, <2>8, <2>9
<1>6. RobinInv(r.balancer, l2, p2)
  <2> SUFFICES ASSUME NEW m \in 1..(N + 1), Round(l2, m, N + 1)
               PROVE  \E k \in 1..Len(l2[m]) :
                         /\ p2[m] = l2[m][k]
                         /\ r.balancer.cursor = Cursor(k + (N + 1 - m), Len(l2[m]))
    BY <1>1 DEF RobinInv
  <2>1. CASE m \in 1..N
    <3>1. l2[m] = list /\ p2[m] = p[m]
      BY <1>1, <1>5, <2>1
    <3>2. \E k \in 1..len : p[m] = list[k] /\ r.balancer.cursor = Cursor(k + (N + 1 - m), len)
      BY <1>5, <2>1
    <3> QED
      BY <3>1, <3>2 DEF len
  <2>2. CASE m = N + 1
    <3> DEFINE k == (c % len) + 1
    <3>1. k \in 1..len /\ r.pick = list[k]
      BY <1>2, <1>3
    <3>2. r.balancer.cursor = Cursor(k, len)
      BY <1>2, <1>3 DEF Cursor
    <3> HIDE DEF k
    <3>3. k + (N + 1 - m) = k
      BY <1>1, <2>2, <3>1
    <3> QED
      BY <1>1, <2>2, <3>1, <3>2, <3>3 DEF len
  <2> QED
    BY <1>1, <2>1, <2>2, SMTT(30)
<1>7. RobinFair(l2, p2)
  <2> SUFFICES ASSUME NEW m \in 1..(N + 1), NEW n \in 1..(N + 1), m < n, Round(l2, m, n)
               PROVE  p2[m] # p2[n]
    BY <1>1 DEF RobinFair
  <2>1. m \in 1..N
    BY <1>1
  <2>2. CASE n = N + 1
    BY <1>1, <1>5, <2>1, <2>2
  <2>3. CASE n \in 1..N
    <3>1. Round(l, m, n)
      BY <1>1, <2>1, <2>3 DEF Round, Same
    <3> QED
      BY <1>1, <2>1, <2>3, <3>1 DEF RobinFair
  <2> QED
    BY <1>1, <2>2, <2>3
<1> QED
  BY <1>4, <1>6, <1>7 DEF l2, p2

\* By connections, who had a turn has one more than who had none
IdleInv(b, l, p) ==
    LET n == Len(l)
    IN  /\ DOMAIN b.records = IF n = 0 THEN {} ELSE ToSet(l[n])
        /\ \A m \in 1..n : Forgot(l, m) /\ Round(l, m, n) =>
              \A j \in ToSet(l[m]) :
                 Connections(b, j) = IF \E k \in m..n : p[k] = j THEN 1 ELSE 0

IdleFair(l, p) ==
    \A m, n \in 1..Len(l) : m < n /\ Forgot(l, m) /\ Round(l, m, n) => p[m] # p[n]

(* Fewer turns than instances leave one out.                               *)
LEMMA SomebodyHadNoTurn ==
    ASSUME NEW list \in AllLists, NEW p \in Seq(Taken), NEW m \in Int, NEW n \in Int,
           m <= n, n - m + 1 < Len(list)
    PROVE  \E j \in ToSet(list) : \A k \in m..n : p[k] # j
<1> SUFFICES ASSUME \A j \in ToSet(list) : \E k \in m..n : p[k] = j
             PROVE  FALSE
  OBVIOUS
<1> DEFINE len == Len(list)
           f == [x \in 1..len |-> CHOOSE k \in m..n : p[k] = list[x]]
<1>1. len \in Nat \ {0}
  BY ListType
<1>2. /\ IsFiniteSet(1..len) /\ Cardinality(1..len) = len
      /\ IsFiniteSet(m..n) /\ Cardinality(m..n) < len
  <2>1. /\ IsFiniteSet(1..len)
        /\ Cardinality(1..len) = IF 1 > len THEN 0 ELSE len - 1 + 1
    <3>1. 1 \in Int /\ len \in Int
      BY <1>1
    <3> HIDE DEF len
    <3> QED
      BY <3>1, FS_Interval, Zenon
  <2>2. IsFiniteSet(m..n) /\ Cardinality(m..n) = IF m > n THEN 0 ELSE n - m + 1
    BY FS_Interval, Zenon
  <2>3. Cardinality(1..len) = len
    BY <1>1, <2>1
  <2>4. Cardinality(m..n) = n - m + 1
    BY <2>2
  <2> QED
    BY <2>1, <2>2, <2>3, <2>4
<1>3. \A x \in 1..len : f[x] \in m..n /\ p[f[x]] = list[x]
  <2> TAKE x \in 1..len
  <2>1. \E k \in m..n : p[k] = list[x]
    BY ListType
  <2> QED
    BY <2>1
<1>4. f \in [1..len -> m..n]
  BY <1>3
<1> HIDE DEF f
<1>5. \E x, y \in 1..len : x # y /\ f[x] = f[y]
  <2> DEFINE S == 1..len
             T == m..n
  <2>1. /\ IsFiniteSet(S) /\ IsFiniteSet(T)
        /\ Cardinality(T) < Cardinality(S)
        /\ f \in [S -> T]
    BY <1>1, <1>2, <1>4
  <2> HIDE DEF S, T
  <2>2. \E x, y \in S : x # y /\ f[x] = f[y]
    BY <2>1, FS_PigeonHole
  <2> QED
    BY <2>2 DEF S
<1>6. PICK x \in 1..len, y \in 1..len : x # y /\ f[x] = f[y]
  BY <1>5
<1>7. list[x] = list[y]
  BY <1>3, <1>6
<1> QED
  BY <1>6, <1>7, ListType

(* Turns by connections go on as they should.                              *)
LEMMA IdleStep ==
    ASSUME NEW b, Balancer(b), NEW l \in Seq(AllLists),
           NEW p \in Seq(Taken),
           Len(p) = Len(l), IdleInv(b, l, p), IdleFair(l, p),
           NEW list \in AllLists,
           NEW r, r = Select("least_connections", b, list)
    PROVE  /\ IdleInv(r.balancer, Append(l, list), Append(p, r.pick))
           /\ IdleFair(Append(l, list), Append(p, r.pick))
<1> DEFINE N == Len(l)
           l2 == Append(l, list)
           p2 == Append(p, r.pick)
           d == r.balancer
<1>1. /\ N \in Nat /\ Len(l2) = N + 1
      /\ (\A k \in 1..N : l2[k] = l[k] /\ p2[k] = p[k])
      /\ l2[N + 1] = list /\ p2[N + 1] = r.pick
  OBVIOUS
<1>2. /\ r.pick \in ToSet(list)
      /\ \A j \in ToSet(list) : Connections(b, r.pick) <= Connections(b, j)
      /\ DOMAIN d.records = ToSet(list)
      /\ \A j \in ToSet(list) :
            Connections(d, j) = Connections(b, j) + IF j = r.pick THEN 1 ELSE 0
  BY LeastConnectionsTurns
<1> HIDE DEF l2, p2, d
<1>3. ASSUME NEW m \in 1..N, Forgot(l2, m), Round(l2, m, N + 1)
      PROVE  /\ l2[m] = list
             /\ \A k \in m..N : p[k] # r.pick
             /\ \A j \in ToSet(list) :
                   Connections(d, j) = IF \E k \in m..(N + 1) : p2[k] = j THEN 1 ELSE 0
  <2>1. list = l[m] /\ l2[m] = list
    BY <1>1, <1>3 DEF Round, Same
  <2>2. N + 1 - m < Len(list) /\ Len(list) \in Nat
    BY <1>3, <2>1, ListType DEF Round
  <2>3. Round(l, m, N)
    <3>1. Same(l, m, N)
      BY <1>1, <1>3 DEF Round, Same
    <3> QED
      BY <1>1, <2>1, <2>2, <3>1 DEF Round
  <2>4. Forgot(l, m)
    BY <1>1, <1>3 DEF Forgot
  <2>5. \A j \in ToSet(list) :
           Connections(b, j) = IF \E k \in m..N : p[k] = j THEN 1 ELSE 0
    BY <2>1, <2>3, <2>4 DEF IdleInv
  <2>6. PICK j \in ToSet(list) : \A k \in m..N : p[k] # j
    <3>1. m \in Int /\ N \in Int /\ m <= N /\ N - m + 1 < Len(list)
      BY <1>1, <2>2
    <3> HIDE DEF N
    <3> QED
      BY <3>1, SomebodyHadNoTurn
  <2>7. Connections(b, r.pick) = 0
    BY <1>2, <2>5, <2>6
  <2>8. \A k \in m..N : p[k] # r.pick
    BY <1>2, <2>5, <2>7
  <2>9. ASSUME NEW x \in ToSet(list)
        PROVE  Connections(d, x) = IF \E k \in m..(N + 1) : p2[k] = x THEN 1 ELSE 0
    <3>1. (\E k \in m..(N + 1) : p2[k] = x) <=> x = r.pick \/ \E k \in m..N : p[k] = x
      <4>1. m..(N + 1) = (m..N) \cup {N + 1}
        BY <1>1
      <4> QED
        BY <1>1, <4>1, SMTT(30)
    <3>2. CASE x = r.pick
      BY <1>2, <2>7, <3>1, <3>2
    <3>3. CASE x # r.pick
      BY <1>2, <2>5, <3>1, <3>3
    <3> QED
      BY <3>2, <3>3
  <2> QED
    BY <2>1, <2>8, <2>9
<1>4. ASSUME Forgot(l2, N + 1)
      PROVE  \A j \in ToSet(list) : Connections(d, j) = IF j = r.pick THEN 1 ELSE 0
  <2>1. \A j \in ToSet(list) : j \notin DOMAIN b.records
    BY <1>1, <1>4 DEF Forgot, IdleInv
  <2> QED
    BY <1>2, <2>1 DEF Connections
<1>5. IdleInv(d, l2, p2)
  <2>1. DOMAIN d.records = IF N + 1 = 0 THEN {} ELSE ToSet(l2[N + 1])
    BY <1>1, <1>2
  <2>2. ASSUME NEW m \in 1..(N + 1), Forgot(l2, m), Round(l2, m, N + 1), NEW j \in ToSet(l2[m])
        PROVE  Connections(d, j) = IF \E k \in m..(N + 1) : p2[k] = j THEN 1 ELSE 0
    <3>1. CASE m \in 1..N
      BY <1>3, <2>2, <3>1
    <3>2. CASE m = N + 1
      <4>1. m..(N + 1) = {N + 1} /\ j \in ToSet(list)
        BY <1>1, <3>2
      <4>2. (\E k \in m..(N + 1) : p2[k] = j) <=> j = r.pick
        BY <1>1, <4>1
      <4> QED
        BY <1>4, <2>2, <3>2, <4>1, <4>2
    <3> QED
      BY <1>1, <3>1, <3>2
  <2> QED
    BY <1>1, <2>1, <2>2, SMTT(30) DEF IdleInv
<1>6. IdleFair(l2, p2)
  <2> SUFFICES ASSUME NEW m \in 1..(N + 1), NEW n \in 1..(N + 1), m < n,
                      Forgot(l2, m), Round(l2, m, n)
               PROVE  p2[m] # p2[n]
    BY <1>1 DEF IdleFair
  <2>1. m \in 1..N
    BY <1>1
  <2>2. CASE n = N + 1
    <3>1. m \in m..N /\ p2[m] = p[m] /\ p2[n] = r.pick
      BY <1>1, <2>1, <2>2
    <3> QED
      BY <1>3, <2>1, <2>2, <3>1
  <2>3. CASE n \in 1..N
    <3>1. Round(l, m, n)
      BY <1>1, <2>1, <2>3 DEF Round, Same
    <3>2. Forgot(l, m)
      BY <1>1, <2>1 DEF Forgot
    <3> QED
      BY <1>1, <2>1, <2>3, <3>1, <3>2 DEF IdleFair
  <2> QED
    BY <1>1, <2>2, <2>3
<1> QED
  BY <1>5, <1>6 DEF l2, p2, d

\* The two balancers with their histories
BalancerInv ==
    LET robin == balancers["round_robin"]
        least == balancers["least_connections"]
    IN  /\ lists \in Seq(AllLists)
        /\ Balancer(robin) /\ Balancer(least)
        /\ picks["round_robin"] \in Seq(Taken) /\ Len(picks["round_robin"]) = Len(lists)
        /\ picks["least_connections"] \in Seq(Taken) /\ Len(picks["least_connections"]) = Len(lists)
        /\ RobinInv(robin, lists, picks["round_robin"])
        /\ IdleInv(least, lists, picks["least_connections"])
        /\ RobinFair(lists, picks["round_robin"])
        /\ IdleFair(lists, picks["least_connections"])

(* A balancer that has just started.                                       *)
LEMMA NewBalancer ==
    /\ Balancer(New)
    /\ RobinInv(New, <<>>, <<>>) /\ RobinFair(<<>>, <<>>)
    /\ IdleInv(New, <<>>, <<>>) /\ IdleFair(<<>>, <<>>)
<1>1. Balancer(New) /\ DOMAIN New.records = {}
  BY DEF Balancer, New
<1>2. RobinInv(New, <<>>, <<>>) /\ RobinFair(<<>>, <<>>) /\ IdleFair(<<>>, <<>>)
  BY DEF RobinInv, RobinFair, IdleFair
<1>3. IdleInv(New, <<>>, <<>>)
  BY <1>1 DEF IdleInv
<1> QED
  BY <1>1, <1>2, <1>3

LEMMA BalancerStep == BalancerInv /\ [BalancerNext \/ BalancerRestart]_balancing => BalancerInv'
<1> SUFFICES ASSUME BalancerInv, [BalancerNext \/ BalancerRestart]_balancing
             PROVE  BalancerInv'
  OBVIOUS
<1>1. ASSUME NEW list \in AllLists, Turn(list)
      PROVE  BalancerInv'
  <2> DEFINE robin == Select("round_robin", balancers["round_robin"], list)
             least == Select("least_connections", balancers["least_connections"], list)
  <2>1. /\ balancers'["round_robin"] = robin.balancer
        /\ balancers'["least_connections"] = least.balancer
        /\ picks'["round_robin"] = Append(picks["round_robin"], robin.pick)
        /\ picks'["least_connections"] = Append(picks["least_connections"], least.pick)
        /\ lists' = Append(lists, list)
    BY <1>1 DEF Turn, Strategies
  <2> HIDE DEF robin, least
  <2>2. /\ Balancer(robin.balancer) /\ robin.pick \in ToSet(list)
        /\ RobinInv(robin.balancer, Append(lists, list), Append(picks["round_robin"], robin.pick))
        /\ RobinFair(Append(lists, list), Append(picks["round_robin"], robin.pick))
    BY RobinStep, RoundRobinTurns DEF BalancerInv, robin
  <2>3. /\ Balancer(least.balancer) /\ least.pick \in ToSet(list)
        /\ IdleInv(least.balancer, Append(lists, list), Append(picks["least_connections"], least.pick))
        /\ IdleFair(Append(lists, list), Append(picks["least_connections"], least.pick))
    BY IdleStep, LeastConnectionsTurns DEF BalancerInv, least
  <2>4. robin.pick \in Taken /\ least.pick \in Taken
    BY <2>2, <2>3 DEF Taken
  <2>5. lists' \in Seq(AllLists) /\ Len(lists') = Len(lists) + 1
    BY <2>1 DEF BalancerInv
  <2>6. /\ picks'["round_robin"] \in Seq(Taken)
        /\ Len(picks'["round_robin"]) = Len(lists')
        /\ picks'["least_connections"] \in Seq(Taken)
        /\ Len(picks'["least_connections"]) = Len(lists')
    BY <2>1, <2>4, <2>5 DEF BalancerInv
  <2> DEFINE l2 == lists'
             b1 == balancers'["round_robin"]
             b2 == balancers'["least_connections"]
             p1 == picks'["round_robin"]
             p2 == picks'["least_connections"]
  <2>7. /\ Balancer(b1) /\ RobinInv(b1, l2, p1) /\ RobinFair(l2, p1)
        /\ Balancer(b2) /\ IdleInv(b2, l2, p2) /\ IdleFair(l2, p2)
    BY <2>1, <2>2, <2>3
  <2> QED
    BY <2>5, <2>6, <2>7 DEF BalancerInv
<1>2. ASSUME BalancerRestart
      PROVE  BalancerInv'
  <2>1. /\ balancers'["round_robin"] = New /\ balancers'["least_connections"] = New
        /\ picks'["round_robin"] = <<>> /\ picks'["least_connections"] = <<>>
        /\ lists' = <<>>
    BY <1>2 DEF BalancerRestart, Strategies
  <2> QED
    BY <2>1, NewBalancer DEF BalancerInv
<1>3. ASSUME UNCHANGED balancing
      PROVE  BalancerInv'
  BY <1>3 DEF balancing, BalancerInv
<1>4. ASSUME BalancerNext
      PROVE  BalancerInv'
  BY <1>1, <1>4 DEF BalancerNext, AllLists
<1> QED
  BY <1>2, <1>3, <1>4

(* As long as a list stays as it is everybody has a turn before anybody    *)
(* has a second one, by the cursor from wherever it was, by connections    *)
(* if nobody on the list had any (RoundRobinStrategy.select,               *)
(* LeastConnectionsStrategy.select, LoadBalancer.update_instances).        *)
THEOREM EverybodyHasATurn == BalancerSpec => []TurnsAreFair
<1>1. BalancerInit => BalancerInv
  <2>1. ASSUME BalancerInit
        PROVE  /\ balancers["round_robin"] = New /\ balancers["least_connections"] = New
               /\ picks["round_robin"] = <<>> /\ picks["least_connections"] = <<>>
               /\ lists = <<>>
    BY <2>1 DEF BalancerInit, Strategies
  <2>2. \A S : <<>> \in Seq(S)
    OBVIOUS
  <2>3. Len(<<>>) = 0
    OBVIOUS
  <2> QED
    BY <2>1, <2>2, <2>3, NewBalancer, Zenon DEF BalancerInv
<1>2. BalancerInv => TurnsAreFair
  <2> SUFFICES ASSUME BalancerInv, NEW m \in DOMAIN lists, NEW n \in DOMAIN lists,
                      m < n, n - m < Len(lists[m]), Unchanged(m, n)
               PROVE  /\ picks["round_robin"][m] # picks["round_robin"][n]
                      /\ Forgotten(m) =>
                            picks["least_connections"][m] # picks["least_connections"][n]
    BY DEF TurnsAreFair
  <2>1. m \in 1..Len(lists) /\ n \in 1..Len(lists)
    BY DEF BalancerInv
  <2>2. Round(lists, m, n) /\ (Forgotten(m) => Forgot(lists, m))
    BY DEF Round, Same, Unchanged, Forgotten, Forgot
  <2> QED
    BY <2>1, <2>2 DEF BalancerInv, RobinFair, IdleFair
<1> QED
  BY <1>1, <1>2, BalancerStep, PTL DEF BalancerSpec

-----------------------------------------------------------------------------
\* Sums over finite sets

Fin(S) == {T \in SUBSET S : IsFiniteSet(T)}

\* mu gives each finite set of members of S the sum of what v gives them
Measure(mu, v, S) ==
    /\ mu \in [Fin(S) -> Int] /\ mu[{}] = 0
    /\ \A T \in Fin(S) : \A x \in S \ T : mu[T \cup {x}] = mu[T] + v[x]

LEMMA FinFacts ==
    ASSUME NEW S, NEW T \in Fin(S), NEW x \in S
    PROVE  /\ T \cup {x} \in Fin(S) /\ T \ {x} \in Fin(S) /\ Cardinality(T) \in Nat
           /\ x \notin T => Cardinality(T \cup {x}) = Cardinality(T) + 1
           /\ x \in T => Cardinality(T \ {x}) = Cardinality(T) - 1
<1>1. IsFiniteSet(T) /\ T \in SUBSET S
  BY DEF Fin
<1>2. /\ IsFiniteSet(T \cup {x}) /\ IsFiniteSet(T \ {x})
      /\ Cardinality(T \cup {x}) = IF x \in T THEN Cardinality(T) ELSE Cardinality(T) + 1
      /\ Cardinality(T \ {x}) = IF x \in T THEN Cardinality(T) - 1 ELSE Cardinality(T)
  BY <1>1, FS_AddElement, FS_RemoveElement
<1>3. Cardinality(T) \in Nat
  BY <1>1, FS_CardinalityType
<1>4. T \cup {x} \in SUBSET S /\ T \ {x} \in SUBSET S
  BY <1>1
<1> QED
  BY <1>2, <1>3, <1>4 DEF Fin

LEMMA EmptyFinite == \A S : {} \in Fin(S)
BY FS_EmptySet DEF Fin

(* What holds of the empty set and stays with one member more holds of all *)
(* finite sets.                                                            *)
LEMMA FiniteSets ==
    ASSUME NEW S, NEW P, {} \in P,
           \A T \in Fin(S) : \A x \in S \ T : T \in P => T \cup {x} \in P
    PROVE  Fin(S) \subseteq P
<1> DEFINE Bad == {Cardinality(T) : T \in Fin(S) \ P}
<1>1. ASSUME Bad # {}
      PROVE  FALSE
  <2>1. Bad \in SUBSET Nat
    BY FS_CardinalityType DEF Fin
  <2>2. PICK n \in Bad : \A k \in Bad : n <= k
    <3> HIDE DEF Bad
    <3> QED
      BY <1>1, <2>1, LeastNatural
  <2>3. PICK T \in Fin(S) \ P : n = Cardinality(T)
    BY <2>2
  <2>4. PICK x : x \in T
    BY <2>3
  <2>5. x \in S /\ T \in Fin(S)
    BY <2>3, <2>4 DEF Fin
  <2> DEFINE U == T \ {x}
  <2>6. U \in Fin(S) /\ Cardinality(U) = Cardinality(T) - 1 /\ Cardinality(T) \in Nat
    BY <2>4, <2>5, FinFacts
  <2>7. U \in P
    <3>1. U \notin P => Cardinality(U) \in Bad
      BY <2>6
    <3> HIDE DEF U, Bad
    <3> QED
      BY <2>2, <2>3, <2>6, <3>1
  <2>8. x \in S \ U /\ U \cup {x} = T
    BY <2>4, <2>5
  <2> HIDE DEF U
  <2> QED
    BY <2>3, <2>6, <2>7, <2>8
<1> QED
  BY <1>1

(* Sums of numbers of one sign have that sign.                             *)
LEMMA MeasureSigns ==
    ASSUME NEW S, NEW v \in [S -> Int], NEW mu, Measure(mu, v, S), NEW T \in Fin(S)
    PROVE  /\ (\A x \in T : v[x] >= 0) => mu[T] >= 0
           /\ (\A x \in T : v[x] <= 0) => mu[T] <= 0
<1> DEFINE Good(U) == /\ (\A x \in U : v[x] >= 0) => mu[U] >= 0
                      /\ (\A x \in U : v[x] <= 0) => mu[U] <= 0
           P == {U \in Fin(S) : Good(U)}
<1>1. {} \in P
  BY EmptyFinite DEF Measure
<1>2. ASSUME NEW U \in Fin(S), NEW x \in S \ U, U \in P
      PROVE  U \cup {x} \in P
  <2>1. U \cup {x} \in Fin(S)
    BY FinFacts
  <2>2. mu[U \cup {x}] = mu[U] + v[x] /\ mu[U] \in Int /\ v[x] \in Int
    BY DEF Measure
  <2>3. Good(U \cup {x})
    <3>1. Good(U)
      BY <1>2
    <3>2. ASSUME \A y \in U \cup {x} : v[y] >= 0
          PROVE  mu[U \cup {x}] >= 0
      <4>1. v[x] >= 0 /\ mu[U] >= 0
        BY <3>1, <3>2
      <4> QED
        BY <2>2, <4>1
    <3>3. ASSUME \A y \in U \cup {x} : v[y] <= 0
          PROVE  mu[U \cup {x}] <= 0
      <4>1. v[x] <= 0 /\ mu[U] <= 0
        BY <3>1, <3>3
      <4> QED
        BY <2>2, <4>1
    <3> QED
      BY <3>2, <3>3
  <2> QED
    BY <2>1, <2>3
<1> HIDE DEF P
<1>3. Fin(S) \subseteq P
  BY <1>1, <1>2, FiniteSets
<1>4. T \in P
  BY <1>3
<1> QED
  BY <1>4 DEF P

LEMMA MeasureRest ==
    ASSUME NEW S, NEW v \in [S -> Int], NEW mu, Measure(mu, v, S), NEW T \in Fin(S), NEW x \in T
    PROVE  /\ T \ {x} \in Fin(S) /\ mu[T] = mu[T \ {x}] + v[x]
           /\ mu[T] \in Int /\ mu[T \ {x}] \in Int /\ v[x] \in Int
<1>1. x \in S
  BY DEF Fin
<1> DEFINE U == T \ {x}
<1>2. U \in Fin(S)
  BY <1>1, FinFacts
<1>3. U \cup {x} = T /\ x \in S \ U
  BY <1>1
<1> HIDE DEF U
<1>4. mu[T] = mu[U] + v[x] /\ mu[U] \in Int /\ mu[T] \in Int /\ v[x] \in Int
  BY <1>1, <1>2, <1>3 DEF Measure
<1> QED
  BY <1>2, <1>4 DEF U

(* A sum that is not negative has a term that is not; a sum of 0 of terms  *)
(* that are not negative has only terms 0.                                 *)
LEMMA MeasureTerms ==
    ASSUME NEW S, NEW v \in [S -> Int], NEW mu, Measure(mu, v, S), NEW T \in Fin(S)
    PROVE  /\ T # {} /\ mu[T] >= 0 => \E x \in T : v[x] >= 0
           /\ mu[T] = 0 /\ (\A x \in T : v[x] >= 0) => \A x \in T : v[x] = 0
<1>1. ASSUME T # {}, mu[T] >= 0, ~\E x \in T : v[x] >= 0
      PROVE  FALSE
  <2>1. PICK x : x \in T
    BY <1>1
  <2>2. \A y \in T : v[y] \in Int /\ v[y] <= 0
    BY <1>1 DEF Fin
  <2>3. /\ T \ {x} \in Fin(S) /\ mu[T] = mu[T \ {x}] + v[x]
        /\ mu[T] \in Int /\ mu[T \ {x}] \in Int /\ v[x] \in Int
    BY <2>1, MeasureRest
  <2>4. mu[T \ {x}] <= 0
    BY <2>2, <2>3, MeasureSigns
  <2>5. ~(v[x] >= 0)
    BY <1>1, <2>1
  <2> QED
    BY <1>1, <2>3, <2>4, <2>5
<1>2. ASSUME mu[T] = 0, \A x \in T : v[x] >= 0, NEW x \in T
      PROVE  v[x] = 0
  <2>1. /\ T \ {x} \in Fin(S) /\ mu[T] = mu[T \ {x}] + v[x]
        /\ mu[T] \in Int /\ mu[T \ {x}] \in Int /\ v[x] \in Int
    BY MeasureRest
  <2>2. mu[T \ {x}] >= 0
    BY <1>2, <2>1, MeasureSigns
  <2> QED
    BY <1>2, <2>1, <2>2
<1> QED
  BY <1>1, <1>2

\* A sum that is made term by term, next[T] added before or after the others of T
Adds(sum, next, v, S) ==
    /\ sum[{}] = 0
    /\ \A T \in SUBSET S : T # {} =>
          /\ next[T] \in T
          /\ \/ sum[T] = v[next[T]] + sum[T \ {next[T]}]
             \/ sum[T] = sum[T \ {next[T]}] + v[next[T]]

(* Whoever adds the terms of a finite set, in whatever order, gets its sum. *)
LEMMA SumIsMeasure ==
    ASSUME NEW S, IsFiniteSet(S), NEW v \in [S -> Int], NEW mu, Measure(mu, v, S),
           NEW sum, NEW next, Adds(sum, next, v, S)
    PROVE  sum[S] = mu[S]
<1> DEFINE Bad == {Cardinality(T) : T \in {U \in Fin(S) : sum[U] # mu[U]}}
<1>1. ASSUME Bad # {}
      PROVE  FALSE
  <2>1. Bad \in SUBSET Nat
    BY FS_CardinalityType DEF Fin
  <2>2. PICK n \in Bad : \A k \in Bad : n <= k
    <3> HIDE DEF Bad
    <3> QED
      BY <1>1, <2>1, LeastNatural
  <2>3. PICK T \in Fin(S) : sum[T] # mu[T] /\ n = Cardinality(T)
    BY <2>2
  <2>4. T \in SUBSET S
    BY DEF Fin
  <2>5. T # {}
    <3>1. sum[{}] = 0
      BY DEF Adds
    <3>2. mu[{}] = 0
      BY DEF Measure
    <3> QED
      BY <2>3, <3>1, <3>2
  <2> DEFINE x == next[T]
             U == T \ {x}
  <2>6. x \in T /\ x \in S /\ (sum[T] = v[x] + sum[U] \/ sum[T] = sum[U] + v[x])
    BY <2>4, <2>5 DEF Adds
  <2> HIDE DEF x
  <2>7. /\ U \in Fin(S) /\ mu[T] = mu[U] + v[x] /\ mu[U] \in Int /\ v[x] \in Int
    <3>1. /\ T \ {x} \in Fin(S) /\ mu[T] = mu[T \ {x}] + v[x]
          /\ mu[T \ {x}] \in Int /\ v[x] \in Int
      BY ONLY <2>6, MeasureRest, T \in Fin(S), v \in [S -> Int], Measure(mu, v, S)
    <3> QED
      BY <3>1
  <2>8. Cardinality(U) = Cardinality(T) - 1 /\ Cardinality(T) \in Nat
    BY <2>6, FinFacts
  <2>9. sum[U] = mu[U]
    <3>1. sum[U] # mu[U] => Cardinality(U) \in Bad
      BY <2>7
    <3> HIDE DEF U, Bad
    <3> QED
      BY <2>2, <2>3, <2>8, <3>1
  <2> HIDE DEF U
  <2> QED
    BY <2>3, <2>6, <2>7, <2>9
<1>2. S \in Fin(S)
  BY DEF Fin
<1>3. sum[S] # mu[S] => Cardinality(S) \in Bad
  BY <1>2
<1> QED
  BY <1>1, <1>3

-----------------------------------------------------------------------------
\* Sums of weights

WeightIn(S) == [x \in S |-> Weight[x]]

LEMMA WeightType == \A x \in Taken : Weight[x] \in Nat
BY WeightAssumption DEF Taken, AllLists

(* There are sums of weights: as many as the instances have shares.        *)
LEMMA WeightMeasure ==
    ASSUME NEW S \in SUBSET Taken
    PROVE  \E mu : Measure(mu, WeightIn(S), S)
<1> DEFINE Shares(T) == {e \in T \X Nat : e[2] \in 1..Weight[e[1]]}
           One(x) == {<<x, k>> : k \in 1..Weight[x]}
           mu == [T \in Fin(S) |-> Cardinality(Shares(T))]
           P == {T \in Fin(S) : IsFiniteSet(Shares(T))}
<1>1. Shares({}) = {}
  OBVIOUS
<1>2. ASSUME NEW x \in S
      PROVE  IsFiniteSet(One(x)) /\ Cardinality(One(x)) = Weight[x]
  <2> DEFINE w == Weight[x]
             f == [k \in 1..w |-> <<x, k>>]
  <2>1. w \in Nat
    BY WeightType
  <2>2. f \in [1..w -> One(x)]
    OBVIOUS
  <2>3. \A k, l \in 1..w : f[k] = f[l] => k = l
    OBVIOUS
  <2>4. \A e \in One(x) : \E k \in 1..w : f[k] = e
    OBVIOUS
  <2> HIDE DEF f, One
  <2>5. f \in Bijection(1..w, One(x))
    BY <2>2, <2>3, <2>4 DEF Bijection, Injection, Surjection, IsInjective
  <2>6. ExistsBijection(1..w, One(x))
    BY <2>5 DEF ExistsBijection
  <2>7. IsFiniteSet(1..w)
    BY <2>1, FS_Interval
  <2> HIDE DEF w
  <2>8. IsFiniteSet(One(x)) /\ Cardinality(One(x)) = w
    BY <2>1, <2>6, <2>7, FS_Bijection, FS_CountingElements
  <2> QED
    BY <2>8 DEF w
<1>3. ASSUME NEW T \in Fin(S), NEW x \in S \ T
      PROVE  Shares(T \cup {x}) = Shares(T) \cup One(x) /\ Shares(T) \cap One(x) = {}
  <2>1. Weight[x] \in Nat
    BY WeightType
  <2>2. ASSUME NEW e \in Shares(T \cup {x})
        PROVE  e \in Shares(T) \cup One(x)
    <3>1. e[1] \in T \cup {x} /\ e[2] \in 1..Weight[e[1]] /\ e = <<e[1], e[2]>>
      OBVIOUS
    <3> QED
      BY <3>1
  <2>3. Shares(T) \subseteq Shares(T \cup {x})
    OBVIOUS
  <2>4. One(x) \subseteq Shares(T \cup {x})
    BY <2>1
  <2>5. Shares(T) \cap One(x) = {}
    OBVIOUS
  <2> QED
    BY <2>2, <2>3, <2>4, <2>5
<1>4. Fin(S) \subseteq P
  <2>1. {} \in P
    BY <1>1, EmptyFinite, FS_EmptySet
  <2>2. ASSUME NEW T \in Fin(S), NEW x \in S \ T, T \in P
        PROVE  T \cup {x} \in P
    <3>1. T \cup {x} \in Fin(S)
      BY FinFacts
    <3>2. IsFiniteSet(Shares(T)) /\ IsFiniteSet(One(x))
      BY <1>2, <2>2
    <3>3. Shares(T \cup {x}) = Shares(T) \cup One(x)
      BY <1>3
    <3> HIDE DEF Shares, One
    <3>4. IsFiniteSet(Shares(T \cup {x}))
      BY <3>2, <3>3, FS_Union
    <3> QED
      BY <3>1, <3>4
  <2> HIDE DEF P
  <2> QED
    BY <2>1, <2>2, FiniteSets
<1>5. \A T \in Fin(S) : IsFiniteSet(Shares(T)) /\ Cardinality(Shares(T)) \in Nat
  BY <1>4, FS_CardinalityType
<1>6. mu \in [Fin(S) -> Int] /\ mu[{}] = 0
  <2>1. mu[{}] = Cardinality(Shares({}))
    BY EmptyFinite
  <2>2. mu[{}] = 0
    BY <1>1, <2>1, FS_EmptySet
  <2> HIDE DEF Shares
  <2> QED
    BY <1>5, <2>2
<1>7. ASSUME NEW T \in Fin(S), NEW x \in S \ T
      PROVE  mu[T \cup {x}] = mu[T] + WeightIn(S)[x]
  <2>1. T \cup {x} \in Fin(S)
    BY FinFacts
  <2>2. /\ Shares(T \cup {x}) = Shares(T) \cup One(x) /\ Shares(T) \cap One(x) = {}
        /\ IsFiniteSet(One(x)) /\ Cardinality(One(x)) = Weight[x]
        /\ IsFiniteSet(Shares(T)) /\ Cardinality(Shares(T)) \in Nat /\ Weight[x] \in Nat
    BY <1>2, <1>3, <1>5, WeightType
  <2>3. WeightIn(S)[x] = Weight[x]
    BY DEF WeightIn
  <2> HIDE DEF Shares, One
  <2>4. Cardinality(Shares(T) \cup One(x)) = Cardinality(Shares(T)) + Cardinality(One(x))
    <3> DEFINE A == Shares(T)
               B == One(x)
    <3>1. IsFiniteSet(A) /\ IsFiniteSet(B) /\ A \cap B = {} /\ Cardinality(A) \in Nat /\ Cardinality(B) \in Nat
      BY <2>2
    <3> HIDE DEF A, B
    <3>2. Cardinality(A \cup B) = Cardinality(A) + Cardinality(B) - Cardinality(A \cap B)
      BY <3>1, FS_Union
    <3>3. Cardinality(A \cap B) = 0
      BY <3>1, FS_EmptySet
    <3>4. Cardinality(A \cup B) = Cardinality(A) + Cardinality(B)
      BY <3>1, <3>2, <3>3
    <3> QED
      BY <3>4 DEF A, B
  <2>5. mu[T \cup {x}] = Cardinality(Shares(T \cup {x})) /\ mu[T] = Cardinality(Shares(T))
    BY <2>1
  <2> QED
    BY <2>2, <2>3, <2>4, <2>5
<1> HIDE DEF mu
<1>8. Measure(mu, WeightIn(S), S)
  BY <1>6, <1>7 DEF Measure
<1> QED
  BY <1>8

(* A sum over part of a set.                                               *)
LEMMA MeasurePart ==
    ASSUME NEW S, NEW v \in [S -> Int], NEW mu, Measure(mu, v, S), NEW T \in Fin(S)
    PROVE  Measure([U \in Fin(T) |-> mu[U]], [x \in T |-> v[x]], T)
<1> DEFINE nu == [U \in Fin(T) |-> mu[U]]
           r == [x \in T |-> v[x]]
<1>1. Fin(T) \subseteq Fin(S) /\ T \subseteq S
  BY DEF Fin
<1>2. nu \in [Fin(T) -> Int] /\ nu[{}] = 0
  BY <1>1, EmptyFinite DEF Measure
<1>3. ASSUME NEW U \in Fin(T), NEW x \in T \ U
      PROVE  nu[U \cup {x}] = nu[U] + r[x]
  <2>1. U \cup {x} \in Fin(T)
    BY FinFacts
  <2>2. mu[U \cup {x}] = mu[U] + v[x]
    BY <1>1 DEF Measure
  <2> QED
    BY <2>1, <2>2
<1> HIDE DEF nu, r
<1> QED
  BY <1>2, <1>3 DEF Measure, nu, r

LEMMA WeightsIsMeasure ==
    ASSUME NEW S \in SUBSET Taken, NEW mu, Measure(mu, WeightIn(S), S), NEW T \in Fin(S)
    PROVE  Weights(T) = mu[T]
<1> DEFINE Eq(f) == f = [s \in SUBSET T |->
                            IF s = {} THEN 0
                            ELSE Weight[CHOOSE x \in s : TRUE] + f[s \ {CHOOSE x \in s : TRUE}]]
           g == [s \in SUBSET T |-> mu[s]]
           sum == CHOOSE f : Eq(f)
           next == [s \in SUBSET T |-> CHOOSE x \in s : TRUE]
           v == [x \in T |-> WeightIn(S)[x]]
<1>1. T \in SUBSET S /\ IsFiniteSet(T) /\ SUBSET T \subseteq Fin(S)
  BY FS_Subset DEF Fin
<1>2. WeightIn(S) \in [S -> Int] /\ \A x \in T : WeightIn(S)[x] = Weight[x]
  BY <1>1, WeightType DEF WeightIn
<1>3. Eq(g)
  <2>1. ASSUME NEW s \in SUBSET T, s # {}
        PROVE  mu[s] = Weight[CHOOSE x \in s : TRUE] + g[s \ {CHOOSE x \in s : TRUE}]
    <3> DEFINE y == CHOOSE x \in s : TRUE
    <3>1. y \in s
      BY <2>1
    <3> HIDE DEF y
    <3>2. mu[s] = mu[s \ {y}] + WeightIn(S)[y] /\ mu[s \ {y}] \in Int
      <4>1. s \in Fin(S)
        BY <1>1
      <4> QED
        BY <1>2, <3>1, <4>1, MeasureRest
    <3>3. WeightIn(S)[y] = Weight[y] /\ WeightIn(S)[y] \in Int
      BY <1>1, <1>2, <3>1
    <3>4. g[s \ {y}] = mu[s \ {y}]
      OBVIOUS
    <3> HIDE DEF g
    <3>5. mu[s] = Weight[y] + g[s \ {y}]
      BY <3>2, <3>3, <3>4
    <3> QED
      BY <3>5 DEF y
  <2>2. mu[{}] = 0
    BY DEF Measure
  <2>3. \A s \in SUBSET T : g[s] = IF s = {} THEN 0
                            ELSE Weight[CHOOSE x \in s : TRUE] + g[s \ {CHOOSE x \in s : TRUE}]
    <3>1. \A s \in SUBSET T : g[s] = mu[s]
      OBVIOUS
    <3> HIDE DEF g
    <3> QED
      BY <2>1, <2>2, <3>1
  <2>4. g = [s \in SUBSET T |-> g[s]]
    OBVIOUS
  <2> HIDE DEF g
  <2> QED
    BY <2>3, <2>4
<1>4. Eq(sum)
  <2> HIDE DEF Eq
  <2> QED
    BY <1>3
<1>5. Weights(T) = sum[T]
  BY DEF Weights, MapThenSumSet, MapThenFoldSet
<1> HIDE DEF sum, g
<1>6. \A s \in SUBSET T : s # {} => next[s] \in s
  OBVIOUS
<1>7. \A s \in SUBSET T : sum[s] = IF s = {} THEN 0 ELSE v[next[s]] + sum[s \ {next[s]}]
  <2>1. \A s \in SUBSET T : s # {} => v[next[s]] = Weight[next[s]]
    BY <1>2, <1>6
  <2>2. ASSUME NEW s \in SUBSET T
        PROVE  sum[s] = IF s = {} THEN 0 ELSE Weight[next[s]] + sum[s \ {next[s]}]
    BY <1>4
  <2> HIDE DEF v, next
  <2> QED
    BY <2>1, <2>2
<1> DEFINE nu == [U \in Fin(T) |-> mu[U]]
<1>8. Measure(nu, v, T) /\ v \in [T -> Int]
  BY <1>1, <1>2, MeasurePart
<1>9. nu[T] = mu[T]
  BY <1>1 DEF Fin
<1> HIDE DEF nu, v, next, Eq
<1>10. sum[T] = nu[T]
  <2>1. IsFiniteSet(T)
    BY <1>1
  <2>2. Adds(sum, next, v, T)
    BY <1>6, <1>7 DEF Adds
  <2> QED
    BY <1>8, <2>1, <2>2, SumIsMeasure
<1> QED
  BY <1>5, <1>9, <1>10

(* The total of a list is the sum of the weights of its instances.         *)
LEMMA TotalIsMeasure ==
    ASSUME NEW S \in SUBSET Taken, NEW mu, Measure(mu, WeightIn(S), S),
           NEW list \in AllLists, ToSet(list) \subseteq S,
           NEW u, \A x \in ToSet(list) : u.records[x].weight = Weight[x]
    PROVE  TotalWeight(u, list) = mu[ToSet(list)] /\ ToSet(list) \in Fin(S)
<1> DEFINE D == 1..Len(list)
           Of(U) == {list[n] : n \in U}
           nu == [U \in Fin(D) |-> mu[Of(U)]]
           v == [n \in D |-> u.records[list[n]].weight]
           Eq(f) == f = [s \in SUBSET D |->
                            IF s = {} THEN 0
                            ELSE f[s \ {Max(s)}] + u.records[list[Max(s)]].weight]
           sum == CHOOSE f : Eq(f)
           next == [s \in SUBSET D |-> Max(s)]
<1>1. /\ DOMAIN list = D /\ Len(list) \in Nat /\ Of(D) = ToSet(list)
      /\ \A n \in D : list[n] \in ToSet(list) /\ list[n] \in S
      /\ \A m, n \in D : list[m] = list[n] => m = n
  <2>1. list \in Seq(ToSet(list)) /\ Len(list) \in Nat
    BY ListType
  <2>2. DOMAIN list = D
    BY <2>1
  <2>3. \A n \in D : list[n] \in ToSet(list)
    BY ListType
  <2>4. \A x \in ToSet(list) : \E n \in D : x = list[n]
    BY ListType
  <2>5. \A m, n \in D : list[m] = list[n] => m = n
    BY ListType
  <2> HIDE DEF D
  <2>6. Of(D) = ToSet(list)
    BY <2>3, <2>4
  <2> QED
    BY <2>1, <2>2, <2>3, <2>5, <2>6
<1>2. /\ \A n \in D : v[n] = WeightIn(S)[list[n]] /\ v[n] = Weight[list[n]] /\ v[n] \in Nat
      /\ v \in [D -> Int]
  BY <1>1, WeightType DEF WeightIn
<1>3. IsFiniteSet(D) /\ SUBSET D = Fin(D)
  <2>1. IsFiniteSet(D)
    BY <1>1, FS_Interval
  <2> HIDE DEF D
  <2>2. \A U \in SUBSET D : IsFiniteSet(U)
    BY <2>1, FS_Subset
  <2> QED
    BY <2>1, <2>2 DEF Fin
<1>4. /\ \A U \in SUBSET D : Of(U) \in SUBSET S
      /\ Of({}) = {}
      /\ \A U \in SUBSET D : \A n \in D \ U :
            Of(U \cup {n}) = Of(U) \cup {list[n]} /\ list[n] \in S \ Of(U)
  BY <1>1
<1> HIDE DEF Of
<1>5. \A U \in Fin(D) : Of(U) \in Fin(S)
  <2> DEFINE P == {U \in Fin(D) : Of(U) \in Fin(S)}
  <2>1. {} \in P
    <3>1. {} \in Fin(D) /\ {} \in Fin(S)
      BY EmptyFinite
    <3>2. Of({}) = {}
      BY <1>4
    <3> QED
      BY <3>1, <3>2
  <2>2. ASSUME NEW U \in Fin(D), NEW n \in D \ U, U \in P
        PROVE  U \cup {n} \in P
    <3>1. U \cup {n} \in Fin(D)
      BY FinFacts
    <3>2. Of(U \cup {n}) = Of(U) \cup {list[n]} /\ list[n] \in S /\ Of(U) \in Fin(S)
      BY <1>3, <1>4, <2>2
    <3>3. Of(U) \cup {list[n]} \in Fin(S)
      BY <3>2, FinFacts
    <3> QED
      BY <3>1, <3>2, <3>3
  <2> HIDE DEF P
  <2>3. Fin(D) \subseteq P
    BY <2>1, <2>2, FiniteSets
  <2> QED
    BY <2>3 DEF P
<1>6. Measure(nu, v, D)
  <2>1. nu \in [Fin(D) -> Int]
    BY <1>5 DEF Measure
  <2>2. nu[{}] = 0
    BY <1>4, EmptyFinite DEF Measure
  <2>3. ASSUME NEW U \in Fin(D), NEW n \in D \ U
        PROVE  nu[U \cup {n}] = nu[U] + v[n]
    <3>1. U \cup {n} \in Fin(D)
      BY FinFacts
    <3>2. nu[U \cup {n}] = mu[Of(U \cup {n})] /\ nu[U] = mu[Of(U)]
      BY <3>1
    <3>3. Of(U \cup {n}) = Of(U) \cup {list[n]} /\ list[n] \in S \ Of(U) /\ Of(U) \in Fin(S)
      BY <1>3, <1>4, <1>5
    <3>4. mu[Of(U) \cup {list[n]}] = mu[Of(U)] + WeightIn(S)[list[n]]
      BY <3>3 DEF Measure
    <3>5. v[n] = WeightIn(S)[list[n]]
      BY <1>2
    <3> HIDE DEF nu, v
    <3> QED
      BY <3>2, <3>3, <3>4, <3>5
  <2> HIDE DEF nu, v
  <2> QED
    BY <2>1, <2>2, <2>3 DEF Measure
<1>7. \A s \in SUBSET D : s # {} => Max(s) \in s
  <2> SUFFICES ASSUME NEW s \in SUBSET D, s # {} PROVE Max(s) \in s
    OBVIOUS
  <2>1. s \in SUBSET Nat /\ Len(list) \in Nat /\ \A k \in s : k <= Len(list)
    BY <1>1
  <2>2. \E n \in s : \A k \in s : k <= n
    <3>1. PICK b \in Nat : \A k \in s : k <= b
      BY <2>1
    <3> QED
      BY <2>1, <3>1, GreatestNatural
  <2> QED
    BY <2>2 DEF Max
<1> DEFINE g == [s \in SUBSET D |-> nu[s]]
<1>8. Eq(g)
  <2>0. \A W \in Fin(D) : \A x \in W :
            nu[W] = nu[W \ {x}] + v[x] /\ nu[W \ {x}] \in Int /\ v[x] \in Int
    <3>1. v \in [D -> Int]
      BY <1>2
    <3> HIDE DEF nu, v, D
    <3>2. ASSUME NEW W \in Fin(D), NEW x \in W
          PROVE  nu[W] = nu[W \ {x}] + v[x] /\ nu[W \ {x}] \in Int /\ v[x] \in Int
      BY <1>6, <3>1, MeasureRest
    <3> QED
      BY <3>2
  <2>1. ASSUME NEW s \in SUBSET D, s # {}
        PROVE  nu[s] = g[s \ {Max(s)}] + u.records[list[Max(s)]].weight
    <3> DEFINE y == Max(s)
    <3>1. y \in s
      BY <1>7, <2>1
    <3> HIDE DEF y, nu, v, D
    <3>2. nu[s] = nu[s \ {y}] + v[y] /\ nu[s \ {y}] \in Int /\ v[y] \in Int
      <4>1. s \in Fin(D)
        BY <1>3
      <4> QED
        BY <3>1, <4>1, <2>0
    <3>3. v[y] = u.records[list[y]].weight
      <4>1. y \in D
        BY <3>1
      <4> QED
        BY <4>1 DEF v
    <3>4. g[s \ {y}] = nu[s \ {y}]
      OBVIOUS
    <3> HIDE DEF g
    <3>5. nu[s] = g[s \ {y}] + u.records[list[y]].weight
      BY <3>2, <3>3, <3>4
    <3> QED
      BY <3>5 DEF y
  <2>2. nu[{}] = 0
    BY <1>6 DEF Measure
  <2>3. \A s \in SUBSET D : g[s] = IF s = {} THEN 0
                            ELSE g[s \ {Max(s)}] + u.records[list[Max(s)]].weight
    <3> HIDE DEF nu, D
    <3>1. \A s \in SUBSET D : g[s] = nu[s]
      OBVIOUS
    <3> HIDE DEF g
    <3> QED
      BY <2>1, <2>2, <3>1
  <2>4. g = [s \in SUBSET D |-> g[s]]
    OBVIOUS
  <2> HIDE DEF g, D
  <2> QED
    BY <2>3, <2>4
<1>9. Eq(sum)
  <2> HIDE DEF Eq
  <2> QED
    BY <1>8
<1>10. TotalWeight(u, list) = sum[D]
  <2> DEFINE E == DOMAIN list
             total == CHOOSE f : f = [s \in SUBSET E |->
                            IF s = {} THEN 0
                            ELSE f[s \ {Max(s)}] + u.records[list[Max(s)]].weight]
  <2>1. TotalWeight(u, list) = total[E]
    BY DEF TotalWeight, FoldLeft, MapThenFoldSet
  <2>2. E = D
    BY <1>1
  <2> HIDE DEF E, D
  <2> QED
    BY <2>1, <2>2
<1> HIDE DEF sum, g
<1>11. Adds(sum, next, v, D)
  <2>1. sum[{}] = 0
    BY <1>9
  <2>2. ASSUME NEW s \in SUBSET D, s # {}
        PROVE  /\ next[s] \in s
               /\ sum[s] = sum[s \ {next[s]}] + v[next[s]]
    <3>1. next[s] = Max(s) /\ Max(s) \in s
      BY <1>7, <2>2
    <3>2. sum[s] = sum[s \ {Max(s)}] + u.records[list[Max(s)]].weight
      BY <1>9, <2>2
    <3>3. v[Max(s)] = u.records[list[Max(s)]].weight
      BY <3>1
    <3> QED
      BY <3>1, <3>2, <3>3
  <2> HIDE DEF v, next, D
  <2> QED
    BY <2>1, <2>2 DEF Adds
<1>12. nu[D] = mu[ToSet(list)]
  BY <1>1, <1>3
<1>13. sum[D] = nu[D]
  <2> HIDE DEF sum, nu, v, next, D
  <2> QED
    BY <1>2, <1>3, <1>6, <1>11, SumIsMeasure
<1>14. ToSet(list) \in Fin(S)
  <2>1. D \in Fin(D)
    BY <1>3
  <2> QED
    BY <1>1, <1>5, <2>1
<1> QED
  BY <1>10, <1>12, <1>13, <1>14
\* Everybody of L gets his weight, and one of them pays a price
Turned(v, w, L, best, price, S) ==
    \A x \in S : w[x] = (v[x] + IF x \in L THEN Weight[x] ELSE 0) - IF x = best THEN price ELSE 0

(* The sums after a turn: the instances of a list get their weight, and    *)
(* the best of them pays.                                                  *)
LEMMA MeasureTurns ==
    ASSUME NEW S \in SUBSET Taken, NEW v \in [S -> Int], NEW mu, Measure(mu, v, S),
           NEW weights, Measure(weights, WeightIn(S), S), NEW L \in Fin(S),
           NEW best, NEW price \in Int, NEW w \in [S -> Int], Turned(v, w, L, best, price, S)
    PROVE  Measure([T \in Fin(S) |-> (mu[T] + weights[T \cap L])
                                        - IF best \in T THEN price ELSE 0], w, S)
<1> DEFINE pays(T) == IF best \in T THEN price ELSE 0
           nu == [T \in Fin(S) |-> (mu[T] + weights[T \cap L]) - pays(T)]
<1>1. \A T \in Fin(S) : T \cap L \in Fin(S)
  BY FS_Subset DEF Fin
<1>2. \A T \in Fin(S) : mu[T] \in Int /\ weights[T \cap L] \in Int /\ pays(T) \in Int
  BY <1>1 DEF Measure
<1>3. nu \in [Fin(S) -> Int]
  <2>1. ASSUME NEW T \in Fin(S)
        PROVE  (mu[T] + weights[T \cap L]) - pays(T) \in Int
    <3>1. mu[T] \in Int /\ weights[T \cap L] \in Int /\ pays(T) \in Int
      BY <1>2
    <3> HIDE DEF pays
    <3> QED
      BY <3>1
  <2> HIDE DEF pays
  <2> QED
    BY <2>1
<1>4. nu[{}] = 0
  <2>1. {} \cap L = {} /\ {} \in Fin(S)
    BY EmptyFinite
  <2>2. mu[{}] = 0 /\ weights[{}] = 0 /\ pays({}) = 0
    BY DEF Measure
  <2> HIDE DEF pays
  <2> QED
    BY <2>1, <2>2
<1>5. ASSUME NEW T \in Fin(S), NEW x \in S \ T
      PROVE  nu[T \cup {x}] = nu[T] + w[x]
  <2> DEFINE U == T \cup {x}
  <2>1. U \in Fin(S)
    BY FinFacts
  <2>2. mu[U] = mu[T] + v[x] /\ v[x] \in Int
    BY DEF Measure
  <2>3. weights[U \cap L] = weights[T \cap L] + IF x \in L THEN Weight[x] ELSE 0
    <3>1. CASE x \in L
      <4>1. U \cap L = (T \cap L) \cup {x} /\ x \in S \ (T \cap L)
        BY <3>1
      <4>2. weights[(T \cap L) \cup {x}] = weights[T \cap L] + WeightIn(S)[x]
        BY <1>1, <4>1 DEF Measure
      <4>3. WeightIn(S)[x] = Weight[x]
        BY DEF WeightIn
      <4> QED
        BY <3>1, <4>1, <4>2, <4>3
    <3>2. CASE x \notin L
      <4>1. U \cap L = T \cap L
        BY <3>2
      <4>2. weights[U \cap L] = weights[T \cap L]
        BY <4>1
      <4>3. weights[T \cap L] \in Int
        BY <1>2
      <4> HIDE DEF U
      <4> QED
        BY <3>2, <4>2, <4>3
    <3> QED
      BY <3>1, <3>2
  <2>4. pays(U) = pays(T) + IF x = best THEN price ELSE 0
    OBVIOUS
  <2>5. w[x] = (v[x] + IF x \in L THEN Weight[x] ELSE 0) - IF x = best THEN price ELSE 0
    BY DEF Turned
  <2>6. Weight[x] \in Int
    BY WeightType
  <2>7. nu[U] = (mu[U] + weights[U \cap L]) - pays(U)
    BY <2>1
  <2>8. nu[T] = (mu[T] + weights[T \cap L]) - pays(T)
    OBVIOUS
  <2> HIDE DEF nu, U, pays
  <2>9. nu[U] = nu[T] + w[x]
    <3> DEFINE gain == IF x \in L THEN Weight[x] ELSE 0
               fee == IF x = best THEN price ELSE 0
    <3>1. gain \in Int /\ fee \in Int
      BY <2>6
    <3>2. /\ weights[U \cap L] = weights[T \cap L] + gain
          /\ pays(U) = pays(T) + fee /\ w[x] = (v[x] + gain) - fee
      BY <2>3, <2>4, <2>5
    <3>3. mu[T] \in Int /\ weights[T \cap L] \in Int /\ pays(T) \in Int
      BY <1>2
    <3> HIDE DEF gain, fee
    <3> QED
      BY <2>2, <2>7, <2>8, <3>1, <3>2, <3>3
  <2> QED
    BY <2>9 DEF U
<1>6. Measure(nu, w, S)
  <2> HIDE DEF nu
  <2> QED
    BY <1>3, <1>4, <1>5 DEF Measure
<1> QED
  BY <1>6

-----------------------------------------------------------------------------
\* Weighted turns

(* One of finitely many numbers is the greatest.                           *)
LEMMA SomeGreatest ==
    ASSUME NEW len \in Nat \ {0}, NEW g \in [1..len -> Int]
    PROVE  \E p \in 1..len : \A q \in 1..len : g[p] >= g[q]
<1> DEFINE Good(n) == \E p \in 1..n : \A q \in 1..n : g[p] >= g[q]
           Bad == {n \in Nat : n \in 1..len /\ ~Good(n)}
<1>1. ASSUME Bad # {}
      PROVE  FALSE
  <2>1. PICK n \in Bad : \A k \in Bad : n <= k
    <3>1. Bad \in SUBSET Nat
      OBVIOUS
    <3> HIDE DEF Bad
    <3> QED
      BY <1>1, <3>1, LeastNatural
  <2>2. n \in Nat /\ n \in 1..len /\ ~Good(n)
    BY <2>1
  <2>3. CASE n = 1
    <3>1. \A q \in 1..n : q = 1 /\ g[1] >= g[q]
      BY <2>2, <2>3
    <3> QED
      BY <2>2, <2>3, <3>1
  <2>4. CASE n # 1
    <3> DEFINE k == n - 1
    <3>1. k \in Nat /\ k \in 1..len /\ n = k + 1 /\ ~(n <= k)
      BY <2>2, <2>4
    <3> HIDE DEF k
    <3>2. Good(k)
      <4> HIDE DEF Good
      <4> QED
        BY <2>1, <3>1
    <3>3. PICK p \in 1..k : \A q \in 1..k : g[p] >= g[q]
      BY <3>2
    <3>4. \A q \in 1..n : q \in 1..k \/ q = n
      BY <3>1
    <3>5. p \in 1..n /\ n \in 1..n /\ p \in 1..len /\ g[p] \in Int /\ g[n] \in Int
      BY <2>2, <3>1
    <3>6. CASE g[p] >= g[n]
      <4>1. \A q \in 1..n : g[p] >= g[q]
        BY <3>3, <3>4, <3>6
      <4> QED
        BY <2>2, <3>5, <4>1
    <3>7. CASE ~(g[p] >= g[n])
      <4>1. ASSUME NEW q \in 1..n
            PROVE  g[n] >= g[q]
        <5>1. q \in 1..len /\ g[q] \in Int
          BY <2>2
        <5>2. CASE q = n
          BY <3>5, <5>2
        <5>3. CASE q \in 1..k
          BY <3>3, <3>5, <3>7, <5>1, <5>3
        <5> QED
          BY <3>4, <5>2, <5>3
      <4> QED
        BY <2>2, <3>5, <4>1
    <3> QED
      BY <3>6, <3>7
  <2> QED
    BY <2>3, <2>4
<1>2. len \in 1..len /\ len \notin Bad
  <2>1. len \in 1..len
    OBVIOUS
  <2> HIDE DEF Bad
  <2> QED
    BY <1>1, <2>1
<1>3. Good(len)
  BY <1>2
<1> QED
  BY <1>3

\* What is known of a weighted balancer
Weighted(b) ==
    /\ Balancer(b)
    /\ \A x \in DOMAIN b.records : b.records[x].weight = Weight[x]
    /\ b.current = [x \in DOMAIN b.current |-> b.current[x]]
    /\ \A x \in DOMAIN b.current : b.current[x] \in Int

Raise(b, list, x) == Current(b, x) + IF x \in ToSet(list) THEN Weight[x] ELSE 0

Best(b, list) ==
    FirstOf(list, {x \in ToSet(list) : \A y \in ToSet(list) : Raise(b, list, x) >= Raise(b, list, y)})

Total(list) == Weights(ToSet(list))

LEMMA TotalType ==
    ASSUME NEW list \in AllLists
    PROVE  /\ ToSet(list) \in Fin(ToSet(list)) /\ ToSet(list) \in SUBSET Taken
           /\ Total(list) \in Nat
           /\ \A u : (\A x \in ToSet(list) : u.records[x].weight = Weight[x])
                        => TotalWeight(u, list) = Total(list)
<1> DEFINE S == ToSet(list)
<1>1. S \in SUBSET Taken
  BY DEF Taken
<1>2. PICK mu : Measure(mu, WeightIn(S), S)
  BY <1>1, WeightMeasure
<1>3. ASSUME NEW u, \A x \in S : u.records[x].weight = Weight[x]
      PROVE  TotalWeight(u, list) = mu[S]
  BY <1>1, <1>2, <1>3, TotalIsMeasure
<1>4. S \in Fin(S)
  <2> DEFINE v == [records |-> [x \in S |-> [weight |-> Weight[x]]]]
  <2>1. \A x \in S : v.records[x].weight = Weight[x]
    OBVIOUS
  <2> HIDE DEF v
  <2> QED
    BY <1>1, <1>2, <2>1, TotalIsMeasure
<1>5. Total(list) = mu[S]
  BY <1>1, <1>2, <1>4, WeightsIsMeasure DEF Total
<1>6. mu[S] \in Nat
  <2>1. WeightIn(S) \in [S -> Int] /\ \A x \in S : WeightIn(S)[x] >= 0
    BY <1>1, WeightType DEF WeightIn
  <2>2. mu[S] >= 0 /\ mu[S] \in Int
    <3> HIDE DEF S
    <3>1. mu[S] >= 0
      BY <1>2, <1>4, <2>1, MeasureSigns
    <3> QED
      BY <1>2, <1>4, <3>1 DEF Measure
  <2> QED
    BY <2>2
<1> QED
  BY <1>1, <1>3, <1>4, <1>5, <1>6

(* A weighted turn: whoever is the heaviest after everybody got his weight *)
(* is taken, unless all are below 0, and pays the weights of the list.     *)
LEMMA WeightedTurns ==
    ASSUME NEW b, Weighted(b), NEW list \in AllLists,
           NEW r, r = Select("weighted_round_robin", b, list)
    PROVE  /\ Weighted(r.balancer)
           /\ Best(b, list) \in ToSet(list)
           /\ \A y \in ToSet(list) : Raise(b, list, Best(b, list)) >= Raise(b, list, y)
           /\ Raise(b, list, Best(b, list)) >= 0 =>
                 /\ r.pick = Best(b, list)
                 /\ \A x \in Taken : Current(r.balancer, x) =
                       Raise(b, list, x) - IF x = Best(b, list) THEN Total(list) ELSE 0
           /\ ~(Raise(b, list, Best(b, list)) >= 0) =>
                 /\ r.pick = Nobody
                 /\ \A x \in Taken : Current(r.balancer, x) = Raise(b, list, x)
           /\ \A x \in Taken : Current(b, x) \in Int /\ Current(r.balancer, x) \in Int
                                  /\ Raise(b, list, x) \in Int
<1> DEFINE u == Updated(b, list)
           L == ToSet(list)
           raised == Raised(u, list)
           heavy == Heaviest(raised, list)
           best == FirstOf(list, heavy)
           total == Total(list)
<1>1. /\ Balancer(u) /\ DOMAIN u.records = L /\ u.cursor = b.cursor /\ u.current = b.current
  BY UpdatedType DEF Weighted
<1>2. \A x \in L : u.records[x].weight = Weight[x]
  <2>1. u.records = [j \in L |-> IF j \in DOMAIN b.records THEN b.records[j]
                                 ELSE [weight |-> Weight[j], connections |-> 0]]
    BY DEF Updated, Weighted, Balancer
  <2> HIDE DEF u, L
  <2>2. ASSUME NEW x \in L
        PROVE  u.records[x].weight = Weight[x]
    <3>1. CASE x \in DOMAIN b.records
      BY <2>1, <3>1 DEF Weighted
    <3>2. CASE x \notin DOMAIN b.records
      BY <2>1, <3>2
    <3> QED
      BY <3>1, <3>2
  <2> QED
    BY <2>2
<1> HIDE DEF u
<1>3. TotalWeight(u, list) = total /\ total \in Nat /\ L \in SUBSET Taken
  BY <1>2, TotalType
<1>4. \A x : Current(u, x) = Current(b, x)
  BY <1>1 DEF Current
<1>5. \A x \in Taken : Current(b, x) \in Int /\ Raise(b, list, x) \in Int
  <2> SUFFICES ASSUME NEW x \in Taken PROVE Current(b, x) \in Int /\ Raise(b, list, x) \in Int
    OBVIOUS
  <2>1. Current(b, x) \in Int
    BY DEF Current, Weighted
  <2>2. Weight[x] \in Int
    BY WeightType
  <2> QED
    BY <2>1, <2>2 DEF Raise
<1>6. /\ DOMAIN raised = DOMAIN b.current \cup L
      /\ raised = [x \in DOMAIN raised |-> raised[x]]
      /\ \A x \in DOMAIN raised : raised[x] = Current(b, x) + IF x \in L THEN Weight[x] ELSE 0
  <2>1. raised = [x \in DOMAIN b.current \cup L |->
                    Current(b, x) + IF x \in L THEN u.records[x].weight ELSE 0]
    BY <1>1, <1>4 DEF Raised
  <2> HIDE DEF raised, L
  <2>2. ASSUME NEW x \in DOMAIN b.current \cup L
        PROVE  raised[x] = Current(b, x) + IF x \in L THEN Weight[x] ELSE 0
    <3>1. CASE x \in L
      BY <1>2, <2>1, <3>1
    <3>2. CASE x \notin L
      BY <2>1, <3>2
    <3> QED
      BY <3>1, <3>2
  <2>3. DOMAIN raised = DOMAIN b.current \cup L
    BY <2>1
  <2> QED
    BY <2>1, <2>2, <2>3
<1> HIDE DEF raised
<1>7. \A x \in DOMAIN raised : raised[x] = Raise(b, list, x) /\ raised[x] \in Int
  <2> SUFFICES ASSUME NEW x \in DOMAIN raised
               PROVE  raised[x] = Raise(b, list, x) /\ raised[x] \in Int
    OBVIOUS
  <2>1. raised[x] = Raise(b, list, x)
    BY <1>6 DEF Raise
  <2>2. Current(b, x) \in Int
    BY DEF Current, Weighted
  <2>3. x \in L => Weight[x] \in Int
    BY <1>3, WeightType
  <2> QED
    BY <1>6, <2>1, <2>2, <2>3
<1>8. heavy = {x \in L : \A y \in L : Raise(b, list, x) >= Raise(b, list, y)}
  <2>1. \A x \in L : raised[x] = Raise(b, list, x)
    BY <1>6, <1>7
  <2> HIDE DEF L
  <2>2. heavy = {x \in L : \A y \in L : raised[x] >= raised[y]}
    BY DEF Heaviest, L
  <2> QED
    BY <2>1, <2>2
<1>9. heavy # {}
  <2> DEFINE len == Len(list)
             g == [p \in 1..len |-> raised[list[p]]]
  <2>1. len \in Nat \ {0} /\ \A p \in 1..len : list[p] \in L
    BY ListType
  <2>2. g \in [1..len -> Int]
    BY <1>6, <1>7, <2>1
  <2>3. PICK p \in 1..len : \A q \in 1..len : g[p] >= g[q]
    <3> HIDE DEF g, len
    <3> QED
      BY <2>1, <2>2, SomeGreatest
  <2>4. \A y \in L : raised[list[p]] >= raised[y]
    <3>1. \A q \in 1..len : g[q] = raised[list[q]]
      OBVIOUS
    <3>2. \A y \in L : \E q \in 1..len : y = list[q]
      BY ListType
    <3> HIDE DEF g, len
    <3> QED
      BY <2>3, <3>1, <3>2
  <2> QED
    BY <2>1, <2>4 DEF Heaviest
<1>10. /\ best = Best(b, list) /\ best \in L
       /\ \A y \in L : Raise(b, list, best) >= Raise(b, list, y)
  <2>1. heavy \in SUBSET L
    BY <1>8
  <2>2. best \in heavy
    BY <1>9, <2>1, FirstOfType
  <2>3. best = Best(b, list)
    BY <1>8 DEF Best
  <2> HIDE DEF best
  <2> QED
    BY <1>8, <2>1, <2>2, <2>3
<1>11. best # Nobody /\ best \in DOMAIN raised /\ raised[best] = Raise(b, list, best)
       /\ raised[best] \in Int
  <2> HIDE DEF best
  <2> QED
    BY <1>6, <1>7, <1>10, ListType
<1> DEFINE paid == [raised EXCEPT ![best] = raised[best] - total]
<1> HIDE DEF best, total, heavy
<1>12. CASE raised[best] > -1
  <2> DEFINE chosen == [pick |-> best, balancer |-> [u EXCEPT !.current = paid]]
             d == [u.records EXCEPT ![best].connections = u.records[best].connections + 1]
  <2>1. Chosen("weighted_round_robin", u, list) = chosen
    BY <1>3, <1>12, SMTT(30) DEF Chosen, WeightedRoundRobin, raised, best, heavy
  <2>2. chosen.balancer = [records |-> u.records, cursor |-> u.cursor, current |-> paid]
    BY <1>1, SMTT(30) DEF Balancer
  <2> HIDE DEF paid
  <2>3. r = [pick |-> best,
             balancer |-> [records |-> d, cursor |-> u.cursor, current |-> paid]]
    BY <1>11, <2>1, <2>2 DEF Select, u
  <2>4. Balancer(r.balancer)
    <3>1. best \in DOMAIN u.records /\ u.cursor \in Nat
      BY <1>1, <1>10 DEF Balancer
    <3> QED
      BY <1>1, <2>3, <3>1, OneMoreConnection
  <2>5. \A x \in DOMAIN d : d[x].weight = Weight[x]
    <3>1. \A x \in DOMAIN u.records :
             /\ u.records[x] = [weight |-> u.records[x].weight,
                                connections |-> u.records[x].connections]
             /\ u.records[x].weight = Weight[x]
      BY <1>1, <1>2 DEF Balancer
    <3>2. best \in DOMAIN u.records
      BY <1>1, <1>10
    <3> DEFINE n == u.records[best].connections + 1
    <3>3. /\ DOMAIN d = DOMAIN u.records
          /\ d[best] = [u.records[best] EXCEPT !.connections = n]
          /\ \A x \in DOMAIN u.records : x # best => d[x] = u.records[x]
      BY <3>2
    <3> HIDE DEF n, d
    <3>4. d[best] = [weight |-> u.records[best].weight, connections |-> n]
      <4>1. u.records[best] = [weight |-> u.records[best].weight,
                               connections |-> u.records[best].connections]
        BY <3>1, <3>2
      <4> QED
        BY <3>3, <4>1, WithConnections
    <3>5. d[best].weight = Weight[best]
      <4>1. d[best].weight = u.records[best].weight
        BY <3>4
      <4> QED
        BY <3>1, <3>2, <4>1
    <3> QED
      BY <3>1, <3>3, <3>5
  <2> HIDE DEF d
  <2>6. /\ r.balancer.current = paid /\ r.balancer.records = d /\ r.pick = best
    BY <2>3
  <2>7. /\ DOMAIN paid = DOMAIN raised /\ paid = [x \in DOMAIN paid |-> paid[x]]
        /\ \A x \in DOMAIN paid : paid[x] = raised[x] - IF x = best THEN total ELSE 0
        /\ \A x \in DOMAIN paid : paid[x] \in Int
    <3>1. DOMAIN paid = DOMAIN raised /\ paid = [x \in DOMAIN paid |-> paid[x]]
      BY <1>6 DEF paid
    <3>2. \A x \in DOMAIN paid : /\ x = best => paid[x] = raised[x] - total
                                 /\ x # best => paid[x] = raised[x]
      BY <1>11 DEF paid
    <3>3. total \in Int /\ \A x \in DOMAIN paid : raised[x] \in Int
      BY <1>3, <1>7, <3>1
    <3> HIDE DEF paid
    <3>4. ASSUME NEW x \in DOMAIN paid
          PROVE  paid[x] = raised[x] - (IF x = best THEN total ELSE 0) /\ paid[x] \in Int
      <4>1. CASE x = best
        BY <3>2, <3>3, <4>1
      <4>2. CASE x # best
        BY <3>2, <3>3, <4>2
      <4> QED
        BY <4>1, <4>2
    <3> QED
      BY <3>1, <3>4
  <2>8. Weighted(r.balancer)
    BY <2>4, <2>5, <2>6, <2>7 DEF Weighted
  <2>9. \A x \in Taken : /\ Current(r.balancer, x) = Raise(b, list, x) - IF x = best THEN total ELSE 0
                         /\ Current(r.balancer, x) \in Int
    <3> SUFFICES ASSUME NEW x \in Taken
                 PROVE  /\ Current(r.balancer, x) = Raise(b, list, x) - IF x = best THEN total ELSE 0
                        /\ Current(r.balancer, x) \in Int
      OBVIOUS
    <3>1. CASE x \in DOMAIN paid
      <4>1. Current(r.balancer, x) = paid[x]
        BY <2>6, <3>1 DEF Current
      <4> QED
        BY <1>7, <2>7, <3>1, <4>1
    <3>2. CASE x \notin DOMAIN paid
      <4>1. Current(r.balancer, x) = 0
        BY <2>6, <3>2 DEF Current
      <4>2. x \notin DOMAIN b.current /\ x \notin L /\ x # best
        BY <1>6, <1>11, <2>7, <3>2
      <4>3. Raise(b, list, x) = 0
        BY <4>2 DEF Raise, Current
      <4> QED
        BY <4>1, <4>2, <4>3
    <3> QED
      BY <3>1, <3>2
  <2>10. Raise(b, list, best) >= 0
    BY <1>11, <1>12
  <2> HIDE DEF paid
  <2> QED
    BY <1>5, <1>10, <2>6, <2>8, <2>9, <2>10, SMTT(30) DEF total
<1>13. CASE ~(raised[best] > -1)
  <2> DEFINE chosen == [pick |-> Nobody, balancer |-> [u EXCEPT !.current = raised]]
  <2>1. Chosen("weighted_round_robin", u, list) = chosen
    BY <1>13 DEF Chosen, WeightedRoundRobin, raised, best, heavy
  <2>2. r = chosen
    BY <2>1 DEF Select, u
  <2>3. r.pick = Nobody /\ r.balancer = [records |-> u.records, cursor |-> u.cursor, current |-> raised]
    BY <1>1, <2>2 DEF Balancer
  <2>4. /\ r.balancer.current = raised /\ r.balancer.records = u.records
        /\ r.balancer.cursor = u.cursor
    BY <2>3
  <2>5. Balancer(r.balancer)
    BY <1>1, <2>3, <2>4 DEF Balancer
  <2>6. Weighted(r.balancer)
    BY <1>1, <1>2, <1>6, <1>7, <2>4, <2>5 DEF Weighted
  <2>7. \A x \in Taken : /\ Current(r.balancer, x) = Raise(b, list, x)
                         /\ Current(r.balancer, x) \in Int
    <3> SUFFICES ASSUME NEW x \in Taken
                 PROVE  /\ Current(r.balancer, x) = Raise(b, list, x)
                        /\ Current(r.balancer, x) \in Int
      OBVIOUS
    <3>1. CASE x \in DOMAIN raised
      <4>1. Current(r.balancer, x) = raised[x]
        BY <2>4, <3>1 DEF Current
      <4> QED
        BY <1>7, <3>1, <4>1
    <3>2. CASE x \notin DOMAIN raised
      <4>1. Current(r.balancer, x) = 0
        BY <2>4, <3>2 DEF Current
      <4>2. x \notin DOMAIN b.current /\ x \notin L
        BY <1>6, <3>2
      <4>3. Raise(b, list, x) = 0
        BY <4>2 DEF Raise, Current
      <4> QED
        BY <4>1, <4>3
    <3> QED
      BY <3>1, <3>2
  <2>8. ~(Raise(b, list, best) >= 0)
    BY <1>11, <1>13
  <2> QED
    BY <1>5, <1>10, <2>3, <2>6, <2>7, <2>8
<1> QED
  BY <1>12, <1>13
-----------------------------------------------------------------------------
\* Counting turns

LEMMA CountNat ==
    ASSUME NEW a \in Seq(BOOLEAN), NEW m \in Nat, NEW n \in Nat
    PROVE  Count(a, m, n) \in Nat
<1>1. m \in Int /\ n \in Int
  OBVIOUS
<1> QED
  BY <1>1, CountType

(* A count over a stretch is that over its beginning and that over the rest. *)
LEMMA CountSplit ==
    ASSUME NEW a \in Seq(BOOLEAN), NEW m \in Nat, NEW k \in Nat, NEW n \in Nat, m <= k + 1, k <= n
    PROVE  Count(a, m, n) = Count(a, m, k) + Count(a, k + 1, n)
<1> DEFINE A == {j \in m..k : a[j]}
           B == {j \in (k + 1)..n : a[j]}
<1>1. {j \in m..n : a[j]} = A \cup B /\ A \cap B = {}
  <2>1. m..n = (m..k) \cup ((k + 1)..n) /\ (m..k) \cap ((k + 1)..n) = {}
    OBVIOUS
  <2> QED
    BY <2>1
<1>2. /\ IsFiniteSet(A) /\ IsFiniteSet(B) /\ Count(a, m, k) \in Nat /\ Count(a, k + 1, n) \in Nat
  <2>1. m \in Int /\ k \in Int /\ k + 1 \in Int /\ n \in Int
    OBVIOUS
  <2>2. \A i, j \in Int : IsFiniteSet({h \in i..j : a[h]}) /\ Count(a, i, j) \in Nat
    BY CountType
  <2>3. IsFiniteSet(A) /\ Count(a, m, k) \in Nat
    BY <2>1, <2>2
  <2>4. IsFiniteSet(B) /\ Count(a, k + 1, n) \in Nat
    BY <2>1, <2>2
  <2> QED
    BY <2>3, <2>4
<1>3. Count(a, m, k) = Cardinality(A) /\ Count(a, k + 1, n) = Cardinality(B)
  BY DEF Count
<1>4. Count(a, m, n) = Cardinality(A \cup B)
  BY <1>1 DEF Count
<1> HIDE DEF A, B
<1>5. Cardinality(A \cup B) = Cardinality(A) + Cardinality(B) - Cardinality(A \cap B)
  BY <1>2, FS_Union
<1>6. Cardinality(A \cap B) = 0
  BY <1>1, FS_EmptySet
<1> QED
  BY <1>2, <1>3, <1>4, <1>5, <1>6

LEMMA CountNone ==
    ASSUME NEW a, NEW m \in Nat, NEW n \in Nat, \A j \in m..n : ~a[j]
    PROVE  Count(a, m, n) = 0
<1>1. {j \in m..n : a[j]} = {}
  OBVIOUS
<1> QED
  BY <1>1, FS_EmptySet DEF Count

LEMMA CountOne ==
    ASSUME NEW a \in Seq(BOOLEAN), NEW n \in 1..Len(a)
    PROVE  Count(a, n, n) = IF a[n] THEN 1 ELSE 0
<1>1. n..n = {n}
  OBVIOUS
<1>2. CASE a[n]
  <2>1. {j \in n..n : a[j]} = {n}
    BY <1>1, <1>2
  <2>2. Cardinality({n}) = 1
    BY FS_Singleton
  <2> QED
    BY <1>2, <2>1, <2>2 DEF Count
<1>3. CASE ~a[n]
  <2>1. {j \in n..n : a[j]} = {}
    BY <1>1, <1>3
  <2> QED
    BY <1>3, <2>1, FS_EmptySet DEF Count
<1> QED
  BY <1>2, <1>3

Times(n, k) == n * k

LEMMA TimesUnits ==
    ASSUME NEW a \in Int
    PROVE  Times(1, a) = a /\ Times(a, 1) = a /\ Times(0, a) = 0 /\ Times(a, 0) = 0
BY DEF Times

LEMMA TimesType ==
    ASSUME NEW a \in Int, NEW b \in Int
    PROVE  Times(a, b) \in Int
BY DEF Times

LEMMA TimesPlus ==
    ASSUME NEW a \in Int, NEW b \in Int, NEW c \in Int
    PROVE  /\ Times(a + c, b) = Times(a, b) + Times(c, b)
           /\ Times(a, b + c) = Times(a, b) + Times(a, c)
BY DEF Times

(* What is no multiple of n below 0 and above -n is no negative multiple.  *)
LEMMA TimesOrder ==
    ASSUME NEW n \in Nat \ {0}, NEW a \in Int, NEW b \in Int
    PROVE  /\ Times(n, a) - Times(n, b) > -n => Times(n, a) - Times(n, b) >= 0
           /\ Times(n, a) - Times(n, b) = 0 => a = b
<1> DEFINE d == a - b
<1>1. Times(n, a) - Times(n, b) = n * d /\ d \in Int
  BY DEF Times
<1>2. d <= -1 => n * d <= -n
  <2> HIDE DEF d
  <2>1. d \in Int
    BY <1>1
  <2> QED
    BY <2>1
<1>3. d >= 0 => n * d >= 0
  <2> HIDE DEF d
  <2>1. d \in Int
    BY <1>1
  <2> QED
    BY <2>1
<1>4. d >= 1 => n * d >= n
  <2> HIDE DEF d
  <2>1. d \in Int
    BY <1>1
  <2> QED
    BY <2>1
<1> DEFINE e == n * d
<1>5. e \in Int
  BY <1>1
<1> HIDE DEF e
<1>6. /\ d <= -1 => e <= -n
      /\ d >= 0 => e >= 0
      /\ d >= 1 => e >= n
  BY <1>2, <1>3, <1>4 DEF e
<1>7. Times(n, a) - Times(n, b) = e
  BY <1>1 DEF e
<1>8. e > -n => e >= 0
  BY <1>1, <1>5, <1>6
<1>9. e = 0 => d = 0
  BY <1>1, <1>5, <1>6
<1>10. d = 0 => a = b
  OBVIOUS
<1> QED
  BY <1>7, <1>8, <1>9, <1>10

\* The calls for a service in a history, and what each of its instances got
CallsOf(l, s) == {n \in 1..Len(l) : l[n] \in ListsOf[s]}

Even(l, s) == \A m, n \in CallsOf(l, s) : l[m] = l[n]

Asks(l, s) == [k \in 1..Len(l) |-> l[k] \in ListsOf[s]]

Takes(l, p, s, x) == [k \in 1..Len(l) |-> l[k] \in ListsOf[s] /\ p[k] = x]

Turns(l, s, m, n) == Count(Asks(l, s), m, n)

Wins(l, p, s, x, m, n) == Count(Takes(l, p, s, x), m, n)

\* What an instance weighs at the n-th call, if all had the same list
Due(l, p, s, n, x) ==
    Times(Turns(l, s, 1, n), Weight[x]) - Times(Total(l[n]), Wins(l, p, s, x, 1, n - 1))

MostDue(l, p, s, n) ==
    FirstOf(l[n], {x \in ToSet(l[n]) : \A y \in ToSet(l[n]) :
                      Due(l, p, s, n, x) >= Due(l, p, s, n, y)})

\* Who is due is taken
Timely(l, p, s) == \A n \in CallsOf(l, s) : p[n] = MostDue(l, p, s, n)

\* The first round gives everybody his share
FirstRound(l, p, s) ==
    \A n \in CallsOf(l, s) :
        Turns(l, s, 1, n) = Total(l[n]) =>
            \A x \in ToSet(l[n]) : Wins(l, p, s, x, 1, n) = Weight[x]

LEMMA HistoryType ==
    ASSUME NEW l \in Seq(AllLists), NEW p, NEW s, NEW x
    PROVE  /\ Asks(l, s) \in Seq(BOOLEAN) /\ Len(Asks(l, s)) = Len(l)
           /\ Takes(l, p, s, x) \in Seq(BOOLEAN) /\ Len(Takes(l, p, s, x)) = Len(l)
           /\ \A n \in 1..Len(l) : (Asks(l, s)[n] <=> n \in CallsOf(l, s))
           /\ \A n \in 1..Len(l) : (Takes(l, p, s, x)[n] <=> n \in CallsOf(l, s) /\ p[n] = x)
           /\ Len(l) \in Nat
<1> DEFINE N == Len(l)
           a == Asks(l, s)
           t == Takes(l, p, s, x)
<1>1. N \in Nat
  OBVIOUS
<1>2. a \in [1..N -> BOOLEAN] /\ t \in [1..N -> BOOLEAN]
  BY DEF Asks, Takes
<1>3. \A f : f \in [1..N -> BOOLEAN] => f \in Seq(BOOLEAN) /\ Len(f) = N
  <2> HIDE DEF N
  <2> QED
    BY <1>1
<1>4. \A n \in 1..N : (a[n] <=> n \in CallsOf(l, s)) /\ (t[n] <=> n \in CallsOf(l, s) /\ p[n] = x)
  BY DEF Asks, Takes, CallsOf
<1> QED
  BY <1>1, <1>2, <1>3, <1>4

Anybody == Taken \cup {Nobody}

\* The history k, q has one call more than l, p
Grows(l, p, s, list, pick, k, q) ==
    /\ Len(l) \in Nat /\ Len(k) = Len(l) + 1 /\ Len(q) = Len(k)
    /\ k \in Seq(AllLists) /\ q \in Seq(Anybody)
    /\ \A n \in 1..Len(l) : k[n] = l[n] /\ q[n] = p[n]
    /\ k[Len(l) + 1] = list /\ q[Len(l) + 1] = pick
    /\ CallsOf(l, s) \subseteq 1..Len(l)
    /\ list \in ListsOf[s] => CallsOf(k, s) = CallsOf(l, s) \cup {Len(l) + 1}
    /\ list \notin ListsOf[s] => CallsOf(k, s) = CallsOf(l, s)
    /\ \A m \in 1..(Len(l) + 1) :
          /\ Turns(l, s, m, Len(l)) \in Nat
          /\ \A x : Wins(l, p, s, x, m, Len(l)) \in Nat
          /\ \A n \in 0..Len(l) : Turns(k, s, m, n) = Turns(l, s, m, n)
          /\ Turns(k, s, m, Len(l) + 1)
                = Turns(l, s, m, Len(l)) + IF list \in ListsOf[s] THEN 1 ELSE 0
          /\ \A x : \A n \in 0..Len(l) : Wins(k, q, s, x, m, n) = Wins(l, p, s, x, m, n)
          /\ \A x : Wins(k, q, s, x, m, Len(l) + 1) = Wins(l, p, s, x, m, Len(l))
                       + IF list \in ListsOf[s] /\ pick = x THEN 1 ELSE 0

(* What one more call does to a history.                                   *)
LEMMA HistoryAppend ==
    ASSUME NEW l \in Seq(AllLists), NEW list \in AllLists, NEW p \in Seq(Anybody),
           Len(p) = Len(l), NEW pick \in Anybody, NEW s
    PROVE  Grows(l, p, s, list, pick, Append(l, list), Append(p, pick))
<1> DEFINE k == Append(l, list)
           q == Append(p, pick)
<1> SUFFICES Grows(l, p, s, list, pick, k, q)
  OBVIOUS
<1> DEFINE N == Len(l)
<1>1. /\ N \in Nat /\ Len(k) = N + 1 /\ k \in Seq(AllLists) /\ q \in Seq(Anybody) /\ Len(q) = N + 1
      /\ \A n \in 1..N : k[n] = l[n] /\ q[n] = p[n]
      /\ k[N + 1] = list /\ q[N + 1] = pick
  OBVIOUS
<1> HIDE DEF k, q
<1>2. 1..(N + 1) = (1..N) \cup {N + 1} /\ N + 1 \notin 1..N
  BY <1>1
<1>3. CallsOf(l, s) = {n \in 1..N : l[n] \in ListsOf[s]}
  BY DEF CallsOf
<1>4. CallsOf(k, s) = {n \in (1..N) \cup {N + 1} : k[n] \in ListsOf[s]}
  BY <1>1, <1>2 DEF CallsOf
<1> DEFINE mine == list \in ListsOf[s]
<1>5. Asks(k, s) = Append(Asks(l, s), mine)
  <2> DEFINE f == Asks(l, s)
             g == Asks(k, s)
  <2>1. f \in Seq(BOOLEAN) /\ Len(f) = N /\ \A n \in 1..N : f[n] = (l[n] \in ListsOf[s])
    BY HistoryType DEF Asks
  <2>2. g = [n \in 1..(N + 1) |-> k[n] \in ListsOf[s]]
    BY <1>1 DEF Asks
  <2>3. \A n \in 1..N : g[n] = f[n]
    <3>1. \A n \in 1..N : n \in 1..(N + 1) /\ k[n] = l[n]
      BY <1>1
    <3> HIDE DEF f, g
    <3> QED
      BY <2>1, <2>2, <3>1
  <2>4. g[N + 1] = mine
    <3>1. N + 1 \in 1..(N + 1)
      BY <1>1
    <3> HIDE DEF g
    <3> QED
      BY <1>1, <2>2, <3>1
  <2>5. mine \in BOOLEAN /\ g \in Seq(BOOLEAN) /\ Len(g) = N + 1
    <3>1. Asks(k, s) \in Seq(BOOLEAN) /\ Len(Asks(k, s)) = Len(k)
      BY <1>1, HistoryType
    <3> QED
      BY <1>1, <3>1
  <2> HIDE DEF f, g, mine, N
  <2> QED
    BY <1>1, <2>1, <2>3, <2>4, <2>5 DEF f, g
<1>6. ASSUME NEW x
      PROVE  Takes(k, q, s, x) = Append(Takes(l, p, s, x), mine /\ pick = x)
  <2> DEFINE f == Takes(l, p, s, x)
             g == Takes(k, q, s, x)
             won == mine /\ pick = x
  <2>1. f \in Seq(BOOLEAN) /\ Len(f) = N /\ \A n \in 1..N : f[n] = (l[n] \in ListsOf[s] /\ p[n] = x)
    BY HistoryType DEF Takes
  <2>2. g = [n \in 1..(N + 1) |-> k[n] \in ListsOf[s] /\ q[n] = x]
    BY <1>1 DEF Takes
  <2>3. \A n \in 1..N : g[n] = f[n]
    <3>1. \A n \in 1..N : n \in 1..(N + 1) /\ k[n] = l[n] /\ q[n] = p[n]
      BY <1>1
    <3> HIDE DEF f, g
    <3> QED
      BY <2>1, <2>2, <3>1
  <2>4. g[N + 1] = won
    <3>1. N + 1 \in 1..(N + 1)
      BY <1>1
    <3> HIDE DEF g
    <3> QED
      BY <1>1, <2>2, <3>1
  <2>5. won \in BOOLEAN /\ g \in Seq(BOOLEAN) /\ Len(g) = N + 1
    <3>1. \A h \in Seq(AllLists) : Takes(h, q, s, x) \in Seq(BOOLEAN) /\ Len(Takes(h, q, s, x)) = Len(h)
      BY HistoryType
    <3> QED
      BY <1>1, <3>1
  <2> HIDE DEF f, g, won, N
  <2>6. g = Append(f, won)
    BY <1>1, <2>1, <2>3, <2>4, <2>5
  <2> QED
    BY <2>6 DEF f, g, won
<1>7. ASSUME NEW m \in 1..(N + 1)
      PROVE  /\ \A n \in 0..N : Turns(k, s, m, n) = Turns(l, s, m, n)
             /\ Turns(k, s, m, N + 1) = Turns(l, s, m, N) + IF mine THEN 1 ELSE 0
             /\ \A x : \A n \in 0..N : Wins(k, q, s, x, m, n) = Wins(l, p, s, x, m, n)
             /\ \A x : Wins(k, q, s, x, m, N + 1) = Wins(l, p, s, x, m, N)
                             + IF mine /\ pick = x THEN 1 ELSE 0
  <2>1. \A f \in Seq(BOOLEAN) : \A answer \in BOOLEAN : Len(f) = N =>
           /\ \A n \in 0..N : Count(Append(f, answer), m, n) = Count(f, m, n)
           /\ Count(Append(f, answer), m, N + 1) = Count(f, m, N) + IF answer THEN 1 ELSE 0
    <3> SUFFICES ASSUME NEW f \in Seq(BOOLEAN), NEW answer \in BOOLEAN, Len(f) = N
                 PROVE  /\ \A n \in 0..N : Count(Append(f, answer), m, n) = Count(f, m, n)
                        /\ Count(Append(f, answer), m, N + 1) = Count(f, m, N) + IF answer THEN 1 ELSE 0
      OBVIOUS
    <3>1. m \in 1..(Len(f) + 1)
      OBVIOUS
    <3> HIDE DEF N
    <3> QED
      BY <3>1, CountAppend
  <2>2. Asks(l, s) \in Seq(BOOLEAN) /\ Len(Asks(l, s)) = N /\ mine \in BOOLEAN
    <3>1. Asks(l, s) \in Seq(BOOLEAN) /\ Len(Asks(l, s)) = N
      BY HistoryType
    <3> QED
      BY <3>1
  <2>3. \A x : Takes(l, p, s, x) \in Seq(BOOLEAN) /\ Len(Takes(l, p, s, x)) = N
    BY HistoryType
  <2> DEFINE won(x) == mine /\ pick = x
  <2>4. \A x : won(x) \in BOOLEAN /\ Takes(k, q, s, x) = Append(Takes(l, p, s, x), won(x))
    BY <1>6
  <2> HIDE DEF mine, N, won
  <2>5. /\ \A n \in 0..N : Turns(k, s, m, n) = Turns(l, s, m, n)
        /\ Turns(k, s, m, N + 1) = Turns(l, s, m, N) + IF mine THEN 1 ELSE 0
    BY <1>5, <2>1, <2>2 DEF Turns
  <2>6. ASSUME NEW x
        PROVE  /\ \A n \in 0..N : Wins(k, q, s, x, m, n) = Wins(l, p, s, x, m, n)
               /\ Wins(k, q, s, x, m, N + 1) = Wins(l, p, s, x, m, N) + IF won(x) THEN 1 ELSE 0
    <3> DEFINE f == Takes(l, p, s, x)
               w == won(x)
    <3>1. f \in Seq(BOOLEAN) /\ w \in BOOLEAN /\ Len(f) = N
      BY <2>3, <2>4
    <3>2. Takes(k, q, s, x) = Append(f, w)
      BY <2>4
    <3> HIDE DEF f, w
    <3>3. /\ \A n \in 0..N : Count(Append(f, w), m, n) = Count(f, m, n)
          /\ Count(Append(f, w), m, N + 1) = Count(f, m, N) + IF w THEN 1 ELSE 0
      BY <2>1, <3>1
    <3> QED
      BY <3>2, <3>3 DEF Wins, f, w
  <2> QED
    BY <2>5, <2>6 DEF won
<1>8. ASSUME NEW m \in 1..(N + 1)
      PROVE  /\ Turns(l, s, m, N) \in Nat
             /\ \A x : Wins(l, p, s, x, m, N) \in Nat
  <2>1. m \in Int /\ N \in Int
    BY <1>1
  <2>2. \A a \in Seq(BOOLEAN) : Count(a, m, N) \in Nat
    <3> HIDE DEF N
    <3> QED
      BY <2>1, CountType
  <2>3. Asks(l, s) \in Seq(BOOLEAN) /\ \A x : Takes(l, p, s, x) \in Seq(BOOLEAN)
    BY HistoryType
  <2> QED
    BY <2>2, <2>3 DEF Turns, Wins
<1> QED
  BY <1>1, <1>2, <1>3, <1>4, <1>7, <1>8, SMTT(30) DEF Grows

LEMMA DueAppend ==
    ASSUME NEW l, NEW p, NEW s, NEW list, NEW pick, NEW k, NEW q,
           Grows(l, p, s, list, pick, k, q), NEW n \in 1..Len(l)
    PROVE  /\ \A x : Due(k, q, s, n, x) = Due(l, p, s, n, x)
           /\ MostDue(k, q, s, n) = MostDue(l, p, s, n)
<1>1. Len(l) \in Nat
  BY DEF Grows
<1>2. n - 1 \in 0..Len(l) /\ n \in 0..Len(l) /\ 1 \in 1..(Len(l) + 1)
  BY <1>1
<1>3. /\ k[n] = l[n] /\ Turns(k, s, 1, n) = Turns(l, s, 1, n)
      /\ \A x : Wins(k, q, s, x, 1, n - 1) = Wins(l, p, s, x, 1, n - 1)
  BY <1>2 DEF Grows
<1>4. \A x : Due(k, q, s, n, x) = Due(l, p, s, n, x)
  BY <1>3 DEF Due
<1> DEFINE A == {x \in ToSet(l[n]) : \A y \in ToSet(l[n]) : Due(l, p, s, n, x) >= Due(l, p, s, n, y)}
           B == {x \in ToSet(k[n]) : \A y \in ToSet(k[n]) : Due(k, q, s, n, x) >= Due(k, q, s, n, y)}
<1>5. A = B
  BY <1>3, <1>4
<1>6. MostDue(l, p, s, n) = FirstOf(l[n], A) /\ MostDue(k, q, s, n) = FirstOf(k[n], B)
  BY DEF MostDue
<1> HIDE DEF A, B
<1> QED
  BY <1>3, <1>4, <1>5, <1>6

-----------------------------------------------------------------------------
\* The invariant of a service

Members(s) == UNION {ToSet(list) : list \in ListsOf[s]}

Given(l, s) == UNION {ToSet(l[n]) : n \in CallsOf(l, s)}

Currents(b, S) == [x \in S |-> Current(b, x)]

\* The weights of the instances add up to nothing, to no less than nothing
\* if the lists were not all the same
Balanced(b, l, s) ==
    \E mu : /\ Measure(mu, Currents(b, Members(s)), Members(s))
            /\ \A T \in Fin(Members(s)) :
                  Given(l, s) \subseteq T => mu[T] >= 0 /\ (Even(l, s) => mu[T] = 0)

Fresh(b, l, s) == CallsOf(l, s) = {} => \A x \in Members(s) : Current(b, x) = 0

Excused(l, p, s) ==
    \A n \in CallsOf(l, s) : p[n] = Nobody =>
        \E m \in CallsOf(l, s) : m < n /\ ~(ToSet(l[m]) \subseteq ToSet(l[n]))

\* What an instance weighs follows from what it was due and what it got
Owed(b, l, p, s) ==
    \A n \in CallsOf(l, s) : \A x \in ToSet(l[n]) :
        /\ Current(b, x) = Times(Turns(l, s, 1, Len(l)), Weight[x])
                             - Times(Total(l[n]), Wins(l, p, s, x, 1, Len(l)))
        /\ Current(b, x) > -Total(l[n]) \/ Total(l[n]) = 0

ServiceInv(b, l, p, s) ==
    /\ Balanced(b, l, s)
    /\ Fresh(b, l, s)
    /\ Excused(l, p, s)
    /\ Even(l, s) => Timely(l, p, s) /\ FirstRound(l, p, s) /\ Owed(b, l, p, s)

(* A call for another service changes nothing for this one.                *)
LEMMA ElsewhereKeeps ==
    ASSUME NEW s, NEW l, NEW p, NEW list, NEW pick, NEW k, NEW q,
           Grows(l, p, s, list, pick, k, q), list \notin ListsOf[s],
           NEW b, NEW c, \A x \in Members(s) : Current(c, x) = Current(b, x),
           ServiceInv(b, l, p, s)
    PROVE  ServiceInv(c, k, q, s)
<1>1. /\ Len(l) \in Nat /\ CallsOf(k, s) = CallsOf(l, s) /\ CallsOf(l, s) \subseteq 1..Len(l)
      /\ \A n \in 1..Len(l) : k[n] = l[n] /\ q[n] = p[n]
  BY DEF Grows
<1>2. Given(k, s) = Given(l, s) /\ (Even(k, s) <=> Even(l, s))
  <2>1. \A n \in CallsOf(l, s) : k[n] = l[n]
    BY <1>1
  <2>2. {ToSet(k[n]) : n \in CallsOf(l, s)} = {ToSet(l[n]) : n \in CallsOf(l, s)}
    BY <2>1
  <2> QED
    BY <1>1, <2>1, <2>2 DEF Given, Even
<1>3. Currents(c, Members(s)) = Currents(b, Members(s))
  BY DEF Currents
<1>4. Balanced(c, k, s)
  BY <1>2, <1>3 DEF Balanced, ServiceInv
<1>5. Fresh(c, k, s)
  BY <1>1 DEF Fresh, ServiceInv
<1>6. Excused(k, q, s)
  BY <1>1 DEF Excused, ServiceInv
<1>7. ASSUME Even(k, s)
      PROVE  Timely(k, q, s) /\ FirstRound(k, q, s) /\ Owed(c, k, q, s)
  <2>1. Timely(l, p, s) /\ FirstRound(l, p, s) /\ Owed(b, l, p, s)
    BY <1>2, <1>7 DEF ServiceInv
  <2>2. Timely(k, q, s)
    <3>1. \A n \in 1..Len(l) : MostDue(k, q, s, n) = MostDue(l, p, s, n)
      BY DueAppend
    <3> QED
      BY <1>1, <2>1, <3>1 DEF Timely
  <2>3. FirstRound(k, q, s)
    <3>1. \A n \in 1..Len(l) : /\ Turns(k, s, 1, n) = Turns(l, s, 1, n)
                               /\ \A x : Wins(k, q, s, x, 1, n) = Wins(l, p, s, x, 1, n)
      BY <1>1 DEF Grows
    <3> QED
      BY <1>1, <2>1, <3>1 DEF FirstRound
  <2>4. Owed(c, k, q, s)
    <3>1. Turns(k, s, 1, Len(k)) = Turns(l, s, 1, Len(l))
      <4>1. Turns(k, s, 1, Len(l) + 1) = Turns(l, s, 1, Len(l)) + 0 /\ Len(k) = Len(l) + 1
        BY <1>1 DEF Grows
      <4>2. Turns(l, s, 1, Len(l)) \in Nat
        BY <1>1 DEF Grows
      <4> QED
        BY <4>1, <4>2
    <3>2. ASSUME NEW x
          PROVE  Wins(k, q, s, x, 1, Len(k)) = Wins(l, p, s, x, 1, Len(l))
      <4>1. /\ Wins(k, q, s, x, 1, Len(l) + 1) = Wins(l, p, s, x, 1, Len(l)) + 0
            /\ Len(k) = Len(l) + 1 /\ Wins(l, p, s, x, 1, Len(l)) \in Nat
        BY <1>1 DEF Grows
      <4> QED
        BY <4>1
    <3>3. \A n \in CallsOf(l, s) : ToSet(l[n]) \subseteq Members(s)
      BY DEF CallsOf, Members
    <3>4. \A n \in CallsOf(l, s) : \A x \in ToSet(l[n]) : Current(c, x) = Current(b, x)
      BY <3>3
    <3> QED
      BY <1>1, <2>1, <3>1, <3>2, <3>4 DEF Owed
  <2> QED
    BY <2>2, <2>3, <2>4
<1> QED
  BY <1>4, <1>5, <1>6, <1>7 DEF ServiceInv

(* What the best has after everybody got his weight, and the sums after    *)
(* the turn.                                                               *)
LEMMA SumsAfter ==
    ASSUME NEW b, Weighted(b), NEW list \in AllLists, NEW S \in SUBSET Taken,
           ToSet(list) \subseteq S, NEW mu, Measure(mu, Currents(b, S), S),
           NEW r, r = Select("weighted_round_robin", b, list)
    PROVE  /\ Total(list) \in Nat /\ ToSet(list) \in Fin(S)
           /\ mu[ToSet(list)] + Total(list) >= 0 => Raise(b, list, Best(b, list)) >= 0
           /\ mu[ToSet(list)] + Total(list) > 0 => Raise(b, list, Best(b, list)) > 0
           /\ \E nu : /\ Measure(nu, Currents(r.balancer, S), S)
                      /\ \A T \in Fin(S) : ToSet(list) \subseteq T =>
                            /\ mu[T] \in Int
                            /\ nu[T] = mu[T] + IF Raise(b, list, Best(b, list)) >= 0
                                               THEN 0 ELSE Total(list)
<1> DEFINE L == ToSet(list)
           W == Total(list)
           best == Best(b, list)
           v == Currents(b, S)
           raised == [x \in S |-> Raise(b, list, x)]
           c == r.balancer
           price == IF Raise(b, list, best) >= 0 THEN W ELSE 0
<1>1. /\ W \in Nat /\ L \in Fin(L) /\ \A x \in Taken : Weight[x] \in Nat
  BY TotalType, WeightType
<1>2. L \in Fin(S) /\ L # {} /\ L \subseteq S
  <2>1. L # {}
    BY ListType
  <2> QED
    BY <1>1, <2>1 DEF Fin
<1>3. /\ best \in L
      /\ \A y \in L : Raise(b, list, best) >= Raise(b, list, y)
      /\ \A x \in Taken : /\ Current(b, x) \in Int /\ Current(c, x) \in Int
                          /\ Raise(b, list, x) \in Int
      /\ Raise(b, list, best) >= 0 => \A x \in Taken : Current(c, x) =
                  Raise(b, list, x) - IF x = best THEN W ELSE 0
      /\ ~(Raise(b, list, best) >= 0) => \A x \in Taken : Current(c, x) = Raise(b, list, x)
  BY WeightedTurns
<1> HIDE DEF best
<1>4. PICK weights : Measure(weights, WeightIn(S), S)
  BY WeightMeasure
<1>5. weights[L] = W
  BY <1>2, <1>4, WeightsIsMeasure DEF Total
<1>6. v \in [S -> Int] /\ raised \in [S -> Int] /\ Currents(c, S) \in [S -> Int]
  BY <1>3 DEF Currents
<1>7. \A x \in S : /\ v[x] = Current(b, x) /\ raised[x] = Raise(b, list, x)
                   /\ Currents(c, S)[x] = Current(c, x)
  BY DEF Currents
<1>8. \A T \in Fin(S) : mu[T] \in Int /\ weights[T] \in Int
  BY <1>4 DEF Measure
<1> HIDE DEF W, v, raised, c
<1>9. /\ mu[L] + W >= 0 => Raise(b, list, best) >= 0
      /\ mu[L] + W > 0 => Raise(b, list, best) > 0
  <2> DEFINE rho == [T \in Fin(S) |-> (mu[T] + weights[T \cap L]) - IF best \in T THEN 0 ELSE 0]
  <2>1. \A x \in S : raised[x] = (v[x] + IF x \in L THEN Weight[x] ELSE 0)
                                     - IF x = best THEN 0 ELSE 0
    <3> SUFFICES ASSUME NEW x \in S
                 PROVE  raised[x] = (v[x] + IF x \in L THEN Weight[x] ELSE 0) - IF x = best THEN 0 ELSE 0
      OBVIOUS
    <3>1. raised[x] = v[x] + IF x \in L THEN Weight[x] ELSE 0
      BY <1>7 DEF Raise
    <3>2. raised[x] \in Int
      BY <1>6
    <3> QED
      BY <3>1, <3>2
  <2>2. Measure(rho, raised, S)
    <3>1. Measure(mu, v, S)
      BY DEF v
    <3>2. 0 \in Int
      OBVIOUS
    <3>3. Turned(v, raised, L, best, 0, S)
      BY <2>1 DEF Turned
    <3> HIDE DEF L
    <3>4. \A cost \in Int : Turned(v, raised, L, best, cost, S) =>
             Measure([T \in Fin(S) |-> (mu[T] + weights[T \cap L]) - IF best \in T THEN cost ELSE 0], raised, S)
      BY <1>2, <1>4, <1>6, <3>1, MeasureTurns
    <3> QED
      BY <3>2, <3>3, <3>4
  <2>3. rho[L] = mu[L] + W
    <3>1. L \cap L = L /\ best \in L
      BY <1>3
    <3>2. rho[L] = (mu[L] + weights[L]) - 0
      BY <1>2, <3>1
    <3>3. mu[L] \in Int /\ W \in Int
      BY <1>1, <1>2, <1>8
    <3> HIDE DEF rho, L
    <3> QED
      BY <1>5, <3>2, <3>3
  <2> HIDE DEF rho
  <2>4. ASSUME rho[L] >= 0
        PROVE  Raise(b, list, best) >= 0
    <3>1. PICK x \in L : raised[x] >= 0
      <4> HIDE DEF L
      <4> QED
        BY <1>2, <1>6, <2>2, <2>4, MeasureTerms
    <3>2. x \in S /\ x \in Taken /\ best \in Taken
      BY <1>2, <1>3
    <3>3. Raise(b, list, x) >= 0 /\ Raise(b, list, x) \in Int /\ Raise(b, list, best) \in Int
      BY <1>3, <1>7, <3>1, <3>2
    <3>4. Raise(b, list, best) >= Raise(b, list, x)
      BY <1>3
    <3> QED
      BY <3>3, <3>4
  <2>5. ASSUME rho[L] > 0, ~(Raise(b, list, best) > 0)
        PROVE  FALSE
    <3>1. ASSUME NEW x \in L
          PROVE  raised[x] <= 0
      <4>1. x \in S /\ x \in Taken /\ best \in Taken
        BY <1>2, <1>3
      <4>2. Raise(b, list, x) \in Int /\ Raise(b, list, best) \in Int
        BY <1>3, <4>1
      <4>3. Raise(b, list, best) >= Raise(b, list, x)
        BY <1>3
      <4>4. Raise(b, list, x) <= 0
        BY <2>5, <4>2, <4>3
      <4> QED
        BY <1>7, <4>1, <4>4
    <3>2. rho[L] <= 0
      <4> HIDE DEF L
      <4> QED
        BY <1>2, <1>6, <2>2, <3>1, MeasureSigns
    <3>3. rho[L] \in Int
      BY <1>2, <2>2 DEF Measure
    <3> QED
      BY <2>5, <3>2, <3>3
  <2> QED
    BY <2>3, <2>4, <2>5
<1>10. \E nu : /\ Measure(nu, Currents(c, S), S)
               /\ \A T \in Fin(S) : L \subseteq T =>
                     /\ mu[T] \in Int
                     /\ nu[T] = mu[T] + IF Raise(b, list, best) >= 0 THEN 0 ELSE W
  <2> DEFINE nu == [T \in Fin(S) |-> (mu[T] + weights[T \cap L]) - IF best \in T THEN price ELSE 0]
             w == Currents(c, S)
  <2>1. price \in Int
    BY <1>1
  <2>2. ASSUME NEW x \in S
        PROVE  w[x] = (v[x] + IF x \in L THEN Weight[x] ELSE 0) - IF x = best THEN price ELSE 0
    <3>1. x \in Taken
      OBVIOUS
    <3>2. Current(c, x) = Raise(b, list, x) - IF x = best THEN price ELSE 0
      <4>1. CASE Raise(b, list, best) >= 0
        BY <1>3, <3>1, <4>1
      <4>2. CASE ~(Raise(b, list, best) >= 0)
        <5>1. Current(c, x) = Raise(b, list, x) /\ Raise(b, list, x) \in Int
          BY <1>3, <3>1, <4>2
        <5> QED
          BY <4>2, <5>1
      <4> QED
        BY <4>1, <4>2
    <3> HIDE DEF price, L, w
    <3>3. w[x] = Current(c, x) /\ v[x] = Current(b, x)
      BY <1>7 DEF w
    <3> QED
      BY <3>2, <3>3 DEF Raise, L
  <2> HIDE DEF price, w
  <2>3. Measure(nu, w, S)
    <3>1. Measure(mu, v, S) /\ w \in [S -> Int]
      BY <1>6 DEF v, w
    <3>2. Turned(v, w, L, best, price, S)
      BY <2>2 DEF Turned
    <3> HIDE DEF L
    <3>3. \A cost \in Int : Turned(v, w, L, best, cost, S) =>
             Measure([T \in Fin(S) |-> (mu[T] + weights[T \cap L]) - IF best \in T THEN cost ELSE 0], w, S)
      BY <1>2, <1>4, <1>6, <3>1, MeasureTurns
    <3> QED
      BY <2>1, <3>2, <3>3
  <2>4. ASSUME NEW T \in Fin(S), L \subseteq T
        PROVE  mu[T] \in Int /\ nu[T] = mu[T] + IF Raise(b, list, best) >= 0 THEN 0 ELSE W
    <3>1. T \cap L = L /\ best \in T
      BY <1>3, <2>4
    <3>2. nu[T] = (mu[T] + W) - price
      BY <1>5, <3>1
    <3>3. mu[T] \in Int /\ W \in Int
      BY <1>1, <1>8
    <3> HIDE DEF nu
    <3> QED
      BY <3>2, <3>3 DEF price
  <2> HIDE DEF nu
  <2> QED
    BY <2>3, <2>4 DEF w
<1> QED
  BY <1>1, <1>2, <1>9, <1>10 DEF W, best, c

(* A call for the service itself.                                          *)
LEMMA OwnTurnKeeps ==
    ASSUME NEW s \in DOMAIN ListsOf, NEW list \in ListsOf[s], NEW b, Weighted(b),
           NEW r, r = Select("weighted_round_robin", b, list),
           NEW l, NEW p, NEW k, NEW q, Grows(l, p, s, list, r.pick, k, q),
           ServiceInv(b, l, p, s)
    PROVE  ServiceInv(r.balancer, k, q, s)
<1> DEFINE N == Len(l)
           M == Members(s)
           L == ToSet(list)
           W == Total(list)
           c == r.balancer
           best == Best(b, list)
<1>1. /\ N \in Nat /\ Len(k) = N + 1 /\ CallsOf(k, s) = CallsOf(l, s) \cup {N + 1}
      /\ CallsOf(l, s) \subseteq 1..N
      /\ \A n \in CallsOf(l, s) : k[n] = l[n] /\ q[n] = p[n]
      /\ k[N + 1] = list /\ q[N + 1] = r.pick
  BY DEF Grows
<1>2. list \in AllLists /\ L \subseteq M /\ M \in SUBSET Taken
  BY DEF AllLists, Members, Taken
<1>3. PICK mu : /\ Measure(mu, Currents(b, M), M)
                /\ \A T \in Fin(M) :
                      Given(l, s) \subseteq T => mu[T] >= 0 /\ (Even(l, s) => mu[T] = 0)
  BY DEF ServiceInv, Balanced
<1>4. /\ W \in Nat /\ L \in Fin(M)
      /\ mu[L] + W >= 0 => Raise(b, list, best) >= 0
      /\ mu[L] + W > 0 => Raise(b, list, best) > 0
      /\ \E nu : /\ Measure(nu, Currents(c, M), M)
                 /\ \A T \in Fin(M) : L \subseteq T =>
                       /\ mu[T] \in Int
                       /\ nu[T] = mu[T] + IF Raise(b, list, best) >= 0 THEN 0 ELSE W
  <2> HIDE DEF M
  <2> QED
    BY <1>2, <1>3, SumsAfter
<1>5. /\ best \in L
      /\ Raise(b, list, best) >= 0 => /\ r.pick = best
                                      /\ \A x \in Taken : Current(c, x) =
                                            Raise(b, list, x) - IF x = best THEN W ELSE 0
      /\ \A x \in Taken : /\ Current(b, x) \in Int /\ Current(c, x) \in Int
                          /\ Raise(b, list, x) \in Int
  BY <1>2, WeightedTurns
<1>6. Nobody \notin L /\ \A x \in L : x \in Taken /\ Weight[x] \in Nat
  BY <1>2, ListType, WeightType
<1>7. Given(k, s) = Given(l, s) \cup L
  <2>1. {ToSet(k[n]) : n \in CallsOf(k, s)} = {ToSet(l[n]) : n \in CallsOf(l, s)} \cup {L}
    BY <1>1
  <2> QED
    BY <2>1 DEF Given
<1>8. ASSUME Even(k, s)
      PROVE  /\ Even(l, s) /\ \A n \in CallsOf(k, s) : k[n] = list
             /\ \A n \in CallsOf(l, s) : l[n] = list
             /\ Given(l, s) \subseteq L
  <2>1. \A n \in CallsOf(k, s) : k[n] = list
    BY <1>1, <1>8 DEF Even
  <2>2. \A n \in CallsOf(l, s) : l[n] = list
    BY <1>1, <2>1
  <2> QED
    BY <2>1, <2>2 DEF Even, Given
<1> HIDE DEF N, W, M, L, c, best
<1>9. mu[L] \in Int
  BY <1>3, <1>4 DEF Measure
<1>10. ASSUME Given(l, s) \subseteq L
       PROVE  Raise(b, list, best) >= 0 /\ r.pick = best
  <2>1. mu[L] >= 0
    BY <1>3, <1>4, <1>10
  <2>2. mu[L] + W >= 0
    BY <1>4, <1>9, <2>1
  <2> QED
    BY <1>4, <1>5, <2>2
<1>11. Balanced(c, k, s)
  <2>1. PICK nu : /\ Measure(nu, Currents(c, M), M)
                  /\ \A T \in Fin(M) : L \subseteq T =>
                        /\ mu[T] \in Int
                        /\ nu[T] = mu[T] + IF Raise(b, list, best) >= 0 THEN 0 ELSE W
    BY <1>4
  <2>2. ASSUME NEW T \in Fin(M), Given(k, s) \subseteq T
        PROVE  nu[T] >= 0 /\ (Even(k, s) => nu[T] = 0)
    <3>1. L \subseteq T /\ Given(l, s) \subseteq T
      BY <1>7, <2>2
    <3>2. mu[T] >= 0 /\ mu[T] \in Int
      BY <1>3, <2>1, <3>1
    <3>3. nu[T] = mu[T] + IF Raise(b, list, best) >= 0 THEN 0 ELSE W
      BY <2>1, <3>1
    <3>4. nu[T] >= 0
      BY <1>4, <3>2, <3>3
    <3>5. ASSUME Even(k, s)
          PROVE  nu[T] = 0
      <4>1. Even(l, s) /\ Raise(b, list, best) >= 0
        BY <1>8, <1>10, <3>5
      <4>2. mu[T] = 0
        BY <1>3, <3>1, <4>1
      <4> QED
        BY <3>3, <4>1, <4>2
    <3> QED
      BY <3>4, <3>5
  <2> QED
    BY <2>1, <2>2 DEF Balanced, M
<1>12. Fresh(c, k, s)
  BY <1>1 DEF Fresh
<1>13. Excused(k, q, s)
  <2>1. ASSUME r.pick = Nobody
        PROVE  \E m \in CallsOf(l, s) : ~(ToSet(l[m]) \subseteq L)
    <3>1. ~(Given(l, s) \subseteq L)
      BY <1>5, <1>6, <1>10, <2>1
    <3> QED
      BY <3>1 DEF Given
  <2>2. \A m \in CallsOf(l, s) : m < N + 1
    BY <1>1
  <2>3. ASSUME NEW n \in CallsOf(k, s), q[n] = Nobody
        PROVE  \E m \in CallsOf(k, s) : m < n /\ ~(ToSet(k[m]) \subseteq ToSet(k[n]))
    <3>1. CASE n \in CallsOf(l, s)
      <4>1. PICK m \in CallsOf(l, s) : m < n /\ ~(ToSet(l[m]) \subseteq ToSet(l[n]))
        BY <1>1, <2>3, <3>1 DEF ServiceInv, Excused
      <4> QED
        BY <1>1, <3>1, <4>1
    <3>2. CASE n = N + 1
      <4>1. PICK m \in CallsOf(l, s) : ~(ToSet(l[m]) \subseteq L)
        BY <1>1, <2>1, <2>3, <3>2
      <4> QED
        BY <1>1, <2>2, <3>2, <4>1 DEF L
    <3> QED
      BY <1>1, <3>1, <3>2
  <2> QED
    BY <2>3 DEF Excused
<1>14. ASSUME Even(k, s)
       PROVE  Timely(k, q, s) /\ FirstRound(k, q, s) /\ Owed(c, k, q, s)
  <2> DEFINE T == Turns(l, s, 1, N)
             w(x) == Wins(l, p, s, x, 1, N)
             z(x) == Wins(k, q, s, x, 1, N + 1)
  <2>1. /\ T \in Nat /\ \A x : w(x) \in Nat
        /\ Turns(k, s, 1, N + 1) = T + 1
        /\ \A x : z(x) = w(x) + IF r.pick = x THEN 1 ELSE 0
        /\ \A x : Wins(k, q, s, x, 1, N) = w(x)
        /\ \A n \in 1..N : /\ Turns(k, s, 1, n) = Turns(l, s, 1, n)
                           /\ \A x : Wins(k, q, s, x, 1, n) = Wins(l, p, s, x, 1, n)
    BY <1>1 DEF Grows, N
  <2>2. /\ Even(l, s) /\ \A n \in CallsOf(k, s) : k[n] = list
        /\ \A n \in CallsOf(l, s) : l[n] = list
        /\ Given(l, s) \subseteq L
    BY <1>8, <1>14
  <2>3. Raise(b, list, best) >= 0 /\ r.pick = best
    BY <1>10, <2>2
  <2>4. Timely(l, p, s) /\ FirstRound(l, p, s) /\ Owed(b, l, p, s)
    BY <2>2 DEF ServiceInv
  <2> HIDE DEF T, w, z
  <2>5. mu[L] = 0
    BY <1>3, <1>4, <2>2
  <2>6. W > 0 => Raise(b, list, best) > 0
    BY <1>4, <2>5
  <2>7. ASSUME NEW x \in L
        PROVE  /\ Current(b, x) = Times(T, Weight[x]) - Times(W, w(x))
               /\ Current(b, x) > -W \/ W = 0
    <3>1. CASE CallsOf(l, s) = {}
      <4>1. Current(b, x) = 0
        BY <1>2, <3>1 DEF ServiceInv, Fresh, M
      <4>2. T = 0 /\ w(x) = 0
        <5>1. \A n \in 1..N : ~Asks(l, s)[n] /\ ~Takes(l, p, s, x)[n]
          BY <3>1 DEF Asks, Takes, CallsOf, N
        <5> QED
          BY <1>1, <5>1, CountNone DEF T, w, Turns, Wins
      <4>3. Times(0, Weight[x]) = 0 /\ Times(W, 0) = 0
        BY <1>4, <1>6, TimesUnits
      <4> QED
        BY <1>4, <4>1, <4>2, <4>3
    <3>2. CASE CallsOf(l, s) # {}
      <4>1. PICK n \in CallsOf(l, s) : l[n] = list
        BY <2>2, <3>2
      <4>2. x \in ToSet(l[n])
        BY <4>1 DEF L
      <4> QED
        BY <2>4, <4>1, <4>2 DEF Owed, T, w, W, N
    <3> QED
      BY <3>1, <3>2
  <2>8. ASSUME NEW x \in L
        PROVE  /\ Raise(b, list, x) = Times(T + 1, Weight[x]) - Times(W, w(x))
               /\ Current(c, x) = Times(T + 1, Weight[x]) - Times(W, z(x))
               /\ Current(c, x) > -W \/ W = 0
               /\ Current(c, x) \in Int
    <3> DEFINE e == Weight[x]
               d == IF r.pick = x THEN 1 ELSE 0
    <3>1. e \in Nat /\ d \in Int /\ T \in Int /\ w(x) \in Int /\ W \in Int /\ x \in Taken
      BY <1>4, <1>6, <2>1
    <3>2. z(x) = w(x) + d
      BY <2>1
    <3>3. Raise(b, list, x) = Current(b, x) + e
      BY DEF Raise, L
    <3>4. Current(c, x) = Raise(b, list, x) - IF x = best THEN W ELSE 0
      BY <1>5, <2>3, <3>1
    <3>5. d = IF x = best THEN 1 ELSE 0
      BY <2>3
    <3> HIDE DEF e, d
    <3>6. /\ Times(T + 1, e) = Times(T, e) + e
          /\ Times(W, w(x) + d) = Times(W, w(x)) + Times(W, d)
          /\ Times(W, 1) = W /\ Times(W, 0) = 0
          /\ Times(T, e) \in Int /\ Times(W, w(x)) \in Int
      <4>1. 1 \in Int /\ e \in Int
        BY <3>1
      <4>2. Times(T + 1, e) = Times(T, e) + Times(1, e)
        BY <3>1, <4>1, TimesPlus
      <4>3. Times(1, e) = e /\ Times(T, e) \in Int
        BY <3>1, <4>1, TimesUnits, TimesType
      <4> DEFINE g == w(x)
      <4>4. g \in Int
        BY <3>1
      <4> HIDE DEF g
      <4>5. Times(W, g + d) = Times(W, g) + Times(W, d)
        BY <3>1, <4>4, TimesPlus
      <4>6. Times(W, g) \in Int
        BY <3>1, <4>4, TimesType
      <4>7. Times(W, 1) = W /\ Times(W, 0) = 0
        BY <3>1, TimesUnits
      <4> QED
        BY <4>2, <4>3, <4>5, <4>6, <4>7 DEF g
    <3>7. Current(b, x) = Times(T, e) - Times(W, w(x)) /\ (Current(b, x) > -W \/ W = 0)
      BY <2>7 DEF e
    <3>8. Times(W, d) = IF x = best THEN W ELSE 0
      BY <3>5, <3>6
    <3>9. Raise(b, list, x) = Times(T + 1, e) - Times(W, w(x))
      BY <3>1, <3>3, <3>6, <3>7
    <3>10. Raise(b, list, x) \in Int /\ Current(b, x) \in Int /\ Current(c, x) \in Int
      BY <1>5, <3>1
    <3>11. Current(c, x) = Times(T + 1, e) - Times(W, z(x))
      <4>1. Times(W, z(x)) = Times(W, w(x)) + Times(W, d)
        BY <3>2, <3>6
      <4> DEFINE fee == IF x = best THEN W ELSE 0
      <4>2. fee \in Int /\ Times(W, d) = fee /\ Current(c, x) = Raise(b, list, x) - fee
        BY <3>1, <3>4, <3>8
      <4>3. Times(T + 1, e) \in Int
        BY <3>1, <3>6
      <4> HIDE DEF fee
      <4> QED
        BY <3>6, <3>9, <4>1, <4>2, <4>3
    <3>12. Current(c, x) > -W \/ W = 0
      <4>1. CASE x = best
        BY <1>4, <2>6, <3>4, <3>10, <4>1
      <4>2. CASE x # best
        <5>1. Current(c, x) = Current(b, x) + e
          BY <3>3, <3>4, <3>10, <4>2
        <5> QED
          BY <3>1, <3>7, <3>10, <5>1
      <4> QED
        BY <4>1, <4>2
    <3> QED
      BY <3>9, <3>10, <3>11, <3>12 DEF e
  <2>9. Timely(k, q, s)
    <3>1. \A n \in 1..N : MostDue(k, q, s, n) = MostDue(l, p, s, n)
      BY DueAppend DEF N
    <3>2. \A n \in CallsOf(l, s) : q[n] = MostDue(k, q, s, n)
      BY <1>1, <2>4, <3>1 DEF Timely
    <3>3. \A x \in L : Due(k, q, s, N + 1, x) = Raise(b, list, x)
      <4>1. (N + 1) - 1 = N
        BY <1>1
      <4> QED
        BY <1>1, <2>1, <2>8, <4>1 DEF Due, W
    <3>4. MostDue(k, q, s, N + 1) = best
      <4> DEFINE A == {x \in L : \A y \in L : Due(k, q, s, N + 1, x) >= Due(k, q, s, N + 1, y)}
                 B == {x \in L : \A y \in L : Raise(b, list, x) >= Raise(b, list, y)}
      <4>1. A = B
        BY <3>3
      <4>2. MostDue(k, q, s, N + 1) = FirstOf(list, A) /\ best = FirstOf(list, B)
        BY <1>1 DEF MostDue, Best, L, best
      <4> HIDE DEF A, B
      <4> QED
        BY <4>1, <4>2
    <3> QED
      BY <1>1, <2>3, <3>2, <3>4 DEF Timely
  <2>10. FirstRound(k, q, s)
    <3>1. \A n \in CallsOf(l, s) : Turns(k, s, 1, n) = Total(k[n]) =>
             \A x \in ToSet(k[n]) : Wins(k, q, s, x, 1, n) = Weight[x]
      BY <1>1, <2>1, <2>4 DEF FirstRound
    <3>2. ASSUME T + 1 = W, NEW x \in L
          PROVE  z(x) = Weight[x]
      <4>1. W \in Nat \ {0}
        BY <1>4, <2>1, <3>2
      <4>2. \A y \in L : z(y) \in Int /\ Weight[y] \in Int
        BY <1>6, <2>1
      <4>3. ASSUME NEW y \in L
            PROVE  /\ Current(c, y) >= 0
                   /\ Current(c, y) = 0 => Weight[y] = z(y)
        <5>1. Current(c, y) = Times(W, Weight[y]) - Times(W, z(y)) /\ Current(c, y) > -W
          BY <2>8, <3>2, <4>1
        <5> DEFINE f == Weight[y]
                   g == z(y)
        <5>2. f \in Int /\ g \in Int
          BY <4>2
        <5> HIDE DEF f, g
        <5>3. /\ Times(W, f) - Times(W, g) > -W => Times(W, f) - Times(W, g) >= 0
              /\ Times(W, f) - Times(W, g) = 0 => f = g
          BY <4>1, <5>2, TimesOrder
        <5> QED
          BY <5>1, <5>3 DEF f, g
      <4>4. PICK nu : Measure(nu, Currents(c, M), M) /\ nu[L] = 0
        <5>1. PICK nu : /\ Measure(nu, Currents(c, M), M)
                        /\ \A S \in Fin(M) : L \subseteq S =>
                              /\ mu[S] \in Int
                              /\ nu[S] = mu[S] + IF Raise(b, list, best) >= 0 THEN 0 ELSE W
          BY <1>4
        <5>2. nu[L] = 0
          BY <1>4, <2>3, <2>5, <5>1
        <5> QED
          BY <5>1, <5>2
      <4>5. Currents(c, M) \in [M -> Int] /\ \A y \in L : Currents(c, M)[y] = Current(c, y)
        BY <1>2, <1>5 DEF Currents
      <4>6. \A y \in L : Currents(c, M)[y] >= 0
        BY <4>3, <4>5
      <4>7. \A y \in L : Currents(c, M)[y] = 0
        <5> DEFINE v == Currents(c, M)
        <5> HIDE DEF v
        <5>1. v \in [M -> Int] /\ Measure(nu, v, M) /\ \A y \in L : v[y] >= 0
          BY <4>4, <4>5, <4>6 DEF v
        <5>2. \A y \in L : v[y] = 0
          BY <1>4, <4>4, <5>1, MeasureTerms
        <5> QED
          BY <5>2 DEF v
      <4> QED
        BY <4>3, <4>5, <4>7
    <3> QED
      BY <1>1, <2>1, <3>1, <3>2 DEF FirstRound, L, W, z
  <2>11. Owed(c, k, q, s)
    BY <1>1, <2>1, <2>2, <2>8 DEF Owed, L, W, z
  <2> QED
    BY <2>9, <2>10, <2>11
<1> QED
  BY <1>11, <1>12, <1>13, <1>14 DEF ServiceInv, c

-----------------------------------------------------------------------------
\* Any stretch of as many calls as the instances weigh

LEMMA CountGap ==
    ASSUME NEW a \in Seq(BOOLEAN), NEW k \in Nat, NEW h \in 1..(k + 1), NEW m \in 1..Len(a), k < m,
           \A j \in (k + 1)..(m - 1) : ~a[j]
    PROVE  /\ Count(a, h, k) \in Nat /\ Count(a, h, m - 1) = Count(a, h, k)
           /\ Count(a, h, m) = Count(a, h, k) + IF a[m] THEN 1 ELSE 0
<1> DEFINE i == m - 1
<1>1. /\ i \in Nat /\ m \in Nat /\ k <= i /\ i <= m /\ h \in Nat /\ h <= k + 1 /\ h <= i + 1
      /\ k + 1 \in Nat /\ i + 1 = m
  OBVIOUS
<1>2. Count(a, k + 1, i) = 0
  <2>1. \A j \in (k + 1)..i : ~a[j]
    OBVIOUS
  <2> HIDE DEF i
  <2> QED
    BY <1>1, <2>1, CountNone
<1>3. Count(a, h, k) \in Nat
  BY <1>1, CountNat
<1> HIDE DEF i
<1>4. Count(a, h, i) = Count(a, h, k) + Count(a, k + 1, i)
  BY <1>1, CountSplit
<1>5. Count(a, h, m) = Count(a, h, i) + Count(a, i + 1, m)
  BY <1>1, CountSplit
<1>6. Count(a, m, m) = IF a[m] THEN 1 ELSE 0
  BY CountOne
<1>7. Count(a, h, i) = Count(a, h, k)
  BY <1>2, <1>3, <1>4
<1> QED
  BY <1>1, <1>3, <1>5, <1>6, <1>7 DEF i

\* The call after the k-th
Follows(l, s, k, m) ==
    /\ k \in CallsOf(l, s) /\ m \in CallsOf(l, s) /\ k < m
    /\ \A j \in CallsOf(l, s) : ~(k < j /\ j < m)

\* From k to the call after it
OneMoreCall(l, p, s, k, m, h) ==
    /\ Turns(l, s, h, k) \in Nat /\ Turns(l, s, h, m - 1) = Turns(l, s, h, k)
    /\ Turns(l, s, h, m) = Turns(l, s, h, k) + 1
    /\ \A x : /\ Wins(l, p, s, x, h, k) \in Nat
              /\ Wins(l, p, s, x, h, m - 1) = Wins(l, p, s, x, h, k)
              /\ Wins(l, p, s, x, h, m) = Wins(l, p, s, x, h, k) + IF p[m] = x THEN 1 ELSE 0

LEMMA CallsNext ==
    ASSUME NEW l \in Seq(AllLists), NEW p, NEW s, NEW k, NEW m, Follows(l, s, k, m), NEW h \in 1..k
    PROVE  OneMoreCall(l, p, s, k, m, h)
<1>1. /\ k \in 1..Len(l) /\ m \in 1..Len(l) /\ Len(l) \in Nat /\ k < m /\ m \in CallsOf(l, s)
      /\ \A j \in (k + 1)..(m - 1) : j \in 1..Len(l) /\ j \notin CallsOf(l, s)
  BY DEF Follows, CallsOf
<1>2. k \in Nat /\ h \in 1..(k + 1)
  BY <1>1
<1>3. /\ Turns(l, s, h, k) \in Nat /\ Turns(l, s, h, m - 1) = Turns(l, s, h, k)
      /\ Turns(l, s, h, m) = Turns(l, s, h, k) + 1
  <2> DEFINE a == Asks(l, s)
  <2>1. a \in Seq(BOOLEAN) /\ Len(a) = Len(l) /\ \A n \in 1..Len(l) : (a[n] <=> n \in CallsOf(l, s))
    BY HistoryType
  <2> HIDE DEF a
  <2>2. m \in 1..Len(a) /\ a[m] /\ \A j \in (k + 1)..(m - 1) : ~a[j]
    BY <1>1, <2>1
  <2>3. /\ Count(a, h, k) \in Nat /\ Count(a, h, m - 1) = Count(a, h, k)
        /\ Count(a, h, m) = Count(a, h, k) + IF a[m] THEN 1 ELSE 0
    BY <1>1, <1>2, <2>1, <2>2, CountGap
  <2> QED
    BY <2>2, <2>3 DEF Turns, a
<1>4. ASSUME NEW x
      PROVE  /\ Wins(l, p, s, x, h, k) \in Nat
             /\ Wins(l, p, s, x, h, m - 1) = Wins(l, p, s, x, h, k)
             /\ Wins(l, p, s, x, h, m) = Wins(l, p, s, x, h, k) + IF p[m] = x THEN 1 ELSE 0
  <2> DEFINE a == Takes(l, p, s, x)
  <2>1. a \in Seq(BOOLEAN) /\ Len(a) = Len(l)
        /\ \A n \in 1..Len(l) : (a[n] <=> n \in CallsOf(l, s) /\ p[n] = x)
    BY HistoryType
  <2> HIDE DEF a
  <2>2. m \in 1..Len(a) /\ (a[m] <=> p[m] = x) /\ \A j \in (k + 1)..(m - 1) : ~a[j]
    BY <1>1, <2>1
  <2>3. /\ Count(a, h, k) \in Nat /\ Count(a, h, m - 1) = Count(a, h, k)
        /\ Count(a, h, m) = Count(a, h, k) + IF a[m] THEN 1 ELSE 0
    BY <1>1, <1>2, <2>1, <2>2, CountGap
  <2> QED
    BY <2>2, <2>3 DEF Wins, a
<1> QED
  BY <1>3, <1>4 DEF OneMoreCall

\* A stretch is its beginning and its rest
Splits(l, p, s, h, k, n) ==
    /\ Turns(l, s, h, n) = Turns(l, s, h, k - 1) + Turns(l, s, k, n)
    /\ Turns(l, s, k, n) \in Nat /\ Turns(l, s, h, k - 1) \in Nat
    /\ \A x : /\ Wins(l, p, s, x, h, n) = Wins(l, p, s, x, h, k - 1) + Wins(l, p, s, x, k, n)
              /\ Wins(l, p, s, x, k, n) \in Nat /\ Wins(l, p, s, x, h, k - 1) \in Nat

LEMMA CallsSplit ==
    ASSUME NEW l \in Seq(AllLists), NEW p, NEW s, NEW h \in Nat \ {0}, NEW k \in Nat, NEW n \in Nat,
           h <= k, k <= n
    PROVE  Splits(l, p, s, h, k, n)
<1>1. ASSUME NEW a \in Seq(BOOLEAN)
      PROVE  /\ Count(a, h, n) = Count(a, h, k - 1) + Count(a, k, n)
             /\ Count(a, k, n) \in Nat /\ Count(a, h, k - 1) \in Nat
  <2> DEFINE i == k - 1
  <2>1. i \in Nat /\ h <= i + 1 /\ i <= n /\ i + 1 = k
    OBVIOUS
  <2> HIDE DEF i
  <2>2. Count(a, h, n) = Count(a, h, i) + Count(a, i + 1, n)
    BY <2>1, CountSplit
  <2>3. Count(a, h, i) \in Nat /\ Count(a, k, n) \in Nat
    BY <2>1, CountNat
  <2> QED
    BY <2>1, <2>2, <2>3 DEF i
<1>2. Asks(l, s) \in Seq(BOOLEAN) /\ \A x : Takes(l, p, s, x) \in Seq(BOOLEAN)
  BY HistoryType
<1> QED
  BY <1>1, <1>2 DEF Turns, Wins, Splits

Alone(l, p, s, k) ==
    /\ Turns(l, s, k, k) = 1
    /\ \A x : Wins(l, p, s, x, k, k) = IF p[k] = x THEN 1 ELSE 0

LEMMA CallAlone ==
    ASSUME NEW l \in Seq(AllLists), NEW p, NEW s, NEW k \in CallsOf(l, s)
    PROVE  Alone(l, p, s, k)
<1>1. k \in 1..Len(l)
  BY DEF CallsOf
<1>2. /\ Asks(l, s) \in Seq(BOOLEAN) /\ Len(Asks(l, s)) = Len(l) /\ Asks(l, s)[k]
      /\ \A x : /\ Takes(l, p, s, x) \in Seq(BOOLEAN) /\ Len(Takes(l, p, s, x)) = Len(l)
                /\ (Takes(l, p, s, x)[k] <=> p[k] = x)
  BY <1>1, HistoryType
<1>3. \A a \in Seq(BOOLEAN) : Len(a) = Len(l) => Count(a, k, k) = IF a[k] THEN 1 ELSE 0
  BY <1>1, CountOne
<1>4. Turns(l, s, k, k) = 1
  BY <1>2, <1>3 DEF Turns
<1>5. \A x : Wins(l, p, s, x, k, k) = IF p[k] = x THEN 1 ELSE 0
  BY <1>2, <1>3 DEF Wins
<1> QED
  BY <1>4, <1>5 DEF Alone

LEMMA LastCallBefore ==
    ASSUME NEW l \in Seq(AllLists), NEW s, NEW m \in CallsOf(l, s),
           NEW j \in CallsOf(l, s), j < m
    PROVE  \E k \in CallsOf(l, s) : Follows(l, s, k, m) /\ j <= k
<1> DEFINE S == {k \in CallsOf(l, s) : k < m}
<1>1. S \in SUBSET Nat /\ j \in S /\ m \in Nat /\ \A k \in S : k <= m
  BY DEF CallsOf
<1>2. S # {}
  BY <1>1
<1> HIDE DEF S
<1>3. PICK k \in S : \A i \in S : i <= k
  BY <1>1, <1>2, GreatestNatural
<1>4. k \in CallsOf(l, s) /\ k < m /\ j <= k /\ k \in Nat
  BY <1>1, <1>3 DEF S
<1>5. \A i \in CallsOf(l, s) : ~(k < i /\ i < m)
  <2>1. \A i \in CallsOf(l, s) : i < m => i \in Nat /\ i <= k
    BY <1>1, <1>3 DEF S
  <2> QED
    BY <1>4, <2>1
<1> QED
  BY <1>4, <1>5 DEF Follows

(* Once the first round gave everybody his share, the turns repeat: who is *)
(* due at a call is who was due a round before.                            *)
LEMMA RoundsRepeat ==
    ASSUME NEW l \in Seq(AllLists), NEW p, NEW s, Even(l, s), Timely(l, p, s), FirstRound(l, p, s)
    PROVE  \A m, n \in CallsOf(l, s) :
              Turns(l, s, m, n) = Total(l[n]) =>
                  \A x \in ToSet(l[n]) : Wins(l, p, s, x, m, n) = Weight[x]
<1> DEFINE Mine == CallsOf(l, s)
           Good(n) == \A m \in Mine : Turns(l, s, m, n) = Total(l[n]) =>
                          \A x \in ToSet(l[n]) : Wins(l, p, s, x, m, n) = Weight[x]
           Bad == {n \in Mine : ~Good(n)}
<1>1. Mine \subseteq 1..Len(l) /\ Len(l) \in Nat /\ \A n \in Mine : n \in Nat \ {0} /\ n \in 1..Len(l)
  BY DEF CallsOf
<1>2. \A n \in Mine : l[n] \in AllLists
  BY <1>1
<1>3. \A i, j \in Mine : l[i] = l[j]
  BY DEF Even
<1>4. \A n \in Mine : Total(l[n]) \in Nat /\ \A x \in ToSet(l[n]) : x \in Taken /\ Weight[x] \in Nat
  <2> SUFFICES ASSUME NEW n \in Mine
               PROVE  Total(l[n]) \in Nat /\ \A x \in ToSet(l[n]) : x \in Taken /\ Weight[x] \in Nat
    OBVIOUS
  <2> DEFINE list == l[n]
  <2>1. list \in AllLists
    BY <1>2
  <2> HIDE DEF list
  <2>2. Total(list) \in Nat /\ ToSet(list) \in SUBSET Taken
    BY <2>1, TotalType
  <2>3. \A x \in ToSet(list) : x \in Taken /\ Weight[x] \in Nat
    BY <2>2, WeightType
  <2> QED
    BY <2>2, <2>3 DEF list
<1>5. ASSUME Bad # {}
      PROVE  FALSE
  <2>1. PICK n \in Bad : \A i \in Bad : n <= i
    <3>1. Bad \in SUBSET Nat
      BY <1>1
    <3> HIDE DEF Bad
    <3> QED
      BY <1>5, <3>1, LeastNatural
  <2>2. n \in Mine /\ ~Good(n)
    BY <2>1
  <2>3. PICK m \in Mine, x \in ToSet(l[n]) :
           Turns(l, s, m, n) = Total(l[n]) /\ Wins(l, p, s, x, m, n) # Weight[x]
    BY <2>2
  <2> DEFINE W == Total(l[n])
  <2>4. W \in Nat /\ x \in Taken /\ Weight[x] \in Nat /\ m \in Nat \ {0} /\ n \in Nat \ {0}
    BY <1>1, <1>4, <2>2, <2>3
  <2> HIDE DEF Bad, Good, Mine, W
  <2>5. CASE m > n
    <3>1. \A j \in m..n : FALSE
      BY <2>4, <2>5
    <3>2. Turns(l, s, m, n) = 0 /\ Wins(l, p, s, x, m, n) = 0
      <4>1. \A a : Count(a, m, n) = 0
        BY <2>4, <3>1, CountNone
      <4> QED
        BY <4>1 DEF Turns, Wins
    <3>3. Weight[x] = 0
      <4> DEFINE list == l[n]
                 L == ToSet(list)
      <4>1. list \in AllLists /\ Total(list) = 0 /\ x \in L
        BY <1>2, <2>2, <2>3, <3>2
      <4>2. L \in Fin(L) /\ L \in SUBSET Taken
        <5> HIDE DEF list
        <5> QED
          BY <4>1, TotalType
      <4>3. PICK mu : Measure(mu, WeightIn(L), L)
        <5> HIDE DEF L
        <5> QED
          BY <4>2, WeightMeasure
      <4>4. Total(list) = mu[L]
        <5> HIDE DEF list
        <5>1. Weights(L) = mu[L]
          <6> HIDE DEF L
          <6> QED
            BY <4>2, <4>3, WeightsIsMeasure
        <5> QED
          BY <5>1 DEF Total
      <4>5. WeightIn(L) \in [L -> Int] /\ \A y \in L : WeightIn(L)[y] >= 0
        <5>1. \A y \in L : Weight[y] \in Nat
          BY <4>2, WeightType
        <5> HIDE DEF L
        <5> QED
          BY <5>1 DEF WeightIn
      <4>6. WeightIn(L)[x] = 0
        <5> DEFINE v == WeightIn(L)
        <5>1. v \in [L -> Int] /\ Measure(mu, v, L) /\ mu[L] = 0 /\ \A y \in L : v[y] >= 0
          BY <4>1, <4>3, <4>4, <4>5
        <5> HIDE DEF v, L, list
        <5>2. \A y \in L : v[y] = 0
          BY <4>2, <5>1, MeasureTerms
        <5> QED
          BY <4>1, <5>2 DEF v
      <4> QED
        BY <4>1, <4>6 DEF WeightIn
    <3> QED
      BY <2>3, <3>2, <3>3
  <2>6. CASE m <= n /\ \A j \in Mine : ~(j < m)
    <3>1. 1 \in Nat \ {0} /\ 1 <= m /\ m <= n
      BY <2>4, <2>6
    <3>2. /\ Turns(l, s, 1, n) = Turns(l, s, 1, m - 1) + Turns(l, s, m, n)
          /\ Turns(l, s, m, n) \in Nat /\ Turns(l, s, 1, m - 1) \in Nat
          /\ Wins(l, p, s, x, 1, n) = Wins(l, p, s, x, 1, m - 1) + Wins(l, p, s, x, m, n)
          /\ Wins(l, p, s, x, m, n) \in Nat /\ Wins(l, p, s, x, 1, m - 1) \in Nat
      <4>1. Splits(l, p, s, 1, m, n)
        BY <2>4, <3>1, CallsSplit
      <4> QED
        BY <4>1 DEF Splits
    <3>3. Turns(l, s, 1, m - 1) = 0 /\ Wins(l, p, s, x, 1, m - 1) = 0
      <4> DEFINE i == m - 1
      <4>1. i \in Nat /\ 1 \in Nat
        BY <2>4
      <4>2. \A j \in 1..i : j \in 1..Len(l) /\ j \notin Mine
        <5>1. m \in 1..Len(l)
          BY <1>1, <2>3
        <5> QED
          BY <1>1, <2>6, <5>1
      <4>3. \A j \in 1..i : ~Asks(l, s)[j] /\ ~Takes(l, p, s, x)[j]
        <5>1. \A j \in 1..Len(l) : (Asks(l, s)[j] <=> j \in CallsOf(l, s))
          BY HistoryType
        <5>2. \A j \in 1..Len(l) : (Takes(l, p, s, x)[j] <=> j \in CallsOf(l, s) /\ p[j] = x)
          BY HistoryType
        <5> HIDE DEF i
        <5> QED
          BY <4>2, <5>1, <5>2 DEF Mine
      <4> HIDE DEF i
      <4>4. Turns(l, s, 1, i) = 0
        BY <4>1, <4>3, CountNone DEF Turns
      <4>5. Wins(l, p, s, x, 1, i) = 0
        BY <4>1, <4>3, CountNone DEF Wins
      <4> QED
        BY <4>4, <4>5 DEF i
    <3>4. Turns(l, s, 1, n) = W /\ Wins(l, p, s, x, 1, n) = Wins(l, p, s, x, m, n)
      BY <2>3, <3>2, <3>3 DEF W
    <3>5. Wins(l, p, s, x, 1, n) = Weight[x]
      BY <2>2, <2>3, <3>4 DEF FirstRound, Mine, W
    <3> QED
      BY <2>3, <3>4, <3>5
  <2>7. CASE m <= n /\ \E j \in Mine : j < m
    <3>1. PICK i \in Mine : Follows(l, s, i, m)
      BY <2>3, <2>7, LastCallBefore DEF Mine
    <3>2. i < m /\ i < n /\ i \in Nat \ {0}
      BY <1>1, <2>4, <2>7, <3>1 DEF Follows
    <3>3. PICK k \in Mine : Follows(l, s, k, n) /\ i <= k
      BY <2>2, <3>1, <3>2, LastCallBefore DEF Mine
    <3>4. /\ k \in Nat \ {0} /\ k < n /\ i \in 1..k /\ 1 \in 1..k /\ 1 \in 1..i /\ i \in 1..i
      BY <1>1, <2>4, <3>2, <3>3 DEF Follows
    <3> DEFINE hit(j, y) == IF p[j] = y THEN 1 ELSE 0
    <3>5. ASSUME NEW y \in ToSet(l[n])
          PROVE  /\ Turns(l, s, i, k) = W
                 /\ Wins(l, p, s, y, i, k) \in Nat
                 /\ Turns(l, s, 1, n) = Turns(l, s, 1, i) + W
                 /\ Turns(l, s, 1, i) \in Nat
                 /\ Wins(l, p, s, y, 1, n - 1) = Wins(l, p, s, y, 1, i - 1) + Wins(l, p, s, y, i, k)
                 /\ Wins(l, p, s, y, 1, i - 1) \in Nat
                 /\ Wins(l, p, s, y, m, n) + hit(i, y) = Wins(l, p, s, y, i, k) + hit(n, y)
                 /\ Wins(l, p, s, y, m, n) \in Nat
      <4>1. /\ Turns(l, s, i, k) \in Nat
            /\ Turns(l, s, i, n) = Turns(l, s, i, k) + 1
            /\ Wins(l, p, s, y, i, k) \in Nat
            /\ Wins(l, p, s, y, i, n - 1) = Wins(l, p, s, y, i, k)
            /\ Wins(l, p, s, y, i, n) = Wins(l, p, s, y, i, k) + hit(n, y)
        <5>1. OneMoreCall(l, p, s, k, n, i)
          BY <3>3, <3>4, CallsNext
        <5> QED
          BY <5>1 DEF OneMoreCall
      <4>2. /\ Turns(l, s, i, m - 1) = 1
            /\ Wins(l, p, s, y, i, m - 1) = hit(i, y)
        <5>1. /\ Turns(l, s, i, m - 1) = Turns(l, s, i, i)
              /\ Wins(l, p, s, y, i, m - 1) = Wins(l, p, s, y, i, i)
          <6>1. OneMoreCall(l, p, s, i, m, i)
            BY <3>1, <3>4, CallsNext
          <6> QED
            BY <6>1 DEF OneMoreCall
        <5>2. Turns(l, s, i, i) = 1 /\ Wins(l, p, s, y, i, i) = hit(i, y)
          <6>1. Alone(l, p, s, i)
            BY <3>1, CallAlone DEF Mine
          <6> QED
            BY <6>1 DEF Alone
        <5> QED
          BY <5>1, <5>2
      <4>3. /\ Turns(l, s, i, n) = Turns(l, s, i, m - 1) + Turns(l, s, m, n)
            /\ Wins(l, p, s, y, i, n) = Wins(l, p, s, y, i, m - 1) + Wins(l, p, s, y, m, n)
            /\ Turns(l, s, m, n) \in Nat /\ Wins(l, p, s, y, m, n) \in Nat
        <5>1. i <= m
          BY <2>4, <3>2
        <5>2. Splits(l, p, s, i, m, n)
          BY <2>4, <2>7, <3>2, <5>1, CallsSplit
        <5> QED
          BY <5>2 DEF Splits
      <4>4. /\ Turns(l, s, 1, n) = Turns(l, s, 1, i - 1) + Turns(l, s, i, n)
            /\ Turns(l, s, 1, i - 1) \in Nat
        <5>1. i <= n /\ 1 <= i /\ 1 \in Nat \ {0}
          BY <2>4, <3>2
        <5>2. Splits(l, p, s, 1, i, n)
          BY <2>4, <3>2, <5>1, CallsSplit
        <5> QED
          BY <5>2 DEF Splits
      <4>5. Turns(l, s, 1, i) = Turns(l, s, 1, i - 1) + 1
        <5>1. i <= i /\ 1 <= i /\ 1 \in Nat \ {0}
          BY <3>2
        <5>2. Turns(l, s, 1, i) = Turns(l, s, 1, i - 1) + Turns(l, s, i, i)
          <6>1. Splits(l, p, s, 1, i, i)
            BY <3>2, <5>1, CallsSplit
          <6> QED
            BY <6>1 DEF Splits
        <5>3. Turns(l, s, i, i) = 1
          <6>1. Alone(l, p, s, i)
            BY <3>1, CallAlone DEF Mine
          <6> QED
            BY <6>1 DEF Alone
        <5> QED
          BY <5>2, <5>3
      <4>6. /\ Wins(l, p, s, y, 1, n - 1) = Wins(l, p, s, y, 1, i - 1) + Wins(l, p, s, y, i, n - 1)
            /\ Wins(l, p, s, y, 1, i - 1) \in Nat
        <5> DEFINE j == n - 1
        <5>1. i <= j /\ 1 <= i /\ 1 \in Nat \ {0} /\ j \in Nat
          BY <2>4, <3>2
        <5> HIDE DEF j
        <5>2. /\ Wins(l, p, s, y, 1, j) = Wins(l, p, s, y, 1, i - 1) + Wins(l, p, s, y, i, j)
              /\ Wins(l, p, s, y, 1, i - 1) \in Nat
          <6>1. Splits(l, p, s, 1, i, j)
            BY <3>2, <5>1, CallsSplit
          <6> QED
            BY <6>1 DEF Splits
        <5> QED
          BY <5>2 DEF j
      <4>7. Turns(l, s, m, n) = W
        BY <2>3 DEF W
      <4>8. hit(i, y) \in Nat /\ hit(n, y) \in Nat
        OBVIOUS
      <4> HIDE DEF hit
      <4>9. Turns(l, s, i, k) = W /\ Turns(l, s, 1, n) = Turns(l, s, 1, i) + W
        BY <4>1, <4>2, <4>3, <4>4, <4>5, <4>7
      <4>10. Wins(l, p, s, y, m, n) + hit(i, y) = Wins(l, p, s, y, i, k) + hit(n, y)
        BY <4>1, <4>2, <4>3, <4>8
      <4>11. Turns(l, s, 1, i) \in Nat
        BY <4>4, <4>5
      <4> QED
        BY <4>1, <4>3, <4>6, <4>9, <4>10, <4>11
    <3> HIDE DEF hit
    <3>6. l[k] = l[n] /\ l[i] = l[n]
      BY <1>3, <2>2, <3>1, <3>3
    <3>7. Good(k)
      <4>1. k \notin Bad
        BY <2>1, <2>4, <3>4
      <4> QED
        BY <3>3, <4>1 DEF Bad
    <3>8. \A y \in ToSet(l[n]) : Wins(l, p, s, y, i, k) = Weight[y]
      BY <3>1, <3>5, <3>6, <3>7 DEF Good, W
    <3>9. ASSUME NEW y \in ToSet(l[n])
          PROVE  Due(l, p, s, n, y) = Due(l, p, s, i, y)
      <4> DEFINE e == Weight[y]
                 T == Turns(l, s, 1, i)
                 g == Wins(l, p, s, y, 1, i - 1)
      <4>1. e \in Int /\ T \in Int /\ g \in Int /\ W \in Int
        <5>1. Weight[y] \in Nat
          BY <1>4, <2>2
        <5> QED
          BY <2>4, <3>5, <5>1, SMTT(30)
      <4>2. /\ Turns(l, s, 1, n) = T + W /\ Wins(l, p, s, y, 1, n - 1) = g + e
        BY <3>5, <3>8
      <4>3. /\ Due(l, p, s, n, y) = Times(T + W, e) - Times(W, g + e)
            /\ Due(l, p, s, i, y) = Times(T, e) - Times(W, g)
        BY <3>6, <4>2 DEF Due, W
      <4> HIDE DEF e, T, g
      <4>4. Times(T + W, e) = Times(T, e) + Times(W, e)
        BY <4>1, TimesPlus
      <4>5. Times(W, g + e) = Times(W, g) + Times(W, e)
        BY <4>1, TimesPlus
      <4>6. Times(T, e) \in Int /\ Times(W, g) \in Int /\ Times(W, e) \in Int
        BY <4>1, TimesType
      <4> QED
        BY <4>3, <4>4, <4>5, <4>6
    <3>10. p[n] = p[i]
      <4> DEFINE A == {y \in ToSet(l[n]) : \A z \in ToSet(l[n]) : Due(l, p, s, n, y) >= Due(l, p, s, n, z)}
                 B == {y \in ToSet(l[n]) : \A z \in ToSet(l[n]) : Due(l, p, s, i, y) >= Due(l, p, s, i, z)}
      <4>1. A = B
        BY <3>9
      <4>2. p[n] = FirstOf(l[n], A) /\ p[i] = FirstOf(l[n], B)
        BY <2>2, <3>1, <3>6 DEF Timely, MostDue, Mine
      <4> HIDE DEF A, B
      <4> QED
        BY <4>1, <4>2
    <3>11. Wins(l, p, s, x, m, n) + hit(i, x) = Weight[x] + hit(n, x) /\ hit(i, x) = hit(n, x)
      BY <3>5, <3>8, <3>10 DEF hit
    <3>12. hit(n, x) \in Nat /\ Wins(l, p, s, x, m, n) \in Nat
      BY <3>5 DEF hit
    <3>13. Wins(l, p, s, x, m, n) = Weight[x]
      BY <2>4, <3>11, <3>12
    <3> QED
      BY <2>3, <3>13
  <2> QED
    BY <2>4, <2>5, <2>6, <2>7
<1> QED
  BY <1>5

-----------------------------------------------------------------------------
\* Shares

\* What holds of the weighted balancer and its history
SharesInv ==
    LET b == balancers["weighted_round_robin"]
        p == picks["weighted_round_robin"]
    IN  /\ lists \in Seq(AllLists)
        /\ p \in Seq(Anybody) /\ Len(p) = Len(lists)
        /\ Weighted(b)
        /\ \A s \in DOMAIN ListsOf : ServiceInv(b, lists, p, s)

LEMMA NewShares ==
    /\ Weighted(New)
    /\ \A s \in DOMAIN ListsOf : ServiceInv(New, <<>>, <<>>, s)
<1>1. Weighted(New) /\ \A x : Current(New, x) = 0
  BY DEF Weighted, Balancer, New, Current
<1>2. ASSUME NEW s \in DOMAIN ListsOf
      PROVE  ServiceInv(New, <<>>, <<>>, s)
  <2>1. CallsOf(<<>>, s) = {}
    BY DEF CallsOf
  <2>2. Excused(<<>>, <<>>, s) /\ Timely(<<>>, <<>>, s) /\ FirstRound(<<>>, <<>>, s)
        /\ Owed(New, <<>>, <<>>, s)
    BY <2>1 DEF Excused, Timely, FirstRound, Owed
  <2>3. Fresh(New, <<>>, s)
    BY <1>1 DEF Fresh
  <2>4. Balanced(New, <<>>, s)
    <3> DEFINE M == Members(s)
               mu == [T \in Fin(M) |-> 0]
               v == Currents(New, M)
    <3>1. \A x \in M : v[x] = 0
      BY <1>1 DEF Currents
    <3>2. mu \in [Fin(M) -> Int] /\ mu[{}] = 0
      BY EmptyFinite
    <3>3. \A T \in Fin(M) : \A x \in M \ T : mu[T \cup {x}] = mu[T] + v[x]
      <4> SUFFICES ASSUME NEW T \in Fin(M), NEW x \in M \ T
                   PROVE  mu[T \cup {x}] = mu[T] + v[x]
        OBVIOUS
      <4>1. T \cup {x} \in Fin(M)
        BY FinFacts
      <4> QED
        BY <3>1, <4>1
    <3>4. \A T \in Fin(M) : mu[T] = 0
      OBVIOUS
    <3> HIDE DEF mu, v, M
    <3>5. Measure(mu, v, M)
      BY <3>2, <3>3 DEF Measure
    <3> QED
      BY <3>4, <3>5 DEF Balanced, v, M
  <2> QED
    BY <2>2, <2>3, <2>4 DEF ServiceInv
<1> QED
  BY <1>1, <1>2

LEMMA SharesStep == SharesInv /\ [BalancerNext \/ BalancerRestart]_balancing => SharesInv'
<1> SUFFICES ASSUME SharesInv, [BalancerNext \/ BalancerRestart]_balancing
             PROVE  SharesInv'
  OBVIOUS
<1>1. ASSUME NEW service \in DOMAIN ListsOf, NEW list \in ListsOf[service], Turn(list)
      PROVE  SharesInv'
  <2> DEFINE b == balancers["weighted_round_robin"]
             p == picks["weighted_round_robin"]
             r == Select("weighted_round_robin", b, list)
             k == Append(lists, list)
             q == Append(p, r.pick)
             c == r.balancer
  <2>1. /\ balancers'["weighted_round_robin"] = c /\ picks'["weighted_round_robin"] = q
        /\ lists' = k
    BY <1>1 DEF Turn, Strategies
  <2>2. /\ lists \in Seq(AllLists) /\ p \in Seq(Anybody) /\ Len(p) = Len(lists)
        /\ Weighted(b) /\ \A s \in DOMAIN ListsOf : ServiceInv(b, lists, p, s)
    BY DEF SharesInv
  <2>3. list \in AllLists /\ ToSet(list) \subseteq Taken
    BY DEF AllLists, Taken
  <2> HIDE DEF b, p, r
  <2>4. /\ Weighted(c) /\ Best(b, list) \in ToSet(list)
        /\ r.pick = Best(b, list) \/ r.pick = Nobody
        /\ \A x \in Taken : x \notin ToSet(list) => Current(c, x) = Current(b, x)
    <3>1. /\ Weighted(c)
          /\ Best(b, list) \in ToSet(list)
          /\ Raise(b, list, Best(b, list)) >= 0 =>
                /\ r.pick = Best(b, list)
                /\ \A x \in Taken : Current(c, x) =
                      Raise(b, list, x) - IF x = Best(b, list) THEN Total(list) ELSE 0
          /\ ~(Raise(b, list, Best(b, list)) >= 0) =>
                /\ r.pick = Nobody
                /\ \A x \in Taken : Current(c, x) = Raise(b, list, x)
          /\ \A x \in Taken : Current(b, x) \in Int /\ Current(c, x) \in Int
                                 /\ Raise(b, list, x) \in Int
      BY <2>2, <2>3, WeightedTurns, ZenonT(60) DEF r
    <3>2. ASSUME NEW x \in Taken, x \notin ToSet(list)
          PROVE  Current(c, x) = Current(b, x)
      <4>1. Raise(b, list, x) = Current(b, x) + 0 /\ Current(b, x) \in Int
        BY <3>1, <3>2 DEF Raise
      <4>2. x # Best(b, list)
        BY <3>1, <3>2
      <4>3. Current(c, x) = Raise(b, list, x) \/ Current(c, x) = Raise(b, list, x) - 0
        BY <3>1, <4>2
      <4> QED
        BY <4>1, <4>3
    <3> QED
      BY <3>1, <3>2
  <2>5. r.pick \in Anybody
    BY <2>3, <2>4 DEF Anybody
  <2>6. ASSUME NEW s \in DOMAIN ListsOf
        PROVE  Grows(lists, p, s, list, r.pick, k, q)
    <3> DEFINE pick == r.pick
    <3>1. pick \in Anybody
      BY <2>5
    <3> HIDE DEF pick
    <3>2. Grows(lists, p, s, list, pick, Append(lists, list), Append(p, pick))
      BY <2>2, <2>3, <3>1, HistoryAppend
    <3> QED
      BY <3>2 DEF pick
  <2> HIDE DEF k, q
  <2>7. k \in Seq(AllLists) /\ q \in Seq(Anybody) /\ Len(q) = Len(k)
    BY <1>1, <2>6 DEF Grows
  <2>8. ASSUME NEW s \in DOMAIN ListsOf
        PROVE  ServiceInv(c, k, q, s)
    <3>1. CASE list \in ListsOf[s]
      BY <2>2, <2>6, <3>1, OwnTurnKeeps DEF r
    <3>2. CASE list \notin ListsOf[s]
      <4>1. \A second \in ListsOf[s] : ToSet(list) \cap ToSet(second) = {}
        BY <3>2, ServicesAssumption
      <4>2. \A x \in Members(s) : x \in Taken /\ x \notin ToSet(list)
        BY <4>1 DEF Members, Taken, AllLists
      <4>3. \A x \in Members(s) : Current(c, x) = Current(b, x)
        BY <2>4, <4>2
      <4> HIDE DEF c
      <4> QED
        BY <2>2, <2>6, <3>2, <4>3, ElsewhereKeeps
    <3> QED
      BY <3>1, <3>2
  <2> QED
    BY <2>1, <2>4, <2>7, <2>8 DEF SharesInv
<1>2. ASSUME BalancerRestart
      PROVE  SharesInv'
  <2>1. /\ balancers'["weighted_round_robin"] = New
        /\ picks'["weighted_round_robin"] = <<>> /\ lists' = <<>>
    BY <1>2 DEF BalancerRestart, Strategies
  <2> QED
    BY <2>1, NewShares DEF SharesInv
<1>3. ASSUME UNCHANGED balancing
      PROVE  SharesInv'
  BY <1>3 DEF balancing, SharesInv
<1>4. ASSUME BalancerNext
      PROVE  SharesInv'
  BY <1>1, <1>4 DEF BalancerNext
<1> QED
  BY <1>2, <1>3, <1>4

(* Of as many turns as the instances of a service weigh together each has  *)
(* as many as it weighs, whatever other services are asked for meanwhile,  *)
(* and only an instance that has left can take a turn away from all others *)
(* (WeightedRoundRobinStrategy.select).                                    *)
THEOREM EverybodyHasHisShare == BalancerSpec => []WeightsAreShares
<1>1. BalancerInit => SharesInv
  <2>1. ASSUME BalancerInit
        PROVE  /\ balancers["weighted_round_robin"] = New
               /\ picks["weighted_round_robin"] = <<>> /\ lists = <<>>
    BY <2>1 DEF BalancerInit, Strategies
  <2>2. \A S : <<>> \in Seq(S)
    OBVIOUS
  <2> QED
    BY <2>1, <2>2, NewShares, Zenon DEF SharesInv
<1>2. SharesInv => WeightsAreShares
  <2> DEFINE p == picks["weighted_round_robin"]
  <2> SUFFICES ASSUME SharesInv, NEW s \in DOMAIN ListsOf,
                      NEW m \in CallsFor(s), NEW n \in CallsFor(s)
               PROVE  /\ p[n] = Nobody => Left(s, n)
                      /\ Steady(s) /\ Cardinality(Stretch(s, m, n)) = Weights(ToSet(lists[n]))
                         => \A i \in ToSet(lists[n]) :
                               Cardinality({k \in Stretch(s, m, n) : p[k] = i}) = Weight[i]
    BY DEF WeightsAreShares
  <2>1. lists \in Seq(AllLists) /\ ServiceInv(balancers["weighted_round_robin"], lists, p, s)
    BY DEF SharesInv
  <2>2. CallsFor(s) = CallsOf(lists, s) /\ (Steady(s) <=> Even(lists, s))
    BY <2>1 DEF CallsFor, CallsOf, Steady, Even
  <2>3. p[n] = Nobody => Left(s, n)
    BY <2>1, <2>2 DEF ServiceInv, Excused, Left
  <2>4. m \in 1..Len(lists) /\ n \in 1..Len(lists) /\ m..n \subseteq 1..Len(lists)
    <3>1. m \in 1..Len(lists) /\ n \in 1..Len(lists)
      BY <2>2 DEF CallsOf
    <3> QED
      BY <3>1
  <2>5. Stretch(s, m, n) = {k \in m..n : Asks(lists, s)[k]}
    <3>1. \A k \in m..n : Asks(lists, s)[k] <=> k \in CallsOf(lists, s)
      BY <2>1, <2>4, HistoryType
    <3> QED
      BY <2>2, <3>1 DEF Stretch
  <2>6. ASSUME NEW i
        PROVE  {k \in Stretch(s, m, n) : p[k] = i} = {k \in m..n : Takes(lists, p, s, i)[k]}
    <3>1. \A k \in m..n : Takes(lists, p, s, i)[k] <=> k \in CallsOf(lists, s) /\ p[k] = i
      <4>1. \A k \in 1..Len(lists) :
               Takes(lists, p, s, i)[k] <=> k \in CallsOf(lists, s) /\ p[k] = i
        <5> HIDE DEF p
        <5> QED
          BY <2>1, HistoryType
      <4> QED
        BY <2>4, <4>1
    <3> QED
      BY <2>2, <3>1 DEF Stretch
  <2>7. ASSUME Steady(s), Cardinality(Stretch(s, m, n)) = Weights(ToSet(lists[n])),
               NEW i \in ToSet(lists[n])
        PROVE  Cardinality({k \in Stretch(s, m, n) : p[k] = i}) = Weight[i]
    <3>1. Even(lists, s) /\ Timely(lists, p, s) /\ FirstRound(lists, p, s)
      BY <2>1, <2>2, <2>7 DEF ServiceInv
    <3>2. Turns(lists, s, m, n) = Total(lists[n])
      BY <2>5, <2>7 DEF Turns, Count, Total
    <3>3. Wins(lists, p, s, i, m, n) = Weight[i]
      <4> HIDE DEF p
      <4>1. \A j, k \in CallsOf(lists, s) :
               Turns(lists, s, j, k) = Total(lists[k]) =>
                   \A x \in ToSet(lists[k]) : Wins(lists, p, s, x, j, k) = Weight[x]
        BY <2>1, <3>1, RoundsRepeat
      <4> QED
        BY <2>2, <3>2, <4>1
    <3> QED
      BY <2>6, <3>3 DEF Wins, Count
  <2> QED
    BY <2>3, <2>7
<1> QED
  BY <1>1, <1>2, SharesStep, PTL DEF BalancerSpec

-----------------------------------------------------------------------------
\* The discovery of instances

(* A list that is stored is one of the lists of instances.                 *)
LEMMA ListKeepsType ==
    ASSUME GatewayTypeOK, NEW s \in Services \cup {Summary},
           NEW of \in [Instances -> Statuses], List(s, of)
    PROVE  listing' \in [Services -> Lists \cup {NoList}]
<1>1. CASE s = Summary
  BY <1>1 DEF List, GatewayTypeOK
<1>2. CASE s # Summary
  <2>1. PICK list \in SetToSeqs(Healthy(s, of)) : listing' = [listing EXCEPT ![s] = list]
    BY <1>2 DEF List
  <2>2. Healthy(s, of) \in SUBSET Instances
    BY DEF Healthy
  <2> HIDE DEF Healthy
  <2>3. list \in Lists
    BY <2>2 DEF Lists
  <2> QED
    BY <2>1, <2>3 DEF GatewayTypeOK
<1> QED
  BY <1>1, <1>2

(* The stages of a request.                                                *)
LEMMA LookupTypes ==
    ASSUME GatewayTypeOK, NEW r \in Requests, lookup[r] # Idle
    PROVE  /\ lookup[r].service \in Services \cup {Summary}
           /\ At(r, "keys") => lookup[r].keys \in SUBSET Instances
           /\ At(r, "values") => lookup[r].values \in [Instances -> Statuses]
<1>1. lookup[r] \in Lookups
  BY DEF GatewayTypeOK
<1> QED
  BY <1>1 DEF Lookups, At

LEMMA GatewayStep == GatewayTypeOK /\ [GatewayNext]_finding => GatewayTypeOK'
<1> SUFFICES ASSUME GatewayTypeOK, [GatewayNext]_finding
             PROVE  GatewayTypeOK'
  OBVIOUS
<1> DEFINE Absent == [j \in Instances |-> "absent"]
<1>0. Absent \in [Instances -> Statuses]
  BY DEF Statuses
<1> HIDE DEF Absent
<1>1. ASSUME NEW j \in Instances, Change(j)
      PROVE  GatewayTypeOK'
  BY <1>1 DEF Change, GatewayTypeOK, caches
<1>2. ASSUME RedisFails \/ RedisRecovers
      PROVE  GatewayTypeOK'
  BY <1>2 DEF RedisFails, RedisRecovers, GatewayTypeOK, caches
<1>3. ASSUME Age \/ Clear
      PROVE  GatewayTypeOK'
  BY <1>3 DEF Age, Clear, GatewayTypeOK, world
<1>4. ASSUME Restart
      PROVE  GatewayTypeOK'
  BY <1>4, <1>0 DEF Restart, GatewayTypeOK, world, Absent
<1>5. ASSUME NEW r \in Requests, NEW s \in Services \cup {Summary}, FindInCache(r, s)
      PROVE  GatewayTypeOK'
  <2>1. listing' \in [Services -> Lists \cup {NoList}]
    BY <1>5, ListKeepsType DEF FindInCache, GatewayTypeOK
  <2> QED
    BY <1>5, <2>1 DEF FindInCache, GatewayTypeOK, world
<1>6. ASSUME NEW r \in Requests, NEW s \in Services \cup {Summary}, AskForKeys(r, s)
      PROVE  GatewayTypeOK'
  <2> DEFINE keys == {j \in Instances : entry[j] # "absent"}
             asked == IF keys = {} THEN Waiting(s, Absent)
                                   ELSE [service |-> s, stage |-> "keys", keys |-> keys]
  <2>1. asked \in Lookups
    BY <1>0 DEF Lookups, Waiting
  <2>2. lookup' = [lookup EXCEPT ![r] = asked] /\ UNCHANGED <<world, caches>>
    BY <1>6 DEF AskForKeys, Absent
  <2> HIDE DEF asked
  <2> QED
    BY <2>1, <2>2 DEF GatewayTypeOK, world, caches
<1>7. ASSUME NEW r \in Requests, NEW s \in Services \cup {Summary}, FindNothing(r, s)
      PROVE  GatewayTypeOK'
  <2>1. listing' \in [Services -> Lists \cup {NoList}]
    BY <1>7, <1>0, ListKeepsType DEF FindNothing, KeepNothing, Absent
  <2> QED
    BY <1>7, <2>1 DEF FindNothing, GatewayTypeOK, world
<1>8. ASSUME NEW r \in Requests, AskForValues(r)
      PROVE  GatewayTypeOK'
  <2> DEFINE values == [j \in Instances |-> IF j \in lookup[r].keys THEN entry[j] ELSE "absent"]
  <2>1. values \in [Instances -> Statuses]
    BY DEF GatewayTypeOK, Statuses
  <2>2. lookup[r].service \in Services \cup {Summary}
    BY <1>8, LookupTypes DEF AskForValues, At
  <2>3. /\ lookup' = [lookup EXCEPT ![r] = Waiting(lookup[r].service, values)]
        /\ UNCHANGED <<world, caches>>
    BY <1>8 DEF AskForValues
  <2> HIDE DEF values
  <2>4. Waiting(lookup[r].service, values) \in Lookups
    BY <2>1, <2>2 DEF Waiting, Lookups
  <2> QED
    BY <2>3, <2>4 DEF GatewayTypeOK, world, caches
<1>9. ASSUME NEW r \in Requests, Load(r)
      PROVE  GatewayTypeOK'
  <2>1. /\ lookup[r].service \in Services \cup {Summary}
        /\ lookup[r].values \in [Instances -> Statuses]
    BY <1>9, LookupTypes DEF Load, At
  <2>2. listing' \in [Services -> Lists \cup {NoList}]
    BY <1>9, <2>1, ListKeepsType DEF Load
  <2>3. Refreshed(lookup[r].values) \in [Instances -> Statuses]
    BY <2>1 DEF Refreshed, GatewayTypeOK
  <2> QED
    BY <1>9, <2>2, <2>3 DEF Load, GatewayTypeOK, world
<1>10. ASSUME NEW r \in Requests, LoseAnswer(r)
       PROVE  GatewayTypeOK'
  <2>1. lookup[r].service \in Services \cup {Summary}
    BY <1>10, LookupTypes DEF LoseAnswer
  <2>2. listing' \in [Services -> Lists \cup {NoList}]
    BY <1>10, <1>0, <2>1, ListKeepsType DEF LoseAnswer, KeepNothing, Absent
  <2> QED
    BY <1>10, <2>2 DEF LoseAnswer, GatewayTypeOK, world
<1>11. ASSUME UNCHANGED finding
       PROVE  GatewayTypeOK'
  BY <1>11 DEF finding, GatewayTypeOK
<1> QED
  BY <1>1, <1>2, <1>3, <1>4, <1>5, <1>6, <1>7, <1>8, <1>9, <1>10, <1>11 DEF GatewayNext

(* Whatever overlapping requests find, load and lose, both caches hold     *)
(* what they are made to hold and a request waits for what it asked for    *)
(* (APIGateway._discover_service_instances,                                *)
(* ServiceRegistry.discover_services, _load_services_from_redis).          *)
THEOREM GatewayTypes == GatewaySpec => []GatewayTypeOK
<1>1. GatewayInit => GatewayTypeOK
  BY DEF GatewayInit, GatewayTypeOK, Statuses
<1> QED
  BY <1>1, GatewayStep, PTL DEF GatewaySpec
=============================================================================
