-------------------------- MODULE HealthManagerProofs --------------------------
(***************************************************************************)
(* Proofs about HealthManager, for any set of instances, any set of        *)
(* callers and any thresholds: types, WritesBeforeThreshold and            *)
(* GoneStaysGone.                                                          *)
(***************************************************************************)
EXTENDS HealthManager, TLAPS

PositionsOfCheckers == {"checking", "reading", "writing"}

(* Where a checker is settled on a verdict its last checks agree with it,  *)
(* and it is about to write only a verdict it has not settled on.          *)
Settled(c) ==
    /\ c.failures >= UnhealthyThreshold => c.status = "unhealthy"
    /\ c.successes >= HealthyThreshold => c.status = "healthy" /\ c.failures = 0
    /\ c.pc # "checking" => c.status # Verdict(c)

IInv ==
    /\ TypeOK
    /\ \A i \in Instances : Monitored(i) => Settled(checkers[i])

-----------------------------------------------------------------------------
\* Checkers

\* A new checker has made no check and is settled on nothing
LEMMA NewCheckerSettled == NewChecker \in Checker /\ Settled(NewChecker)
BY ThresholdsAssumption DEF NewChecker, Checker, Verdicts, Settled

\* What the loop makes of the result of a check
Outcome(c, success) ==
    LET d == UpdateState(c, success) IN
    [d EXCEPT !.pc = IF d.status # Verdict(d) THEN "reading" ELSE "checking"]

\* After a check the checker is settled, whatever the result
LEMMA OutcomeSettled ==
    ASSUME NEW c \in Checker, NEW success \in BOOLEAN
    PROVE  Outcome(c, success) \in Checker /\ Settled(Outcome(c, success))
<1> DEFINE d == UpdateState(c, success)
<1>0. HealthyThreshold \in Nat \ {0} /\ UnhealthyThreshold \in Nat \ {0}
  BY ThresholdsAssumption
<1>1. d \in Checker
  <2> DEFINE n == IF c.successes < HealthyThreshold THEN c.successes + 1 ELSE c.successes
             k == IF c.failures < UnhealthyThreshold THEN c.failures + 1 ELSE c.failures
  <2>1. n \in 0..HealthyThreshold /\ k \in 0..UnhealthyThreshold
    BY <1>0 DEF Checker
  <2>2. 0 \in 0..HealthyThreshold /\ 0 \in 0..UnhealthyThreshold
    BY <1>0
  <2> HIDE DEF n, k
  <2>3. /\ [c EXCEPT !.successes = n, !.failures = 0,
                     !.status = IF n >= HealthyThreshold THEN "healthy" ELSE c.status] \in Checker
        /\ [c EXCEPT !.failures = k, !.successes = 0,
                     !.status = IF k >= UnhealthyThreshold THEN "unhealthy" ELSE c.status] \in Checker
    BY <2>1, <2>2 DEF Checker, Verdicts
  <2> QED
    BY <2>3 DEF UpdateState, n, k
<1>2. /\ d.failures >= UnhealthyThreshold => d.status = "unhealthy"
      /\ d.successes >= HealthyThreshold => d.status = "healthy" /\ d.failures = 0
  BY <1>0 DEF UpdateState, Checker, Verdicts
<1> HIDE DEF d
<1> DEFINE e == [d EXCEPT !.pc = IF d.status # Verdict(d) THEN "reading" ELSE "checking"]
<1>3. e \in Checker
  BY <1>1 DEF Checker
<1>4. /\ e.failures = d.failures /\ e.successes = d.successes /\ e.status = d.status
      /\ e.pc # "checking" => d.status # Verdict(d)
  BY <1>1 DEF Checker
<1>5. Settled(e)
  BY <1>2, <1>4 DEF Settled, Verdict
<1> QED
  BY <1>3, <1>5 DEF Outcome, d

\* A checker that goes back to checking, or on from reading to writing, stays settled
LEMMA MoveSettled ==
    ASSUME NEW c \in Checker, Settled(c), c.pc # "checking",
           NEW pc \in PositionsOfCheckers
    PROVE  [c EXCEPT !.pc = pc] \in Checker /\ Settled([c EXCEPT !.pc = pc])
BY DEF Checker, Settled, Verdict, PositionsOfCheckers

\* Changing one checker to a settled one, or removing any, keeps them all settled
CheckersOK ==
    /\ checkers \in [Instances -> {NoChecker} \cup Checker]
    /\ \A i \in Instances : Monitored(i) => Settled(checkers[i])

LEMMA ChangeOne ==
    ASSUME CheckersOK, NEW i \in Instances, NEW c \in Checker, Settled(c),
           checkers' = [checkers EXCEPT ![i] = c]
    PROVE  CheckersOK'
BY DEF CheckersOK, Monitored

\* The manager's round keeps, adds and removes checkers
LEMMA MonitorKeeps ==
    ASSUME CheckersOK, NEW found, Monitor(found),
           registry \in [Instances -> Statuses]
    PROVE  CheckersOK' /\ registry' \in [Instances -> Statuses]
<1>1. CheckersOK'
  <2>1. checkers' = [i \in Instances |->
            IF found[i] # "healthy" THEN NoChecker
            ELSE IF Monitored(i) THEN checkers[i] ELSE NewChecker]
    BY DEF Monitor
  <2>2. ASSUME NEW i \in Instances
        PROVE  /\ checkers'[i] \in {NoChecker} \cup Checker
               /\ checkers'[i] # NoChecker => Settled(checkers'[i])
    BY <2>1, NewCheckerSettled DEF CheckersOK, Monitored
  <2> QED
    BY <2>1, <2>2 DEF CheckersOK, Monitored
<1>2. registry' \in [Instances -> Statuses]
  <2>1. PICK sent : registry' = [i \in Instances |->
            IF i \in sent THEN Verdict(checkers[i]) ELSE registry[i]]
    BY DEF Monitor
  <2> QED
    BY <2>1 DEF Verdict, Statuses, Verdicts
<1> QED
  BY <1>1, <1>2

-----------------------------------------------------------------------------
\* The inductive invariant

LEMMA InitIInv == Init => IInv
BY DEF Init, IInv, TypeOK, Monitored, Statuses

\* Steps of an instance, its lease and the world do not touch the manager
LEMMA ClientKeepsIInv ==
    ASSUME IInv, NEW i \in Instances, Client(i) \/ Remove(i) \/ World(i)
    PROVE  IInv'
<1> USE DEF IInv, TypeOK, Monitored, Statuses, Verdicts, Idle, Ended, node, client, world
<1>1. CASE Register(i) BY <1>1 DEF Register
<1>2. CASE Deregister(i) BY <1>2 DEF Deregister, Stops
<1>3. CASE Die(i) BY <1>3 DEF Die, Stops
<1>4. CASE Expire(i) BY <1>4 DEF Expire, Ends
<1>5. CASE Lapse(i) BY <1>5 DEF Lapse, Ends
<1>6. CASE HeartbeatReads(i) BY <1>6 DEF HeartbeatReads
<1>7. CASE HeartbeatWrites(i) BY <1>7 DEF HeartbeatWrites
<1>8. CASE HeartbeatFails(i) BY <1>8 DEF HeartbeatFails
<1>9. CASE ReportReads(i) BY <1>9 DEF ReportReads
<1>10. CASE ReportWrites(i) BY <1>10 DEF ReportWrites
<1>11. CASE ReportFails(i) BY <1>11 DEF ReportFails
<1>12. CASE Remove(i) BY <1>12 DEF Remove
<1>13. CASE CallbacksChange(i) BY <1>13 DEF CallbacksChange
<1>14. CASE ReachabilityChanges(i) BY <1>14 DEF ReachabilityChanges
<1> QED
  BY <1>1, <1>2, <1>3, <1>4, <1>5, <1>6, <1>7, <1>8, <1>9, <1>10, <1>11,
     <1>12, <1>13, <1>14 DEF Client, World

\* What discover_services returns is a status of every instance
LEMMA MergedType ==
    ASSUME TypeOK, NEW found \in [Instances -> Statuses]
    PROVE  Merged(found) \in [Instances -> Statuses]
BY DEF TypeOK, Merged, Statuses

LEMMA DiscoveryKeepsIInv ==
    ASSUME IInv, Discovery \/ CacheAges \/ \E caller \in Callers : Lookup(caller)
    PROVE  IInv'
<1>s. TypeOK /\ CheckersOK /\ Discoverer \in Callers
  BY DiscovererAssumption DEF IInv, TypeOK, CheckersOK
<1>r. registry \in [Instances -> Statuses]
  BY <1>s DEF TypeOK
<1>m. ASSUME UNCHANGED <<client, world>>, CheckersOK',
             registry' \in [Instances -> Statuses],
             cache' \in [Instances -> Statuses], fresh' \in BOOLEAN,
             loading' \in [Callers -> {NotLoading} \cup [Instances -> Statuses]]
      PROVE  IInv'
  BY <1>s, <1>m DEF IInv, TypeOK, CheckersOK, client, world
<1>l. ASSUME NEW caller \in Callers, Loads(caller)
      PROVE  /\ loading' \in [Callers -> {NotLoading} \cup [Instances -> Statuses]]
             /\ cache' \in [Instances -> Statuses]
             /\ fresh' \in BOOLEAN
  <2>1. loading[caller] \in [Instances -> Statuses]
    BY <1>s, <1>l DEF Loads, TypeOK
  <2> QED
    BY <1>s, <1>l, <2>1, MergedType DEF Loads, TypeOK
<1>1. ASSUME NEW caller \in Callers, LoadReads(caller) PROVE IInv'
  BY <1>s, <1>1, <1>m DEF LoadReads, TypeOK, CheckersOK, Monitored
<1>2. CASE DiscoverLoads
  BY <1>s, <1>r, <1>2, <1>m, <1>l, MonitorKeeps DEF DiscoverLoads
<1>3. CASE DiscoverCached
  BY <1>s, <1>r, <1>3, <1>m, MonitorKeeps DEF DiscoverCached, TypeOK
<1>4. CASE DiscoverFails
  BY <1>s, <1>r, <1>4, <1>m, MonitorKeeps DEF DiscoverFails, TypeOK
<1>5. ASSUME NEW caller \in Callers, LookupLoads(caller) PROVE IInv'
  BY <1>s, <1>r, <1>5, <1>m, <1>l DEF LookupLoads, CheckersOK, Monitored
<1>6. CASE CacheAges
  BY <1>s, <1>r, <1>6, <1>m DEF CacheAges, TypeOK, CheckersOK, Monitored
<1> QED
  BY <1>s, <1>1, <1>2, <1>3, <1>4, <1>5, <1>6 DEF Discovery, Lookup

LEMMA ManagerKeepsIInv ==
    ASSUME IInv, NEW i \in Instances, Manager(i)
    PROVE  IInv'
<1>s. TypeOK /\ CheckersOK
  BY DEF IInv, TypeOK, CheckersOK
<1>c. ASSUME Monitored(i) PROVE checkers[i] \in Checker /\ Settled(checkers[i])
  BY <1>s, <1>c DEF CheckersOK, Monitored
<1>m. ASSUME UNCHANGED <<fresh, loading, client, world>>, CheckersOK',
             registry' \in [Instances -> Statuses],
             cache' \in [Instances -> Statuses]
      PROVE  IInv'
  BY <1>s, <1>m DEF IInv, TypeOK, CheckersOK, client, world
<1>v. ASSUME NEW c PROVE Verdict(c) \in Statuses
  BY DEF Verdict, Statuses, Verdicts
<1>1. CASE Check(i)
  <2>1. checkers[i] \in Checker
    BY <1>1, <1>c DEF Check, CheckerAt
  <2>2. PICK success \in {FALSE, alive[i] /\ reachable[i]} :
            checkers' = [checkers EXCEPT ![i] = Outcome(checkers[i], success)]
    BY <1>1 DEF Check, Outcome
  <2>3. success \in BOOLEAN
    BY <2>2
  <2>4. CheckersOK'
    BY <1>s, <2>1, <2>2, <2>3, OutcomeSettled, ChangeOne
  <2> QED
    BY <1>1, <1>s, <2>4, <1>m DEF Check, TypeOK
<1>p. ASSUME NEW pc \in PositionsOfCheckers, CheckerMoves(i, pc),
             CheckerAt(i, "reading") \/ CheckerAt(i, "writing")
      PROVE  CheckersOK'
  <2>1. checkers[i] \in Checker /\ Settled(checkers[i]) /\ checkers[i].pc # "checking"
    BY <1>p, <1>c DEF CheckerAt
  <2> QED
    BY <1>s, <1>p, <2>1, MoveSettled, ChangeOne DEF CheckerMoves
<1>2. CASE UpdateReads(i)
  BY <1>2, <1>s, <1>p, <1>m DEF UpdateReads, PositionsOfCheckers, TypeOK
<1>3. CASE UpdateWrites(i)
  BY <1>3, <1>s, <1>p, <1>m, <1>v DEF UpdateWrites, PositionsOfCheckers, TypeOK
<1>4. CASE UpdateFails(i)
  BY <1>4, <1>s, <1>p, <1>m DEF UpdateFails, PositionsOfCheckers, TypeOK
<1>5. CASE Configure(i)
  <2>1. CheckersOK'
    BY <1>s, <1>5, NewCheckerSettled, ChangeOne DEF Configure
  <2> QED
    BY <1>5, <1>s, <2>1, <1>m, <1>v DEF Configure, TypeOK
<1> QED
  BY <1>1, <1>2, <1>3, <1>4, <1>5 DEF Manager

LEMMA NextIInv == IInv /\ [Next]_vars => IInv'
<1> SUFFICES ASSUME IInv, [Next]_vars PROVE IInv'
  OBVIOUS
<1>1. CASE UNCHANGED vars
  BY <1>1 DEF IInv, TypeOK, Monitored, vars
<1> QED
  BY <1>1, ClientKeepsIInv, DiscoveryKeepsIInv, ManagerKeepsIInv DEF Next

LEMMA Invariance == Spec => []IInv
BY InitIInv, NextIInv, PTL DEF Spec

\* Types, for any instances, callers and thresholds
THEOREM TypeCorrect == Spec => []TypeOK
<1>1. IInv => TypeOK
  BY DEF IInv
<1> QED
  BY <1>1, Invariance, PTL

(* The manager writes only verdicts it has not settled on (_health_check_  *)
(* loop compares a result with the status that result has just changed),   *)
(* whatever the thresholds are.                                            *)
THEOREM WritesBeforeThresholdCorrect == Spec => []WritesBeforeThreshold
<1>1. IInv => WritesBeforeThreshold
  <2> SUFFICES ASSUME IInv, NEW i \in Instances,
                      CheckerAt(i, "reading") \/ CheckerAt(i, "writing")
               PROVE  /\ checkers[i].failures < UnhealthyThreshold
                      /\ checkers[i].successes < HealthyThreshold
    BY DEF WritesBeforeThreshold
  <2> DEFINE c == checkers[i]
  <2>1. c \in Checker /\ Settled(c) /\ c.pc # "checking"
    BY DEF IInv, TypeOK, CheckerAt, Monitored
  <2>2. c.failures \in Nat /\ c.successes \in Nat
    BY <2>1 DEF Checker
  <2>3. HealthyThreshold \in Nat \ {0} /\ UnhealthyThreshold \in Nat \ {0}
    BY ThresholdsAssumption
  <2> HIDE DEF c
  <2>4. ~(c.failures >= UnhealthyThreshold)
    BY <2>1, <2>2, <2>3 DEF Settled, Verdict
  <2>5. ~(c.successes >= HealthyThreshold)
    BY <2>1, <2>2, <2>3 DEF Settled, Verdict
  <2> QED
    BY <2>2, <2>3, <2>4, <2>5 DEF c
<1> QED
  BY <1>1, Invariance, PTL

-----------------------------------------------------------------------------
\* An entry that has gone

\* A round of the manager does not write an entry nobody is about to write
LEMMA MonitorKeepsGone ==
    ASSUME TypeOK, NEW found, Monitor(found), NEW i \in Instances,
           registry[i] = "absent", ~CheckerAt(i, "writing")
    PROVE  registry'[i] = "absent" /\ ~CheckerAt(i, "writing")'
<1>1. PICK sent \in SUBSET {j \in Instances : CheckerAt(j, "writing") /\ found[j] # "healthy"} :
        registry' = [j \in Instances |->
            IF j \in sent THEN Verdict(checkers[j]) ELSE registry[j]]
  BY DEF Monitor
<1>2. registry'[i] = "absent"
  BY <1>1
<1>3. checkers'[i] \in {NoChecker, checkers[i], NewChecker}
  BY DEF Monitor
<1>4. NewChecker.pc # "writing"
  BY DEF NewChecker
<1> QED
  BY <1>2, <1>3, <1>4 DEF CheckerAt, Monitored

\* No step but the start of a process makes an entry that has gone
LEMMA GoneStep ==
    ASSUME TypeOK, [Next]_vars, NEW i \in Instances, Gone(i)
    PROVE  Gone(i)' \/ (~alive[i] /\ alive'[i])
<1> USE DEF Gone
<1>1. CASE UNCHANGED vars
  BY <1>1 DEF vars, CheckerAt, Monitored
<1>2. ASSUME NEW j \in Instances, Client(j) \/ Remove(j) \/ World(j)
      PROVE  Gone(i)' \/ (~alive[i] /\ alive'[i])
  <2> USE DEF TypeOK, Verdicts, Idle, Ended, CheckerAt, Monitored, node, client, world
  <2>1. CASE Register(j) BY <2>1 DEF Register
  <2>2. CASE Deregister(j) BY <2>2 DEF Deregister, Stops
  <2>3. CASE Die(j) BY <2>3 DEF Die, Stops
  <2>4. CASE Expire(j) BY <2>4 DEF Expire, Ends
  <2>5. CASE Lapse(j) BY <2>5 DEF Lapse, Ends
  <2>6. CASE HeartbeatReads(j) BY <2>6 DEF HeartbeatReads
  <2>7. CASE HeartbeatWrites(j) BY <2>7 DEF HeartbeatWrites
  <2>8. CASE HeartbeatFails(j) BY <2>8 DEF HeartbeatFails
  <2>9. CASE ReportReads(j) BY <2>9 DEF ReportReads
  <2>10. CASE ReportWrites(j) BY <2>10 DEF ReportWrites
  <2>11. CASE ReportFails(j) BY <2>11 DEF ReportFails
  <2>12. CASE Remove(j) BY <2>12 DEF Remove
  <2>13. CASE CallbacksChange(j) BY <2>13 DEF CallbacksChange
  <2>14. CASE ReachabilityChanges(j) BY <2>14 DEF ReachabilityChanges
  <2> QED
    BY <1>2, <2>1, <2>2, <2>3, <2>4, <2>5, <2>6, <2>7, <2>8, <2>9, <2>10, <2>11,
       <2>12, <2>13, <2>14 DEF Client, World
<1>m. ASSUME NEW found, Monitor(found), UNCHANGED client
      PROVE  Gone(i)'
  BY <1>m, MonitorKeepsGone DEF client
<1>u. ASSUME UNCHANGED <<registry, checkers, client>>
      PROVE  Gone(i)'
  BY <1>u DEF client, CheckerAt, Monitored
<1>3. CASE Discovery \/ CacheAges \/ \E caller \in Callers : Lookup(caller)
  BY <1>3, <1>m, <1>u DEF Discovery, Lookup, LoadReads, DiscoverLoads, DiscoverCached,
     DiscoverFails, LookupLoads, CacheAges
<1>4. ASSUME NEW j \in Instances, Manager(j)
      PROVE  Gone(i)'
  <2> USE DEF TypeOK, CheckerAt, Monitored, client
  <2>o. ASSUME j # i, UNCHANGED client,
               registry'[i] = registry[i], checkers'[i] = checkers[i]
        PROVE  Gone(i)'
    BY <2>o
  <2>k. ASSUME UNCHANGED <<registry, client>>, checkers'[i].pc # "writing"
        PROVE  Gone(i)'
    BY <2>k
  <2>1. CASE Check(j)
    <3>1. PICK c : checkers' = [checkers EXCEPT ![j] =
              [c EXCEPT !.pc = IF c.status # Verdict(c) THEN "reading" ELSE "checking"]]
      BY <2>1 DEF Check
    <3>2. j = i /\ checkers'[i] # NoChecker => checkers'[i].pc # "writing"
      BY <3>1 DEF UpdateState
    <3> QED
      BY <2>1, <3>1, <3>2, <2>o, <2>k DEF Check
  <2>2. CASE UpdateReads(j)
    BY <2>2, <2>o, <2>k DEF UpdateReads, CheckerMoves, Checker
  <2>3. CASE UpdateWrites(j)
    BY <2>3, <2>o DEF UpdateWrites, CheckerMoves
  <2>4. CASE UpdateFails(j)
    BY <2>4, <2>o, <2>k DEF UpdateFails, CheckerMoves, Checker
  <2>5. CASE Configure(j)
    BY <2>5, <2>o, <2>k DEF Configure, NewChecker
  <2> QED
    BY <1>4, <2>1, <2>2, <2>3, <2>4, <2>5 DEF Manager
<1> QED
  BY <1>1, <1>2, <1>3, <1>4 DEF Next

(* An entry that has gone stays gone until its process starts anew: a      *)
(* status update finds nothing to update, and no heartbeat writes it back. *)
THEOREM GoneStaysGoneCorrect == Spec => GoneStaysGone
<1>1. TypeOK /\ [Next]_vars =>
        [\A i \in Instances : Gone(i) => Gone(i)' \/ (~alive[i] /\ alive'[i])]_vars
  BY GoneStep
<1> QED
  BY <1>1, TypeCorrect, PTL DEF Spec, GoneStaysGone
=============================================================================
