------------------------- MODULE PlanExecutionProofs -------------------------
(***************************************************************************)
(* Proofs about PlanExecution, for every set of processes, requests, keys  *)
(* and every bound.                                                        *)
(***************************************************************************)
EXTENDS PlanExecution, TLAPS

TaskState == {Idle} \cup Calling \cup Waiting \cup Closing

\* What the program counter of a request says about its shape
LEMMA TaskShape ==
  ASSUME TypeOK, NEW r \in Requests
  PROVE  /\ tasks[r] # Idle => tasks[r].worker \in Workers
         /\ tasks[r] = Idle <=> At(r, "idle")
         /\ At(r, "calling") => tasks[r] \in Calling
         /\ At(r, "closing") => tasks[r] \in Closing
         /\ tasks[r].pc \in {"opening", "polling", "failing"} => tasks[r] \in Waiting
         /\ ~At(r, "idle") /\ ~At(r, "calling") => r \in Gated
  BY DEF TypeOK, At, Idle, Calling, Waiting, Closing

\* The updates of a request's task are tasks again
LEMMA TaskValues ==
  /\ Idle \in TaskState
  /\ \A w \in Workers, paid \in BOOLEAN :
        [pc |-> "calling", worker |-> w, paid |-> paid] \in Calling
  /\ \A w \in Workers, pc \in {"opening", "polling", "failing"} :
        [pc |-> pc, worker |-> w] \in Waiting
  /\ \A w \in Workers, o \in Outcomes :
        [pc |-> "closing", worker |-> w, outcome |-> o] \in Closing
  BY DEF TaskState, Calling, Waiting, Closing

\* A gated request moves on
LEMMA GatedMove ==
  ASSUME TypeOK, NEW r \in Gated, NEW t \in TaskState,
         tasks' = [tasks EXCEPT ![r] = t]
  PROVE  /\ tasks' \in [Requests -> TaskState]
         /\ \A s \in Requests \ Gated : tasks'[s] \in {Idle} \cup Calling
  BY GatedAssumption DEF TypeOK, TaskState

-----------------------------------------------------------------------------
\* Type correctness

\* Every step keeps the declared types
LEMMA NextTypeOK == TypeOK /\ [Next]_vars => TypeOK'
  <1> SUFFICES ASSUME TypeOK, [Next]_vars
               PROVE  TypeOK'
    OBVIOUS
  <1> USE DEF TaskState, history
  <1>1. ASSUME NEW w \in Workers, NEW r \in Requests, Send(w, r)
        PROVE  sends' \in [Requests -> 0..MaxSends]
    <2>1. sends[r] + 1 \in 0..MaxSends
      BY <1>1, BoundAssumption DEF Send, TypeOK
    <2>2. QED
      BY <1>1, <2>1 DEF Send, TypeOK
  <1>2. ASSUME NEW w \in Workers, NEW r \in Requests, Send(w, r), EnterRunPlan(w, r)
        PROVE  TypeOK'
    BY <1>1, <1>2, TaskValues DEF EnterRunPlan, TypeOK
  <1>3. ASSUME NEW w \in Workers, NEW r \in Requests,
               AnswerFromCache(w, r) \/ Refuse(w, r) \/ FailEarly(w, r)
        PROVE  TypeOK'
    <2>1. CASE AnswerFromCache(w, r) \/ Refuse(w, r)
      BY <1>1, <2>1 DEF AnswerFromCache, Refuse, TypeOK
    <2>2. CASE FailEarly(w, r)
      <3>1. caches' \in [Workers -> [Keys -> Answers \cup {"none"}]]
        BY <2>2, KeyAssumption DEF FailEarly, Remember, Answers, TypeOK
      <3>2. QED
        BY <1>1, <2>2, <3>1 DEF FailEarly, TypeOK
    <2>3. QED
      BY <1>3, <2>1, <2>2
  <1>4. ASSUME NEW r \in Requests, Pay(r)
        PROVE  TypeOK'
    <2> DEFINE w == tasks[r].worker
    <2>1. w \in Workers /\ KeyOf[r] \in Keys
      BY <1>4, TaskShape, KeyAssumption DEF Pay, At, Idle
    <2>2. tasks' = [tasks EXCEPT ![r] = [pc |-> "calling", worker |-> w, paid |-> TRUE]]
      BY <1>4 DEF Pay
    <2>3. /\ tasks' \in [Requests -> TaskState]
          /\ \A s \in Requests \ Gated : tasks'[s] \in {Idle} \cup Calling
      BY <2>1, <2>2, TaskValues DEF TypeOK
    <2>4. payments' \in [Requests -> Nat]
      BY <1>4 DEF Pay, TypeOK
    <2>5. paidHere' \in [Workers -> [Keys -> Nat]]
      BY <1>4, <2>1 DEF Pay, TypeOK
    <2>6. QED
      BY <1>4, <2>3, <2>4, <2>5 DEF Pay, TypeOK
  <1>5. ASSUME NEW r \in Requests, NEW raised \in BOOLEAN, RouteReturns(r, raised)
        PROVE  TypeOK'
    <2>1. tasks[r].worker \in Workers /\ KeyOf[r] \in Keys
      BY <1>5, TaskShape, KeyAssumption DEF RouteReturns, At, Idle
    <2>2. PICK answer \in Answers : caches' = Remember(tasks[r].worker, KeyOf[r], answer)
      BY <1>5 DEF RouteReturns, HandlerAnswers, Answers
    <2>3. caches' \in [Workers -> [Keys -> Answers \cup {"none"}]]
      BY <1>5, <2>1, <2>2 DEF RouteReturns, Remember, TypeOK
    <2>4. QED
      BY <1>5, <2>3 DEF RouteReturns, Ends, TypeOK
  <1>6. ASSUME NEW r \in Gated, NEW t \in TaskState,
               tasks' = [tasks EXCEPT ![r] = t],
               UNCHANGED <<caches, approval, receipts, sends, restarts, history>>
        PROVE  TypeOK'
    BY <1>6, GatedMove DEF TypeOK
  <1>7. ASSUME NEW r \in Requests, PlanHasRun(r) \/ PlanRaises(r) \/ Poll(r) \/ GiveUp(r)
        PROVE  TypeOK'
    <2>1. r \in Gated /\ tasks[r].worker \in Workers
      BY <1>7, TaskShape DEF PlanHasRun, PlanRaises, Poll, GiveUp, Runs, At, Idle
    <2>2. PICK t \in TaskState : tasks' = [tasks EXCEPT ![r] = t]
      BY <1>7, <2>1, TaskValues
      DEF PlanHasRun, PlanRaises, Poll, GiveUp, Moves, Closes, Outcomes
    <2>3. UNCHANGED <<caches, approval, receipts, sends, restarts, history>>
      BY <1>7 DEF PlanHasRun, PlanRaises, Poll, GiveUp
    <2>4. QED
      BY <1>6, <2>1, <2>2, <2>3
  <1>8. ASSUME NEW r \in Requests, NEW created \in BOOLEAN, NEW raised \in BOOLEAN,
               OpenApproval(r, created, raised)
        PROVE  TypeOK'
    <2>1. r \in Gated /\ tasks[r].worker \in Workers
      BY <1>8, TaskShape DEF OpenApproval, Runs, At, Idle
    <2>2. PICK t \in TaskState : tasks' = [tasks EXCEPT ![r] = t]
      BY <1>8, <2>1, TaskValues DEF OpenApproval, Moves
    <2>3. approval' \in [Requests -> {"absent", "pending"} \cup Settled]
      BY <1>8 DEF OpenApproval, TypeOK
    <2>4. QED
      BY <1>8, <2>1, <2>2, <2>3, GatedMove DEF OpenApproval, TypeOK
  <1>9. ASSUME NEW r \in Requests, NEW stored \in BOOLEAN,
               WriteReceipt(r) \/ ReceiptRaises(r, stored) \/ WriteErrorReceipt(r, stored)
        PROVE  TypeOK'
    <2>1. r \in Gated /\ tasks[r].worker \in Workers
      BY <1>9, TaskShape DEF WriteReceipt, ReceiptRaises, WriteErrorReceipt, Runs, At, Idle
    <2>2. PICK t \in TaskState : tasks' = [tasks EXCEPT ![r] = t]
      BY <1>9, <2>1, TaskValues
      DEF WriteReceipt, ReceiptRaises, WriteErrorReceipt, Moves, Ends
    <2>3. At(r, "closing") => tasks[r].outcome \in Outcomes
      BY TaskShape DEF Closing
    <2>4. receipts' \in [Requests -> SUBSET (Outcomes \cup {"FAILED"})]
      BY <1>9, <2>3
      DEF WriteReceipt, ReceiptRaises, WriteErrorReceipt, Runs, Stored, TypeOK
    <2>5. QED
      BY <1>9, <2>1, <2>2, <2>4, GatedMove
      DEF WriteReceipt, ReceiptRaises, WriteErrorReceipt, TypeOK
  <1>10. ASSUME NEW r \in Requests, NEW status \in Settled, Settle(r, status)
         PROVE  TypeOK'
    BY <1>10 DEF Settle, TypeOK
  <1>11. ASSUME NEW w \in Workers, Restart(w)
         PROVE  TypeOK'
    BY <1>11, BoundAssumption DEF Restart, ServedBy, TypeOK
  <1>12. CASE UNCHANGED vars
    BY <1>12 DEF vars, TypeOK
  <1>13. QED
    BY <1>2, <1>3, <1>4, <1>5, <1>7, <1>8, <1>9, <1>10, <1>11, <1>12
    DEF Next, Serve, Execute, StartGated

\* Every behaviour of the orchestrator keeps the declared types.
THEOREM TypeCorrect == Spec => []TypeOK
  <1>1. Init => TypeOK
    BY BoundAssumption DEF Init, TypeOK
  <1>2. QED
    BY <1>1, NextTypeOK, PTL DEF Spec

-----------------------------------------------------------------------------
\* One payment per key and life of a process, and answers that stay.
\* The strengthening follows a call of the route from its lookup to its store:
\* a process is inside one call at most, the key of that call is not remembered,
\* and a key that is not remembered and not being called has not been paid.

Calls(w, k, r) ==
    r \in Requests \ Gated /\ At(r, "calling") /\ tasks[r].worker = w /\ KeyOf[r] = k

OneCall ==
    \A r, s \in Requests :
        At(r, "calling") /\ At(s, "calling") /\ tasks[r].worker = tasks[s].worker => r = s

InsideCall ==
    \A w \in Workers, k \in Keys, r \in Requests : Calls(w, k, r) =>
        /\ caches[w][k] = "none"
        /\ paidHere[w][k] = IF tasks[r].paid THEN 1 ELSE 0

OutsideCall ==
    \A w \in Workers, k \in Keys : (\A r \in Requests : ~Calls(w, k, r)) =>
        paidHere[w][k] = 0 \/ (paidHere[w][k] = 1 /\ caches[w][k] # "none")

CallInv == TypeOK /\ OneCall /\ InsideCall /\ OutsideCall

\* A step that changes neither the caches nor the counts, and no call
LEMMA CallFrame ==
  ASSUME CallInv, TypeOK', UNCHANGED <<caches, paidHere>>,
         \A r \in Requests : (At(r, "calling"))' =>
             At(r, "calling") /\ tasks'[r] = tasks[r],
         \A r \in Requests \ Gated : At(r, "calling") => (At(r, "calling"))'
  PROVE  CallInv'
  <1>1. \A r \in Requests : \A w, k : (Calls(w, k, r))' <=> Calls(w, k, r)
    BY DEF Calls, At
  <1>2. OneCall'
    BY DEF CallInv, OneCall, At
  <1>3. InsideCall' /\ OutsideCall'
    BY <1>1 DEF CallInv, InsideCall, OutsideCall, Calls
  <1>4. QED
    BY <1>2, <1>3 DEF CallInv

\* A request enters run_plan: its process is in no call, its key is not remembered
LEMMA CallStarts ==
  ASSUME CallInv, TypeOK', NEW w \in Workers, NEW r \in Requests,
         Send(w, r), EnterRunPlan(w, r), r \notin Gated => ~Remembered(w, r)
  PROVE  CallInv'
  <1> DEFINE k == KeyOf[r]
  <1>1. /\ tasks' = [tasks EXCEPT ![r] = [pc |-> "calling", worker |-> w, paid |-> FALSE]]
        /\ UNCHANGED <<caches, paidHere>>
        /\ tasks[r] = Idle
        /\ \A s \in Requests : At(s, "calling") => tasks[s].worker # w
    BY DEF EnterRunPlan, Send, Free, history
  <1>2. tasks'[r] = [pc |-> "calling", worker |-> w, paid |-> FALSE]
    BY <1>1 DEF CallInv, TypeOK
  <1>3. \A s \in Requests \ {r} : tasks'[s] = tasks[s]
    BY <1>1 DEF CallInv, TypeOK
  <1>4. OneCall'
    BY <1>1, <1>2, <1>3 DEF CallInv, OneCall, At
  <1>5. \A s \in Requests \ {r} : \A v, j : (Calls(v, j, s))' <=> Calls(v, j, s)
    BY <1>3 DEF Calls, At
  <1>6. \A s \in Requests : \A j : ~Calls(w, j, s)
    BY <1>1 DEF Calls
  <1>7. \A v, j : (Calls(v, j, r))' <=> r \notin Gated /\ v = w /\ j = k
    BY <1>2 DEF Calls, At
  <1>8. \A v, j : ~Calls(v, j, r)
    BY <1>1 DEF Calls, At, Idle
  <1>9. InsideCall'
    <2> SUFFICES ASSUME NEW v \in Workers, NEW j \in Keys, NEW s \in Requests, (Calls(v, j, s))'
                 PROVE  caches'[v][j] = "none" /\ paidHere'[v][j] = IF tasks'[s].paid THEN 1 ELSE 0
      BY DEF InsideCall
    <2>1. CASE s # r
      BY <2>1, <1>1, <1>3, <1>5 DEF CallInv, InsideCall
    <2>2. CASE s = r
      <3>1. r \notin Gated /\ v = w /\ j = k
        BY <2>2, <1>7
      <3>2. caches[w][k] = "none"
        BY <3>1 DEF Remembered
      <3>3. paidHere[w][k] = 0
        BY <3>1, <3>2, <1>6 DEF CallInv, OutsideCall
      <3>4. QED
        BY <2>2, <3>1, <3>2, <3>3, <1>1, <1>2
    <2>3. QED
      BY <2>1, <2>2
  <1>10. OutsideCall'
    BY <1>1, <1>5, <1>8 DEF CallInv, OutsideCall
  <1>11. QED
    BY <1>4, <1>9, <1>10 DEF CallInv

\* Portia pays during a call
LEMMA CallPays ==
  ASSUME CallInv, TypeOK', NEW r \in Requests, Pay(r)
  PROVE  CallInv'
  <1> DEFINE w == tasks[r].worker  k == KeyOf[r]
  <1>0. /\ At(r, "calling") /\ ~tasks[r].paid
        /\ tasks' = [tasks EXCEPT ![r] = [pc |-> "calling", worker |-> w, paid |-> TRUE]]
        /\ caches' = caches
    BY DEF Pay
  <1>1. tasks'[r] = [pc |-> "calling", worker |-> w, paid |-> TRUE]
        /\ \A s \in Requests \ {r} : tasks'[s] = tasks[s]
    BY <1>0 DEF CallInv, TypeOK
  <1>2. w \in Workers /\ k \in Keys
    BY <1>0, TaskShape, KeyAssumption DEF CallInv, Calling
  <1>3. \A s \in Requests : \A v, j : (Calls(v, j, s))' <=> Calls(v, j, s)
    BY <1>0, <1>1 DEF Calls, At
  <1>4. OneCall'
    BY <1>0, <1>1 DEF CallInv, OneCall, At
  <1>5. \A v \in Workers, j \in Keys : paidHere'[v][j] =
            IF r \notin Gated /\ v = w /\ j = k THEN paidHere[v][j] + 1 ELSE paidHere[v][j]
    BY <1>2 DEF Pay, CallInv, TypeOK
  <1>6. InsideCall'
    <2> SUFFICES ASSUME NEW v \in Workers, NEW j \in Keys, NEW s \in Requests, Calls(v, j, s)
                 PROVE  caches[v][j] = "none" /\ paidHere'[v][j] = IF tasks'[s].paid THEN 1 ELSE 0
      BY <1>0, <1>3 DEF InsideCall
    <2>1. caches[v][j] = "none" /\ paidHere[v][j] = IF tasks[s].paid THEN 1 ELSE 0
      BY DEF CallInv, InsideCall
    <2>2. CASE s = r
      BY <2>1, <2>2, <1>0, <1>1, <1>5 DEF Calls
    <2>3. CASE s # r
      <3>1. v # w
        BY <2>3, <1>0 DEF CallInv, OneCall, Calls
      <3>2. QED
        BY <2>1, <2>3, <3>1, <1>1, <1>5
    <2>4. QED
      BY <2>2, <2>3
  <1>7. OutsideCall'
    <2>1. r \notin Gated => Calls(w, k, r)
      BY <1>0 DEF Calls
    <2>2. QED
      BY <2>1, <1>0, <1>3, <1>5 DEF CallInv, OutsideCall
  <1>8. QED
    BY <1>4, <1>6, <1>7 DEF CallInv

\* The call of the route ends and its answer is remembered
LEMMA CallEnds ==
  ASSUME CallInv, TypeOK', NEW r \in Requests, NEW raised \in BOOLEAN, RouteReturns(r, raised)
  PROVE  /\ CallInv'
         /\ caches[tasks[r].worker][KeyOf[r]] = "none"
  <1> DEFINE w == tasks[r].worker  k == KeyOf[r]
  <1>0. /\ Calls(w, k, r)
        /\ tasks' = [tasks EXCEPT ![r] = Idle]
        /\ paidHere' = paidHere
    BY DEF RouteReturns, Ends, Calls, history
  <1>1. tasks'[r] = Idle /\ \A s \in Requests \ {r} : tasks'[s] = tasks[s]
    BY <1>0 DEF CallInv, TypeOK
  <1>2. w \in Workers /\ k \in Keys /\ At(r, "calling")
    BY <1>0, TaskShape, KeyAssumption DEF CallInv, Calling, Calls
  <1>3. caches[w][k] = "none" /\ paidHere[w][k] \in {0, 1}
    BY <1>0, <1>2 DEF CallInv, InsideCall
  <1>4. PICK answer \in Answers : caches' = Remember(w, k, answer) /\ answer # "none"
    BY DEF RouteReturns, HandlerAnswers, Answers
  <1>5. \A v \in Workers, j \in Keys : caches'[v][j] =
            IF v = w /\ j = k THEN answer ELSE caches[v][j]
    BY <1>2, <1>4 DEF Remember, CallInv, TypeOK
  <1>6. \A s \in Requests : \A v, j : (Calls(v, j, s))' <=> s # r /\ Calls(v, j, s)
    BY <1>1 DEF Calls, At, Idle
  <1>7. OneCall'
    BY <1>1 DEF CallInv, OneCall, At, Idle
  <1>8. InsideCall'
    <2> SUFFICES ASSUME NEW v \in Workers, NEW j \in Keys, NEW s \in Requests, s # r, Calls(v, j, s)
                 PROVE  caches'[v][j] = "none" /\ paidHere'[v][j] = IF tasks'[s].paid THEN 1 ELSE 0
      BY <1>6 DEF InsideCall
    <2>1. v # w
      BY <1>2 DEF CallInv, OneCall, Calls
    <2>2. QED
      BY <2>1, <1>0, <1>1, <1>5 DEF CallInv, InsideCall
  <1>9. OutsideCall'
    <2> SUFFICES ASSUME NEW v \in Workers, NEW j \in Keys, \A s \in Requests \ {r} : ~Calls(v, j, s)
                 PROVE  paidHere[v][j] = 0 \/ (paidHere[v][j] = 1 /\ caches'[v][j] # "none")
      BY <1>0, <1>6 DEF OutsideCall
    <2>1. CASE v = w /\ j = k
      BY <2>1, <1>2, <1>3, <1>4, <1>5
    <2>2. CASE ~(v = w /\ j = k)
      <3>1. ~Calls(v, j, r)
        BY <2>2 DEF Calls
      <3>2. QED
        BY <2>2, <3>1, <1>5 DEF CallInv, OutsideCall
    <2>3. QED
      BY <2>1, <2>2
  <1>10. QED
    BY <1>3, <1>7, <1>8, <1>9 DEF CallInv

\* The handler fails before its call, and that is remembered
LEMMA CallFails ==
  ASSUME CallInv, TypeOK', NEW w \in Workers, NEW r \in Requests, FailEarly(w, r)
  PROVE  /\ CallInv'
         /\ \A v \in Workers, k \in Keys : caches[v][k] \in {"none", caches'[v][k]}
  <1> DEFINE k == KeyOf[r]
  <1>1. /\ tasks' = tasks /\ paidHere' = paidHere
        /\ k \in Keys /\ caches[w][k] = "none"
        /\ \A s \in Requests : At(s, "calling") => tasks[s].worker # w
    BY KeyAssumption DEF FailEarly, Send, Free, Remembered, history
  <1>2. \A v \in Workers, j \in Keys : caches'[v][j] =
            IF v = w /\ j = k THEN "failed" ELSE caches[v][j]
    BY <1>1 DEF FailEarly, Remember, CallInv, TypeOK
  <1>3. \A s \in Requests : \A v, j : (Calls(v, j, s))' <=> Calls(v, j, s)
    BY <1>1 DEF Calls, At
  <1>4. OneCall'
    BY <1>1 DEF CallInv, OneCall, At
  <1>5. \A s \in Requests, j \in Keys : ~Calls(w, j, s)
    BY <1>1 DEF Calls
  <1>6. InsideCall'
    BY <1>1, <1>2, <1>3, <1>5 DEF CallInv, InsideCall
  <1>7. OutsideCall'
    BY <1>1, <1>2, <1>3 DEF CallInv, OutsideCall
  <1>8. QED
    BY <1>1, <1>2, <1>4, <1>6, <1>7 DEF CallInv

\* A restart forgets the calls, the cache and the count of its process
LEMMA CallRestart ==
  ASSUME CallInv, TypeOK', NEW w \in Workers, Restart(w)
  PROVE  CallInv'
  <1>1. \A r \in Requests : (At(r, "calling"))' =>
            At(r, "calling") /\ tasks'[r] = tasks[r] /\ tasks[r].worker # w
    BY DEF Restart, ServedBy, At, Idle
  <1>2. \A r \in Requests : \A v, j : (Calls(v, j, r))' <=> Calls(v, j, r) /\ v # w
    <2>1. \A r \in Requests : At(r, "calling") /\ tasks[r].worker # w => tasks'[r] = tasks[r]
      BY DEF Restart, ServedBy
    <2>2. QED
      BY <1>1, <2>1 DEF Calls, At
  <1>3. \A v \in Workers, j \in Keys :
            /\ caches'[v][j] = IF v = w THEN "none" ELSE caches[v][j]
            /\ paidHere'[v][j] = IF v = w THEN 0 ELSE paidHere[v][j]
    BY DEF Restart, CallInv, TypeOK
  <1>4. OneCall'
    BY <1>1 DEF CallInv, OneCall, At
  <1>5. InsideCall'
    <2> SUFFICES ASSUME NEW v \in Workers, NEW j \in Keys, NEW s \in Requests, (Calls(v, j, s))'
                 PROVE  caches'[v][j] = "none" /\ paidHere'[v][j] = IF tasks'[s].paid THEN 1 ELSE 0
      BY DEF InsideCall
    <2>1. Calls(v, j, s) /\ v # w
      BY <1>2
    <2>2. tasks'[s] = tasks[s]
      BY <1>1 DEF Calls
    <2>3. QED
      BY <2>1, <2>2, <1>3 DEF CallInv, InsideCall
  <1>6. OutsideCall'
    BY <1>2, <1>3 DEF CallInv, OutsideCall
  <1>7. QED
    BY <1>4, <1>5, <1>6 DEF CallInv

\* Every step keeps the invariant, and answers change by a restart only
LEMMA NextCallInv ==
  CallInv /\ [Next]_vars =>
    /\ CallInv'
    /\ \A w \in Workers, k \in Keys :
          caches[w][k] \notin {"none", caches'[w][k]} => caches'[w] = [j \in Keys |-> "none"]
  <1> SUFFICES ASSUME CallInv, [Next]_vars
               PROVE  /\ CallInv'
                      /\ \A w \in Workers, k \in Keys :
                            caches[w][k] \notin {"none", caches'[w][k]}
                                => caches'[w] = [j \in Keys |-> "none"]
    OBVIOUS
  <1>0. TypeOK /\ TypeOK'
    BY NextTypeOK DEF CallInv
  <1>1. ASSUME NEW w \in Workers, NEW r \in Requests, Execute(w, r) \/ StartGated(w, r)
        PROVE  CallInv' /\ caches' = caches
    BY <1>0, <1>1, CallStarts DEF Execute, StartGated, EnterRunPlan
  <1>2. ASSUME NEW w \in Workers, NEW r \in Requests,
               AnswerFromCache(w, r) \/ Refuse(w, r)
        PROVE  CallInv' /\ caches' = caches
    BY <1>0, <1>2, CallFrame DEF AnswerFromCache, Refuse, history, At
  <1>11. ASSUME NEW w \in Workers, NEW r \in Requests, FailEarly(w, r)
         PROVE  /\ CallInv'
                /\ \A v \in Workers, k \in Keys : caches[v][k] \in {"none", caches'[v][k]}
    BY <1>0, <1>11, CallFails
  <1>3. ASSUME NEW r \in Requests, Pay(r)
        PROVE  CallInv' /\ caches' = caches
    BY <1>0, <1>3, CallPays DEF Pay
  <1>4. ASSUME NEW r \in Requests, NEW raised \in BOOLEAN, RouteReturns(r, raised)
        PROVE  /\ CallInv'
               /\ \A w \in Workers, k \in Keys : caches[w][k] \in {"none", caches'[w][k]}
    <2>1. caches[tasks[r].worker][KeyOf[r]] = "none" /\ CallInv'
      BY <1>0, <1>4, CallEnds
    <2>2. QED
      BY <2>1, <1>4 DEF RouteReturns, Remember, CallInv, TypeOK
  <1>5. ASSUME NEW r \in Gated, NEW t, t.pc # "calling",
               tasks' = [tasks EXCEPT ![r] = t], UNCHANGED <<caches, paidHere>>
        PROVE  CallInv' /\ caches' = caches
    <2>1. tasks'[r] = t /\ \A s \in Requests \ {r} : tasks'[s] = tasks[s]
      BY <1>0, <1>5, GatedAssumption DEF TypeOK
    <2>2. QED
      BY <2>1, <1>0, <1>5, CallFrame DEF At
  <1>6. ASSUME NEW r \in Requests,
               \/ PlanHasRun(r) \/ PlanRaises(r) \/ Poll(r) \/ GiveUp(r) \/ WriteReceipt(r)
               \/ \E created, raised \in BOOLEAN : OpenApproval(r, created, raised)
               \/ \E stored \in BOOLEAN : ReceiptRaises(r, stored) \/ WriteErrorReceipt(r, stored)
        PROVE  CallInv' /\ caches' = caches
    <2>1. r \in Gated
      BY <1>0, <1>6, TaskShape
      DEF PlanHasRun, PlanRaises, Poll, GiveUp, WriteReceipt, OpenApproval,
          ReceiptRaises, WriteErrorReceipt, Runs, At
    <2>2. \E t : t.pc # "calling" /\ tasks' = [tasks EXCEPT ![r] = t]
      BY <1>6
      DEF PlanHasRun, PlanRaises, Poll, GiveUp, WriteReceipt, OpenApproval,
          ReceiptRaises, WriteErrorReceipt, Moves, Closes, Ends, Idle
    <2>3. UNCHANGED <<caches, paidHere>>
      BY <1>6
      DEF PlanHasRun, PlanRaises, Poll, GiveUp, WriteReceipt, OpenApproval,
          ReceiptRaises, WriteErrorReceipt, history
    <2>4. QED
      BY <1>5, <2>1, <2>2, <2>3
  <1>7. ASSUME NEW r \in Requests, NEW status \in Settled, Settle(r, status)
        PROVE  CallInv' /\ caches' = caches
    BY <1>0, <1>7, CallFrame DEF Settle, history, At
  <1>8. ASSUME NEW w \in Workers, Restart(w)
        PROVE  /\ CallInv'
               /\ \A v \in Workers : caches'[v] = IF v = w THEN [k \in Keys |-> "none"]
                                                  ELSE caches[v]
    BY <1>0, <1>8, CallRestart DEF Restart, TypeOK
  <1>9. CASE UNCHANGED vars
    BY <1>0, <1>9, CallFrame DEF vars, At
  <1>10. QED
    BY <1>1, <1>2, <1>3, <1>4, <1>6, <1>7, <1>8, <1>9, <1>11 DEF Next, Serve

\* The strengthened invariant holds throughout
LEMMA CallsAreExclusive == Spec => []CallInv
  <1>1. Init => CallInv
    BY BoundAssumption
    DEF Init, CallInv, TypeOK, OneCall, InsideCall, OutsideCall, Calls, At, Idle
  <1>2. QED
    BY <1>1, NextCallInv, PTL DEF Spec

\* A process pays at most once for a key between two restarts: nothing runs in
\* it between the lookup of the key and the store of the answer.
THEOREM PaysOnce == Spec => []OnePaymentPerLife
  <1>1. CallInv => OnePaymentPerLife
    <2> SUFFICES ASSUME CallInv, NEW w \in Workers, NEW k \in Keys
                 PROVE  paidHere[w][k] <= 1
      BY DEF OnePaymentPerLife
    <2>1. CASE \E r \in Requests : Calls(w, k, r)
      BY <2>1 DEF CallInv, InsideCall
    <2>2. CASE \A r \in Requests : ~Calls(w, k, r)
      BY <2>2 DEF CallInv, OutsideCall
    <2>3. QED
      BY <2>1, <2>2
  <1>2. QED
    BY <1>1, CallsAreExclusive, PTL

\* An answer a process remembers is never replaced, it is forgotten in a restart.
THEOREM AnswersStay == Spec => AnswersAreStable
  <1>1. CallInv /\ [Next]_vars =>
          [\A w \in Workers, k \in Keys :
              caches[w][k] \notin {"none", caches'[w][k]}
                  => caches'[w] = [j \in Keys |-> "none"]]_vars
    BY NextCallInv
  <1>2. QED
    BY <1>1, CallsAreExclusive, PTL DEF Spec, AnswersAreStable

-----------------------------------------------------------------------------
\* Receipts of gated requests.  The strengthening says what holds of one gated
\* request at each point of the engine.

GatedInv(r) ==
    /\ sends[r] = 0 => tasks[r] = Idle /\ payments[r] = 0 /\ receipts[r] = {}
    /\ tasks[r].pc \in {"calling", "opening", "polling", "closing"} => receipts[r] = {}
    /\ approval[r] \in Verdicts => approval[r] \in decisions[r]
    /\ At(r, "closing") /\ r \in NeedsApproval =>
          (IF tasks[r].outcome = "SUCCEEDED" THEN "approved" ELSE "rejected") \in decisions[r]
    /\ r \in NeedsApproval =>
          /\ "SUCCEEDED" \in receipts[r] => "approved" \in decisions[r]
          /\ "REJECTED" \in receipts[r] => "rejected" \in decisions[r]
    /\ ~(Outcomes \subseteq receipts[r])
    /\ payments[r] > 0 /\ tasks[r] = Idle => receipts[r] # {} \/ r \in unrecorded

\* A step that leaves alone what is known of r
LEMMA GatedFrame ==
  ASSUME NEW r \in Gated, GatedInv(r), tasks'[r] = tasks[r], approval'[r] = approval[r],
         decisions'[r] = decisions[r], receipts'[r] = receipts[r], sends'[r] = sends[r], payments'[r] = payments[r],
         r \in unrecorded => r \in unrecorded'
  PROVE  GatedInv(r)'
  BY DEF GatedInv, At

\* What is known of one gated request is kept by every step
LEMMA NextGatedInv ==
  ASSUME TypeOK, NEW g \in Gated, GatedInv(g), [Next]_vars
  PROVE  GatedInv(g)'
  <1> USE DEF history
  <1>0. g \in Requests
    BY GatedAssumption
  <1>1. ASSUME NEW w \in Workers, NEW r \in Requests,
               Send(w, r), EnterRunPlan(w, r)
        PROVE  GatedInv(g)'
    <2>1. CASE r # g
      BY <1>0, <1>1, <2>1, GatedFrame DEF Send, EnterRunPlan, TypeOK
    <2>2. CASE r = g
      <3>1. sends[g] = 0 /\ sends'[g] = 1 /\ (At(g, "calling"))'
        BY <1>0, <1>1, <2>2 DEF Send, EnterRunPlan, TypeOK, At
      <3>2. QED
        BY <3>1, <1>1 DEF EnterRunPlan, GatedInv, At, Idle
    <2>3. QED
      BY <2>1, <2>2
  <1>2. ASSUME NEW w \in Workers, NEW r \in Requests,
               AnswerFromCache(w, r) \/ Refuse(w, r) \/ FailEarly(w, r)
        PROVE  GatedInv(g)'
    BY <1>0, <1>2, GatedFrame DEF AnswerFromCache, Refuse, FailEarly, Send, TypeOK
  <1>3. ASSUME NEW r \in Requests, Pay(r)
        PROVE  GatedInv(g)'
    <2>1. CASE r # g
      BY <1>0, <1>3, <2>1, GatedFrame DEF Pay, TypeOK
    <2>2. CASE r = g
      <3>1. tasks'[g].pc = "calling" /\ At(g, "calling")
        BY <1>0, <1>3, <2>2 DEF Pay, TypeOK
      <3>2. QED
        BY <3>1, <1>3, <2>2 DEF Pay, GatedInv, At, Idle
    <2>3. QED
      BY <2>1, <2>2
  <1>4. ASSUME NEW r \in Requests, NEW raised \in BOOLEAN, RouteReturns(r, raised)
        PROVE  GatedInv(g)'
    BY <1>0, <1>4, GatedFrame DEF RouteReturns, Ends, TypeOK
  <1>5. ASSUME NEW r \in Requests, PlanHasRun(r) \/ PlanRaises(r) \/ GiveUp(r) \/ Poll(r)
        PROVE  GatedInv(g)'
    <2>1. CASE r # g
      BY <1>0, <1>5, <2>1, GatedFrame
      DEF PlanHasRun, PlanRaises, GiveUp, Poll, Moves, Closes, TypeOK
    <2>2. CASE r = g
      <3>1. UNCHANGED <<approval, decisions, receipts, sends, payments, unrecorded>>
        BY <1>5 DEF PlanHasRun, PlanRaises, GiveUp, Poll
      <3>2. tasks[g].pc \in {"calling", "polling"} /\ sends[g] # 0
        BY <1>5, <2>2 DEF PlanHasRun, PlanRaises, GiveUp, Poll, Runs, At, GatedInv, Idle
      <3>3. /\ tasks'[g].pc \in {"opening", "closing", "failing"}
            /\ tasks'[g] # Idle
            /\ tasks'[g].pc = "closing" /\ g \in NeedsApproval =>
                 (IF tasks'[g].outcome = "SUCCEEDED" THEN "approved" ELSE "rejected")
                    \in decisions[g]
        BY <1>0, <1>5, <2>2
        DEF PlanHasRun, PlanRaises, GiveUp, Poll, Decided, Verdicts, Moves, Closes,
            GatedInv, TypeOK, Idle
      <3>4. QED
        BY <3>1, <3>2, <3>3 DEF GatedInv, At
    <2>3. QED
      BY <2>1, <2>2
  <1>6. ASSUME NEW r \in Requests, NEW created \in BOOLEAN, NEW raised \in BOOLEAN,
               OpenApproval(r, created, raised)
        PROVE  GatedInv(g)'
    <2>1. CASE r # g
      BY <1>0, <1>6, <2>1, GatedFrame DEF OpenApproval, Moves, TypeOK
    <2>2. CASE r = g
      <3>1. receipts[g] = {} /\ sends[g] # 0
        BY <1>6, <2>2 DEF OpenApproval, Runs, At, GatedInv, Idle
      <3>2. tasks'[g].pc \in {"polling", "failing"} /\ tasks'[g] # Idle
        BY <1>0, <1>6, <2>2 DEF OpenApproval, Moves, TypeOK, Idle
      <3>3. approval'[g] \in {approval[g], "pending"}
        BY <1>0, <1>6, <2>2 DEF OpenApproval, TypeOK
      <3>4. approval'[g] \in Verdicts => approval'[g] \in decisions'[g]
        BY <3>3, <1>6 DEF OpenApproval, GatedInv, Verdicts
      <3>5. QED
        BY <3>1, <3>2, <3>4, <1>6 DEF OpenApproval, GatedInv, At
    <2>3. QED
      BY <2>1, <2>2
  <1>7. ASSUME NEW r \in Requests, NEW status \in Settled, Settle(r, status)
        PROVE  GatedInv(g)'
    <2>1. CASE r # g
      BY <1>0, <1>7, <2>1, GatedFrame DEF Settle, TypeOK
    <2>2. CASE r = g
      <3>1. /\ approval'[g] = status
            /\ decisions'[g] = decisions[g] \cup ({status} \cap Verdicts)
            /\ UNCHANGED <<tasks, receipts, sends, payments, unrecorded>>
        BY <1>0, <1>7, <2>2 DEF Settle, TypeOK
      <3>2. QED
        BY <3>1 DEF GatedInv, At
    <2>3. QED
      BY <2>1, <2>2
  <1>8. ASSUME NEW r \in Requests, NEW stored \in BOOLEAN,
               WriteReceipt(r) \/ ReceiptRaises(r, stored) \/ WriteErrorReceipt(r, stored)
        PROVE  GatedInv(g)'
    <2>1. CASE r # g
      BY <1>0, <1>8, <2>1, GatedFrame
      DEF WriteReceipt, ReceiptRaises, WriteErrorReceipt, Stored, Moves, Ends, TypeOK
    <2>2. CASE r = g
      <3>1. /\ tasks[g].pc \in {"closing", "failing"}
            /\ UNCHANGED <<approval, decisions, sends, payments>>
            /\ sends[g] # 0
        BY <1>8, <2>2
        DEF WriteReceipt, ReceiptRaises, WriteErrorReceipt, Runs, At, GatedInv, Idle
      <3>2. tasks'[g].pc = "failing" \/ tasks'[g] = Idle
        BY <1>0, <1>8, <2>2
        DEF WriteReceipt, ReceiptRaises, WriteErrorReceipt, Moves, Ends, TypeOK
      <3>3. At(g, "closing") => tasks[g].outcome \in Outcomes
        BY <1>0, TaskShape DEF Closing
      <3>4. /\ "SUCCEEDED" \in receipts'[g] => "SUCCEEDED" \in receipts[g]
                 \/ (At(g, "closing") /\ tasks[g].outcome = "SUCCEEDED")
            /\ "REJECTED" \in receipts'[g] => "REJECTED" \in receipts[g]
                 \/ (At(g, "closing") /\ tasks[g].outcome = "REJECTED")
            /\ tasks'[g] = Idle => receipts'[g] # {} \/ g \in unrecorded'
        <4>1. CASE WriteReceipt(r)
          BY <1>0, <4>1, <2>2 DEF WriteReceipt, Stored, Runs, TypeOK, At
        <4>2. CASE ReceiptRaises(r, stored)
          <5>1. tasks'[g].pc = "failing"
            BY <1>0, <4>2, <2>2 DEF ReceiptRaises, Moves, TypeOK
          <5>2. tasks'[g] # Idle
            BY <5>1 DEF Idle
          <5>3. QED
            BY <1>0, <4>2, <2>2, <5>2 DEF ReceiptRaises, Stored, Runs, TypeOK, At
        <4>3. CASE WriteErrorReceipt(r, stored)
          <5>1. receipts'[g] = IF stored THEN receipts[g] \cup {"FAILED"} ELSE receipts[g]
            BY <1>0, <4>3, <2>2 DEF WriteErrorReceipt, Stored, TypeOK
          <5>2. ~stored => g \in unrecorded'
            BY <4>3, <2>2 DEF WriteErrorReceipt
          <5>3. QED
            BY <5>1, <5>2
        <4>4. QED
          BY <1>8, <4>1, <4>2, <4>3
      <3>5. ~(Outcomes \subseteq receipts'[g])
        <4>1. At(g, "closing") => receipts[g] = {}
          BY DEF GatedInv, At
        <4>2. ~("SUCCEEDED" \in receipts[g] /\ "REJECTED" \in receipts[g])
          BY DEF GatedInv, Outcomes
        <4>3. ~("SUCCEEDED" \in receipts'[g] /\ "REJECTED" \in receipts'[g])
          BY <3>4, <4>1, <4>2
        <4>4. QED
          BY <4>3 DEF Outcomes
      <3>6. QED
        BY <3>1, <3>2, <3>3, <3>4, <3>5 DEF GatedInv, At, Idle
    <2>3. QED
      BY <2>1, <2>2
  <1>9. ASSUME NEW w \in Workers, Restart(w)
        PROVE  GatedInv(g)'
    <2>1. CASE g \in ServedBy(w)
      <3>1. tasks'[g] = Idle /\ g \in unrecorded' /\ sends[g] # 0
        BY <1>0, <1>9, <2>1 DEF Restart, ServedBy, GatedInv
      <3>2. QED
        BY <3>1, <1>9 DEF Restart, GatedInv, At, Idle
    <2>2. CASE g \notin ServedBy(w)
      BY <1>0, <1>9, <2>2, GatedFrame DEF Restart
    <2>3. QED
      BY <2>1, <2>2
  <1>10. CASE UNCHANGED vars
    BY <1>10, GatedFrame DEF vars
  <1>11. QED
    BY <1>1, <1>2, <1>3, <1>4, <1>5, <1>6, <1>7, <1>8, <1>9, <1>10
    DEF Next, Serve, Execute, StartGated

AllGatedInv == TypeOK /\ \A r \in Gated : GatedInv(r)

LEMMA GatedRequestsKeepTrack == Spec => []AllGatedInv
  <1>1. Init => AllGatedInv
    BY BoundAssumption, GatedAssumption 
    DEF Init, AllGatedInv, TypeOK, GatedInv, At, Idle, Outcomes, Verdicts
  <1>2. AllGatedInv /\ [Next]_vars => AllGatedInv'
    BY NextTypeOK, NextGatedInv DEF AllGatedInv
  <1>3. QED
    BY <1>1, <1>2, PTL DEF Spec

\* A gated request that paid and is over has a receipt, unless its process
\* restarted or the receipt service failed twice.
THEOREM GatedPaymentsAreRecorded == Spec => []PaymentsAreRecorded
  <1>1. AllGatedInv => PaymentsAreRecorded
    BY DEF AllGatedInv, GatedInv, PaymentsAreRecorded
  <1>2. QED
    BY <1>1, GatedRequestsKeepTrack, PTL

\* The receipts of a gated request tell what was decided about it.
THEOREM ReceiptsAgreeWithDecisions == Spec => []ReceiptsTellTheDecision
  <1>1. AllGatedInv => ReceiptsTellTheDecision
    BY GatedAssumption DEF AllGatedInv, GatedInv, ReceiptsTellTheDecision
  <1>2. QED
    BY <1>1, GatedRequestsKeepTrack, PTL
=============================================================================
