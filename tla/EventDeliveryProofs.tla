------------------------ MODULE EventDeliveryProofs ------------------------
(***************************************************************************)
(* Proofs that the invariants of EventDelivery hold for all sets of events *)
(* and members and every max_deliver.                                      *)
(*                                                                         *)
(* Types need Limits: an event on offer has deliveries left.  On top of it *)
(* Attempts says that no two members hold the same delivery of an event    *)
(* and ties where a member is to the number of its delivery; the other     *)
(* invariants follow from what the member with the last delivery may do.   *)
(***************************************************************************)
EXTENDS EventDelivery, TLAPS

-----------------------------------------------------------------------------
\* The inductive invariants

(* An event that is or will be on offer has deliveries left.               *)
Limits ==
    \A e \in Events :
        /\ stream[e] = "unpublished" => delivered[e] = 0
        /\ stream[e] = "pending" => delivered[e] < MaxDeliver
        /\ stream[e] = "exhausted" => delivered[e] = MaxDeliver

Busy(m) == members[m] # Idle

(* Each delivery has one member, and only the last one is given up.        *)
Attempts ==
    \A m \in Members : Busy(m) =>
        /\ members[m].attempt <= delivered[members[m].event]
        /\ members[m].pc \in {"burying", "closing"} => members[m].attempt = MaxDeliver
        /\ members[m].pc = "nacking" => members[m].attempt < MaxDeliver
        /\ \A n \in Members :
            Busy(n) /\ members[n].event = members[m].event
                    /\ members[n].attempt = members[m].attempt => n = m

(* A dead-lettered event has had its last delivery, and the member that    *)
(* holds it, if any, has only the acknowledgement left.                    *)
Buried ==
    \A e \in Events :
        /\ deadLetters[e] <= 1
        /\ deadLetters[e] = 1 =>
            /\ delivered[e] = MaxDeliver
            /\ \A m \in Members : LastAttemptOf(m, e) => members[m].pc = "closing"

(* Acknowledgements are justified, and the last delivery is held until its *)
(* event is accounted for.                                                 *)
Justified ==
    \A e \in Wanted :
        /\ \A m \in Members : members[m].pc = "acking" /\ members[m].event = e =>
            handled[e] > 0
        /\ \A m \in Members : members[m].pc = "closing" /\ members[m].event = e =>
            deadLetters[e] > 0 \/ e \in refused
        /\ stream[e] = "acked" => Accounted(e) \/ e \in refused
        /\ delivered[e] = MaxDeliver =>
            \/ Accounted(e)
            \/ e \in cutShort \cup refused
            \/ \E m \in Members : LastAttemptOf(m, e)

(* As long as the acknowledgement of an event was not late, one member     *)
(* works on it and the server waits for that member; a handled event is    *)
(* not on offer.                                                           *)
Exclusive ==
    /\ \A m \in Members : Busy(m) /\ members[m].event \notin late =>
        /\ stream[members[m].event] = "unacked"
        /\ \A n \in Members : Busy(n) /\ members[n].event = members[m].event => n = m
    /\ \A e \in Events \ late :
        /\ handled[e] <= 1
        /\ handled[e] = 1 =>
            /\ stream[e] \in {"unacked", "acked"}
            /\ \A m \in Members : Busy(m) /\ members[m].event = e => members[m].pc = "acking"

-----------------------------------------------------------------------------
\* Members

(* A member that is somewhere in the callback holds a delivery.            *)
LEMMA BusyMember ==
    ASSUME TypeOK, NEW m \in Members, members[m].pc # "idle" \/ Busy(m)
    PROVE  /\ Busy(m)
           /\ members[m].event \in Events
           /\ members[m].attempt \in 1..MaxDeliver
           /\ members[m].pc \in {"handling", "acking", "nacking", "burying", "closing"}
  BY DEF TypeOK, Busy, Idle, Working

(* A move keeps the delivery, leaves the others alone.                     *)
LEMMA MoveMember ==
    ASSUME TypeOK, NEW m \in Members, Busy(m),
           NEW pc \in {"handling", "acking", "nacking", "burying", "closing"}, Moves(m, pc)
    PROVE  /\ members' \in [Members -> {Idle} \cup Working]
           /\ members'[m].pc = pc
           /\ members'[m].event = members[m].event
           /\ members'[m].attempt = members[m].attempt
           /\ Busy(m)'
           /\ \A n \in Members \ {m} : members'[n] = members[n]
  BY BusyMember DEF TypeOK, Busy, Idle, Working, Moves

(* A member that leaves is idle, the others are left alone.                *)
LEMMA LeaveMember ==
    ASSUME TypeOK, NEW m \in Members, Leaves(m)
    PROVE  /\ members' \in [Members -> {Idle} \cup Working]
           /\ members'[m] = Idle
           /\ members'[m].pc = "idle"
           /\ ~Busy(m)'
           /\ \A n \in Members \ {m} : members'[n] = members[n]
  BY DEF TypeOK, Busy, Idle, Leaves

-----------------------------------------------------------------------------
\* Types

(* The initial state has the types.                                        *)
LEMMA InitTyped == Init => TypeOK /\ Limits
  BY MaxDeliverAssumption, MaxCrashesAssumption DEF Init, TypeOK, Limits, Idle

(* Every step keeps them: only an event with deliveries left is delivered. *)
LEMMA NextTyped == TypeOK /\ Limits /\ [Next]_vars => (TypeOK /\ Limits)'
<1> SUFFICES ASSUME TypeOK, Limits, [Next]_vars PROVE (TypeOK /\ Limits)'
  OBVIOUS
<1> USE MaxDeliverAssumption, MaxCrashesAssumption
<1>1. ASSUME NEW e \in Events, Publish(e) PROVE (TypeOK /\ Limits)'
  BY <1>1 DEF TypeOK, Limits, Publish, history
<1>2. ASSUME NEW e \in Events, Expire(e) PROVE (TypeOK /\ Limits)'
  BY <1>2 DEF TypeOK, Limits, Expire, Offered
<1>3. ASSUME NEW e \in Events, NEW m \in Members, Deliver(m, e) PROVE (TypeOK /\ Limits)'
  <2>1. PICK pc \in {"handling", "acking"} : Receive(m, e, pc)
    BY <1>3 DEF Deliver
  <2>2. delivered[e] + 1 \in 1..MaxDeliver
    BY <2>1 DEF TypeOK, Limits, Receive
  <2>3. [pc |-> pc, event |-> e, attempt |-> delivered[e] + 1] \in Working
    BY <2>2 DEF Working
  <2> QED
    BY <2>1, <2>2, <2>3 DEF TypeOK, Limits, Receive, history
<1>4. ASSUME NEW m \in Members, HandlerReturns(m) PROVE (TypeOK /\ Limits)'
  <2>1. Busy(m) /\ members[m].event \in Events /\ Moves(m, "acking")
    BY <1>4, BusyMember DEF HandlerReturns, At
  <2>2. members' \in [Members -> {Idle} \cup Working]
    BY <2>1, MoveMember
  <2> QED
    BY <1>4, <2>1, <2>2 DEF TypeOK, Limits, HandlerReturns
<1>5. ASSUME NEW m \in Members, HandlerRaises(m) \/ AckRaises(m) PROVE (TypeOK /\ Limits)'
  <2>1. Busy(m) /\ members[m].event \in Events
    BY <1>5, BusyMember DEF HandlerRaises, AckRaises, At
  <2>2. members' \in [Members -> {Idle} \cup Working]
    BY <1>5, <2>1, MoveMember DEF HandlerRaises, AckRaises, ExceptBranch
  <2> QED
    BY <1>5, <2>1, <2>2 DEF TypeOK, Limits, HandlerRaises, AckRaises, history
<1>6. ASSUME NEW m \in Members, Bury(m) PROVE (TypeOK /\ Limits)'
  <2>1. Busy(m) /\ members[m].event \in Events /\ Moves(m, "closing")
    BY <1>6, BusyMember DEF Bury, At
  <2>2. members' \in [Members -> {Idle} \cup Working]
    BY <2>1, MoveMember
  <2> QED
    BY <1>6, <2>1, <2>2 DEF TypeOK, Limits, Bury
<1>7. ASSUME NEW m \in Members, Ack(m) PROVE (TypeOK /\ Limits)'
  <2>1. members[m].event \in Events /\ Leaves(m)
    BY <1>7, BusyMember DEF Ack, At
  <2>2. members' \in [Members -> {Idle} \cup Working]
    BY <2>1, LeaveMember
  <2> QED
    BY <1>7, <2>1, <2>2 DEF TypeOK, Limits, Ack, Acknowledged, history
<1>8. ASSUME NEW m \in Members, Nak(m) PROVE (TypeOK /\ Limits)'
  <2>1. members[m].event \in Events /\ Leaves(m)
    BY <1>8, BusyMember DEF Nak, At
  <2>2. members' \in [Members -> {Idle} \cup Working]
    BY <2>1, LeaveMember
  <2> QED
    BY <1>8, <2>1, <2>2 DEF TypeOK, Limits, Nak, Offered, history
<1>9. ASSUME NEW m \in Members, AnswerLost(m) PROVE (TypeOK /\ Limits)'
  <2>1. members' \in [Members -> {Idle} \cup Working]
    BY <1>9, LeaveMember DEF AnswerLost
  <2> QED
    BY <1>9, <2>1 DEF TypeOK, Limits, AnswerLost, history
<1>10. ASSUME NEW m \in Members, Crash(m) PROVE (TypeOK /\ Limits)'
  <2>1. members[m].event \in Events
    BY <1>10, BusyMember DEF Crash, Busy
  <2>2. members' \in [Members -> {Idle} \cup Working]
    BY <1>10, LeaveMember DEF Crash
  <2> QED
    BY <1>10, <2>1, <2>2 DEF TypeOK, Limits, Crash
<1>11. CASE UNCHANGED vars
  BY <1>11 DEF TypeOK, Limits, vars, history
<1> QED
  BY <1>1, <1>2, <1>3, <1>4, <1>5, <1>6, <1>7, <1>8, <1>9, <1>10, <1>11
  DEF Next, Handle

-----------------------------------------------------------------------------
\* Deliveries

(* Every step keeps one member per delivery.                               *)
LEMMA NextAttempts ==
    TypeOK /\ Limits /\ Attempts /\ [Next]_vars => Attempts'
<1> SUFFICES ASSUME TypeOK, Limits, Attempts, [Next]_vars PROVE Attempts'
  OBVIOUS
<1> USE MaxDeliverAssumption
<1>s. ASSUME members' = members, delivered' = delivered PROVE Attempts'
  BY <1>s DEF Attempts, Busy
<1>m. ASSUME NEW m \in Members, Busy(m), Moves(m, ExceptBranch(m)), delivered' = delivered
      PROVE  Attempts'
  <2>1. /\ members[m].attempt \in 1..MaxDeliver
        /\ ExceptBranch(m) \in {"burying", "nacking"}
        /\ ExceptBranch(m) = "burying" => members[m].attempt = MaxDeliver
        /\ ExceptBranch(m) = "nacking" => members[m].attempt < MaxDeliver
    BY <1>m, BusyMember DEF ExceptBranch
  <2>2. /\ members'[m].pc = ExceptBranch(m)
        /\ members'[m].event = members[m].event
        /\ members'[m].attempt = members[m].attempt
        /\ \A n \in Members \ {m} : members'[n] = members[n]
    BY <1>m, <2>1, MoveMember
  <2> QED
    BY <1>m, <2>1, <2>2 DEF Attempts, Busy
<1>l. ASSUME NEW m \in Members, Leaves(m), delivered' = delivered PROVE Attempts'
  BY <1>l, LeaveMember DEF Attempts, Busy
<1>1. ASSUME NEW e \in Events, Publish(e) \/ Expire(e) PROVE Attempts'
  BY <1>1, <1>s DEF Publish, Expire
<1>2. ASSUME NEW e \in Events, NEW m \in Members, Deliver(m, e) PROVE Attempts'
  <2>1. PICK pc \in {"handling", "acking"} : Receive(m, e, pc)
    BY <1>2 DEF Deliver
  <2>2. /\ ~Busy(m)
        /\ members'[m] = [pc |-> pc, event |-> e, attempt |-> delivered[e] + 1]
        /\ \A n \in Members \ {m} : members'[n] = members[n]
        /\ delivered[e] \in Nat
        /\ delivered'[e] = delivered[e] + 1
        /\ \A f \in Events \ {e} : delivered'[f] = delivered[f]
    BY <2>1 DEF TypeOK, Receive, Busy
  <2>3. \A n \in Members \ {m} : Busy(n) =>
            /\ members[n].event \in Events
            /\ members[n].attempt \in 1..MaxDeliver
            /\ members[n].attempt <= delivered[members[n].event]
            /\ delivered[members[n].event] \in Nat
    BY BusyMember DEF Attempts, TypeOK
  <2>4. \A n \in Members \ {m} : Busy(n)' <=> Busy(n)
    BY <2>2 DEF Busy
  <2>5. \A n \in Members \ {m} : Busy(n) =>
            /\ members'[n].attempt <= delivered'[members'[n].event]
            /\ members'[n].event = e => members'[n].attempt < members'[m].attempt
    BY <2>2, <2>3
  <2> QED
    BY <2>2, <2>3, <2>4, <2>5 DEF Attempts
<1>3. ASSUME NEW m \in Members, HandlerReturns(m) PROVE Attempts'
  <2>1. Busy(m) /\ members[m].attempt \in Nat /\ Moves(m, "acking") /\ delivered' = delivered
    BY <1>3, BusyMember DEF HandlerReturns, At
  <2>2. /\ members'[m].pc = "acking"
        /\ members'[m].event = members[m].event
        /\ members'[m].attempt = members[m].attempt
        /\ \A n \in Members \ {m} : members'[n] = members[n]
    BY <2>1, MoveMember
  <2> QED
    BY <2>1, <2>2 DEF Attempts, Busy
<1>4. ASSUME NEW m \in Members, HandlerRaises(m) \/ AckRaises(m) PROVE Attempts'
  BY <1>4, <1>m, BusyMember DEF HandlerRaises, AckRaises, At
<1>5. ASSUME NEW m \in Members, Bury(m) PROVE Attempts'
  <2>1. /\ Busy(m)
        /\ members[m].attempt = MaxDeliver
        /\ Moves(m, "closing")
        /\ delivered' = delivered
    BY <1>5, BusyMember DEF Bury, At, Attempts
  <2>2. /\ members'[m].pc = "closing"
        /\ members'[m].event = members[m].event
        /\ members'[m].attempt = members[m].attempt
        /\ \A n \in Members \ {m} : members'[n] = members[n]
    BY <2>1, MoveMember
  <2> QED
    BY <2>1, <2>2 DEF Attempts, Busy
<1>6. ASSUME NEW m \in Members, Ack(m) \/ Nak(m) \/ AnswerLost(m) \/ Crash(m) PROVE Attempts'
  BY <1>6, <1>l DEF Ack, Nak, AnswerLost, Crash
<1>7. CASE UNCHANGED vars
  BY <1>7, <1>s DEF vars
<1> QED
  BY <1>1, <1>2, <1>3, <1>4, <1>5, <1>6, <1>7 DEF Next, Handle

-----------------------------------------------------------------------------
\* Dead letters

(* Only the member with the last delivery writes the dead letter, once.    *)
LEMMA NextBuried ==
    TypeOK /\ Limits /\ Attempts /\ Buried /\ [Next]_vars => Buried'
<1> SUFFICES ASSUME TypeOK, Limits, Attempts, Buried, [Next]_vars PROVE Buried'
  OBVIOUS
<1> USE MaxDeliverAssumption
<1>s. ASSUME deadLetters' = deadLetters, delivered' = delivered,
             \A m \in Members : members'[m] = members[m] \/ members'[m] = Idle
      PROVE  Buried'
  BY <1>s DEF Buried, LastAttemptOf
<1>m. ASSUME NEW m \in Members, Busy(m), members[m].pc # "closing",
             NEW pc \in {"acking", "nacking", "burying"}, Moves(m, pc),
             deadLetters' = deadLetters, delivered' = delivered
      PROVE  Buried'
  <2>1. /\ members'[m].event = members[m].event
        /\ members'[m].attempt = members[m].attempt
        /\ \A n \in Members \ {m} : members'[n] = members[n]
    BY <1>m, MoveMember
  <2>2. \A e \in Events : LastAttemptOf(m, e)' => LastAttemptOf(m, e)
    BY <1>m, <2>1 DEF LastAttemptOf, Busy
  <2> QED
    BY <1>m, <2>1, <2>2 DEF Buried, LastAttemptOf
<1>1. ASSUME NEW e \in Events, Publish(e) \/ Expire(e) PROVE Buried'
  BY <1>1, <1>s DEF Publish, Expire
<1>2. ASSUME NEW e \in Events, NEW m \in Members, Deliver(m, e) PROVE Buried'
  <2>1. PICK pc \in {"handling", "acking"} : Receive(m, e, pc)
    BY <1>2 DEF Deliver
  <2>2. /\ members'[m].event = e
        /\ \A n \in Members \ {m} : members'[n] = members[n]
        /\ deadLetters' = deadLetters
        /\ \A f \in Events \ {e} : delivered'[f] = delivered[f]
    BY <2>1 DEF TypeOK, Receive
  <2>3. deadLetters[e] # 1 /\ deadLetters[e] <= 1
    BY <2>1 DEF Receive, Limits, Buried, TypeOK
  <2> QED
    BY <2>2, <2>3 DEF Buried, LastAttemptOf
<1>3. ASSUME NEW m \in Members, HandlerReturns(m) \/ HandlerRaises(m) \/ AckRaises(m)
      PROVE  Buried'
  BY <1>3, <1>m, BusyMember DEF HandlerReturns, HandlerRaises, AckRaises, At, ExceptBranch
<1>4. ASSUME NEW m \in Members, Bury(m) PROVE Buried'
  <2>1. PICK e \in Events : e = members[m].event
    BY <1>4, BusyMember DEF Bury, At
  <2>2. /\ Busy(m)
        /\ members[m].attempt = MaxDeliver
        /\ members[m].pc = "burying"
        /\ Moves(m, "closing")
        /\ delivered' = delivered
    BY <1>4, BusyMember DEF Bury, At, Attempts
  <2>3. /\ members'[m].pc = "closing"
        /\ members'[m].event = e
        /\ \A n \in Members \ {m} : members'[n] = members[n]
    BY <2>1, <2>2, MoveMember
  <2>4. deadLetters[e] # 1 /\ deadLetters[e] \in Nat /\ deadLetters[e] <= 1
    BY <2>1, <2>2 DEF Buried, LastAttemptOf, Busy, TypeOK
  <2>5. delivered[e] = MaxDeliver
    BY <2>1, <2>2 DEF Attempts, TypeOK
  <2>6. \A n \in Members \ {m} : ~LastAttemptOf(n, e)
    BY <2>1, <2>2 DEF Attempts, LastAttemptOf, Busy
  <2>7. /\ deadLetters'[e] \in {deadLetters[e], deadLetters[e] + 1}
        /\ \A f \in Events \ {e} : deadLetters'[f] = deadLetters[f]
    BY <1>4, <2>1 DEF Bury, TypeOK
  <2>8. \A n \in Members : LastAttemptOf(n, e)' => n = m
    BY <2>3, <2>6 DEF LastAttemptOf
  <2>9. \A f \in Events \ {e}, n \in Members : LastAttemptOf(n, f)' =>
            LastAttemptOf(n, f) /\ members'[n].pc = members[n].pc
    BY <2>3 DEF LastAttemptOf
  <2>10. \A f \in Events \ {e} :
            /\ deadLetters'[f] <= 1
            /\ deadLetters'[f] = 1 =>
                /\ delivered'[f] = MaxDeliver
                /\ \A n \in Members : LastAttemptOf(n, f)' => members'[n].pc = "closing"
    BY <2>2, <2>7, <2>9 DEF Buried
  <2>11. /\ deadLetters'[e] <= 1
         /\ delivered'[e] = MaxDeliver
         /\ \A n \in Members : LastAttemptOf(n, e)' => members'[n].pc = "closing"
    BY <2>2, <2>3, <2>4, <2>5, <2>7, <2>8
  <2> QED
    BY <2>10, <2>11 DEF Buried
<1>5. ASSUME NEW m \in Members, Ack(m) \/ Nak(m) \/ AnswerLost(m) \/ Crash(m) PROVE Buried'
  BY <1>5, <1>s, LeaveMember DEF Ack, Nak, AnswerLost, Crash
<1>6. CASE UNCHANGED vars
  BY <1>6, <1>s DEF vars
<1> QED
  BY <1>1, <1>2, <1>3, <1>4, <1>5, <1>6 DEF Next, Handle

-----------------------------------------------------------------------------
\* Losses

(* Every step that ends the last delivery of an event accounts for it.     *)
LEMMA NextJustified ==
    TypeOK /\ Limits /\ Attempts /\ Justified /\ [Next]_vars => Justified'
<1> SUFFICES ASSUME TypeOK, Limits, Attempts, Justified, [Next]_vars PROVE Justified'
  OBVIOUS
<1> USE MaxDeliverAssumption, WantedAssumption
<1>1. ASSUME NEW e \in Events, Publish(e) \/ Expire(e) PROVE Justified'
  <2>1. /\ <<delivered, members, deadLetters, handled, cutShort, refused>>'
             = <<delivered, members, deadLetters, handled, cutShort, refused>>
        /\ \A f \in Events : stream'[f] = "acked" => stream[f] = "acked"
    BY <1>1 DEF Publish, Expire, Offered, history, TypeOK
  <2> QED
    BY <2>1 DEF Justified, Accounted, LastAttemptOf
<1>2. ASSUME NEW e \in Events, NEW m \in Members, Deliver(m, e) PROVE Justified'
  <2>1. PICK pc \in {"handling", "acking"} :
            Receive(m, e, pc) /\ (e \in Wanted => pc = "handling")
    BY <1>2 DEF Deliver
  <2>2. /\ ~Busy(m)
        /\ members'[m] = [pc |-> pc, event |-> e, attempt |-> delivered[e] + 1]
        /\ \A n \in Members \ {m} : members'[n] = members[n]
        /\ delivered[e] \in Nat
        /\ delivered'[e] = delivered[e] + 1
        /\ \A f \in Events \ {e} : delivered'[f] = delivered[f]
        /\ \A f \in Events : stream'[f] = "acked" => stream[f] = "acked"
        /\ <<deadLetters, handled, cutShort, refused>>'
             = <<deadLetters, handled, cutShort, refused>>
    BY <2>1 DEF TypeOK, Receive, Busy, history
  <2>3. \A f \in Events, n \in Members : LastAttemptOf(n, f) => LastAttemptOf(n, f)'
    BY <2>2 DEF LastAttemptOf, Busy
  <2>4. delivered'[e] = MaxDeliver => LastAttemptOf(m, e)'
    BY <2>2 DEF LastAttemptOf, Idle
  <2>5. \A n \in Members, f \in Wanted, p \in {"acking", "closing"} :
            members'[n].pc = p /\ members'[n].event = f =>
                members[n].pc = p /\ members[n].event = f
    BY <2>1, <2>2
  <2> QED
    BY <2>2, <2>3, <2>4, <2>5 DEF Justified, Accounted
<1>3. ASSUME NEW m \in Members, HandlerReturns(m) PROVE Justified'
  <2>1. PICK e \in Events : e = members[m].event
    BY <1>3, BusyMember DEF HandlerReturns, At
  <2>2. /\ Busy(m)
        /\ Moves(m, "acking")
        /\ <<stream, delivered, deadLetters, cutShort, refused>>'
             = <<stream, delivered, deadLetters, cutShort, refused>>
        /\ handled'[e] > 0
        /\ \A f \in Events : handled[f] > 0 => handled'[f] > 0
    BY <1>3, <2>1, BusyMember DEF HandlerReturns, At, TypeOK
  <2>3. /\ members'[m].pc = "acking"
        /\ members'[m].event = e
        /\ members'[m].attempt = members[m].attempt
        /\ Busy(m)'
        /\ \A n \in Members \ {m} : members'[n] = members[n]
    BY <2>1, <2>2, MoveMember
  <2>4. \A f \in Events, n \in Members : LastAttemptOf(n, f) => LastAttemptOf(n, f)'
    BY <2>1, <2>3 DEF LastAttemptOf, Busy
  <2> QED
    BY <2>2, <2>3, <2>4 DEF Justified, Accounted
<1>4. ASSUME NEW m \in Members, HandlerRaises(m) \/ AckRaises(m) PROVE Justified'
  <2>1. /\ Busy(m)
        /\ ExceptBranch(m) \in {"burying", "nacking"}
        /\ Moves(m, ExceptBranch(m))
        /\ <<stream, delivered, deadLetters, handled, cutShort, refused>>'
             = <<stream, delivered, deadLetters, handled, cutShort, refused>>
    BY <1>4, BusyMember DEF HandlerRaises, AckRaises, At, ExceptBranch, history
  <2>2. /\ members'[m].pc \in {"burying", "nacking"}
        /\ members'[m].event = members[m].event
        /\ members'[m].attempt = members[m].attempt
        /\ Busy(m)'
        /\ \A n \in Members \ {m} : members'[n] = members[n]
    BY <2>1, MoveMember
  <2>3. \A f \in Events, n \in Members : LastAttemptOf(n, f) => LastAttemptOf(n, f)'
    BY <2>2 DEF LastAttemptOf, Busy
  <2> QED
    BY <2>1, <2>2, <2>3 DEF Justified, Accounted
<1>5. ASSUME NEW m \in Members, Bury(m) PROVE Justified'
  <2>1. PICK e \in Events : e = members[m].event
    BY <1>5, BusyMember DEF Bury, At
  <2>2. /\ Busy(m)
        /\ Moves(m, "closing")
        /\ <<stream, delivered, handled, cutShort>>' = <<stream, delivered, handled, cutShort>>
        /\ deadLetters'[e] > 0 \/ e \in refused'
        /\ \A f \in Events : deadLetters[f] > 0 => deadLetters'[f] > 0
        /\ refused \subseteq refused'
    BY <1>5, <2>1, BusyMember DEF Bury, At, TypeOK
  <2>3. /\ members'[m].pc = "closing"
        /\ members'[m].event = e
        /\ members'[m].attempt = members[m].attempt
        /\ Busy(m)'
        /\ \A n \in Members \ {m} : members'[n] = members[n]
    BY <2>1, <2>2, MoveMember
  <2>4. \A f \in Events, n \in Members : LastAttemptOf(n, f) => LastAttemptOf(n, f)'
    BY <2>1, <2>3 DEF LastAttemptOf, Busy
  <2> QED
    BY <2>2, <2>3, <2>4 DEF Justified, Accounted
<1>6. ASSUME NEW m \in Members,
             Ack(m) \/ Nak(m) \/ AnswerLost(m) \/ Crash(m)
      PROVE  Justified'
  <2>1. PICK e \in Events : e = members[m].event
    BY <1>6, BusyMember DEF Ack, Nak, AnswerLost, Crash, At, Busy
  <2>2. /\ Busy(m)
        /\ Leaves(m)
        /\ <<delivered, deadLetters, handled, refused>>'
             = <<delivered, deadLetters, handled, refused>>
        /\ cutShort \subseteq cutShort'
    BY <1>6, BusyMember DEF Ack, Nak, AnswerLost, Crash, At, Busy, history
  <2>3. /\ members'[m].pc = "idle"
        /\ \A n \in Members \ {m} : members'[n] = members[n]
    BY <2>2, LeaveMember
  <2>4. e \in Wanted /\ members[m].pc \in {"acking", "closing"} =>
            Accounted(e) \/ e \in refused
    BY <2>1 DEF Justified, Accounted
  <2>5. \A f \in Wanted : stream'[f] = "acked" => Accounted(f) \/ f \in refused
    <3>1. CASE Ack(m)
      BY <3>1, <2>1, <2>4 DEF Ack, At, Acknowledged, Justified, TypeOK
    <3>2. CASE Nak(m)
      BY <3>2, <2>1 DEF Nak, Offered, Justified, TypeOK
    <3>3. CASE AnswerLost(m) \/ Crash(m)
      BY <3>3 DEF AnswerLost, Crash, Justified
    <3> QED
      BY <1>6, <3>1, <3>2, <3>3
  <2>6. e \in Wanted /\ LastAttemptOf(m, e) =>
            Accounted(e) \/ e \in cutShort' \cup refused
    <3>1. CASE Crash(m)
      BY <3>1, <2>1 DEF Crash, LastAttemptOf
    <3>2. CASE Ack(m) \/ Nak(m) \/ AnswerLost(m)
      BY <3>2, <2>2, <2>4 DEF Ack, Nak, AnswerLost, At, LastAttemptOf, Attempts
    <3> QED
      BY <1>6, <3>1, <3>2
  <2>7. \A f \in Wanted, n \in Members : LastAttemptOf(n, f) =>
            LastAttemptOf(n, f)' \/ (n = m /\ f = e)
    BY <2>1, <2>3 DEF LastAttemptOf
  <2> QED
    BY <2>2, <2>3, <2>5, <2>6, <2>7 DEF Justified, Accounted
<1>7. CASE UNCHANGED vars
  BY <1>7 DEF Justified, Accounted, LastAttemptOf, vars, history
<1> QED
  BY <1>1, <1>2, <1>3, <1>4, <1>5, <1>6, <1>7 DEF Next, Handle

-----------------------------------------------------------------------------
\* Repeated handling

(* The server offers an event to a second member only after the answer of  *)
(* the first is late or failed.                                            *)
LEMMA NextExclusive ==
    TypeOK /\ Limits /\ Exclusive /\ [Next]_vars => Exclusive'
<1> SUFFICES ASSUME TypeOK, Limits, Exclusive, [Next]_vars PROVE Exclusive'
  OBVIOUS
<1>1. ASSUME NEW e \in Events, Publish(e) PROVE Exclusive'
  BY <1>1, BusyMember DEF Exclusive, Publish, history, TypeOK, Busy
<1>2. ASSUME NEW e \in Events, Expire(e) PROVE Exclusive'
  <2>1. /\ late' = late \cup {e}
        /\ members' = members /\ handled' = handled
        /\ \A f \in Events \ {e} : stream'[f] = stream[f]
    BY <1>2 DEF Expire, Offered, TypeOK
  <2> QED
    BY <2>1, BusyMember DEF Exclusive, Busy
<1>3. ASSUME NEW e \in Events, NEW m \in Members, Deliver(m, e) PROVE Exclusive'
  <2>1. PICK pc \in {"handling", "acking"} : Receive(m, e, pc)
    BY <1>3 DEF Deliver
  <2>2. /\ ~Busy(m)
        /\ stream[e] = "pending" /\ stream'[e] = "unacked"
        /\ \A f \in Events \ {e} : stream'[f] = stream[f]
        /\ members'[m].event = e
        /\ \A n \in Members \ {m} : members'[n] = members[n]
        /\ late' = late /\ handled' = handled
    BY <2>1 DEF TypeOK, Receive, Busy, history
  <2>3. e \notin late => \A n \in Members : ~(Busy(n) /\ members[n].event = e)
    BY <2>2 DEF Exclusive
  <2>4. e \notin late => handled[e] <= 1 /\ handled[e] # 1
    BY <2>2 DEF Exclusive
  <2>5. \A n \in Members : Busy(n)' /\ n # m => Busy(n) /\ members'[n] = members[n]
    BY <2>2 DEF Busy
  <2>6. \A n \in Members : Busy(n) => members[n].event \in Events
    BY BusyMember
  <2> QED
    BY <2>2, <2>3, <2>4, <2>5, <2>6 DEF Exclusive
<1>4. ASSUME NEW m \in Members, HandlerReturns(m) PROVE Exclusive'
  <2>1. PICK e \in Events : e = members[m].event
    BY <1>4, BusyMember DEF HandlerReturns, At
  <2>2. /\ Busy(m)
        /\ Moves(m, "acking")
        /\ members[m].pc = "handling"
        /\ stream' = stream /\ late' = late
        /\ handled'[e] = handled[e] + 1
        /\ \A f \in Events \ {e} : handled'[f] = handled[f]
    BY <1>4, <2>1, BusyMember DEF HandlerReturns, At, TypeOK
  <2>3. /\ members'[m].pc = "acking"
        /\ members'[m].event = e
        /\ Busy(m)'
        /\ \A n \in Members \ {m} : members'[n] = members[n]
    BY <2>1, <2>2, MoveMember
  <2>4. \A n \in Members : Busy(n)' => Busy(n) /\ members'[n].event = members[n].event
    BY <2>1, <2>2, <2>3 DEF Busy
  <2>5. e \notin late => handled[e] <= 1 /\ handled[e] # 1 /\ handled[e] \in Nat
    BY <2>1, <2>2 DEF Exclusive, TypeOK
  <2>6. e \notin late =>
            /\ stream[e] = "unacked"
            /\ \A n \in Members : Busy(n) /\ members[n].event = e => n = m
    BY <2>1, <2>2 DEF Exclusive
  <2>7. \A n \in Members : Busy(n)' /\ members'[n].event \notin late' =>
            /\ stream'[members'[n].event] = "unacked"
            /\ \A k \in Members : Busy(k)' /\ members'[k].event = members'[n].event => k = n
    BY <2>2, <2>4 DEF Exclusive
  <2>8. \A f \in Events \ late' :
            /\ handled'[f] <= 1
            /\ handled'[f] = 1 =>
                /\ stream'[f] \in {"unacked", "acked"}
                /\ \A n \in Members : Busy(n)' /\ members'[n].event = f =>
                    members'[n].pc = "acking"
    <3>1. CASE e \notin late
      <4>1. /\ handled'[e] <= 1
            /\ stream'[e] \in {"unacked", "acked"}
            /\ \A n \in Members : Busy(n)' /\ members'[n].event = e => members'[n].pc = "acking"
        BY <3>1, <2>2, <2>3, <2>4, <2>5, <2>6
      <4>2. \A n \in Members, f \in Events \ {e} :
                Busy(n)' /\ members'[n].event = f => members'[n] = members[n]
        BY <2>3
      <4> QED
        BY <4>1, <4>2, <2>2, <2>4 DEF Exclusive
    <3>2. CASE e \in late
      <4>1. \A n \in Members, f \in Events \ {e} :
                Busy(n)' /\ members'[n].event = f => members'[n] = members[n]
        BY <2>3
      <4> QED
        BY <3>2, <4>1, <2>2, <2>4 DEF Exclusive
    <3> QED
      BY <3>1, <3>2
  <2> QED
    BY <2>7, <2>8 DEF Exclusive
<1>5. ASSUME NEW m \in Members, HandlerRaises(m) \/ AckRaises(m) \/ Bury(m) PROVE Exclusive'
  <2>1. PICK e \in Events : e = members[m].event
    BY <1>5, BusyMember DEF HandlerRaises, AckRaises, Bury, At
  <2>2. PICK pc \in {"burying", "nacking", "closing"} : Moves(m, pc)
    BY <1>5 DEF HandlerRaises, AckRaises, Bury, ExceptBranch
  <2>3. /\ Busy(m)
        /\ members[m].pc = "acking" => e \in late'
        /\ stream' = stream /\ handled' = handled
        /\ late \subseteq late'
    BY <1>5, <2>1, BusyMember DEF HandlerRaises, AckRaises, Bury, At, history
  <2>4. /\ members'[m].event = e
        /\ \A n \in Members \ {m} : members'[n] = members[n]
    BY <2>1, <2>2, <2>3, MoveMember
  <2>5. \A n \in Members : Busy(n)' => Busy(n) /\ members'[n].event = members[n].event
    BY <2>1, <2>3, <2>4 DEF Busy
  <2>6. e \notin late' => handled[e] # 1
    BY <2>1, <2>3 DEF Exclusive
  <2>7. \A n \in Members, f \in Events \ {e} :
            Busy(n)' /\ members'[n].event = f => members'[n] = members[n]
    BY <2>4
  <2>8. \A n \in Members : Busy(n)' /\ members'[n].event \notin late' =>
            /\ stream'[members'[n].event] = "unacked"
            /\ \A k \in Members : Busy(k)' /\ members'[k].event = members'[n].event => k = n
    BY <2>3, <2>5 DEF Exclusive
  <2>9. \A f \in Events \ late' :
            /\ handled'[f] <= 1
            /\ handled'[f] = 1 =>
                /\ stream'[f] \in {"unacked", "acked"}
                /\ \A n \in Members : Busy(n)' /\ members'[n].event = f =>
                    members'[n].pc = "acking"
    BY <2>3, <2>5, <2>6, <2>7 DEF Exclusive
  <2> QED
    BY <2>8, <2>9 DEF Exclusive
<1>6. ASSUME NEW m \in Members, Ack(m) \/ Nak(m) \/ AnswerLost(m) \/ Crash(m)
      PROVE  Exclusive'
  <2>1. PICK e \in Events : e = members[m].event
    BY <1>6, BusyMember DEF Ack, Nak, AnswerLost, Crash, At, Busy
  <2>2. Busy(m) /\ Leaves(m) /\ handled' = handled /\ late' = late
    BY <1>6, BusyMember DEF Ack, Nak, AnswerLost, Crash, At, Busy, history
  <2>3. ~Busy(m)' /\ \A n \in Members \ {m} : members'[n] = members[n]
    BY <2>2, LeaveMember
  <2>4. \A f \in Events \ {e} : stream'[f] = stream[f]
    BY <1>6, <2>1 DEF Ack, Nak, AnswerLost, Crash, Acknowledged, Offered, TypeOK, history
  <2>5. e \notin late =>
            /\ \A n \in Members \ {m} : ~(Busy(n) /\ members[n].event = e)
            /\ handled[e] = 1 => members[m].pc = "acking"
    BY <2>1, <2>2 DEF Exclusive
  <2>6. members[m].pc = "acking" =>
            stream'[e] = stream[e] \/ stream'[e] \in {"unacked", "acked"}
    BY <1>6, <2>1 DEF Ack, Nak, AnswerLost, Crash, Acknowledged, TypeOK, At
  <2>7. \A n \in Members : Busy(n)' => n # m /\ Busy(n) /\ members'[n] = members[n]
    BY <2>3 DEF Busy
  <2>8. \A n \in Members : Busy(n) => members[n].event \in Events
    BY BusyMember
  <2>9. \A n \in Members : Busy(n)' /\ members'[n].event \notin late' =>
            /\ stream'[members'[n].event] = "unacked"
            /\ \A k \in Members : Busy(k)' /\ members'[k].event = members'[n].event => k = n
    BY <2>2, <2>4, <2>5, <2>7, <2>8 DEF Exclusive
  <2>10. \A f \in Events \ late' :
            /\ handled'[f] <= 1
            /\ handled'[f] = 1 =>
                /\ stream'[f] \in {"unacked", "acked"}
                /\ \A n \in Members : Busy(n)' /\ members'[n].event = f =>
                    members'[n].pc = "acking"
    BY <2>2, <2>4, <2>5, <2>6, <2>7 DEF Exclusive
  <2> QED
    BY <2>9, <2>10 DEF Exclusive
<1>7. CASE UNCHANGED vars
  BY <1>7 DEF Exclusive, Busy, vars, history
<1> QED
  BY <1>1, <1>2, <1>3, <1>4, <1>5, <1>6, <1>7 DEF Next, Handle

-----------------------------------------------------------------------------
\* The theorems

DeliveryInv == TypeOK /\ Limits /\ Attempts /\ Buried /\ Justified /\ Exclusive

(* The conjunction is inductive.                                           *)
LEMMA DeliveryInvariant == Spec => []DeliveryInv
<1>1. Init => DeliveryInv
  <2>1. Init => Attempts /\ Buried /\ Justified /\ Exclusive
    BY MaxDeliverAssumption, WantedAssumption
    DEF Init, Idle, Attempts, Buried, Justified, Exclusive, Busy, Accounted, LastAttemptOf
  <2> QED
    BY <2>1, InitTyped DEF DeliveryInv
<1>2. DeliveryInv /\ [Next]_vars => DeliveryInv'
  BY NextTyped, NextAttempts, NextBuried, NextJustified, NextExclusive DEF DeliveryInv
<1> QED
  BY <1>1, <1>2, PTL DEF Spec

(* Types and delivery counts: no event is delivered more than max_deliver  *)
(* times, whatever answers are lost or late and whoever crashes.           *)
THEOREM TypeCorrect == Spec => []TypeOK
<1>1. DeliveryInv => TypeOK
  BY DEF DeliveryInv
<1> QED
  BY <1>1, DeliveryInvariant, PTL

(* Without a crash in its last delivery or a refused dead letter no wanted *)
(* event is lost, for every group of members.                              *)
THEOREM LossNeedsAFaultCorrect == Spec => []LossNeedsAFault
<1>1. DeliveryInv => LossNeedsAFault
  BY WantedAssumption
  DEF DeliveryInv, Limits, Justified, LossNeedsAFault, NobodyOnLast
<1> QED
  BY <1>1, DeliveryInvariant, PTL

(* An event is dead-lettered at most once and only after max_deliver       *)
(* deliveries.                                                             *)
THEOREM DeadLetteredOnceCorrect == Spec => []DeadLetteredOnce
<1>1. DeliveryInv => DeadLetteredOnce
  BY DEF DeliveryInv, Buried, DeadLetteredOnce
<1> QED
  BY <1>1, DeliveryInvariant, PTL

(* A handler succeeds twice on an event only if an acknowledgement of it   *)
(* was late, lost or raised.                                               *)
THEOREM RepeatNeedsExpiryCorrect == Spec => []RepeatNeedsExpiry
<1>1. DeliveryInv => RepeatNeedsExpiry
  BY DEF DeliveryInv, Exclusive, RepeatNeedsExpiry, TypeOK
<1> QED
  BY <1>1, DeliveryInvariant, PTL
=============================================================================
