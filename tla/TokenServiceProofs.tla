------------------------- MODULE TokenServiceProofs -------------------------
(***************************************************************************)
(* Proofs about TokenService, for every set of processes, tokens and       *)
(* calls, every time to live and every bound.                              *)
(***************************************************************************)
EXTENDS TokenService, Integers, TLAPS

CallState == {Idle} \cup Working \cup Writing
Token == {Unissued} \cup [issued: {TRUE}, proc: Processes, life: 0..MaxRestarts, exp: Nat]

\* What the program counter of a call says about its shape
LEMMA CallShape ==
  ASSUME TypeOK, NEW c \in Calls
  PROVE  /\ calls[c] # Idle =>
              /\ calls[c].proc \in Processes
              /\ calls[c].token \in Tokens
              /\ jwt[calls[c].token] # Unissued
         /\ calls[c] = Idle <=> Doing(c, "idle")
         /\ Doing(c, "writing") => calls[c] \in Writing
  BY DEF TypeOK, Doing, Idle, Working, Writing

\* What is known of a signed token
LEMMA TokenShape ==
  ASSUME TypeOK, NEW t \in Tokens, jwt[t] # Unissued
  PROVE  jwt[t].proc \in Processes /\ jwt[t].life \in 0..MaxRestarts /\ jwt[t].exp \in Nat
  BY DEF TypeOK

\* Types of the numbers
LEMMA ClockIsNat ==
  ASSUME TypeOK
  PROVE  clock \in Nat
  <1>1. clock \in 0..MaxClock
    BY DEF TypeOK
  <1>2. QED
    BY <1>1, BoundAssumption

\* Half seconds and full seconds
LEMMA Halves ==
  ASSUME NEW c \in Nat
  PROVE  c \div 2 \in Nat /\ 2 * (c \div 2) <= c
  OBVIOUS

LEMMA Remaining ==
  ASSUME NEW c \in Nat, NEW e \in Nat, 2 * e > c
  PROVE  c + 2 * (e - (c \div 2)) \in Nat /\ c + 2 * (e - (c \div 2)) >= 2 * e
  BY Halves

\* The guard remembers a token that has not expired at least until it has
LEMMA GuardOutlastsToken ==
  ASSUME TypeOK, NEW t \in Tokens, jwt[t] # Unissued, ~Expired(t)
  PROVE  RemembersUntil(t) \in Nat /\ RemembersUntil(t) >= 2 * jwt[t].exp
  <1>1. jwt[t].exp \in Nat /\ clock \in Nat
    BY TokenShape, ClockIsNat
  <1>2. 2 * jwt[t].exp > clock
    BY <1>1 DEF Expired
  <1>3. QED
    BY <1>1, <1>2, Remaining DEF RemembersUntil, Second

-----------------------------------------------------------------------------
\* Type correctness

\* A call goes on or ends
LEMMA CallMoves ==
  ASSUME TypeOK, NEW c \in Calls, NEW v \in CallState, calls' = [calls EXCEPT ![c] = v],
         v # Idle => jwt'[v.token] # Unissued,
         \A t \in Tokens : jwt[t] # Unissued => jwt'[t] # Unissued
  PROVE  /\ calls' \in [Calls -> CallState]
         /\ \A d \in Calls : calls'[d] # Idle => jwt'[calls'[d].token] # Unissued
  <1>1. calls' \in [Calls -> CallState]
    BY DEF TypeOK, CallState
  <1>2. ASSUME NEW d \in Calls, calls'[d] # Idle
        PROVE  jwt'[calls'[d].token] # Unissued
    <2>1. CASE d = c
      BY <2>1, <1>2 DEF TypeOK
    <2>2. CASE d # c
      BY <2>2, <1>2, CallShape DEF TypeOK
    <2>3. QED
      BY <2>1, <2>2
  <1>3. QED
    BY <1>1, <1>2

\* The states calls go to
LEMMA CallValues ==
  /\ Idle \in CallState
  /\ \A p \in Processes, t \in Tokens, pc \in {"storing", "looking", "auditing"} :
        [pc |-> pc, proc |-> p, token |-> t] \in CallState
  /\ \A p \in Processes, t \in Tokens, n \in Nat :
        [pc |-> "writing", proc |-> p, token |-> t, found |-> n] \in CallState
  BY DEF CallState, Working, Writing

\* Every step keeps the declared types
LEMMA NextTypeOK == TypeOK /\ [Next]_vars => TypeOK'
  <1> SUFFICES ASSUME TypeOK, [Next]_vars
               PROVE  TypeOK'
    OBVIOUS
  <1> USE DEF CallState
  <1>1. ASSUME NEW c \in Calls, NEW p \in Processes, NEW t \in Tokens, Issue(c, p, t)
        PROVE  TypeOK'
    <2>1. Signed(p) \in Token /\ Signed(p) # Unissued
      <3>1. Second + Ttl \in Nat
        BY Halves, TtlAssumption, BoundAssumption DEF Second, TypeOK
      <3>2. QED
        BY <3>1 DEF Signed, Token, Unissued, TypeOK
    <2>2. jwt' \in [Tokens -> Token] /\ jwt'[t] # Unissued
      BY <1>1, <2>1 DEF Issue, TypeOK, Token
    <2>3. \A s \in Tokens : jwt[s] # Unissued => jwt'[s] # Unissued
      BY <1>1, <2>1 DEF Issue, TypeOK
    <2>4. /\ calls' \in [Calls -> CallState]
          /\ \A d \in Calls : calls'[d] # Idle => jwt'[calls'[d].token] # Unissued
      BY <1>1, <2>2, <2>3, CallMoves, CallValues DEF Issue, Serves
    <2>5. QED
      BY <1>1, <2>2, <2>3, <2>4 DEF Issue, TypeOK, Token
  <1>2. ASSUME NEW p \in Processes, NEW t \in Tokens, Passes(p, t), Seen(p, t)
        PROVE  guard' \in [Processes -> [Tokens -> Nat]] /\ jwt[t] # Unissued
    <2>1. jwt[t] # Unissued
      BY <1>2 DEF Passes, TypeOK
    <2>2. RemembersUntil(t) \in Nat
      BY <1>2, <2>1, GuardOutlastsToken DEF Passes
    <2>3. QED
      BY <1>2, <2>1, <2>2 DEF Seen, TypeOK
  <1>3. ASSUME NEW c \in Calls, NEW p \in Processes, NEW t \in Tokens, Verify(c, p, t)
        PROVE  TypeOK'
    <2>1. guard' \in [Processes -> [Tokens -> Nat]] /\ jwt[t] # Unissued
      BY <1>2, <1>3 DEF Verify
    <2>2. /\ calls' \in [Calls -> CallState]
          /\ \A d \in Calls : calls'[d] # Idle => jwt'[calls'[d].token] # Unissued
      BY <1>3, <2>1, CallMoves, CallValues DEF Verify, Serves
    <2>3. QED
      BY <1>3, <2>1, <2>2 DEF Verify, TypeOK
  <1>4. ASSUME NEW p \in Processes, NEW t \in Tokens, VerifyForeign(p, t)
        PROVE  TypeOK'
    BY <1>2, <1>4 DEF VerifyForeign, TypeOK
  <1>5. ASSUME NEW c \in Calls, calls[c] # Idle, NEW v \in CallState,
               calls' = [calls EXCEPT ![c] = v], v # Idle => v.token = calls[c].token,
               jwt' = jwt
        PROVE  /\ calls' \in [Calls -> CallState]
               /\ \A d \in Calls : calls'[d] # Idle => jwt'[calls'[d].token] # Unissued
    <2>1. v # Idle => jwt'[v.token] # Unissued
      BY <1>5, CallShape
    <2>2. QED
      BY <1>5, <2>1, CallMoves
  <1>6. ASSUME NEW c \in Calls, calls[c] # Idle, jwt' = jwt,
               NEW pc \in {"storing", "looking", "auditing"},
               Ends(c) \/ Continues(c, pc)
        PROVE  /\ calls' \in [Calls -> CallState]
               /\ \A d \in Calls : calls'[d] # Idle => jwt'[calls'[d].token] # Unissued
    BY <1>5, <1>6, CallShape, CallValues DEF Ends, Continues, Serves
  <1>7. ASSUME NEW c \in Calls, NEW done \in BOOLEAN,
               Store(c) \/ StoreFails(c, done) \/ Audit(c, done)
        PROVE  TypeOK'
    <2>1. calls[c] # Idle /\ calls[c].token \in Tokens /\ jwt[calls[c].token] # Unissued
      BY <1>7, CallShape DEF Store, StoreFails, Audit, Doing, Idle
    <2>2. /\ calls' \in [Calls -> CallState]
          /\ \A d \in Calls : calls'[d] # Idle => jwt'[calls'[d].token] # Unissued
      BY <1>6, <1>7, <2>1 DEF Store, StoreFails, Audit
    <2>3. CASE Store(c) \/ StoreFails(c, done)
      BY <2>1, <2>2, <2>3 DEF Store, StoreFails, TypeOK
    <2>4. CASE Audit(c, done)
      BY <2>1, <2>2, <2>4 DEF Audit, TypeOK
    <2>5. QED
      BY <1>7, <2>3, <2>4
  <1>8. ASSUME NEW c \in Calls, LookUp(c)
        PROVE  TypeOK'
    <2>1. calls[c] # Idle /\ calls[c].token \in Tokens /\ calls[c].proc \in Processes
      BY <1>8, CallShape DEF LookUp, Doing, Idle
    <2>2. uses[calls[c].token] \in Nat
      BY <2>1 DEF TypeOK
    <2>3. /\ calls' \in [Calls -> CallState]
          /\ \A d \in Calls : calls'[d] # Idle => jwt'[calls'[d].token] # Unissued
      BY <1>5, <1>8, <2>1, <2>2, CallValues DEF LookUp
    <2>4. QED
      BY <1>8, <2>3 DEF LookUp, TypeOK
  <1>9. ASSUME NEW c \in Calls, Doing(c, "writing")
        PROVE  Counted(c) \in [Tokens -> Nat] /\ calls[c].token \in Tokens /\ calls[c] # Idle
    <2>1. calls[c].token \in Tokens /\ calls[c].found \in Nat /\ calls[c] # Idle
      BY <1>9, CallShape DEF Writing, Doing, Idle
    <2>2. uses \in [Tokens -> Nat]
      BY DEF TypeOK
    <2>3. QED
      BY <2>1, <2>2 DEF Counted
  <1>10. ASSUME NEW c \in Calls, Record(c)
         PROVE  TypeOK'
    <2>1. /\ calls' \in [Calls -> CallState]
          /\ \A d \in Calls : calls'[d] # Idle => jwt'[calls'[d].token] # Unissued
      BY <1>6, <1>9, <1>10 DEF Record
    <2>2. accepted' \in [Tokens -> Nat] /\ uses' \in [Tokens -> Nat]
      BY <1>9, <1>10 DEF Record, TypeOK
    <2>3. QED
      BY <1>10, <2>1, <2>2 DEF Record, TypeOK
  <1>11. ASSUME NEW c \in Calls, NEW done \in BOOLEAN, RecordFails(c, done)
         PROVE  TypeOK'
    <2>1. calls[c] # Idle
      BY <1>11 DEF RecordFails, Doing, Idle
    <2>2. /\ calls' \in [Calls -> CallState]
          /\ \A d \in Calls : calls'[d] # Idle => jwt'[calls'[d].token] # Unissued
      BY <1>6, <1>11, <2>1 DEF RecordFails
    <2>3. uses' \in [Tokens -> Nat]
      BY <1>9, <1>11 DEF RecordFails, TypeOK
    <2>4. QED
      BY <1>11, <2>2, <2>3 DEF RecordFails, TypeOK
  <1>12. CASE CleanTokens \/ CleanUses \/ \E old \in SUBSET audited : CleanAudits(old)
    <2>1. CASE CleanTokens
      BY <2>1 DEF CleanTokens, TypeOK
    <2>2. CASE CleanUses
      <3>1. uses' \in [Tokens -> Nat]
        BY <2>2 DEF CleanUses, TypeOK
      <3>2. QED
        BY <2>2, <3>1 DEF CleanUses, TypeOK
    <2>3. ASSUME NEW old \in SUBSET audited, CleanAudits(old)
          PROVE  TypeOK'
      BY <2>3 DEF CleanAudits, TypeOK
    <2>4. QED
      BY <1>12, <2>1, <2>2, <2>3
  <1>13. ASSUME NEW p \in Processes, Restart(p)
         PROVE  TypeOK'
    <2>1. life[p] + 1 \in 0..MaxRestarts
      BY <1>13, BoundAssumption DEF Restart, TypeOK
    <2>2. life' \in [Processes -> 0..MaxRestarts] /\ guard' \in [Processes -> [Tokens -> Nat]]
      BY <1>13, <2>1 DEF Restart, TypeOK
    <2>3. /\ calls' \in [Calls -> CallState]
          /\ \A d \in Calls : calls'[d] # Idle => calls'[d] = calls[d]
      BY <1>13 DEF Restart, TypeOK
    <2>4. QED
      BY <1>13, <2>2, <2>3 DEF Restart, TypeOK
  <1>14. CASE Tick
    <2>1. clock' \in 0..MaxClock
      <3>1. clock \in 0..MaxClock /\ clock < MaxClock /\ clock' = clock + 1
        BY <1>14 DEF Tick, TypeOK
      <3>2. QED
        BY <3>1, BoundAssumption
    <2>2. QED
      BY <1>14, <2>1 DEF Tick, TypeOK
  <1>15. CASE UNCHANGED vars
    BY <1>15 DEF vars, TypeOK
  <1>16. QED
    BY <1>1, <1>3, <1>4, <1>7, <1>8, <1>10, <1>11, <1>12, <1>13, <1>14, <1>15 DEF Next

\* Every variable keeps its type, for every number of processes, tokens and calls.
THEOREM TypeCorrect == Spec => []TypeOK
  <1>1. Init => TypeOK
    BY BoundAssumption DEF Init, TypeOK
  <1>2. QED
    BY <1>1, NextTypeOK, PTL DEF Spec

-----------------------------------------------------------------------------
\* A token passes at most once

InFlight(c, t) == (Doing(c, "looking") \/ Doing(c, "writing")) /\ calls[c].token = t

\* The guard of the process that could still accept the token outlasts it
Spent(t) == \A p \in Processes : SignedBy(p, t) => guard[p][t] >= 2 * jwt[t].exp

Touched(t) == accepted[t] > 0 \/ uses[t] > 0 \/ (\E c \in Calls : InFlight(c, t))

\* A token that has passed was delivered and is spent, and while the call that it passed in is under
\* way nothing is recorded of it
TokenInv(t) ==
    /\ jwt[t] # Unissued => jwt[t].life <= life[jwt[t].proc]
    /\ Touched(t) => t \in delivered /\ Spent(t)
    /\ accepted[t] <= 1 /\ uses[t] <= 1
    /\ \A c \in Calls : InFlight(c, t) =>
          /\ accepted[t] = 0 /\ uses[t] = 0
          /\ Doing(c, "writing") => calls[c].found = 0
          /\ \A d \in Calls : InFlight(d, t) => d = c
    /\ t \in delivered /\ InUse(t) => t \in rows /\ (accepted[t] > 0 => uses[t] > 0)

Inv == TypeOK /\ \A t \in Tokens : TokenInv(t)

\* A step that adds nothing to what is known of a token
LEMMA TokenFrame ==
  ASSUME NEW t \in Tokens, TypeOK, TokenInv(t), jwt'[t] = jwt[t],
         accepted'[t] = accepted[t], uses'[t] = uses[t],
         t \in delivered => t \in delivered',
         t \in delivered' /\ InUse(t)' => t \in rows' /\ InUse(t),
         \A c \in Calls : InFlight(c, t)' =>
            InFlight(c, t) /\ (Doing(c, "writing")' => calls'[c].found = 0),
         \A p \in Processes : SignedBy(p, t)' /\ Touched(t) =>
            SignedBy(p, t) /\ guard'[p][t] >= 2 * jwt[t].exp,
         jwt[t] # Unissued => jwt[t].life <= life'[jwt[t].proc]
  PROVE  TokenInv(t)'
  <1>1. (jwt[t] # Unissued => jwt[t].life <= life[jwt[t].proc])'
    OBVIOUS
  <1>2. Touched(t)' => Touched(t)
    BY DEF Touched
  <1>3. (Touched(t) => t \in delivered /\ Spent(t))'
    BY <1>2 DEF TokenInv, Spent
  <1>4. (accepted[t] <= 1 /\ uses[t] <= 1)'
    BY DEF TokenInv
  <1>5. (\A c \in Calls : InFlight(c, t) =>
          /\ accepted[t] = 0 /\ uses[t] = 0
          /\ Doing(c, "writing") => calls[c].found = 0
          /\ \A d \in Calls : InFlight(d, t) => d = c)'
    BY DEF TokenInv
  <1>6. (t \in delivered /\ InUse(t) => t \in rows /\ (accepted[t] > 0 => uses[t] > 0))'
    BY DEF TokenInv, Touched
  <1>7. QED
    BY <1>1, <1>3, <1>4, <1>5, <1>6 DEF TokenInv

\* A call that goes to v leaves the others where they are
LEMMA OthersStay ==
  ASSUME TypeOK, NEW c \in Calls, NEW v, calls' = [calls EXCEPT ![c] = v],
         NEW d \in Calls, NEW t, InFlight(d, t)'
  PROVE  \/ d # c /\ InFlight(d, t) /\ calls'[d] = calls[d]
         \/ d = c /\ v.pc \in {"looking", "writing"} /\ v.token = t
  <1>1. CASE d = c
    BY <1>1 DEF InFlight, Doing, TypeOK
  <1>2. CASE d # c
    <2>1. calls'[d] = calls[d]
      BY <1>2 DEF TypeOK
    <2>2. QED
      BY <1>2, <2>1 DEF InFlight, Doing
  <1>3. QED
    BY <1>1, <1>2

\* A call that is in flight with a token writes what it has found of it
LEMMA FoundNothing ==
  ASSUME NEW t \in Tokens, TokenInv(t), NEW c \in Calls, InFlight(c, t), Doing(c, "writing")
  PROVE  calls[c].found = 0
  BY DEF TokenInv

\* What the guard holds does not shrink when it sees a token that passes
LEMMA SeenSpends ==
  ASSUME TypeOK, NEW p \in Processes, NEW t \in Tokens, Passes(p, t), Seen(p, t)
  PROVE  /\ jwt[t] # Unissued
         /\ guard'[p][t] >= 2 * jwt[t].exp
         /\ \A q \in Processes, s \in Tokens :
               (q # p \/ s # t) => guard'[q][s] = guard[q][s]
         /\ ~Spent(t)
  <1>1. jwt[t] # Unissued
    BY DEF Passes, TypeOK
  <1>2. RemembersUntil(t) >= 2 * jwt[t].exp
    BY <1>1, GuardOutlastsToken DEF Passes
  <1>3. guard'[p][t] = RemembersUntil(t) /\ guard \in [Processes -> [Tokens -> Nat]]
    BY DEF Seen, TypeOK
  <1>4. \A q \in Processes, s \in Tokens : (q # p \/ s # t) => guard'[q][s] = guard[q][s]
    BY <1>3 DEF Seen
  <1>5. ~Spent(t)
    <2>1. guard[p][t] \in Nat /\ clock \in Nat /\ jwt[t].exp \in Nat
      BY <1>1, <1>3, TokenShape, ClockIsNat
    <2>2. guard[p][t] <= clock /\ SignedBy(p, t) /\ ~(2 * jwt[t].exp <= clock)
      BY DEF Passes, Expired
    <2>3. QED
      BY <2>1, <2>2 DEF Spent
  <1>6. QED
    BY <1>1, <1>2, <1>3, <1>4, <1>5

\* Tokens other than the one the guard sees
LEMMA SpentStays ==
  ASSUME TypeOK, Inv, NEW p \in Processes, NEW t \in Tokens, Passes(p, t), Seen(p, t),
         life' = life, jwt' = jwt, NEW s \in Tokens
  PROVE  \A q \in Processes : SignedBy(q, s)' /\ Touched(s) =>
            SignedBy(q, s) /\ guard'[q][s] >= 2 * jwt[s].exp
  <1>1. CASE s # t
    BY <1>1, SeenSpends DEF Inv, TokenInv, SignedBy, Spent
  <1>2. CASE s = t
    BY <1>2, SeenSpends DEF Inv, TokenInv
  <1>3. QED
    BY <1>1, <1>2

-----------------------------------------------------------------------------
\* Each action keeps the invariant

\* A step that leaves keys, guards and clock alone and lets no call take off
LEMMA QuietStep ==
  ASSUME Inv, NEW t \in Tokens, jwt'[t] = jwt[t], guard' = guard, life' = life,
         clock' = clock, accepted'[t] = accepted[t], uses'[t] = uses[t],
         t \in delivered => t \in delivered',
         t \in delivered' /\ InUse(t) => t \in rows',
         \A c \in Calls : InFlight(c, t)' =>
            InFlight(c, t) /\ (Doing(c, "writing")' => calls'[c].found = 0)
  PROVE  TokenInv(t)'
  <1>1. TypeOK /\ TokenInv(t)
    BY DEF Inv
  <1>2. InUse(t)' <=> InUse(t)
    BY DEF InUse
  <1>3. \A p \in Processes : SignedBy(p, t)' /\ Touched(t) =>
            SignedBy(p, t) /\ guard'[p][t] >= 2 * jwt[t].exp
    BY <1>1 DEF SignedBy, TokenInv, Spent
  <1>4. jwt[t] # Unissued => jwt[t].life <= life'[jwt[t].proc]
    BY <1>1 DEF TokenInv
  <1>5. QED
    BY <1>1, <1>2, <1>3, <1>4, TokenFrame

\* A call that ends, or goes on after its last statement
LEMMA Lands ==
  ASSUME Inv, NEW c \in Calls, NEW v, calls' = [calls EXCEPT ![c] = v],
         v.pc \notin {"looking", "writing"}, NEW t \in Tokens
  PROVE  \A d \in Calls : InFlight(d, t)' =>
            d # c /\ InFlight(d, t) /\ (Doing(d, "writing")' => calls'[d].found = 0)
  <1> SUFFICES ASSUME NEW d \in Calls, InFlight(d, t)'
               PROVE  d # c /\ InFlight(d, t) /\ (Doing(d, "writing")' => calls'[d].found = 0)
    OBVIOUS
  <1>1. d # c /\ InFlight(d, t) /\ calls'[d] = calls[d]
    BY OthersStay DEF Inv
  <1>2. QED
    BY <1>1, FoundNothing DEF Doing, Inv

\* A token is signed: it is new, so nothing is known of it
LEMMA IssueKeepsInv ==
  ASSUME Inv, TypeOK', NEW c \in Calls, NEW p \in Processes, NEW t \in Tokens,
         Issue(c, p, t), NEW s \in Tokens
  PROVE  TokenInv(s)'
  <1>1. calls' = [calls EXCEPT ![c] = [pc |-> "storing", proc |-> p, token |-> t]]
    BY DEF Issue, Serves
  <1>2. \A d \in Calls : InFlight(d, s)' =>
            InFlight(d, s) /\ (Doing(d, "writing")' => calls'[d].found = 0)
    BY <1>1, Lands
  <1>3. CASE s # t
    <2>1. jwt'[s] = jwt[s]
      BY <1>3 DEF Issue, Inv, TypeOK
    <2>2. s \in delivered /\ InUse(s) => s \in rows
      BY DEF Inv, TokenInv
    <2>3. QED
      BY <1>2, <2>1, <2>2, QuietStep DEF Issue
  <1>4. CASE s = t
    <2>1. jwt[s] = Unissued /\ s \notin delivered /\ TokenInv(s)
      BY <1>4 DEF Issue, Inv, TypeOK
    <2>2. ~Touched(s)
      BY <2>1 DEF TokenInv
    <2>3. ~Touched(s)' /\ (accepted[s] <= 1 /\ uses[s] <= 1)'
      BY <1>2, <2>1, <2>2 DEF Touched, Issue, TokenInv
    <2>4. jwt'[s] = Signed(p) /\ s \notin delivered' /\ life' = life
      BY <1>4, <2>1 DEF Issue, Inv, TypeOK
    <2>5. (jwt[s] # Unissued => jwt[s].life <= life[jwt[s].proc])'
      <3>1. life[p] \in 0..MaxRestarts
        BY DEF Inv, TypeOK
      <3>2. QED
        BY <2>4, <3>1, BoundAssumption DEF Signed
    <2>6. \A d \in Calls : ~InFlight(d, s)'
      BY <2>3 DEF Touched
    <2>7. QED
      BY <2>3, <2>4, <2>5, <2>6 DEF TokenInv
  <1>5. QED
    BY <1>3, <1>4

\* A token passes: the call takes off, and the guard remembers it
LEMMA VerifyKeepsInv ==
  ASSUME Inv, NEW c \in Calls, NEW p \in Processes, NEW t \in Tokens,
         Verify(c, p, t), NEW s \in Tokens
  PROVE  TokenInv(s)'
  <1>1. calls' = [calls EXCEPT ![c] = [pc |-> "looking", proc |-> p, token |-> t]]
    BY DEF Verify, Serves
  <1>2. TypeOK /\ TokenInv(s) /\ Passes(p, t) /\ Seen(p, t)
    BY DEF Verify, Inv
  <1>3. \A d \in Calls : InFlight(d, s)' =>
            \/ d # c /\ InFlight(d, s) /\ calls'[d] = calls[d]
            \/ d = c /\ s = t
    <2> DEFINE v == [pc |-> "looking", proc |-> p, token |-> t]
    <2>1. calls' = [calls EXCEPT ![c] = v] /\ v.token = t
      BY <1>1
    <2> HIDE DEF v
    <2>2. QED
      BY <1>2, <2>1, OthersStay
  <1>4. CASE s # t
    <2>1. \A d \in Calls : InFlight(d, s)' =>
            InFlight(d, s) /\ (Doing(d, "writing")' => calls'[d].found = 0)
      BY <1>2, <1>3, <1>4, FoundNothing DEF Doing
    <2>2. \A q \in Processes : SignedBy(q, s)' /\ Touched(s) =>
            SignedBy(q, s) /\ guard'[q][s] >= 2 * jwt[s].exp
      BY <1>2, SpentStays DEF Verify
    <2>3. QED
      BY <1>2, <2>1, <2>2, TokenFrame DEF Verify, InUse, TokenInv
  <1>5. CASE s = t
    <2>1. ~Touched(t) /\ jwt[t] # Unissued /\ t \in delivered'
      BY <1>2, <1>5, SeenSpends DEF TokenInv, Passes, Verify
    <2>2. \A d \in Calls : InFlight(d, s)' => d = c
      BY <1>3, <1>5, <2>1 DEF Touched
    <2>3. Spent(t)'
      <3>1. \A q \in Processes : SignedBy(q, t)' => q = p
        BY <1>2 DEF Verify, SignedBy, Passes
      <3>2. QED
        BY <1>2, <3>1, SeenSpends DEF Spent, Verify
    <2>4. accepted[t] = 0 /\ uses[t] = 0
      BY <1>2, <2>1 DEF Touched, TypeOK
    <2>5. calls'[c].pc = "looking"
      BY <1>1, <1>2 DEF TypeOK
    <2>6. \A d \in Calls : InFlight(d, s)' => ~Doing(d, "writing")'
      BY <2>2, <2>5 DEF Doing
    <2>7. (s \in delivered /\ InUse(s) => s \in rows /\ (accepted[s] > 0 => uses[s] > 0))'
      BY <1>2 DEF Verify, InUse, TokenInv
    <2>8. (jwt[s] # Unissued => jwt[s].life <= life[jwt[s].proc])'
      BY <1>2 DEF TokenInv, Verify
    <2>9. jwt'[s] # Unissued /\ accepted'[s] = 0 /\ uses'[s] = 0
      BY <1>5, <2>1, <2>4 DEF Verify
    <2>10. (\A d \in Calls : InFlight(d, s) =>
              /\ accepted[s] = 0 /\ uses[s] = 0
              /\ Doing(d, "writing") => calls[d].found = 0
              /\ \A e \in Calls : InFlight(e, s) => e = d)'
      BY <2>2, <2>6, <2>9
    <2>11. QED
      BY <1>5, <2>1, <2>3, <2>7, <2>8, <2>9, <2>10 DEF TokenInv
  <1>6. QED
    BY <1>4, <1>5

\* The same in the name of another tenant: no call takes off
LEMMA VerifyForeignKeepsInv ==
  ASSUME Inv, NEW p \in Processes, NEW t \in Tokens, VerifyForeign(p, t), NEW s \in Tokens
  PROVE  TokenInv(s)'
  <1>1. TypeOK /\ TokenInv(s) /\ Passes(p, t) /\ Seen(p, t)
    BY DEF VerifyForeign, Inv
  <1>2. \A q \in Processes : SignedBy(q, s)' /\ Touched(s) =>
            SignedBy(q, s) /\ guard'[q][s] >= 2 * jwt[s].exp
    BY <1>1, SpentStays DEF VerifyForeign
  <1>3. \A d \in Calls : InFlight(d, s)' =>
            InFlight(d, s) /\ (Doing(d, "writing")' => calls'[d].found = 0)
    BY <1>1, FoundNothing DEF VerifyForeign, InFlight, Doing
  <1>4. QED
    BY <1>1, <1>2, <1>3, TokenFrame DEF VerifyForeign, InUse, TokenInv

\* Storing, failing and auditing: calls that are not in flight, or no longer
LEMMA LandingKeepsInv ==
  ASSUME Inv, NEW c \in Calls, NEW done \in BOOLEAN,
         Store(c) \/ StoreFails(c, done) \/ Audit(c, done), NEW s \in Tokens
  PROVE  TokenInv(s)'
  <1>1. \A d \in Calls : InFlight(d, s)' =>
            InFlight(d, s) /\ (Doing(d, "writing")' => calls'[d].found = 0)
    BY Lands DEF Store, StoreFails, Audit, Ends, Idle, Continues, Serves
  <1>2. s \in delivered' /\ InUse(s) => s \in rows'
    BY DEF Store, StoreFails, Audit, Inv, TokenInv
  <1>3. QED
    BY <1>1, <1>2, QuietStep DEF Store, StoreFails, Audit

\* The call looks its token up and finds nothing
LEMMA LookUpKeepsInv ==
  ASSUME Inv, NEW c \in Calls, LookUp(c), NEW s \in Tokens
  PROVE  TokenInv(s)'
  <1> DEFINE v == [pc |-> "writing", proc |-> calls[c].proc, token |-> calls[c].token,
                   found |-> uses[calls[c].token]]
  <1>1. calls' = [calls EXCEPT ![c] = v] /\ calls'[c] = v
    BY DEF LookUp, Inv, TypeOK
  <1>2. ASSUME NEW d \in Calls, InFlight(d, s)'
        PROVE  InFlight(d, s) /\ (Doing(d, "writing")' => calls'[d].found = 0)
    <2>1. CASE d # c
      <3>1. InFlight(d, s) /\ calls'[d] = calls[d]
        BY <1>1, <1>2, <2>1, OthersStay DEF Inv
      <3>2. QED
        BY <3>1, FoundNothing DEF Inv, Doing
    <2>2. CASE d = c
      <3>1. InFlight(c, s) /\ calls[c].token = s
        BY <1>1, <1>2, <2>2 DEF LookUp, InFlight
      <3>2. uses[s] = 0
        BY <3>1 DEF Inv, TokenInv
      <3>3. QED
        BY <1>1, <2>2, <3>1, <3>2
    <2>3. QED
      BY <2>1, <2>2
  <1>3. s \in delivered /\ InUse(s) => s \in rows
    BY DEF Inv, TokenInv
  <1>4. QED
    BY <1>2, <1>3, QuietStep DEF LookUp

\* What a write does to the count: a call in flight has found nothing
LEMMA WriteCountsOne ==
  ASSUME Inv, NEW c \in Calls, Doing(c, "writing")
  PROVE  /\ calls[c].token \in Tokens /\ InFlight(c, calls[c].token)
         /\ Counted(c) = [uses EXCEPT ![calls[c].token] = 1]
         /\ accepted[calls[c].token] = 0
  <1>1. calls[c].token \in Tokens /\ InFlight(c, calls[c].token)
    BY CallShape DEF Inv, Doing, Idle, InFlight
  <1>2. calls[c].found = 0 /\ accepted[calls[c].token] = 0
    BY <1>1, FoundNothing DEF Inv, TokenInv
  <1>3. QED
    BY <1>1, <1>2 DEF Counted

\* The call with the token is over, so that no call is in flight with it
LEMMA AfterTheCall ==
  ASSUME Inv, NEW t \in Tokens, NEW c \in Calls, InFlight(c, t),
         jwt' = jwt, guard' = guard, life' = life, clock' = clock,
         rows' = rows, delivered' = delivered,
         accepted'[t] \in {0, 1}, uses'[t] \in {0, 1}, accepted'[t] > 0 => uses'[t] > 0,
         \A d \in Calls : InFlight(d, t)' => d # c /\ InFlight(d, t)
  PROVE  TokenInv(t)'
  <1>1. TokenInv(t) /\ Touched(t)
    BY DEF Inv, Touched
  <1>2. \A d \in Calls : ~InFlight(d, t)'
    BY <1>1 DEF TokenInv
  <1>3. (Touched(t) => t \in delivered /\ Spent(t))'
    BY <1>1 DEF TokenInv, Spent, SignedBy
  <1>4. (jwt[t] # Unissued => jwt[t].life <= life[jwt[t].proc])'
    BY <1>1 DEF TokenInv
  <1>5. (t \in delivered /\ InUse(t) => t \in rows /\ (accepted[t] > 0 => uses[t] > 0))'
    BY <1>1 DEF TokenInv, InUse
  <1>6. QED
    BY <1>2, <1>3, <1>4, <1>5 DEF TokenInv

\* The use is recorded
LEMMA RecordKeepsInv ==
  ASSUME Inv, NEW c \in Calls, Record(c), NEW s \in Tokens
  PROVE  TokenInv(s)'
  <1>1. \A d \in Calls : InFlight(d, s)' =>
            d # c /\ InFlight(d, s) /\ (Doing(d, "writing")' => calls'[d].found = 0)
    BY Lands DEF Record, Continues, Serves
  <1>2. Counted(c) = [uses EXCEPT ![calls[c].token] = 1] /\ accepted[calls[c].token] = 0
        /\ InFlight(c, calls[c].token) /\ calls[c].token \in Tokens
    BY WriteCountsOne DEF Record
  <1>3. CASE s = calls[c].token
    <2>1. uses'[s] = 1 /\ accepted'[s] = 1
      BY <1>2, <1>3 DEF Record, Inv, TypeOK
    <2>2. QED
      BY <1>1, <1>2, <1>3, <2>1, AfterTheCall DEF Record
  <1>4. CASE s # calls[c].token
    <2>1. uses'[s] = uses[s] /\ accepted'[s] = accepted[s]
      BY <1>2, <1>4 DEF Record, Inv, TypeOK
    <2>2. s \in delivered /\ InUse(s) => s \in rows
      BY DEF Inv, TokenInv
    <2>3. QED
      BY <1>1, <2>1, <2>2, QuietStep DEF Record
  <1>5. QED
    BY <1>3, <1>4

\* A statement raises, the use being committed or not
LEMMA RecordFailsKeepsInv ==
  ASSUME Inv, NEW c \in Calls, NEW done \in BOOLEAN, RecordFails(c, done), NEW s \in Tokens
  PROVE  TokenInv(s)'
  <1>1. \A d \in Calls : InFlight(d, s)' =>
            d # c /\ InFlight(d, s) /\ (Doing(d, "writing")' => calls'[d].found = 0)
    BY Lands DEF RecordFails, Ends, Idle
  <1>2. s \in delivered /\ InUse(s) => s \in rows
    BY DEF Inv, TokenInv
  <1>3. CASE ~done
    BY <1>1, <1>2, <1>3, QuietStep DEF RecordFails
  <1>4. CASE done
    <2>1. Doing(c, "writing")
      BY <1>4 DEF RecordFails
    <2>2. Counted(c) = [uses EXCEPT ![calls[c].token] = 1] /\ accepted[calls[c].token] = 0
          /\ InFlight(c, calls[c].token) /\ calls[c].token \in Tokens
      BY <2>1, WriteCountsOne
    <2>3. CASE s = calls[c].token
      <3>1. uses'[s] = 1 /\ accepted'[s] = 0
        BY <1>4, <2>2, <2>3 DEF RecordFails, Inv, TypeOK
      <3>2. QED
        BY <1>1, <2>2, <2>3, <3>1, AfterTheCall DEF RecordFails
    <2>4. CASE s # calls[c].token
      <3>1. uses'[s] = uses[s] /\ accepted'[s] = accepted[s]
        BY <1>4, <2>2, <2>4 DEF RecordFails, Inv, TypeOK
      <3>2. QED
        BY <1>1, <1>2, <3>1, QuietStep DEF RecordFails
    <2>5. QED
      BY <2>3, <2>4
  <1>5. QED
    BY <1>3, <1>4

\* Clean-up jobs delete what has expired
LEMMA CleanUpKeepsInv ==
  ASSUME Inv, CleanTokens \/ CleanUses \/ (\E old \in SUBSET audited : CleanAudits(old)),
         NEW s \in Tokens
  PROVE  TokenInv(s)'
  <1>1. TypeOK /\ TokenInv(s)
    BY DEF Inv
  <1>2. jwt' = jwt /\ guard' = guard /\ life' = life /\ clock' = clock /\ calls' = calls
        /\ delivered' = delivered /\ accepted' = accepted
    BY DEF CleanTokens, CleanUses, CleanAudits
  <1>3. Outdated(s) => ~InUse(s)
    <2>1. SUFFICES ASSUME Outdated(s)
                   PROVE  ~InUse(s)
      OBVIOUS
    <2>2. clock \in Nat /\ jwt[s].exp \in Nat
      BY <1>1, <2>1, ClockIsNat, TokenShape DEF Outdated
    <2>3. QED
      BY <2>1, <2>2, ZoneAssumption DEF Outdated, InUse
  <1>4. \A d \in Calls : InFlight(d, s)' =>
            InFlight(d, s) /\ (Doing(d, "writing")' => calls'[d].found = 0)
    BY <1>1, <1>2, FoundNothing DEF InFlight, Doing
  <1>5. CASE CleanTokens \/ (\E old \in SUBSET audited : CleanAudits(old))
    <2>1. s \in delivered' /\ InUse(s) => s \in rows'
      BY <1>1, <1>2, <1>3, <1>5 DEF CleanTokens, CleanAudits, TokenInv
    <2>2. uses' = uses
      BY <1>5 DEF CleanTokens, CleanAudits
    <2>3. QED
      BY <1>2, <1>4, <2>1, <2>2, QuietStep
  <1>6. CASE CleanUses
    <2>1. CASE ~Outdated(s)
      <3>1. uses'[s] = uses[s] /\ rows' = rows
        BY <1>6, <2>1 DEF CleanUses
      <3>2. s \in delivered' /\ InUse(s) => s \in rows'
        BY <1>1, <1>2, <3>1 DEF TokenInv
      <3>3. QED
        BY <1>2, <1>4, <3>1, <3>2, QuietStep
    <2>2. CASE Outdated(s)
      <3>1. uses'[s] = 0
        BY <1>6, <2>2 DEF CleanUses
      <3>2. (Touched(s) => s \in delivered /\ Spent(s))'
        <4>1. Touched(s)' => Touched(s)
          BY <1>2, <3>1 DEF Touched, InFlight, Doing
        <4>2. QED
          BY <1>1, <1>2, <4>1 DEF TokenInv, Spent, SignedBy
      <3>3. (\A d \in Calls : InFlight(d, s) =>
              /\ accepted[s] = 0 /\ uses[s] = 0
              /\ Doing(d, "writing") => calls[d].found = 0
              /\ \A e \in Calls : InFlight(e, s) => e = d)'
        BY <1>1, <1>2, <3>1 DEF TokenInv, InFlight, Doing
      <3>4. ~InUse(s)'
        BY <1>2, <1>3, <2>2 DEF InUse
      <3>5. QED
        BY <1>1, <1>2, <3>1, <3>2, <3>3, <3>4 DEF TokenInv
    <2>3. QED
      BY <2>1, <2>2
  <1>7. QED
    BY <1>5, <1>6

\* A restarted process accepts none of the tokens it signed before
LEMMA RestartKeepsInv ==
  ASSUME Inv, NEW p \in Processes, Restart(p), NEW s \in Tokens
  PROVE  TokenInv(s)'
  <1>1. TypeOK /\ TokenInv(s)
    BY DEF Inv
  <1>2. \A d \in Calls : calls'[d] = Idle \/ calls'[d] = calls[d]
    BY DEF Restart
  <1>3. \A d \in Calls : InFlight(d, s)' =>
            InFlight(d, s) /\ (Doing(d, "writing")' => calls'[d].found = 0)
    BY <1>1, <1>2, FoundNothing DEF InFlight, Doing, Idle
  <1>4. life' \in [Processes -> Nat] /\ life \in [Processes -> Nat]
        /\ life'[p] = life[p] + 1 /\ \A q \in Processes \ {p} : life'[q] = life[q]
    <2>1. life \in [Processes -> Nat]
      BY <1>1, BoundAssumption DEF TypeOK
    <2>2. QED
      BY <2>1 DEF Restart
  <1>5. jwt[s] # Unissued => jwt[s].proc \in Processes /\ jwt[s].life \in Nat
                             /\ jwt[s].life <= life[jwt[s].proc]
    BY <1>1, TokenShape, BoundAssumption DEF TokenInv
  <1>6. jwt[s] # Unissued => jwt[s].life <= life'[jwt[s].proc]
    BY <1>4, <1>5
  <1>7. \A q \in Processes : SignedBy(q, s)' /\ Touched(s) =>
            SignedBy(q, s) /\ guard'[q][s] >= 2 * jwt[s].exp
    <2>1. SUFFICES ASSUME NEW q \in Processes, SignedBy(q, s)', Touched(s)
                   PROVE  SignedBy(q, s) /\ guard'[q][s] >= 2 * jwt[s].exp
      OBVIOUS
    <2>2. jwt[s] # Unissued /\ jwt' = jwt
      BY <1>1, <2>1 DEF TokenInv, TypeOK, Restart
    <2>3. q # p
      BY <1>4, <1>5, <2>1, <2>2 DEF SignedBy
    <2>4. SignedBy(q, s) /\ guard'[q] = guard[q]
      BY <1>1, <1>4, <2>1, <2>2, <2>3 DEF SignedBy, Restart, TypeOK
    <2>5. QED
      BY <1>1, <2>1, <2>4 DEF TokenInv, Spent
  <1>8. QED
    BY <1>1, <1>3, <1>6, <1>7, TokenFrame DEF Restart, InUse, TokenInv

\* Time passes
LEMMA TickKeepsInv ==
  ASSUME Inv, Tick, NEW s \in Tokens
  PROVE  TokenInv(s)'
  <1>1. TypeOK /\ TokenInv(s)
    BY DEF Inv
  <1>2. \A d \in Calls : InFlight(d, s)' =>
            InFlight(d, s) /\ (Doing(d, "writing")' => calls'[d].found = 0)
    BY <1>1, FoundNothing DEF Tick, InFlight, Doing
  <1>3. s \in delivered' /\ InUse(s)' => s \in rows' /\ InUse(s)
    <2>1. SUFFICES ASSUME s \in delivered', InUse(s)'
                   PROVE  s \in rows' /\ InUse(s)
      OBVIOUS
    <2>2. clock \in Nat /\ jwt[s].exp \in Nat
      BY <1>1, <2>1, ClockIsNat, TokenShape DEF Tick, TypeOK
    <2>3. InUse(s)
      BY <2>1, <2>2, ZoneAssumption DEF InUse, Tick
    <2>4. QED
      BY <1>1, <2>1, <2>3 DEF TokenInv, Tick
  <1>4. \A q \in Processes : SignedBy(q, s)' /\ Touched(s) =>
            SignedBy(q, s) /\ guard'[q][s] >= 2 * jwt[s].exp
    BY <1>1 DEF SignedBy, Tick, TokenInv, Spent
  <1>5. QED
    BY <1>1, <1>2, <1>3, <1>4, TokenFrame DEF Tick, TokenInv

\* The invariant is inductive
LEMMA NextInv == Inv /\ [Next]_vars => Inv'
  <1> SUFFICES ASSUME Inv, [Next]_vars
               PROVE  Inv'
    OBVIOUS
  <1>1. TypeOK'
    BY NextTypeOK DEF Inv
  <1>2. ASSUME NEW s \in Tokens
        PROVE  TokenInv(s)'
    <2>1. CASE \E c \in Calls, p \in Processes, t \in Tokens : Issue(c, p, t) \/ Verify(c, p, t)
      BY <1>1, <2>1, IssueKeepsInv, VerifyKeepsInv
    <2>2. CASE \E p \in Processes, t \in Tokens : VerifyForeign(p, t)
      BY <2>2, VerifyForeignKeepsInv
    <2>3. CASE \E c \in Calls : Store(c) \/ LookUp(c) \/ Record(c)
      BY <2>3, LandingKeepsInv, LookUpKeepsInv, RecordKeepsInv
    <2>4. CASE \E c \in Calls, done \in BOOLEAN :
                  StoreFails(c, done) \/ RecordFails(c, done) \/ Audit(c, done)
      BY <2>4, LandingKeepsInv, RecordFailsKeepsInv
    <2>5. CASE CleanTokens \/ CleanUses \/ \E old \in SUBSET audited : CleanAudits(old)
      BY <2>5, CleanUpKeepsInv
    <2>6. CASE (\E p \in Processes : Restart(p)) \/ Tick
      BY <2>6, RestartKeepsInv, TickKeepsInv
    <2>7. CASE UNCHANGED vars
      <3>1. TokenInv(s)
        BY DEF Inv
      <3>2. QED
        BY <2>7, <3>1 DEF vars, TokenInv, Touched, InFlight, Doing, Spent, SignedBy, InUse
    <2>8. QED
      BY <2>1, <2>2, <2>3, <2>4, <2>5, <2>6, <2>7 DEF Next
  <1>3. QED
    BY <1>1, <1>2 DEF Inv

\* What is known of every token holds in every reachable state.
THEOREM Invariance == Spec => []Inv
  <1>1. Init => Inv
    <2>1. SUFFICES ASSUME Init
                   PROVE  Inv
      OBVIOUS
    <2>2. TypeOK
      BY <2>1, BoundAssumption DEF Init, TypeOK
    <2>3. \A t \in Tokens : TokenInv(t)
      BY <2>1 DEF Init, TokenInv, Touched, InFlight, Doing, Idle
    <2>4. QED
      BY <2>2, <2>3 DEF Inv
  <1>2. QED
    BY <1>1, NextInv, PTL DEF Spec

-----------------------------------------------------------------------------
\* The properties

\* A token is answered valid at most once, for any number of processes, calls,
\* restarts and failures (anumate_capability_tokens/__init__.py:33-44).
THEOREM ValidAtMostOnce == Spec => []AcceptedOnce
  <1>1. Inv => AcceptedOnce
    BY DEF Inv, TokenInv, AcceptedOnce
  <1>2. QED
    BY <1>1, Invariance, PTL

\* The table of uses never counts a replay (database_services.py:250-304).
THEOREM UsesAreCountedOnce == Spec => []NoReplayIsCounted
  <1>1. Inv => NoReplayIsCounted
    BY DEF Inv, TokenInv, NoReplayIsCounted
  <1>2. QED
    BY <1>1, Invariance, PTL

\* Rows and uses of a token stay until it has expired, in a zone west of UTC until so
\* much earlier (database_services.py:113-131, 306-324).
THEOREM RecordsStay == Spec => []RecordsOutliveTokens
  <1>1. Inv => RecordsOutliveTokens
    BY DEF Inv, TypeOK, TokenInv, RecordsOutliveTokens
  <1>2. QED
    BY <1>1, Invariance, PTL
=============================================================================
