---------------------------- MODULE TokenService ----------------------------
(***************************************************************************)
(* Issuing and verifying capability tokens (services/captokens).           *)
(*                                                                         *)
(* Each process of app_production.py signs with keys it makes when it      *)
(* starts and remembers the tokens it has seen in a guard in its memory    *)
(* (packages/anumate-capability-tokens).  Issuing stores a row before the  *)
(* token is delivered; verifying checks signature, expiry and guard in one *)
(* go, then looks for the token in the table of uses, writes to it and     *)
(* answers.  Both leave an audit record after the answer.  Every statement *)
(* of database_services.py is awaited, so calls interleave between them.   *)
(*                                                                         *)
(* Time is counted in half seconds, because tokens expire at full seconds  *)
(* and are verified between them.  Faults: statements fail, also after     *)
(* they were committed, and processes restart.                             *)
(***************************************************************************)
EXTENDS Naturals

CONSTANTS
    Processes,    \* processes that serve the API
    Tokens,       \* tokens that can be issued, by their jti
    Calls,        \* calls the processes may serve at a time
    Ttl,          \* ttl_seconds of a token
    Ahead,        \* half seconds the local time of the server is ahead of UTC,
    Behind,       \* or behind it
    MaxRestarts,  \* bound: restarts of one process
    MaxClock      \* bound: half seconds one behaviour lasts

ASSUME TtlAssumption == Ttl \in Nat \ {0}
ASSUME ZoneAssumption == Ahead \in Nat /\ Behind \in Nat /\ 0 \in {Ahead, Behind}
ASSUME BoundAssumption == MaxRestarts \in Nat /\ MaxClock \in Nat

VARIABLES
    clock,      \* time.time(), in half seconds
    life,       \* restarts of a process: its keys and guard are those of this life
    guard,      \* per process and token, until when the guard remembers it
    jwt,        \* the signed tokens
    calls,      \* what a process is doing for a call
    delivered,  \* tokens a client has been given
    rows,       \* capability_tokens, by token
    uses,       \* replay_protection: usage_count per token, 0 without a row
    audited,    \* token_audit_logs: tokens with a record
    accepted    \* history: how often a token was answered valid

vars == <<clock, life, guard, jwt, calls, delivered, rows, uses, audited, accepted>>

Unissued == [issued |-> FALSE]
Idle == [pc |-> "idle"]
Working == [pc: {"storing", "looking", "auditing"}, proc: Processes, token: Tokens]
Writing == [pc: {"writing"}, proc: Processes, token: Tokens, found: Nat]

-----------------------------------------------------------------------------
\* Tokens and the guard

Second == clock \div 2

\* exp and iat are full seconds
Signed(p) == [issued |-> TRUE, proc |-> p, life |-> life[p], exp |-> Second + Ttl]

Expired(t) == 2 * jwt[t].exp <= clock

\* The signature is that of this process since it started
SignedBy(p, t) == jwt[t].proc = p /\ jwt[t].life = life[p]

\* check_and_set keeps a token for exp - int(time.time()) seconds from now on
RemembersUntil(t) == clock + 2 * (jwt[t].exp - Second)

\* jwt.decode and the guard let the token pass
Passes(p, t) ==
    /\ t \in delivered
    /\ SignedBy(p, t)
    /\ ~Expired(t)
    /\ guard[p][t] <= clock

Seen(p, t) == guard' = [guard EXCEPT ![p] = [guard[p] EXCEPT ![t] = RemembersUntil(t)]]

-----------------------------------------------------------------------------
\* Calls

Doing(c, pc) == calls[c].pc = pc

Serves(c, p, t, pc) ==
    calls' = [calls EXCEPT ![c] = [pc |-> pc, proc |-> p, token |-> t]]

Continues(c, pc) == Serves(c, calls[c].proc, calls[c].token, pc)

Ends(c) == calls' = [calls EXCEPT ![c] = Idle]

\* POST /v1/captokens signs a token
Issue(c, p, t) ==
    /\ calls[c] = Idle
    /\ jwt[t] = Unissued
    /\ jwt' = [jwt EXCEPT ![t] = Signed(p)]
    /\ Serves(c, p, t, "storing")
    /\ UNCHANGED <<clock, life, guard, delivered, rows, uses, audited, accepted>>

\* store_token commits the row and the token is delivered
Store(c) ==
    /\ Doing(c, "storing")
    /\ rows' = rows \cup {calls[c].token}
    /\ delivered' = delivered \cup {calls[c].token}
    /\ Continues(c, "auditing")
    /\ UNCHANGED <<clock, life, guard, jwt, uses, audited, accepted>>

\* store_token raises, also after its commit: status 500 and no token
StoreFails(c, committed) ==
    /\ Doing(c, "storing")
    /\ rows' = IF committed THEN rows \cup {calls[c].token} ELSE rows
    /\ Ends(c)
    /\ UNCHANGED <<clock, life, guard, jwt, delivered, uses, audited, accepted>>

\* POST /v1/captokens/verify for a token that passes
Verify(c, p, t) ==
    /\ calls[c] = Idle
    /\ Passes(p, t)
    /\ Seen(p, t)
    /\ Serves(c, p, t, "looking")
    /\ UNCHANGED <<clock, life, jwt, delivered, rows, uses, audited, accepted>>

\* The same in the name of another tenant.  The tenant is compared after the
\* guard has seen the token.  The answer to this and to every token that does not
\* pass is status 500: the result has no payload
VerifyForeign(p, t) ==
    /\ Passes(p, t)
    /\ Seen(p, t)
    /\ UNCHANGED <<clock, life, jwt, calls, delivered, rows, uses, audited, accepted>>

\* check_and_record_token_use looks for the token
LookUp(c) ==
    /\ Doing(c, "looking")
    /\ calls' = [calls EXCEPT ![c] = [pc |-> "writing", proc |-> calls[c].proc,
            token |-> calls[c].token, found |-> uses[calls[c].token]]]
    /\ UNCHANGED <<clock, life, guard, jwt, delivered, rows, uses, audited, accepted>>

\* It inserts a row, or writes back the count it has read plus one
Counted(c) == [uses EXCEPT ![calls[c].token] = calls[c].found + 1]

\* token_jti is unique, and an UPDATE of a row that is gone raises
CanWrite(c) == calls[c].found = 0 <=> uses[calls[c].token] = 0

\* The use is committed and the token answered valid, a replay only being logged
Record(c) ==
    /\ Doing(c, "writing")
    /\ CanWrite(c)
    /\ uses' = Counted(c)
    /\ accepted' = [accepted EXCEPT ![calls[c].token] = accepted[calls[c].token] + 1]
    /\ Continues(c, "auditing")
    /\ UNCHANGED <<clock, life, guard, jwt, delivered, rows, audited>>

\* A statement raises, the last one also after its commit: status 500
RecordFails(c, committed) ==
    /\ Doing(c, "looking") \/ Doing(c, "writing")
    /\ committed => Doing(c, "writing") /\ CanWrite(c)
    /\ uses' = IF committed THEN Counted(c) ELSE uses
    /\ Ends(c)
    /\ UNCHANGED <<clock, life, guard, jwt, delivered, rows, audited, accepted>>

\* log_operation runs after the answer.  A record refers to the row of its token
Audit(c, stored) ==
    /\ Doing(c, "auditing")
    /\ stored => calls[c].token \in rows
    /\ audited' = IF stored THEN audited \cup {calls[c].token} ELSE audited
    /\ Ends(c)
    /\ UNCHANGED <<clock, life, guard, jwt, delivered, rows, uses, accepted>>

-----------------------------------------------------------------------------
\* Clean-up jobs: one DELETE each

\* Mutant: the test of the expiry is the wrong way round
MutOutdated(t) == jwt[t] # Unissued /\ clock + Behind < 2 * jwt[t].exp + Ahead

\* expires_at < utcnow().  The columns hold points in time: of a token its exp in
\* UTC, of a use the naive local time fromtimestamp makes of it, which the driver
\* reads as local time.  It reads the naive UTC time of utcnow() as local time too,
\* and compares with a time that is off by the zone
Outdated(t) == jwt[t] # Unissued /\ 2 * jwt[t].exp + Ahead < clock + Behind

\* The DELETE fails, and the job with it, while one of the rows has an audit record
CleanTokens ==
    /\ \A t \in rows : Outdated(t) => t \notin audited
    /\ rows' = {t \in rows : ~Outdated(t)}
    /\ UNCHANGED <<clock, life, guard, jwt, calls, delivered, uses, audited, accepted>>

CleanUses ==
    /\ uses' = [t \in Tokens |-> IF Outdated(t) THEN 0 ELSE uses[t]]
    /\ UNCHANGED <<clock, life, guard, jwt, calls, delivered, rows, audited, accepted>>

\* Records are kept for days, longer than any token is valid
CleanAudits(old) ==
    /\ \A t \in old : Outdated(t)
    /\ audited' = audited \ old
    /\ UNCHANGED <<clock, life, guard, jwt, calls, delivered, rows, uses, accepted>>

-----------------------------------------------------------------------------
\* Processes and time

\* Mutant: keys are read from the environment, as the guard is not
MutRestart(p) ==
    /\ guard' = [guard EXCEPT ![p] = [t \in Tokens |-> 0]]
    /\ calls' = [c \in Calls |->
            IF calls[c] # Idle /\ calls[c].proc = p THEN Idle ELSE calls[c]]
    /\ UNCHANGED <<clock, life, jwt, delivered, rows, uses, audited, accepted>>

\* A process restarts: new keys, an empty guard, and its calls are gone
Restart(p) ==
    /\ life[p] < MaxRestarts
    /\ life' = [life EXCEPT ![p] = life[p] + 1]
    /\ guard' = [guard EXCEPT ![p] = [t \in Tokens |-> 0]]
    /\ calls' = [c \in Calls |->
            IF calls[c] # Idle /\ calls[c].proc = p THEN Idle ELSE calls[c]]
    /\ UNCHANGED <<clock, jwt, delivered, rows, uses, audited, accepted>>

Tick ==
    /\ clock < MaxClock
    /\ clock' = clock + 1
    /\ UNCHANGED <<life, guard, jwt, calls, delivered, rows, uses, audited, accepted>>

Init ==
    /\ clock = 0
    /\ life = [p \in Processes |-> 0]
    /\ guard = [p \in Processes |-> [t \in Tokens |-> 0]]
    /\ jwt = [t \in Tokens |-> Unissued]
    /\ calls = [c \in Calls |-> Idle]
    /\ delivered = {}
    /\ rows = {}
    /\ uses = [t \in Tokens |-> 0]
    /\ audited = {}
    /\ accepted = [t \in Tokens |-> 0]

Next ==
    \/ \E c \in Calls, p \in Processes, t \in Tokens : Issue(c, p, t) \/ Verify(c, p, t)
    \/ \E p \in Processes, t \in Tokens : VerifyForeign(p, t)
    \/ \E c \in Calls : Store(c) \/ LookUp(c) \/ Record(c)
    \/ \E c \in Calls, done \in BOOLEAN :
          StoreFails(c, done) \/ RecordFails(c, done) \/ Audit(c, done)
    \/ CleanTokens \/ CleanUses
    \/ \E old \in SUBSET audited : CleanAudits(old)
    \/ \E p \in Processes : Restart(p)
    \/ Tick

Spec == Init /\ [][Next]_vars

-----------------------------------------------------------------------------
\* Properties

\* TypeOK: values of the variables; a token that is being worked with, delivered
\* or stored has been signed (app_production.py, database_services.py, models.py).
TypeOK ==
    /\ clock \in 0..MaxClock
    /\ life \in [Processes -> 0..MaxRestarts]
    /\ guard \in [Processes -> [Tokens -> Nat]]
    /\ jwt \in [Tokens -> {Unissued}
            \cup [issued: {TRUE}, proc: Processes, life: 0..MaxRestarts, exp: Nat]]
    /\ calls \in [Calls -> {Idle} \cup Working \cup Writing]
    /\ delivered \subseteq Tokens /\ rows \subseteq Tokens /\ audited \subseteq Tokens
    /\ uses \in [Tokens -> Nat]
    /\ accepted \in [Tokens -> Nat]
    /\ \A t \in delivered \cup rows : jwt[t] # Unissued
    /\ \A c \in Calls : calls[c] # Idle => jwt[calls[c].token] # Unissued

\* However many processes verify a token, at whatever fraction of a second, and
\* whatever restarts, fails or is cleaned up: it is answered valid at most once
\* (anumate_capability_tokens/__init__.py:33-44, 215-223).  This needs the guard to
\* outlast the token, and the keys to be lost together with the guard.
AcceptedOnce == \A t \in Tokens : accepted[t] <= 1

\* The table of uses never holds a second use of a token: the guard lets none
\* through, so check_and_record_token_use never finds a replay, although it reads
\* and writes in two statements (database_services.py:263-276).
NoReplayIsCounted == \A t \in Tokens : uses[t] <= 1

\* A token no clean-up may touch
InUse(t) == clock + Behind < 2 * jwt[t].exp

\* A delivered token has a row and an accepted one a record of its use until it has
\* expired: no failed call, restart or clean-up loses them while they matter.  West
\* of UTC this ends before the token does, earlier by what the local time is behind
\* UTC, since the clean-up takes UTC for the local time
\* (database_services.py:31-74, 113-131, 278-324).
RecordsOutliveTokens ==
    \A t \in delivered : InUse(t) =>
        /\ t \in rows
        /\ accepted[t] > 0 => uses[t] > 0
=============================================================================
