--------------------------- MODULE CircuitBreaker ---------------------------
(***************************************************************************)
(* The circuit breaker of the integration service                          *)
(* (services/integration/src/anumate_integration_service/                  *)
(* circuit_breaker.py): one breaker and the calls that pass through it.    *)
(*                                                                         *)
(* call() asks _can_execute, awaits the backend without holding the lock,  *)
(* and records the result under the lock, so any number of calls admitted  *)
(* in one state of the circuit report their results in another.            *)
(*                                                                         *)
(* Time is counted in ticks and kept as ages: an age that has reached the  *)
(* longest span the code compares it with grows no further, which changes  *)
(* no comparison.  A result is stamped with the time its call STARTED, so  *)
(* a failure of a call that ran for n ticks is n ticks old when recorded.  *)
(*                                                                         *)
(* Left out: listeners (their exceptions are swallowed), durations, and    *)
(* the counters the code only reports.                                     *)
(***************************************************************************)
EXTENDS Integers, Sequences, FiniteSets

CONSTANTS
    Calls,               \* calls that may be in progress at the same time
    FailureThreshold,    \* CircuitBreakerConfig.failure_threshold
    SuccessThreshold,    \* CircuitBreakerConfig.success_threshold
    CallTimeout,         \* CircuitBreakerConfig.timeout_threshold, in ticks
    RecoveryTimeout,     \* CircuitBreakerConfig.recovery_timeout, in ticks
    WindowSize,          \* CircuitBreakerConfig.window_size
    FailureRate,         \* CircuitBreakerConfig.failure_rate_threshold, percent
    MetricsEnabled,      \* CircuitBreakerConfig.enable_metrics
    NoFailure            \* last_failure_time is None

ASSUME ThresholdsAssumption ==
    /\ FailureThreshold \in Nat \ {0}
    /\ SuccessThreshold \in Nat \ {0}
    /\ CallTimeout \in Nat \ {0}
    /\ RecoveryTimeout \in Nat \ {0}
    /\ WindowSize \in Nat
    /\ FailureRate \in 1..100
    /\ MetricsEnabled \in BOOLEAN
    /\ NoFailure \notin Nat

VARIABLES
    state,          \* CircuitState
    failureCount,   \* failure_count, counted up to FailureThreshold
    successCount,   \* success_count
    sinceFailure,   \* age of last_failure_time
    sinceChange,    \* age of last_state_change
    window,         \* metrics.calls: the recorded results, the latest last
    running,        \* calls that were admitted and have not ended
    elapsed,        \* how long each of them has run
    openedBy        \* history: what opened the circuit the last time

vars == <<state, failureCount, successCount, sinceFailure, sinceChange,
          window, running, elapsed, openedBy>>

-----------------------------------------------------------------------------
\* Ages, counts and the sliding window

CircuitState == {"closed", "open", "half_open"}

Result == {"success", "failure"}

\* One more, but no more than max
Bump(n, max) == IF n < max THEN n + 1 ELSE max

AtMost(n, max) == IF n < max THEN n ELSE max

\* Mutant: a full window is cut at the wrong end
MutSlideKeepsOldest(w, r) ==
    IF ~MetricsEnabled \/ Len(w) >= WindowSize THEN w ELSE Append(w, r)

\* deque(maxlen=WindowSize).append
Slide(w, r) ==
    IF ~MetricsEnabled \/ WindowSize = 0 THEN w
    ELSE Append(IF Len(w) < WindowSize THEN w ELSE Tail(w), r)

Failures(w) == {i \in DOMAIN w : w[i] = "failure"}

\* get_failure_rate() >= failure_rate_threshold; an empty window has rate 0
OverRate(w) == w # <<>> /\ 100 * Cardinality(Failures(w)) >= FailureRate * Len(w)

-----------------------------------------------------------------------------
\* Transitions of the circuit

TransitionToOpen(cause) ==
    /\ state' = "open"
    /\ successCount' = 0
    /\ sinceChange' = 0
    /\ openedBy' = cause

TransitionToHalfOpen ==
    /\ state' = "half_open"
    /\ successCount' = 0
    /\ sinceChange' = 0
    /\ UNCHANGED openedBy

TransitionToClosed ==
    /\ state' = "closed"
    /\ failureCount' = 0
    /\ successCount' = 0
    /\ sinceChange' = 0
    /\ UNCHANGED openedBy

StayInState == UNCHANGED <<state, sinceChange, openedBy>>

-----------------------------------------------------------------------------
\* Admission

Start(c) ==
    /\ running' = running \cup {c}
    /\ elapsed' = [elapsed EXCEPT ![c] = 0]

End(c) ==
    /\ running' = running \ {c}
    /\ elapsed' = [elapsed EXCEPT ![c] = 0]

\* The circuit lets the call through as it is
Admit(c) ==
    /\ c \notin running
    /\ state \in {"closed", "half_open"}
    /\ Start(c)
    /\ UNCHANGED <<state, failureCount, successCount, sinceFailure, sinceChange,
                   window, openedBy>>

\* An open circuit is tried again; a call refused instead changes nothing
Probe(c) ==
    /\ c \notin running
    /\ state = "open"
    /\ sinceFailure # NoFailure /\ sinceFailure >= RecoveryTimeout
    /\ TransitionToHalfOpen
    /\ Start(c)
    /\ UNCHANGED <<failureCount, sinceFailure, window>>

-----------------------------------------------------------------------------
\* Results, each recorded under the lock: record_call, the handler of the
\* result and _check_state_transition in one step

\* Mutant: one success too few closes the circuit
MutSuccessWhileTesting ==
    /\ state = "half_open"
    /\ IF successCount + 2 < SuccessThreshold
       THEN /\ successCount' = successCount + 1
            /\ StayInState
            /\ UNCHANGED failureCount
       ELSE /\ failureCount' = 0
            /\ IF OverRate(window')
               THEN TransitionToOpen("success")
               ELSE TransitionToClosed

\* A circuit that the last needed success closes is checked like any closed
\* circuit: the failures still in the window may open it in the same step
SuccessWhileTesting ==
    /\ state = "half_open"
    /\ IF successCount + 1 < SuccessThreshold
       THEN /\ successCount' = successCount + 1
            /\ StayInState
            /\ UNCHANGED failureCount
       ELSE /\ failureCount' = 0
            /\ IF OverRate(window')
               THEN TransitionToOpen("success")
               ELSE TransitionToClosed

\* Mutant: a success does not end the run of failures
MutSuccessOtherwise ==
    /\ state # "half_open"
    /\ IF state = "closed" /\ OverRate(window')
       THEN TransitionToOpen("success")
       ELSE StayInState /\ UNCHANGED successCount
    /\ UNCHANGED failureCount

SuccessOtherwise ==
    /\ state # "half_open"
    /\ failureCount' = 0
    /\ IF state = "closed" /\ OverRate(window')
       THEN TransitionToOpen("success")
       ELSE StayInState /\ UNCHANGED successCount

Succeed(c) ==
    /\ c \in running
    /\ End(c)
    /\ window' = Slide(window, "success")
    /\ SuccessWhileTesting \/ SuccessOtherwise
    /\ UNCHANGED sinceFailure

FailureOpens ==
    \/ state = "half_open"
    \/ state = "closed" /\ (failureCount' >= FailureThreshold \/ OverRate(window'))

\* Mutant: a failing probe does not move last_failure_time
MutFail(c) ==
    /\ c \in running
    /\ End(c)
    /\ window' = Slide(window, "failure")
    /\ failureCount' = Bump(failureCount, FailureThreshold)
    /\ sinceFailure' = IF state = "half_open" THEN sinceFailure
                       ELSE AtMost(elapsed[c], RecoveryTimeout)
    /\ IF FailureOpens THEN TransitionToOpen("failure")
       ELSE StayInState /\ UNCHANGED successCount

\* An exception, a timeout, or a response the detector takes for a failure
Fail(c) ==
    /\ c \in running
    /\ End(c)
    /\ window' = Slide(window, "failure")
    /\ failureCount' = Bump(failureCount, FailureThreshold)
    /\ sinceFailure' = AtMost(elapsed[c], RecoveryTimeout)
    /\ IF FailureOpens THEN TransitionToOpen("failure")
       ELSE StayInState /\ UNCHANGED successCount

\* The caller goes away: CancelledError passes through call() unrecorded
Cancel(c) ==
    /\ c \in running
    /\ End(c)
    /\ UNCHANGED <<state, failureCount, successCount, sinceFailure, sinceChange,
                   window, openedBy>>

-----------------------------------------------------------------------------
\* The operator's calls, and time

ForceOpen ==
    /\ state # "open"
    /\ TransitionToOpen("force")
    /\ UNCHANGED <<failureCount, sinceFailure, window, running, elapsed>>

ForceClosed ==
    /\ state # "closed"
    /\ TransitionToClosed
    /\ UNCHANGED <<sinceFailure, window, running, elapsed>>

\* Mutant: reset clears the counts and the times and leaves the state
MutResetKeepsState ==
    /\ failureCount' = 0
    /\ successCount' = 0
    /\ sinceChange' = 0
    /\ window' = <<>>
    /\ sinceFailure' = NoFailure
    /\ UNCHANGED <<state, openedBy, running, elapsed>>

Reset ==
    /\ TransitionToClosed
    /\ sinceFailure' = NoFailure
    /\ window' = <<>>
    /\ UNCHANGED <<running, elapsed>>

\* A call whose timeout is due ends (wait_for) before time goes on
Tick ==
    /\ \A c \in running : elapsed[c] < CallTimeout
    /\ elapsed' = [c \in Calls |-> IF c \in running THEN elapsed[c] + 1 ELSE 0]
    /\ sinceFailure' = IF sinceFailure = NoFailure THEN NoFailure
                       ELSE Bump(sinceFailure, RecoveryTimeout)
    /\ sinceChange' = Bump(sinceChange, RecoveryTimeout)
    /\ UNCHANGED <<state, failureCount, successCount, window, running, openedBy>>

-----------------------------------------------------------------------------
Init ==
    /\ state = "closed"
    /\ failureCount = 0
    /\ successCount = 0
    /\ sinceFailure = NoFailure
    /\ sinceChange = 0
    /\ window = <<>>
    /\ running = {}
    /\ elapsed = [c \in Calls |-> 0]
    /\ openedBy = "none"

Next ==
    \/ \E c \in Calls :
        \/ Admit(c)
        \/ Probe(c)
        \/ Succeed(c)
        \/ Fail(c)
        \/ Cancel(c)
    \/ ForceOpen
    \/ ForceClosed
    \/ Reset
    \/ Tick

Spec == Init /\ [][Next]_vars

(* Clients keep sending requests, the clock advances, and not every caller *)
(* gives up: again and again a call that is in progress gets its answer.   *)
FairSpec ==
    /\ Spec
    /\ WF_vars(Tick)
    /\ WF_vars(\E c \in Calls : Admit(c) \/ Probe(c))
    /\ SF_vars(\E c \in Calls : Succeed(c) \/ Fail(c))

-----------------------------------------------------------------------------
\* Properties

(* The variables have their types, and the counts stay below the values at *)
(* which the code acts on them.                                            *)
TypeOK ==
    /\ state \in CircuitState
    /\ failureCount \in 0..FailureThreshold
    /\ successCount \in 0..(SuccessThreshold - 1)
    /\ sinceFailure \in (0..RecoveryTimeout) \cup {NoFailure}
    /\ sinceChange \in 0..RecoveryTimeout
    /\ window \in Seq(Result)
    /\ Len(window) <= WindowSize
    /\ running \subseteq Calls
    /\ elapsed \in [Calls -> 0..CallTimeout]
    /\ openedBy \in {"none", "failure", "success", "force"}

\* The last n results of the window, or all of it, are r
LastResultsAre(w, n, r) ==
    \A i \in DOMAIN w : i > Len(w) - n => w[i] = r

(* failure_count and the sliding window are kept by different code and are *)
(* cleared at different times.  In a closed circuit failure_count is below *)
(* the threshold and counts failures recorded in a row; in a half-open one *)
(* success_count counts successes recorded in a row (_handle_successful_   *)
(* call, _handle_failed_call, _check_state_transition).                    *)
CountsAreStreaks ==
    /\ state = "closed" => /\ failureCount < FailureThreshold
                           /\ LastResultsAre(window, failureCount, "failure")
    /\ state = "half_open" => LastResultsAre(window, successCount, "success")

(* A circuit no operator opened was opened on evidence it still has: the   *)
(* time of a failure is known, so the circuit can leave the open state by  *)
(* itself (_can_execute, lines 321-327).  The same holds of the failures   *)
(* in the window, which may open the circuit later.                        *)
OpenCanRecover ==
    /\ sinceFailure = NoFailure => Failures(window) = {}
    /\ state = "open" /\ openedBy # "force" => sinceFailure # NoFailure
    /\ state = "half_open" => sinceFailure # NoFailure

(* A circuit a failure opened refuses calls for at least the recovery time *)
(* less one call timeout, whatever calls admitted earlier report meanwhile:*)
(* last_failure_time may move backwards, but never further than that.      *)
StaysOpenLongEnough ==
    state = "open" /\ openedBy = "failure" =>
        sinceFailure <= sinceChange + CallTimeout

(* Only SuccessThreshold successes recorded in a row close a circuit that  *)
(* no operator closes.                                                     *)
ClosesOnSuccesses ==
    [][state # "closed" /\ state' = "closed" /\ ~ForceClosed /\ ~Reset =>
        /\ state = "half_open"
        /\ LastResultsAre(window', SuccessThreshold, "success")]_vars

(* A circuit that is open, and was not forced open before it ever saw a    *)
(* failure, is tried again.                                                *)
OpenIsTriedAgain ==
    (state = "open" /\ sinceFailure # NoFailure) ~> (state # "open")

(* Once the backend answers every call and nobody forces the circuit open, *)
(* the circuit closes for good, although the failures of the outage stay   *)
(* in the window and may open it again a few times.  The exception is a    *)
(* circuit forced open before it ever saw a failure: it waits for an       *)
(* operator.                                                               *)
HealthyBackendIsServed ==
    <>[][~ForceOpen /\ ~(\E c \in Calls : Fail(c))]_vars =>
        <>[](state = "closed" \/ (openedBy = "force" /\ sinceFailure = NoFailure))

-----------------------------------------------------------------------------
\* What the comments of CircuitBreakerConfig say of the thresholds

=============================================================================
