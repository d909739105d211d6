---------------------------- MODULE PlanExecution ----------------------------
(***************************************************************************)
(* How the orchestrator makes a payment (services/orchestrator).           *)
(*                                                                         *)
(* POST /v1/execute/portia (api/routes/execution.py) looks its key up in a *)
(* dictionary of its own process, runs the payment engine                  *)
(* (src/service_mcp.py) and remembers the answer.  The gated engine        *)
(* (src/mcp_execution.py) runs the plan, opens an approval, polls it       *)
(* (src/clarifications_bridge.py) and writes a receipt.  Both run the plan *)
(* with PortiaClient.run_plan, which is declared async and calls the SDK   *)
(* without an await: the process does nothing else meanwhile.              *)
(*                                                                         *)
(* External: Portia, which may make the payment or not, whether the call   *)
(* returns or raises, and the receipt service.  Of the approvals service   *)
(* (module Approvals) only the status of the row matters here: it may be   *)
(* settled more than once, by requests that overlap.  Faults: calls raise  *)
(* or raise after they took effect, processes restart, clients send again. *)
(***************************************************************************)
EXTENDS Naturals

CONSTANTS
    Workers,         \* processes that serve the API
    Requests,        \* requests clients make, each again when they retry it
    Keys,            \* execution keys: plan hash with idempotency key
    KeyOf,           \* the key of a request
    Gated,           \* requests that take the gated engine
    NeedsApproval,   \* those of them with require_approval
    Refused,         \* requests of the route that its checks turn down
    MaxSends,        \* bound: how often a client sends a request
    MaxRestarts      \* bound: restarts of processes in one behaviour

ASSUME KeyAssumption == KeyOf \in [Requests -> Keys]
ASSUME GatedAssumption == NeedsApproval \subseteq Gated /\ Gated \subseteq Requests
ASSUME RefusedAssumption == Refused \subseteq Requests \ Gated
ASSUME BoundAssumption == MaxSends \in Nat /\ MaxRestarts \in Nat

VARIABLES
    tasks,       \* what the process that serves a request is doing with it
    caches,      \* _idempotency_cache of each process
    approval,    \* status of the approval opened for a gated request
    receipts,    \* statuses of the receipts stored for a gated request
    sends,       \* how often each request has been sent, up to MaxSends
    restarts,    \* restarts so far, up to MaxRestarts
    decisions,   \* history: verdicts (approved, rejected) that approval has held
    payments,    \* history: payments made for each gated request
    paidHere,    \* history: payments of the route per key and life of a process
    unrecorded   \* history: requests a restart or the receipt service cut short

vars == <<tasks, caches, approval, receipts, sends, restarts,
          decisions, payments, paidHere, unrecorded>>
history == <<decisions, payments, paidHere, unrecorded>>

Answers == {"live", "fallback", "failed"}
Outcomes == {"SUCCEEDED", "REJECTED"}
Verdicts == {"approved", "rejected"}
Settled == Verdicts \cup {"lapsed"}    \* lapsed: expired or cancelled

-----------------------------------------------------------------------------
\* The process that serves a request

Idle == [pc |-> "idle"]

\* Inside PortiaClient.run_plan
Calling == [pc: {"calling"}, worker: Workers, paid: BOOLEAN]

\* Later awaits of the gated engine, and its except clause
Waiting == [pc: {"opening", "polling", "failing"}, worker: Workers]
Closing == [pc: {"closing"}, worker: Workers, outcome: Outcomes]

At(r, pc) == tasks[r].pc = pc

\* Mutant: run_plan suspends, as a call in a thread of its own would
MutFree(w) == TRUE

\* The event loop of the process is not inside run_plan
Free(w) == \A r \in Requests : At(r, "calling") => tasks[r].worker # w

\* The request is at pc and its process can run
Runs(r, pc) == At(r, pc) /\ Free(tasks[r].worker)

Moves(r, pc) == tasks' = [tasks EXCEPT ![r] = [pc |-> pc, worker |-> tasks[r].worker]]
Ends(r) == tasks' = [tasks EXCEPT ![r] = Idle]

-----------------------------------------------------------------------------
\* POST /v1/execute/portia and the start of the gated engine

\* A client sends the request to a process that can accept it
Send(w, r) ==
    /\ tasks[r] = Idle
    /\ Free(w)
    /\ sends[r] < MaxSends
    /\ r \in Gated => sends[r] = 0
    /\ sends' = [sends EXCEPT ![r] = sends[r] + 1]

\* The plan is handed to Portia
EnterRunPlan(w, r) ==
    /\ tasks' = [tasks EXCEPT ![r] = [pc |-> "calling", worker |-> w, paid |-> FALSE]]
    /\ UNCHANGED <<caches, approval, receipts, restarts, history>>

Remembered(w, r) == caches[w][KeyOf[r]] # "none"

\* Whatever the handler answered is remembered under the key
Remember(w, k, answer) == [caches EXCEPT ![w] = [caches[w] EXCEPT ![k] = answer]]

\* The route answers from the cache of its process before it looks at the request
AnswerFromCache(w, r) ==
    /\ Send(w, r)
    /\ r \notin Gated
    /\ Remembered(w, r)
    /\ UNCHANGED <<tasks, caches, approval, receipts, restarts, history>>

\* Mutant: the key is not looked up
MutExecute(w, r) ==
    /\ Send(w, r)
    /\ r \notin Gated \cup Refused
    /\ EnterRunPlan(w, r)

Execute(w, r) ==
    /\ Send(w, r)
    /\ r \notin Gated \cup Refused
    /\ ~Remembered(w, r)
    /\ EnterRunPlan(w, r)

\* Status 400 or 500, and nothing is remembered: a parameter is missing, a
\* capability token is given (verify_token takes other arguments), there is no
\* engine (PortiaClient has no start_run), or the client cannot be built
Refuse(w, r) ==
    /\ Send(w, r)
    /\ r \notin Gated
    /\ ~Remembered(w, r)
    /\ UNCHANGED <<tasks, caches, approval, receipts, restarts, history>>

\* An exception before the plan is handed over (an amount that is no number):
\* the handler's outer except clause answers FAILED, and that is remembered
FailEarly(w, r) ==
    /\ Send(w, r)
    /\ r \notin Gated \cup Refused
    /\ ~Remembered(w, r)
    /\ caches' = Remember(w, KeyOf[r], "failed")
    /\ UNCHANGED <<tasks, approval, receipts, restarts, history>>

\* The gated engine runs the plan first
StartGated(w, r) ==
    /\ Send(w, r)
    /\ r \in Gated
    /\ EnterRunPlan(w, r)

-----------------------------------------------------------------------------
\* Portia (external) and what follows its call

\* The engine makes the payment while the process waits in run_plan
Pay(r) ==
    /\ At(r, "calling")
    /\ ~tasks[r].paid
    /\ tasks' = [tasks EXCEPT ![r] =
            [pc |-> "calling", worker |-> tasks[r].worker, paid |-> TRUE]]
    /\ payments' = IF r \in Gated THEN [payments EXCEPT ![r] = payments[r] + 1]
                   ELSE payments
    /\ paidHere' = IF r \in Gated THEN paidHere ELSE
            [paidHere EXCEPT ![tasks[r].worker] =
                [paidHere[tasks[r].worker] EXCEPT ![KeyOf[r]] =
                    paidHere[tasks[r].worker][KeyOf[r]] + 1]]
    /\ UNCHANGED <<caches, approval, receipts, sends, restarts, decisions, unrecorded>>

\* What the handler makes of the end of the MCP call: its result, the fallback
\* if it raised (both say SUCCEEDED), FAILED if building one of these raises
HandlerAnswers(raised) == (IF raised THEN {"fallback"} ELSE {"live"}) \cup {"failed"}

\* run_plan returns or raises to the route, which remembers the answer and sends it
RouteReturns(r, raised) ==
    /\ At(r, "calling")
    /\ r \notin Gated
    /\ \E answer \in HandlerAnswers(raised) :
          caches' = Remember(tasks[r].worker, KeyOf[r], answer)
    /\ Ends(r)
    /\ UNCHANGED <<approval, receipts, sends, restarts, history>>

-----------------------------------------------------------------------------
\* The gated engine after its plan has run

Closes(r, outcome) == tasks' = [tasks EXCEPT ![r] =
    [pc |-> "closing", worker |-> tasks[r].worker, outcome |-> outcome]]

\* run_plan returned: an approval is opened if one is required.  The status
\* run_plan reports is always completed
PlanHasRun(r) ==
    /\ At(r, "calling")
    /\ r \in Gated
    /\ IF r \in NeedsApproval THEN Moves(r, "opening") ELSE Closes(r, "SUCCEEDED")
    /\ UNCHANGED <<caches, approval, receipts, sends, restarts, history>>

\* run_plan raised
PlanRaises(r) ==
    /\ At(r, "calling")
    /\ r \in Gated
    /\ Moves(r, "failing")
    /\ UNCHANGED <<caches, approval, receipts, sends, restarts, history>>

\* open_approval returns, or raises before or after the approval was created
OpenApproval(r, created, raised) ==
    /\ Runs(r, "opening")
    /\ ~raised => created
    /\ approval' = IF created THEN [approval EXCEPT ![r] = "pending"] ELSE approval
    /\ Moves(r, IF raised THEN "failing" ELSE "polling")
    /\ UNCHANGED <<caches, receipts, sends, restarts, history>>

\* The approvals service commits a status: a decision, the sweep or a
\* cancellation.  The commit does not look at the status of the row again, so a
\* request that had SELECTed it before settles it a second time
Settle(r, status) ==
    /\ approval[r] # "absent"
    /\ approval' = [approval EXCEPT ![r] = status]
    /\ decisions' = [decisions EXCEPT ![r] = decisions[r] \cup ({status} \cap Verdicts)]
    /\ UNCHANGED <<tasks, caches, receipts, sends, restarts, payments, paidHere, unrecorded>>

\* Mutant: every settled status ends the wait as a decision
MutDecided(r) == approval[r] \in Settled

\* Only approved and rejected end the wait for the decision
Decided(r) == approval[r] \in Verdicts

\* A poll that finds a decision; any other status, and an HTTP error that is
\* not 404, is polled again
Poll(r) ==
    /\ Runs(r, "polling")
    /\ Decided(r)
    /\ Closes(r, IF approval[r] = "approved" THEN "SUCCEEDED" ELSE "REJECTED")
    /\ UNCHANGED <<caches, approval, receipts, sends, restarts, history>>

\* Mutant: the wait has no deadline
MutGiveUp(r) == FALSE /\ UNCHANGED vars

\* The deadline has passed when the loop looks at the clock, or a poll raised
GiveUp(r) ==
    /\ Runs(r, "polling")
    /\ Moves(r, "failing")
    /\ UNCHANGED <<caches, approval, receipts, sends, restarts, history>>

Stored(r, status) == [receipts EXCEPT ![r] = receipts[r] \cup {status}]

WriteReceipt(r) ==
    /\ Runs(r, "closing")
    /\ receipts' = Stored(r, tasks[r].outcome)
    /\ Ends(r)
    /\ UNCHANGED <<caches, approval, sends, restarts, history>>

\* write_receipt raises, whether the receipt was stored or not: on to the except clause
ReceiptRaises(r, stored) ==
    /\ Runs(r, "closing")
    /\ receipts' = IF stored THEN Stored(r, tasks[r].outcome) ELSE receipts
    /\ Moves(r, "failing")
    /\ UNCHANGED <<caches, approval, sends, restarts, history>>

\* Mutant: the except clause writes no receipt
MutWriteErrorReceipt(r, stored) ==
    /\ Runs(r, "failing")
    /\ Ends(r)
    /\ UNCHANGED <<caches, approval, receipts, sends, restarts, history>>

\* The except clause stores an error receipt; its failure is only logged
WriteErrorReceipt(r, stored) ==
    /\ Runs(r, "failing")
    /\ receipts' = IF stored THEN Stored(r, "FAILED") ELSE receipts
    /\ unrecorded' = IF stored THEN unrecorded ELSE unrecorded \cup {r}
    /\ Ends(r)
    /\ UNCHANGED <<caches, approval, sends, restarts, decisions, payments, paidHere>>

-----------------------------------------------------------------------------
\* The process

ServedBy(w) == {r \in Requests : tasks[r] # Idle /\ tasks[r].worker = w}

\* A process restarts: its cache is empty and what it was doing is gone
Restart(w) ==
    /\ restarts < MaxRestarts
    /\ restarts' = restarts + 1
    /\ tasks' = [r \in Requests |-> IF r \in ServedBy(w) THEN Idle ELSE tasks[r]]
    /\ caches' = [caches EXCEPT ![w] = [k \in Keys |-> "none"]]
    /\ paidHere' = [paidHere EXCEPT ![w] = [k \in Keys |-> 0]]
    /\ unrecorded' = unrecorded \cup ServedBy(w)
    /\ UNCHANGED <<approval, receipts, sends, decisions, payments>>

Init ==
    /\ tasks = [r \in Requests |-> Idle]
    /\ caches = [w \in Workers |-> [k \in Keys |-> "none"]]
    /\ approval = [r \in Requests |-> "absent"]
    /\ receipts = [r \in Requests |-> {}]
    /\ sends = [r \in Requests |-> 0]
    /\ restarts = 0
    /\ decisions = [r \in Requests |-> {}]
    /\ payments = [r \in Requests |-> 0]
    /\ paidHere = [w \in Workers |-> [k \in Keys |-> 0]]
    /\ unrecorded = {}

\* What the process does with r once it serves it
Serve(r) ==
    \/ \E raised \in BOOLEAN : RouteReturns(r, raised)
    \/ PlanHasRun(r) \/ PlanRaises(r)
    \/ \E created, raised \in BOOLEAN : OpenApproval(r, created, raised)
    \/ Poll(r) \/ GiveUp(r) \/ WriteReceipt(r)
    \/ \E stored \in BOOLEAN : ReceiptRaises(r, stored) \/ WriteErrorReceipt(r, stored)

Next ==
    \/ \E w \in Workers, r \in Requests :
          \/ AnswerFromCache(w, r) \/ Execute(w, r)
          \/ Refuse(w, r) \/ FailEarly(w, r) \/ StartGated(w, r)
    \/ \E r \in Requests : Pay(r) \/ Serve(r)
    \/ \E r \in Requests, status \in Settled : Settle(r, status)
    \/ \E w \in Workers : Restart(w)

Spec == Init /\ [][Next]_vars

\* Calls have time-outs, so run_plan and the HTTP calls return or raise, and the
\* deadline of the wait passes: a process goes on with each request it serves.
\* Nothing is assumed of Portia, of approvers or of clients
FairSpec == Spec /\ \A r \in Requests : SF_vars(Serve(r))

-----------------------------------------------------------------------------
\* Properties

\* TypeOK: values the variables may take; a request the route serves is inside
\* run_plan or not served at all (execution.py, mcp_execution.py).
TypeOK ==
    /\ tasks \in [Requests -> {Idle} \cup Calling \cup Waiting \cup Closing]
    /\ caches \in [Workers -> [Keys -> Answers \cup {"none"}]]
    /\ approval \in [Requests -> {"absent", "pending"} \cup Settled]
    /\ receipts \in [Requests -> SUBSET (Outcomes \cup {"FAILED"})]
    /\ sends \in [Requests -> 0..MaxSends]
    /\ restarts \in 0..MaxRestarts
    /\ decisions \in [Requests -> SUBSET Verdicts]
    /\ payments \in [Requests -> Nat]
    /\ paidHere \in [Workers -> [Keys -> Nat]]
    /\ unrecorded \subseteq Requests
    /\ \A r \in Requests \ Gated : tasks[r] \in {Idle} \cup Calling

\* Between two restarts a process makes at most one payment for a key, however
\* often and by however many clients it is asked: the lookup and the store are
\* two steps, but nothing else runs in the process between them because run_plan
\* never suspends (execution.py:156-234, portia_client.py:143).  Two payments for
\* one key are the work of two processes, or of one before and after a restart.
OnePaymentPerLife == \A w \in Workers, k \in Keys : paidHere[w][k] <= 1

\* An answer a process has given for a key it gives until it restarts: neither a
\* retry nor a request that failed replaces it (execution.py:156, 234).
AnswersAreStable ==
    [][\A w \in Workers, k \in Keys :
        caches[w][k] \notin {"none", caches'[w][k]} => caches'[w] = [j \in Keys |-> "none"]]_vars

\* A gated request that has paid and is over has a receipt, unless its process
\* restarted or the receipt service failed twice (mcp_execution.py:162, 201-210).
PaymentsAreRecorded ==
    \A r \in Gated : payments[r] > 0 /\ tasks[r] = Idle =>
        receipts[r] # {} \/ r \in unrecorded

\* Receipts tell what was decided while the request waited, although the
\* approvals service may settle the row again afterwards: SUCCEEDED only if it
\* was approved at some time, REJECTED only if it was rejected, and never both
\* (mcp_execution.py:130-136, clarifications_bridge.py:120-129).
ReceiptsTellTheDecision ==
    \A r \in NeedsApproval :
        /\ "SUCCEEDED" \in receipts[r] => "approved" \in decisions[r]
        /\ "REJECTED" \in receipts[r] => "rejected" \in decisions[r]
        /\ ~(Outcomes \subseteq receipts[r])

\* Every request that a process serves comes to an end, also one whose approval
\* is never decided, has expired or was cancelled (clarifications_bridge.py:107-112).
RequestsEnd == \A r \in Requests : tasks[r] # Idle ~> tasks[r] = Idle

\* What the comment "Continue with actual MCP execution after approval"
\* (mcp_execution.py:134) says: a gated payment is made after its approval.
PaidAfterApproval == \A r \in NeedsApproval : payments[r] > 0 => "approved" \in decisions[r]
=============================================================================
