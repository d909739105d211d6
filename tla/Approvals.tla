------------------------------ MODULE Approvals ------------------------------
(***************************************************************************)
(* The approvals service (services/approvals/src/service.py on top of      *)
(* repository.py): rows of the table "approvals" and the requests served   *)
(* on them.                                                                *)
(*                                                                         *)
(* Every request has its own database session (READ COMMITTED, no row      *)
(* locks taken by the SELECTs).  A handler SELECTs the row, decides in     *)
(* memory, commits an UPDATE of the columns it changed, re-reads the row   *)
(* (session.refresh) and then publishes an event.  Each of these is a step *)
(* of its own, so two requests on one row interleave as they do in the     *)
(* program.  A request whose guard fails (unknown or settled row, user not *)
(* required, user already counted) returns without a write and is no step. *)
(*                                                                         *)
(* Left out: notifications, titles, reasons, metadata and the timestamps   *)
(* other than expires_at, which is kept as the flag "due" (expires_at has  *)
(* passed).  Lists of users are sets: the code only tests membership and   *)
(* compares set(approved_by) with set(required_approvers).                 *)
(***************************************************************************)
EXTENDS Naturals, FiniteSets

CONSTANTS
    Approvals,    \* approval ids
    Users,        \* approver ids
    Sessions,     \* requests served at the same time
    NoUser,       \* rejected_by of a row nobody rejected
    EditLists,    \* approver lists clients send in create and update requests
    MaxEdits      \* bound: delegations and updates in one behaviour

ASSUME NoUserAssumption == NoUser \notin Users
ASSUME EditListsAssumption == EditLists \subseteq SUBSET Users
ASSUME MaxEditsAssumption == MaxEdits \in Nat

VARIABLES
    rows,          \* the table: one record per approval id
    sessions,      \* what each request in progress holds in memory
    published,     \* events the event bus received
    edits,         \* delegations and updates started, up to MaxEdits
    approvers,     \* history: users whose approval of the row was committed
    rejectors,     \* history: users whose rejection of the row was committed
    requiredEver   \* history: every list required_approvers of the row held

vars == <<rows, sessions, published, edits, approvers, rejectors, requiredEver>>
history == <<approvers, rejectors, requiredEver>>

-----------------------------------------------------------------------------
\* Rows, sessions and events

SettledStatus == {"approved", "rejected", "cancelled", "expired"}
Status == {"absent", "pending"} \cup SettledStatus

Row == [status: Status,
        required: SUBSET Users,
        requiresAll: BOOLEAN,
        approvedBy: SUBSET Users,
        rejectedBy: Users \cup {NoUser},
        due: BOOLEAN]

AbsentRow == [status |-> "absent", required |-> {}, requiresAll |-> FALSE,
              approvedBy |-> {}, rejectedBy |-> NoUser, due |-> FALSE]

Idle == [pc |-> "idle"]

\* The row as SELECTed by approve_request or reject_request
Deciding == [pc: {"deciding"}, op: {"approve", "reject"},
             approval: Approvals, user: Users,
             required: SUBSET Users, approvedBy: SUBSET Users]

\* cancel_approval after its SELECT
Cancelling == [pc: {"cancelling"}, approval: Approvals]

\* update_approval about to write: new list (if any), and a later expires_at
Editing == [pc: {"editing"}, approval: Approvals, setsRequired: BOOLEAN,
            required: SUBSET Users, extends: BOOLEAN]

\* expire_old_approvals with the rows it SELECTed
Sweeping == [pc: {"sweeping"}, batch: SUBSET Approvals]

\* Committed, about to refresh the row and to build the event
Committed == [pc: {"committed"}, op: {"create", "approve", "reject"},
              approval: Approvals]

Event == [type: {"requested", "granted", "rejected"}, approval: Approvals,
          by: SUBSET (Users \cup {NoUser})]

Publishing == [pc: {"publishing"}, event: Event]

SessionState == {Idle} \cup Deciding \cup Cancelling \cup Editing
                    \cup Sweeping \cup Committed \cup Publishing

TypeOK ==
    /\ rows \in [Approvals -> Row]
    /\ sessions \in [Sessions -> SessionState]
    /\ published \subseteq Event
    /\ edits \in 0..MaxEdits
    /\ approvers \in [Approvals -> SUBSET Users]
    /\ rejectors \in [Approvals -> SUBSET Users]
    /\ requiredEver \in [Approvals -> SUBSET SUBSET Users]

Init ==
    /\ rows = [a \in Approvals |-> AbsentRow]
    /\ sessions = [s \in Sessions |-> Idle]
    /\ published = {}
    /\ edits = 0
    /\ approvers = [a \in Approvals |-> {}]
    /\ rejectors = [a \in Approvals |-> {}]
    /\ requiredEver = [a \in Approvals |-> {}]

-----------------------------------------------------------------------------
\* Helpers shared by the handlers

\* Mutant: the SELECT does not ask for status = PENDING
MutSelectable(a) == rows[a].status # "absent"

\* The WHERE clause of the decision SELECTs
Selectable(a) == rows[a].status = "pending"

\* Mutant: any required approver completes a request that needs all of them
MutComplete(requiresAll, required, approvedBy) ==
    requiresAll => approvedBy \cap required # {}

\* Whether the approvals read, with the one being added, settle the row
Complete(requiresAll, required, approvedBy) ==
    requiresAll => approvedBy = required

\* The rows the sweep SELECTs
Overdue == {a \in Approvals : rows[a].status = "pending" /\ rows[a].due}

\* The list with current_approver replaced
Substitute(required, user, delegate) == (required \ {user}) \cup {delegate}

-----------------------------------------------------------------------------
\* create_approval_request: INSERT, then the event approval.requested

Create(s, a, required, requiresAll) ==
    /\ sessions[s] = Idle
    /\ rows[a].status = "absent"
    /\ rows' = [rows EXCEPT ![a] = [AbsentRow EXCEPT !.status = "pending",
                                        !.required = required,
                                        !.requiresAll = requiresAll]]
    /\ requiredEver' = [requiredEver EXCEPT ![a] = @ \cup {required}]
    /\ sessions' = [sessions EXCEPT
                      ![s] = [pc |-> "committed", op |-> "create", approval |-> a]]
    /\ UNCHANGED <<published, edits, approvers, rejectors>>

-----------------------------------------------------------------------------
\* SELECT and in-memory checks of approve_request and
\* reject_request; the session keeps what it read

Load(s, op, a, user) ==
    /\ sessions[s] = Idle
    /\ Selectable(a)
    /\ sessions' = [sessions EXCEPT
                      ![s] = [pc |-> "deciding", op |-> op, approval |-> a,
                              user |-> user, required |-> rows[a].required,
                              approvedBy |-> rows[a].approvedBy]]
    /\ UNCHANGED <<rows, published, edits, history>>

ApproveLoad(s, a, user) ==
    /\ user \in rows[a].required
    /\ user \notin rows[a].approvedBy
    /\ Load(s, "approve", a, user)

RejectLoad(s, a, user) ==
    /\ user \in rows[a].required
    /\ Load(s, "reject", a, user)

CancelLoad(s, a) ==
    /\ sessions[s] = Idle
    /\ Selectable(a)
    /\ sessions' = [sessions EXCEPT ![s] = [pc |-> "cancelling", approval |-> a]]
    /\ UNCHANGED <<rows, published, edits, history>>

-----------------------------------------------------------------------------
\* The commits: UPDATE ... WHERE approval_id = a of the columns changed in
\* memory, whatever the row holds by then

\* approved_by is the list read plus the approver; status is written only
\* when the approvals read complete the request (requires_all_approvers is
\* never updated, so the row's value is the one that was read)
ApproveCommit(s) ==
    LET d == sessions[s]
        a == d.approval
        approvedBy == d.approvedBy \cup {d.user}
    IN  /\ d.pc = "deciding" /\ d.op = "approve"
        /\ rows' = [rows EXCEPT ![a] =
                      [rows[a] EXCEPT
                         !.approvedBy = approvedBy,
                         !.status = IF Complete(rows[a].requiresAll, d.required, approvedBy)
                                    THEN "approved" ELSE rows[a].status]]
        /\ approvers' = [approvers EXCEPT ![a] = @ \cup {d.user}]
        /\ sessions' = [sessions EXCEPT
                          ![s] = [pc |-> "committed", op |-> "approve", approval |-> a]]
        /\ UNCHANGED <<published, edits, rejectors, requiredEver>>

RejectCommit(s) ==
    LET d == sessions[s]
        a == d.approval
    IN  /\ d.pc = "deciding" /\ d.op = "reject"
        /\ rows' = [rows EXCEPT ![a] = [rows[a] EXCEPT !.status = "rejected",
                                                       !.rejectedBy = d.user]]
        /\ rejectors' = [rejectors EXCEPT ![a] = @ \cup {d.user}]
        /\ sessions' = [sessions EXCEPT
                          ![s] = [pc |-> "committed", op |-> "reject", approval |-> a]]
        /\ UNCHANGED <<published, edits, approvers, requiredEver>>

\* cancel_approval publishes nothing
CancelCommit(s) ==
    LET d == sessions[s]
    IN  /\ d.pc = "cancelling"
        /\ rows' = [rows EXCEPT ![d.approval].status = "cancelled"]
        /\ sessions' = [sessions EXCEPT ![s] = Idle]
        /\ UNCHANGED <<published, edits, history>>

-----------------------------------------------------------------------------
\* refresh and event: the row is read again, and what is published is what
\* this second read shows

EventOf(op, a) ==
    CASE op = "create"  -> [type |-> "requested", approval |-> a, by |-> {}]
      [] op = "approve" -> [type |-> "granted", approval |-> a, by |-> rows[a].approvedBy]
      [] op = "reject"  -> [type |-> "rejected", approval |-> a, by |-> {rows[a].rejectedBy}]

\* Mutant: approval.granted is published after every approval
MutAnnounces(op, a) == TRUE

\* approve_request publishes only if the refreshed status is APPROVED
Announces(op, a) == op = "approve" => rows[a].status = "approved"

Refresh(s) ==
    LET d == sessions[s]
    IN  /\ d.pc = "committed"
        /\ sessions' = [sessions EXCEPT
                          ![s] = IF Announces(d.op, d.approval)
                                 THEN [pc |-> "publishing",
                                       event |-> EventOf(d.op, d.approval)]
                                 ELSE Idle]
        /\ UNCHANGED <<rows, published, edits, history>>

Publish(s) ==
    /\ sessions[s].pc = "publishing"
    /\ published' = published \cup {sessions[s].event}
    /\ sessions' = [sessions EXCEPT ![s] = Idle]
    /\ UNCHANGED <<rows, edits, history>>

\* A database error (rollback), a publish that fails (logged, not retried)
\* or a crash of the process: the request ends where it is
Abort(s) ==
    /\ sessions[s] # Idle
    /\ sessions' = [sessions EXCEPT ![s] = Idle]
    /\ UNCHANGED <<rows, published, edits, history>>

-----------------------------------------------------------------------------
\* delegate_approval and update_approval (PUT): the write does not look at
\* the status of the row it updates

StartEdit(s, a, setsRequired, required, extends) ==
    /\ sessions[s] = Idle
    /\ edits < MaxEdits
    /\ rows[a].status # "absent"
    /\ edits' = edits + 1
    /\ sessions' = [sessions EXCEPT
                      ![s] = [pc |-> "editing", approval |-> a,
                              setsRequired |-> setsRequired, required |-> required,
                              extends |-> extends]]
    /\ UNCHANGED <<rows, published, history>>

\* get_approval and the checks; the write is the later update_approval
DelegateLoad(s, a, user, delegate) ==
    /\ user \in rows[a].required
    /\ rows[a].status = "pending"
    /\ StartEdit(s, a, TRUE, Substitute(rows[a].required, user, delegate), FALSE)

UpdateRequest(s, a, required, extends) == StartEdit(s, a, TRUE, required, extends)

ExtendRequest(s, a) == StartEdit(s, a, FALSE, {}, TRUE)

EditCommit(s) ==
    LET d == sessions[s]
        a == d.approval
    IN  /\ d.pc = "editing"
        /\ rows' = [rows EXCEPT ![a] =
                      [rows[a] EXCEPT
                         !.required = IF d.setsRequired THEN d.required
                                      ELSE rows[a].required,
                         !.due = ~d.extends /\ rows[a].due]]
        /\ requiredEver' = [requiredEver EXCEPT
                              ![a] = IF d.setsRequired THEN @ \cup {d.required} ELSE @]
        /\ sessions' = [sessions EXCEPT ![s] = Idle]
        /\ UNCHANGED <<published, edits, approvers, rejectors>>

-----------------------------------------------------------------------------
\* Time, and the sweep of expired approvals (one transaction for the batch)

\* The clock passes expires_at of the row: no code runs
ReachExpiry(a) ==
    /\ rows[a].status # "absent"
    /\ ~rows[a].due
    /\ rows' = [rows EXCEPT ![a].due = TRUE]
    /\ UNCHANGED <<sessions, published, edits, history>>

SweepLoad(s) ==
    /\ sessions[s] = Idle
    /\ Overdue # {}
    /\ sessions' = [sessions EXCEPT ![s] = [pc |-> "sweeping", batch |-> Overdue]]
    /\ UNCHANGED <<rows, published, edits, history>>

SweepCommit(s) ==
    /\ sessions[s].pc = "sweeping"
    /\ rows' = [a \in Approvals |->
                  IF a \in sessions[s].batch
                  THEN [rows[a] EXCEPT !.status = "expired"] ELSE rows[a]]
    /\ sessions' = [sessions EXCEPT ![s] = Idle]
    /\ UNCHANGED <<published, edits, history>>

-----------------------------------------------------------------------------

\* A step that finishes or advances a request already in progress
Proceed(s) ==
    \/ ApproveCommit(s) \/ RejectCommit(s) \/ CancelCommit(s)
    \/ EditCommit(s) \/ SweepCommit(s)
    \/ Refresh(s) \/ Publish(s)

Next ==
    \/ \E s \in Sessions, a \in Approvals, R \in EditLists, all \in BOOLEAN :
          Create(s, a, R, all)
    \/ \E s \in Sessions, a \in Approvals, u \in Users :
          ApproveLoad(s, a, u) \/ RejectLoad(s, a, u)
    \/ \E s \in Sessions, a \in Approvals : CancelLoad(s, a) \/ ExtendRequest(s, a)
    \/ \E s \in Sessions, a \in Approvals, u, v \in Users : DelegateLoad(s, a, u, v)
    \/ \E s \in Sessions, a \in Approvals, R \in EditLists, extends \in BOOLEAN :
          UpdateRequest(s, a, R, extends)
    \/ \E s \in Sessions : SweepLoad(s) \/ Proceed(s) \/ Abort(s)
    \/ \E a \in Approvals : ReachExpiry(a)

Spec == Init /\ [][Next]_vars

\* Fairness: a request in progress is served to its end unless it aborts
\* (the event loop runs it); nobody is obliged to send a request
ServiceSpec == Spec /\ \A s \in Sessions : WF_vars(Proceed(s))

-----------------------------------------------------------------------------
\* Properties

\* Real approvals stand behind a grant of a: if all approvers are required,
\* everybody on one list the row has held did approve; otherwise somebody did
Quorum(a) ==
    IF rows[a].requiresAll
    THEN \E R \in requiredEver[a] : R \subseteq approvers[a]
    ELSE approvers[a] # {}

\* However requests, delegations and list updates interleave, a row is
\* "approved" only with a quorum of committed approvals behind it: lost
\* updates of approved_by may hide an approval but never invent one.
ApprovedHasQuorum ==
    \A a \in Approvals : rows[a].status = "approved" => Quorum(a)

\* Whoever is counted in approved_by, or was recorded as the rejector, had
\* been on the list of required approvers and answered: stale writes of the
\* list never smuggle in a user who was not asked.
RecordedUsersWereAsked ==
    \A a \in Approvals :
        /\ rows[a].approvedBy \subseteq approvers[a]
        /\ approvers[a] \cup rejectors[a] \subseteq UNION requiredEver[a]
        /\ rows[a].rejectedBy # NoUser => rows[a].rejectedBy \in rejectors[a]

\* What an event must be backed by: approval.granted by a quorum of committed
\* approvals, approval.rejected by a committed rejection of the user it names
Truthful(e) ==
    /\ e.type = "granted" => Quorum(e.approval) /\ e.by \subseteq approvers[e.approval]
    /\ e.type = "rejected" => e.by \subseteq rejectors[e.approval]

\* Events are true of the row's history although their content comes from a
\* second read after the commit, when other requests may have written the row.
EventsAreTruthful == \A e \in published : Truthful(e)

\* "Automatic expiration handling" (IMPLEMENTATION_SUMMARY.md:34): a pending
\* row past its expires_at is eventually settled, or its expiry extended.  The
\* code sweeps only when somebody calls POST /v1/admin/approvals/cleanup
\* (routes_complex.py:524): the interval of config/settings.py is read nowhere.
OverdueIsSettled ==
    \A a \in Approvals :
        (rows[a].status = "pending" /\ rows[a].due)
            ~> (rows[a].status # "pending" \/ ~rows[a].due)

\* What the safety properties rest on: the values a request in progress
\* carries are backed by the history of the row it is going to write.
Exists(a) == rows[a].status # "absent"

SessionBacked(d) ==
    /\ d.pc = "deciding" =>
          /\ Exists(d.approval)
          /\ d.required \in requiredEver[d.approval]
          /\ d.user \in d.required
          /\ d.approvedBy \subseteq approvers[d.approval]
    /\ d.pc \in {"cancelling", "editing"} => Exists(d.approval)
    /\ d.pc = "sweeping" => \A a \in d.batch : Exists(a)
    /\ d.pc = "committed" =>
          /\ Exists(d.approval)
          /\ d.op = "reject" => rows[d.approval].rejectedBy # NoUser
    /\ d.pc = "publishing" => Exists(d.event.approval) /\ Truthful(d.event)

\* The inductive invariant: types, histories that cover the rows, sessions
\* backed by the histories, and the three safety properties.
HistoryInvariant ==
    /\ TypeOK
    /\ \A a \in Approvals : Exists(a) => rows[a].required \in requiredEver[a]
    /\ \A s \in Sessions : SessionBacked(sessions[s])
    /\ \A e \in published : Exists(e.approval)
    /\ ApprovedHasQuorum
    /\ RecordedUsersWereAsked
    /\ EventsAreTruthful
=============================================================================
