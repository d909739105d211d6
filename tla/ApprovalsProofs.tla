--------------------------- MODULE ApprovalsProofs ---------------------------
(***************************************************************************)
(* Proofs about Approvals and ApprovalsOverlap, for every set of           *)
(* approvals, users and sessions.                                          *)
(***************************************************************************)
EXTENDS ApprovalsOverlap, TLAPS

-----------------------------------------------------------------------------
\* What the program counter of a session says about its shape

LEMMA SessionShape ==
  ASSUME TypeOK, NEW s \in Sessions
  PROVE  /\ sessions[s].pc = "deciding"   => sessions[s] \in Deciding
         /\ sessions[s].pc = "cancelling" => sessions[s] \in Cancelling
         /\ sessions[s].pc = "editing"    => sessions[s] \in Editing
         /\ sessions[s].pc = "sweeping"   => sessions[s] \in Sweeping
         /\ sessions[s].pc = "committed"  => sessions[s] \in Committed
         /\ sessions[s].pc = "publishing" => sessions[s] \in Publishing
  BY DEF TypeOK, SessionState, Idle, Deciding, Cancelling, Editing, Sweeping, Committed, Publishing

-----------------------------------------------------------------------------
\* Type correctness

\* A session that goes idle, and one that moves on, keep their types.
LEMMA SessionUpdate ==
  ASSUME TypeOK, NEW s \in Sessions, NEW d \in SessionState
  PROVE  [sessions EXCEPT ![s] = d] \in [Sessions -> SessionState]
  BY DEF TypeOK

\* The writes of the handlers give a row again.
LEMMA RowWrites ==
  ASSUME NEW r \in Row
  PROVE  /\ \A R \in SUBSET Users, b \in BOOLEAN :
               [r EXCEPT !.required = R, !.due = b] \in Row
         /\ \A u \in Users : [r EXCEPT !.status = "rejected", !.rejectedBy = u] \in Row
         /\ [r EXCEPT !.due = TRUE] \in Row
  <1>1. ASSUME NEW R \in SUBSET Users, NEW b \in BOOLEAN
        PROVE  [r EXCEPT !.required = R, !.due = b] \in Row
    BY DEF Row
  <1>2. ASSUME NEW u \in Users
        PROVE  [r EXCEPT !.status = "rejected", !.rejectedBy = u] \in Row
    BY DEF Row, Status, SettledStatus
  <1>3. [r EXCEPT !.due = TRUE] \in Row
    BY DEF Row
  <1>4. QED
    BY <1>1, <1>2, <1>3

\* Every step keeps the declared types.
LEMMA NextTypeOK == TypeOK /\ [Next]_vars => TypeOK'
  <1> SUFFICES ASSUME TypeOK, [Next]_vars
               PROVE  TypeOK'
    OBVIOUS
  <1> USE DEF TypeOK, history
  <1>0. Idle \in SessionState
    BY DEF SessionState
  <1>1. ASSUME NEW s \in Sessions, NEW a \in Approvals, NEW R \in EditLists,
               NEW all \in BOOLEAN, Create(s, a, R, all)
        PROVE  TypeOK'
    <2>1. [pc |-> "committed", op |-> "create", approval |-> a] \in SessionState
      BY DEF SessionState, Committed
    <2>2. R \in SUBSET Users
      BY EditListsAssumption
    <2>3. [AbsentRow EXCEPT !.status = "pending", !.required = R,
                            !.requiresAll = all] \in Row
      BY <2>2 DEF AbsentRow, Row, Status, SettledStatus
    <2>4. QED
      BY <1>1, <2>1, <2>2, <2>3, SessionUpdate DEF Create
  <1>2. ASSUME NEW s \in Sessions, NEW a \in Approvals, NEW u \in Users,
               NEW op \in {"approve", "reject"}, Load(s, op, a, u)
        PROVE  TypeOK'
    <2>1. [pc |-> "deciding", op |-> op, approval |-> a, user |-> u,
           required |-> rows[a].required, approvedBy |-> rows[a].approvedBy]
             \in SessionState
      BY DEF SessionState, Deciding, Row
    <2>2. QED
      BY <1>2, <2>1, SessionUpdate DEF Load
  <1>3. ASSUME NEW s \in Sessions, NEW a \in Approvals, CancelLoad(s, a)
        PROVE  TypeOK'
    <2>1. [pc |-> "cancelling", approval |-> a] \in SessionState
      BY DEF SessionState, Cancelling
    <2>2. QED
      BY <1>3, <2>1, SessionUpdate DEF CancelLoad
  <1>4. ASSUME NEW s \in Sessions, NEW a \in Approvals, NEW sets \in BOOLEAN,
               NEW R \in SUBSET Users, NEW extends \in BOOLEAN,
               StartEdit(s, a, sets, R, extends)
        PROVE  TypeOK'
    <2>1. [pc |-> "editing", approval |-> a, setsRequired |-> sets,
           required |-> R, extends |-> extends] \in SessionState
      BY DEF SessionState, Editing
    <2>2. edits' \in 0..MaxEdits
      BY <1>4, MaxEditsAssumption DEF StartEdit
    <2>3. QED
      BY <1>4, <2>1, <2>2, SessionUpdate DEF StartEdit
  <1>5. ASSUME NEW s \in Sessions, NEW a \in Approvals, NEW u \in Users, NEW v \in Users,
               DelegateLoad(s, a, u, v)
        PROVE  TypeOK'
    <2>1. Substitute(rows[a].required, u, v) \in SUBSET Users
      BY DEF Substitute, Row
    <2>2. StartEdit(s, a, TRUE, Substitute(rows[a].required, u, v), FALSE)
      BY <1>5 DEF DelegateLoad
    <2>3. QED
      BY <1>4, <2>1, <2>2
  <1>6. ASSUME NEW s \in Sessions, NEW a \in Approvals, NEW R \in EditLists,
               NEW extends \in BOOLEAN, UpdateRequest(s, a, R, extends)
        PROVE  TypeOK'
    <2>1. R \in SUBSET Users
      BY EditListsAssumption
    <2>2. StartEdit(s, a, TRUE, R, extends)
      BY <1>6 DEF UpdateRequest
    <2> HIDE DEF TypeOK
    <2>3. QED
      BY <1>4, <2>1, <2>2
  <1>7. ASSUME NEW s \in Sessions, NEW a \in Approvals, ExtendRequest(s, a)
        PROVE  TypeOK'
    BY <1>4, <1>7 DEF ExtendRequest
  <1>8. ASSUME NEW s \in Sessions, SweepLoad(s)
        PROVE  TypeOK'
    <2>1. [pc |-> "sweeping", batch |-> Overdue] \in SessionState
      BY DEF SessionState, Sweeping, Overdue
    <2>2. QED
      BY <1>8, <2>1, SessionUpdate DEF SweepLoad
  <1>9. ASSUME NEW s \in Sessions, ApproveCommit(s)
        PROVE  TypeOK'
    <2> DEFINE a == sessions[s].approval
               by == sessions[s].approvedBy \cup {sessions[s].user}
               st == IF Complete(rows[a].requiresAll, sessions[s].required, by)
                     THEN "approved" ELSE rows[a].status
               r == [rows[a] EXCEPT !.approvedBy = by, !.status = st]
    <2>1. /\ a \in Approvals /\ sessions[s].user \in Users
          /\ by \in SUBSET Users
      BY <1>9, SessionShape DEF ApproveCommit, Deciding
    <2>2. rows[a] \in Row
      BY <2>1
    <2>3. r \in Row
      <3>1. st \in Status
        BY <2>2 DEF Row, Status, SettledStatus
      <3> HIDE DEF st, by, a
      <3>2. QED
        BY <2>1, <2>2, <3>1 DEF Row
    <2>4. rows' = [rows EXCEPT ![a] = r]
      BY <1>9, <2>1 DEF ApproveCommit, Row
    <2>5. [pc |-> "committed", op |-> "approve", approval |-> a] \in SessionState
      BY <2>1 DEF SessionState, Committed
    <2>6. sessions' \in [Sessions -> SessionState]
      BY <1>9, <2>5, SessionUpdate DEF ApproveCommit
    <2>7. rows' \in [Approvals -> Row]
      <3> HIDE DEF r
      <3>1. QED
        BY <2>1, <2>3, <2>4
    <2>8. approvers' \in [Approvals -> SUBSET Users]
      BY <1>9, <2>1 DEF ApproveCommit
    <2>9. QED
      BY <1>9, <2>6, <2>7, <2>8 DEF ApproveCommit
  <1>10. ASSUME NEW s \in Sessions, RejectCommit(s)
         PROVE  TypeOK'
    <2> DEFINE a == sessions[s].approval
               r == [rows[a] EXCEPT !.status = "rejected",
                                    !.rejectedBy = sessions[s].user]
    <2>1. a \in Approvals /\ sessions[s].user \in Users
      BY <1>10, SessionShape DEF RejectCommit, Deciding
    <2>2. r \in Row
      BY <2>1, RowWrites
    <2>3. rows' = [rows EXCEPT ![a] = r]
      BY <1>10, <2>1 DEF RejectCommit, Row
    <2>4. [pc |-> "committed", op |-> "reject", approval |-> a] \in SessionState
      BY <2>1 DEF SessionState, Committed
    <2>5. sessions' \in [Sessions -> SessionState]
      BY <1>10, <2>4, SessionUpdate DEF RejectCommit
    <2>6. rejectors' \in [Approvals -> SUBSET Users]
      BY <1>10, <2>1 DEF RejectCommit
    <2>7. rows' \in [Approvals -> Row]
      <3> HIDE DEF r
      <3>1. QED
        BY <2>1, <2>2, <2>3
    <2>8. QED
      BY <1>10, <2>5, <2>6, <2>7 DEF RejectCommit
  <1>11. ASSUME NEW s \in Sessions, CancelCommit(s)
         PROVE  TypeOK'
    <2> DEFINE a == sessions[s].approval
               r == [rows[a] EXCEPT !.status = "cancelled"]
    <2>1. a \in Approvals
      BY <1>11, SessionShape DEF CancelCommit, Cancelling
    <2>2. r \in Row
      BY <2>1 DEF Row, Status, SettledStatus
    <2>3. rows' = [rows EXCEPT ![a] = r]
      BY <1>11, <2>1 DEF CancelCommit, Row
    <2>4. rows' \in [Approvals -> Row]
      <3> HIDE DEF r
      <3>1. QED
        BY <2>1, <2>2, <2>3
    <2>5. QED
      BY <1>0, <1>11, <2>4, SessionUpdate DEF CancelCommit
  <1>12. ASSUME NEW s \in Sessions, EditCommit(s)
         PROVE  TypeOK'
    <2> DEFINE a == sessions[s].approval
               R == IF sessions[s].setsRequired THEN sessions[s].required
                    ELSE rows[a].required
               r == [rows[a] EXCEPT !.required = R,
                                    !.due = ~sessions[s].extends /\ rows[a].due]
    <2>1. a \in Approvals /\ sessions[s].required \in SUBSET Users
      BY <1>12, SessionShape DEF EditCommit, Editing
    <2>2. R \in SUBSET Users
      BY <2>1 DEF Row
    <2>3. r \in Row
      <3>1. (~sessions[s].extends /\ rows[a].due) \in BOOLEAN
        OBVIOUS
      <3> HIDE DEF R
      <3>2. QED
        BY <2>1, <2>2, <3>1, RowWrites
    <2>4. rows' = [rows EXCEPT ![a] = r]
      BY <1>12, <2>1 DEF EditCommit, Row
    <2>5. rows' \in [Approvals -> Row]
      <3> HIDE DEF r
      <3>1. QED
        BY <2>1, <2>3, <2>4
    <2>6. requiredEver' \in [Approvals -> SUBSET SUBSET Users]
      BY <1>12, <2>1 DEF EditCommit
    <2>7. QED
      BY <1>0, <1>12, <2>5, <2>6, SessionUpdate DEF EditCommit
  <1>13. ASSUME NEW s \in Sessions, SweepCommit(s)
         PROVE  TypeOK'
    <2>1. \A a \in Approvals : [rows[a] EXCEPT !.status = "expired"] \in Row
      BY SMTT(30) DEF Row, Status, SettledStatus
    <2>2. rows' \in [Approvals -> Row]
      BY <1>13, <2>1 DEF SweepCommit
    <2>3. QED
      BY <1>0, <1>13, <2>2, SessionUpdate DEF SweepCommit
  <1>14. ASSUME NEW s \in Sessions, Refresh(s)
         PROVE  TypeOK'
    <2>1. sessions[s].approval \in Approvals
          /\ sessions[s].op \in {"create", "approve", "reject"}
      BY <1>14, SessionShape DEF Refresh, Committed
    <2>2. EventOf(sessions[s].op, sessions[s].approval) \in Event
      BY <2>1 DEF EventOf, Event, Row
    <2>3. [pc |-> "publishing",
           event |-> EventOf(sessions[s].op, sessions[s].approval)] \in SessionState
      BY <2>2 DEF SessionState, Publishing
    <2>4. QED
      BY <1>0, <1>14, <2>3, SessionUpdate DEF Refresh
  <1>15. ASSUME NEW s \in Sessions, Publish(s)
         PROVE  TypeOK'
    <2>1. sessions[s].event \in Event
      BY <1>15, SessionShape DEF Publish, Publishing
    <2>2. QED
      BY <1>0, <1>15, <2>1, SessionUpdate DEF Publish
  <1>16. ASSUME NEW s \in Sessions, Abort(s)
         PROVE  TypeOK'
    BY <1>0, <1>16, SessionUpdate DEF Abort
  <1>17. ASSUME NEW a \in Approvals, ReachExpiry(a)
         PROVE  TypeOK'
    <2>1. [rows[a] EXCEPT !.due = TRUE] \in Row
      BY RowWrites
    <2>2. rows' = [rows EXCEPT ![a] = [rows[a] EXCEPT !.due = TRUE]]
      BY <1>17 DEF ReachExpiry
    <2>3. QED
      BY <1>17, <2>1, <2>2 DEF ReachExpiry
  <1>18. CASE UNCHANGED vars
    BY <1>18 DEF vars
  <1>19. QED
    BY <1>1, <1>2, <1>3, <1>5, <1>6, <1>7, <1>8, <1>9, <1>10, <1>11, <1>12,
       <1>13, <1>14, <1>15, <1>16, <1>17, <1>18
       DEF Next, Proceed, ApproveLoad, RejectLoad

LEMMA TypeCorrectInit == Init => TypeOK
  BY MaxEditsAssumption
     DEF Init, TypeOK, AbsentRow, Row, Status, SettledStatus, SessionState

\* The variables always have their declared types.
THEOREM TypeCorrect == Spec => []TypeOK
  BY TypeCorrectInit, NextTypeOK, PTL DEF Spec

-----------------------------------------------------------------------------
\* Histories only grow, and a row once created keeps the facts that the
\* backing of an approval rests on

Grown(a) ==
    /\ approvers[a] \subseteq approvers'[a]
    /\ rejectors[a] \subseteq rejectors'[a]
    /\ requiredEver[a] \subseteq requiredEver'[a]
    /\ Exists(a) => /\ Exists(a)'
                    /\ rows'[a].requiresAll = rows[a].requiresAll
                    /\ rows[a].rejectedBy # NoUser => rows'[a].rejectedBy # NoUser

LEMMA UnchangedGrown ==
  ASSUME NEW a \in Approvals, UNCHANGED <<rows, approvers, rejectors, requiredEver>>
  PROVE  Grown(a)
  BY DEF Grown, Exists

\* Every step only adds to the history of every row.
LEMMA NextGrown ==
  ASSUME TypeOK, [Next]_vars, NEW b \in Approvals
  PROVE  Grown(b)
  <1> USE DEF Exists, history
  <1>1. ASSUME NEW s \in Sessions, NEW a \in Approvals, NEW R \in EditLists,
               NEW all \in BOOLEAN, Create(s, a, R, all)
        PROVE  Grown(b)
    BY <1>1 DEF TypeOK, Create, Grown
  <1>2. ASSUME NEW s \in Sessions, ApproveCommit(s)
        PROVE  Grown(b)
    <2>1. sessions[s].approval \in Approvals
      BY <1>2, SessionShape DEF ApproveCommit, Deciding
    <2>2. b # sessions[s].approval => rows'[b] = rows[b]
      BY <1>2, <2>1 DEF TypeOK, ApproveCommit
    <2>3. b = sessions[s].approval =>
             /\ rows'[b].requiresAll = rows[b].requiresAll
             /\ rows'[b].rejectedBy = rows[b].rejectedBy
             /\ rows'[b].status \in {rows[b].status, "approved"}
      BY <1>2, <2>1 DEF TypeOK, ApproveCommit, Row
    <2>4. approvers[b] \subseteq approvers'[b]
      BY <1>2, <2>1 DEF TypeOK, ApproveCommit
    <2>5. QED
      BY <1>2, <2>2, <2>3, <2>4 DEF ApproveCommit, Grown
  <1>3. ASSUME NEW s \in Sessions, RejectCommit(s)
        PROVE  Grown(b)
    <2>1. sessions[s].approval \in Approvals /\ sessions[s].user \in Users
      BY <1>3, SessionShape DEF RejectCommit, Deciding
    <2>2. b # sessions[s].approval => rows'[b] = rows[b]
      BY <1>3, <2>1 DEF TypeOK, RejectCommit
    <2>3. b = sessions[s].approval =>
             /\ rows'[b].requiresAll = rows[b].requiresAll
             /\ rows'[b].rejectedBy = sessions[s].user
             /\ rows'[b].status = "rejected"
      BY <1>3, <2>1 DEF TypeOK, RejectCommit, Row
    <2>4. rejectors[b] \subseteq rejectors'[b]
      BY <1>3, <2>1 DEF TypeOK, RejectCommit
    <2>5. QED
      BY <1>3, <2>1, <2>2, <2>3, <2>4, NoUserAssumption DEF RejectCommit, Grown
  <1>4. ASSUME NEW s \in Sessions, CancelCommit(s)
        PROVE  Grown(b)
    BY <1>4 DEF TypeOK, CancelCommit, Grown, Row
  <1>5. ASSUME NEW s \in Sessions, EditCommit(s)
        PROVE  Grown(b)
    <2>1. sessions[s].approval \in Approvals
      BY <1>5, SessionShape DEF EditCommit, Editing
    <2>2. b # sessions[s].approval => rows'[b] = rows[b]
      BY <1>5, <2>1 DEF TypeOK, EditCommit
    <2>3. b = sessions[s].approval =>
             /\ rows'[b].requiresAll = rows[b].requiresAll
             /\ rows'[b].rejectedBy = rows[b].rejectedBy
             /\ rows'[b].status = rows[b].status
      BY <1>5, <2>1 DEF TypeOK, EditCommit, Row
    <2>4. requiredEver[b] \subseteq requiredEver'[b]
      BY <1>5, <2>1 DEF TypeOK, EditCommit
    <2>5. QED
      BY <1>5, <2>2, <2>3, <2>4 DEF EditCommit, Grown
  <1>6. ASSUME NEW s \in Sessions, SweepCommit(s)
        PROVE  Grown(b)
    BY <1>6 DEF TypeOK, SweepCommit, Grown, Row
  <1>7. ASSUME NEW a \in Approvals, ReachExpiry(a)
        PROVE  Grown(b)
    BY <1>7 DEF TypeOK, ReachExpiry, Grown, Row
  <1>8. CASE UNCHANGED <<rows, approvers, rejectors, requiredEver>>
    BY <1>8, UnchangedGrown
  <1>9. QED
    BY <1>1, <1>2, <1>3, <1>4, <1>5, <1>6, <1>7, <1>8
       DEF Next, vars, Proceed, ApproveLoad, RejectLoad, Load, CancelLoad,
           StartEdit, DelegateLoad, UpdateRequest, ExtendRequest, SweepLoad,
           Refresh, Publish, Abort

-----------------------------------------------------------------------------
\* What backs an approval, an event or a session survives the growth

LEMMA QuorumStable ==
  ASSUME NEW a \in Approvals, Exists(a), Grown(a), Quorum(a)
  PROVE  Quorum(a)'
  BY DEF Grown, Quorum

LEMMA TruthfulStable ==
  ASSUME NEW e \in Event, Exists(e.approval), Grown(e.approval), Truthful(e)
  PROVE  Truthful(e)'
  <1>1. e.approval \in Approvals
    BY DEF Event
  <1>2. e.type = "granted" => Quorum(e.approval)'
    BY <1>1, QuorumStable DEF Truthful
  <1>3. QED
    BY <1>2 DEF Truthful, Grown

LEMMA BackedStable ==
  ASSUME NEW d \in SessionState, SessionBacked(d),
         \A a \in Approvals : Grown(a)
  PROVE  SessionBacked(d)'
  <1>1. CASE d = Idle
    BY <1>1 DEF SessionBacked, Idle
  <1>2. CASE d \in Deciding
    BY <1>2 DEF SessionBacked, Deciding, Grown
  <1>3. CASE d \in Cancelling \cup Editing
    BY <1>3 DEF SessionBacked, Cancelling, Editing, Grown
  <1>4. CASE d \in Sweeping
    BY <1>4 DEF SessionBacked, Sweeping, Grown
  <1>5. CASE d \in Committed
    BY <1>5 DEF SessionBacked, Committed, Grown
  <1>6. CASE d \in Publishing
    <2>1. d.event \in Event /\ d.event.approval \in Approvals /\ d.pc = "publishing"
      BY <1>6 DEF Publishing, Event
    <2>2. Truthful(d.event)'
      BY <2>1, TruthfulStable DEF SessionBacked
    <2>3. QED
      BY <2>1, <2>2 DEF SessionBacked, Grown
  <1>7. QED
    BY <1>1, <1>2, <1>3, <1>4, <1>5, <1>6 DEF SessionState

\* A step that replaces one session's state leaves the others backed.
LEMMA BackedUpdate ==
  ASSUME TypeOK, \A s \in Sessions : SessionBacked(sessions[s]),
         \A a \in Approvals : Grown(a),
         NEW s \in Sessions, NEW d,
         sessions' = [sessions EXCEPT ![s] = d], SessionBacked(d)'
  PROVE  (\A t \in Sessions : SessionBacked(sessions[t]))'
  <1>1. ASSUME NEW t \in Sessions, t # s
        PROVE  SessionBacked(sessions[t])'
    <2>1. PICK c \in SessionState : c = sessions[t]
      BY DEF TypeOK
    <2>2. SessionBacked(c)
      BY <2>1
    <2>3. SessionBacked(c)'
      BY <2>2, BackedStable
    <2>4. c = sessions'[t]
      BY <1>1, <2>1 DEF TypeOK
    <2>5. QED
      BY <2>3, <2>4 DEF SessionBacked
  <1>2. SessionBacked(sessions[s])'
    <2>1. d = sessions'[s]
      BY DEF TypeOK
    <2>2. QED
      BY <2>1 DEF SessionBacked
  <1>3. QED
    BY <1>1, <1>2

-----------------------------------------------------------------------------
\* The history invariant is inductive

\* A step that writes neither rows, events nor histories only has to leave
\* the sessions backed.
LEMMA QuietStep ==
  ASSUME HistoryInvariant, TypeOK', UNCHANGED <<rows, published, history>>,
         (\A s \in Sessions : SessionBacked(sessions[s]))'
  PROVE  HistoryInvariant'
  BY DEF HistoryInvariant, Exists, ApprovedHasQuorum, Quorum, RecordedUsersWereAsked,
         EventsAreTruthful, Truthful, history

\* What is already published stays true.
LEMMA EventsStable ==
  ASSUME HistoryInvariant, \A a \in Approvals : Grown(a),
         NEW e \in published
  PROVE  Exists(e.approval)' /\ Truthful(e)'
  <1>1. e \in Event /\ e.approval \in Approvals
    BY DEF HistoryInvariant, TypeOK, Event
  <1>2. Exists(e.approval) /\ Truthful(e)
    BY DEF HistoryInvariant, EventsAreTruthful
  <1>3. PICK c \in Event : c = e
    BY <1>1
  <1>4. Exists(c.approval)' /\ Truthful(c)'
    BY <1>1, <1>2, <1>3, TruthfulStable DEF Grown
  <1>5. QED
    BY <1>3, <1>4

LEMMA LoadHistory ==
  ASSUME HistoryInvariant, TypeOK', \A b \in Approvals : Grown(b),
         NEW s \in Sessions, NEW a \in Approvals, NEW u \in Users,
         ApproveLoad(s, a, u) \/ RejectLoad(s, a, u)
  PROVE  HistoryInvariant'
  <1>1. PICK op \in {"approve", "reject"} : Load(s, op, a, u) /\ u \in rows[a].required
    BY DEF ApproveLoad, RejectLoad
  <1>2. PICK d : d = [pc |-> "deciding", op |-> op, approval |-> a, user |-> u,
                      required |-> rows[a].required, approvedBy |-> rows[a].approvedBy]
    OBVIOUS
  <1>3. /\ Exists(a) /\ rows[a].required \in requiredEver[a]
        /\ rows[a].approvedBy \subseteq approvers[a]
    BY <1>1 DEF HistoryInvariant, RecordedUsersWereAsked, Load, Selectable, Exists
  <1>4. SessionBacked(d)'
    BY <1>1, <1>2, <1>3 DEF SessionBacked, Load, history, Exists
  <1>5. (\A t \in Sessions : SessionBacked(sessions[t]))'
    BY <1>1, <1>2, <1>4, BackedUpdate DEF HistoryInvariant, Load
  <1>6. QED
    BY <1>1, <1>5, QuietStep DEF Load

LEMMA CancelLoadHistory ==
  ASSUME HistoryInvariant, TypeOK', \A b \in Approvals : Grown(b),
         NEW s \in Sessions, NEW a \in Approvals, CancelLoad(s, a)
  PROVE  HistoryInvariant'
  <1>1. PICK d : d = [pc |-> "cancelling", approval |-> a]
    OBVIOUS
  <1>2. SessionBacked(d)'
    BY <1>1 DEF SessionBacked, CancelLoad, Selectable, Exists
  <1>3. (\A t \in Sessions : SessionBacked(sessions[t]))'
    BY <1>1, <1>2, BackedUpdate DEF HistoryInvariant, CancelLoad
  <1>4. QED
    BY <1>3, QuietStep DEF CancelLoad

LEMMA StartEditHistory ==
  ASSUME HistoryInvariant, TypeOK', \A b \in Approvals : Grown(b),
         NEW s \in Sessions, NEW a \in Approvals, NEW sets, NEW R, NEW extends,
         StartEdit(s, a, sets, R, extends)
  PROVE  HistoryInvariant'
  <1>1. PICK d : d = [pc |-> "editing", approval |-> a, setsRequired |-> sets,
                      required |-> R, extends |-> extends]
    OBVIOUS
  <1>2. SessionBacked(d)'
    BY <1>1 DEF SessionBacked, StartEdit, Exists
  <1>3. (\A t \in Sessions : SessionBacked(sessions[t]))'
    BY <1>1, <1>2, BackedUpdate DEF HistoryInvariant, StartEdit
  <1>4. QED
    BY <1>3, QuietStep DEF StartEdit

LEMMA SweepLoadHistory ==
  ASSUME HistoryInvariant, TypeOK', \A b \in Approvals : Grown(b),
         NEW s \in Sessions, SweepLoad(s)
  PROVE  HistoryInvariant'
  <1>1. PICK d : d = [pc |-> "sweeping", batch |-> Overdue]
    OBVIOUS
  <1>2. SessionBacked(d)'
    BY <1>1 DEF SessionBacked, SweepLoad, Overdue, Exists
  <1>3. (\A t \in Sessions : SessionBacked(sessions[t]))'
    BY <1>1, <1>2, BackedUpdate DEF HistoryInvariant, SweepLoad
  <1>4. QED
    BY <1>3, QuietStep DEF SweepLoad

LEMMA AbortHistory ==
  ASSUME HistoryInvariant, TypeOK', \A b \in Approvals : Grown(b),
         NEW s \in Sessions, Abort(s)
  PROVE  HistoryInvariant'
  <1>1. SessionBacked(Idle)'
    BY DEF SessionBacked, Idle
  <1>2. (\A t \in Sessions : SessionBacked(sessions[t]))'
    BY <1>1, BackedUpdate DEF HistoryInvariant, Abort, Idle
  <1>3. QED
    BY <1>2, QuietStep DEF Abort

LEMMA RefreshHistory ==
  ASSUME HistoryInvariant, TypeOK', \A b \in Approvals : Grown(b),
         NEW s \in Sessions, Refresh(s)
  PROVE  HistoryInvariant'
  <1> DEFINE a == sessions[s].approval
             op == sessions[s].op
  <1>1. a \in Approvals /\ op \in {"create", "approve", "reject"}
    BY SessionShape DEF HistoryInvariant, Refresh, Committed
  <1>2. Exists(a) /\ (op = "reject" => rows[a].rejectedBy # NoUser)
    BY DEF HistoryInvariant, SessionBacked, Refresh
  <1>3. PICK e : e = EventOf(op, a)
    OBVIOUS
  <1>4. PICK d : d = [pc |-> "publishing", event |-> e]
    OBVIOUS
  <1>5. ASSUME Announces(op, a)
        PROVE  SessionBacked(d)
    <2>1. CASE op = "create"
      <3>1. e.approval = a /\ e.type = "requested"
        BY <1>3, <2>1 DEF EventOf
      <3>2. QED
        BY <1>2, <1>4, <3>1 DEF SessionBacked, Truthful
    <2>2. CASE op = "approve"
      <3>1. e.approval = a /\ e.type = "granted" /\ e.by = rows[a].approvedBy
        BY <1>3, <2>2 DEF EventOf
      <3>2. Quorum(a) /\ rows[a].approvedBy \subseteq approvers[a]
        BY <1>1, <1>5, <2>2
           DEF HistoryInvariant, ApprovedHasQuorum, RecordedUsersWereAsked, Announces
      <3>3. QED
        BY <1>2, <1>4, <3>1, <3>2 DEF SessionBacked, Truthful
    <2>3. CASE op = "reject"
      <3>1. e.approval = a /\ e.type = "rejected" /\ e.by = {rows[a].rejectedBy}
        BY <1>3, <2>3 DEF EventOf
      <3>2. rows[a].rejectedBy \in rejectors[a]
        BY <1>1, <1>2, <2>3 DEF HistoryInvariant, RecordedUsersWereAsked
      <3>3. QED
        BY <1>2, <1>4, <3>1, <3>2 DEF SessionBacked, Truthful
    <2>4. QED
      BY <1>1, <2>1, <2>2, <2>3
  <1>6. UNCHANGED <<rows, approvers, rejectors, requiredEver>>
    BY DEF Refresh, history
  <1>7. Announces(op, a) => SessionBacked(d)'
    BY <1>5, <1>6 DEF SessionBacked, Exists, Truthful, Quorum
  <1>8. SessionBacked(Idle)'
    BY DEF SessionBacked, Idle
  <1>9. \/ Announces(op, a) /\ sessions' = [sessions EXCEPT ![s] = d]
        \/ sessions' = [sessions EXCEPT ![s] = Idle]
    BY <1>3, <1>4 DEF Refresh
  <1>10. (\A t \in Sessions : SessionBacked(sessions[t]))'
    <2>1. CASE Announces(op, a) /\ sessions' = [sessions EXCEPT ![s] = d]
      BY <1>7, <2>1, BackedUpdate DEF HistoryInvariant
    <2>2. CASE sessions' = [sessions EXCEPT ![s] = Idle]
      BY <1>8, <2>2, BackedUpdate DEF HistoryInvariant, Idle
    <2>3. QED
      BY <1>9, <2>1, <2>2
  <1>11. QED
    BY <1>10, QuietStep DEF Refresh

LEMMA PublishHistory ==
  ASSUME HistoryInvariant, TypeOK', \A b \in Approvals : Grown(b),
         NEW s \in Sessions, Publish(s)
  PROVE  HistoryInvariant'
  <1>1. SessionBacked(Idle)'
    BY DEF SessionBacked, Idle
  <1>2. (\A t \in Sessions : SessionBacked(sessions[t]))'
    BY <1>1, BackedUpdate DEF HistoryInvariant, Publish, Idle
  <1>3. Exists(sessions[s].event.approval) /\ Truthful(sessions[s].event)
    BY DEF HistoryInvariant, SessionBacked, Publish
  <1>4. \A e \in published' : Exists(e.approval) /\ Truthful(e)
    BY <1>3 DEF HistoryInvariant, EventsAreTruthful, Publish
  <1>5. UNCHANGED <<rows, approvers, rejectors, requiredEver>>
    BY DEF Publish, history
  <1>6. QED
    BY <1>2, <1>4, <1>5
       DEF HistoryInvariant, Exists, ApprovedHasQuorum, Quorum,
           RecordedUsersWereAsked, EventsAreTruthful, Truthful

\* The part of the history invariant that is about one row.
RowBacked(a) ==
    /\ Exists(a) => rows[a].required \in requiredEver[a]
    /\ rows[a].status = "approved" => Quorum(a)
    /\ rows[a].approvedBy \subseteq approvers[a]
    /\ approvers[a] \cup rejectors[a] \subseteq UNION requiredEver[a]
    /\ rows[a].rejectedBy # NoUser => rows[a].rejectedBy \in rejectors[a]

LEMMA RowBackedStable ==
  ASSUME NEW a \in Approvals, HistoryInvariant, Grown(a),
         rows'[a] = rows[a], approvers'[a] = approvers[a], rejectors'[a] = rejectors[a]
  PROVE  RowBacked(a)'
  BY DEF HistoryInvariant, ApprovedHasQuorum, RecordedUsersWereAsked,
         RowBacked, Grown, Exists, Quorum

\* A step that writes rows and publishes nothing has to leave every row and
\* every session backed.
LEMMA RowStep ==
  ASSUME HistoryInvariant, TypeOK', \A a \in Approvals : Grown(a),
         published' = published, \A a \in Approvals : RowBacked(a)',
         (\A s \in Sessions : SessionBacked(sessions[s]))'
  PROVE  HistoryInvariant'
  <1>1. (\A e \in published : Exists(e.approval) /\ Truthful(e))'
    BY EventsStable
  <1>2. QED
    BY <1>1 DEF HistoryInvariant, RowBacked, ApprovedHasQuorum,
                RecordedUsersWereAsked, EventsAreTruthful

LEMMA CreateHistory ==
  ASSUME HistoryInvariant, TypeOK', \A b \in Approvals : Grown(b),
         NEW s \in Sessions, NEW a \in Approvals, NEW R \in EditLists,
         NEW all \in BOOLEAN, Create(s, a, R, all)
  PROVE  HistoryInvariant'
  <1>1. /\ rows'[a].status = "pending" /\ rows'[a].required = R
        /\ rows'[a].approvedBy = {} /\ rows'[a].rejectedBy = NoUser
        /\ requiredEver'[a] = requiredEver[a] \cup {R}
    BY DEF HistoryInvariant, TypeOK, Create, AbsentRow
  <1>2. RowBacked(a)'
    BY <1>1 DEF RowBacked, HistoryInvariant, RecordedUsersWereAsked, Create, Exists
  <1>3. ASSUME NEW b \in Approvals, b # a
        PROVE  RowBacked(b)'
    BY <1>3, RowBackedStable DEF HistoryInvariant, TypeOK, Create
  <1>4. PICK d : d = [pc |-> "committed", op |-> "create", approval |-> a]
    OBVIOUS
  <1>5. SessionBacked(d)'
    BY <1>1, <1>4 DEF SessionBacked, Exists
  <1>6. (\A t \in Sessions : SessionBacked(sessions[t]))'
    BY <1>4, <1>5, BackedUpdate DEF HistoryInvariant, Create
  <1>7. QED
    BY <1>2, <1>3, <1>6, RowStep DEF Create

LEMMA ApproveCommitHistory ==
  ASSUME HistoryInvariant, TypeOK', \A b \in Approvals : Grown(b),
         NEW s \in Sessions, ApproveCommit(s)
  PROVE  HistoryInvariant'
  <1>0. /\ sessions[s].approval \in Approvals
        /\ sessions[s].user \in Users
        /\ sessions[s].approvedBy \cup {sessions[s].user} \in SUBSET Users
    BY SessionShape DEF HistoryInvariant, ApproveCommit, Deciding
  <1>1. PICK a \in Approvals, u \in Users, by \in SUBSET Users :
           /\ a = sessions[s].approval
           /\ u = sessions[s].user
           /\ by = sessions[s].approvedBy \cup {u}
    BY <1>0
  <1>2. /\ Exists(a)
        /\ sessions[s].required \in requiredEver[a]
        /\ u \in sessions[s].required
        /\ sessions[s].approvedBy \subseteq approvers[a]
    BY <1>1 DEF HistoryInvariant, SessionBacked, ApproveCommit
  <1>3. rows'[a] = [rows[a] EXCEPT
                      !.approvedBy = by,
                      !.status = IF Complete(rows[a].requiresAll, sessions[s].required, by)
                                 THEN "approved" ELSE rows[a].status]
    BY <1>1 DEF HistoryInvariant, TypeOK, ApproveCommit
  <1>4. /\ rows'[a].required = rows[a].required
        /\ rows'[a].rejectedBy = rows[a].rejectedBy
        /\ rows'[a].requiresAll = rows[a].requiresAll
        /\ rows'[a].approvedBy = by
        /\ rows'[a].status = IF Complete(rows[a].requiresAll, sessions[s].required, by)
                             THEN "approved" ELSE rows[a].status
    BY <1>1, <1>3 DEF HistoryInvariant, TypeOK, Row
  <1>5. /\ approvers'[a] = approvers[a] \cup {u}
        /\ rejectors' = rejectors /\ requiredEver' = requiredEver
    BY <1>1 DEF HistoryInvariant, TypeOK, ApproveCommit
  <1>6. rows'[a].status = "approved" => Quorum(a)'
    <2>1. CASE Complete(rows[a].requiresAll, sessions[s].required, by)
      BY <1>1, <1>2, <1>4, <1>5, <2>1 DEF Quorum, Complete
    <2>2. CASE ~Complete(rows[a].requiresAll, sessions[s].required, by)
      <3>1. rows'[a].status = "approved" => Quorum(a)
        BY <1>1, <1>4, <2>2 DEF HistoryInvariant, ApprovedHasQuorum
      <3>2. QED
        BY <1>1, <1>2, <3>1, QuorumStable
    <2>3. QED
      BY <2>1, <2>2
  <1>7. RowBacked(a)'
    <2>1. (Exists(a) => rows[a].required \in requiredEver[a])'
      BY <1>1, <1>2, <1>4, <1>5 DEF HistoryInvariant
    <2>2. (rows[a].approvedBy \subseteq approvers[a])'
      BY <1>1, <1>2, <1>4, <1>5
    <2>3. (approvers[a] \cup rejectors[a] \subseteq UNION requiredEver[a])'
      BY <1>1, <1>2, <1>5 DEF HistoryInvariant, RecordedUsersWereAsked
    <2>4. (rows[a].rejectedBy # NoUser => rows[a].rejectedBy \in rejectors[a])'
      BY <1>1, <1>4, <1>5 DEF HistoryInvariant, RecordedUsersWereAsked
    <2>5. QED
      BY <1>6, <2>1, <2>2, <2>3, <2>4 DEF RowBacked
  <1>8. ASSUME NEW b \in Approvals, b # a
        PROVE  RowBacked(b)'
    BY <1>1, <1>8, RowBackedStable DEF HistoryInvariant, TypeOK, ApproveCommit
  <1>9. PICK d : d = [pc |-> "committed", op |-> "approve", approval |-> a]
    OBVIOUS
  <1>10. SessionBacked(d)'
    BY <1>1, <1>2, <1>9 DEF SessionBacked, Grown
  <1>11. (\A t \in Sessions : SessionBacked(sessions[t]))'
    BY <1>1, <1>9, <1>10, BackedUpdate DEF HistoryInvariant, ApproveCommit
  <1>12. \A b \in Approvals : RowBacked(b)'
    BY <1>7, <1>8
  <1>13. QED
    BY <1>11, <1>12, RowStep DEF ApproveCommit

LEMMA RejectCommitHistory ==
  ASSUME HistoryInvariant, TypeOK', \A b \in Approvals : Grown(b),
         NEW s \in Sessions, RejectCommit(s)
  PROVE  HistoryInvariant'
  <1>0. /\ sessions[s].approval \in Approvals
        /\ sessions[s].user \in Users
    BY SessionShape DEF HistoryInvariant, RejectCommit, Deciding
  <1>1. PICK a \in Approvals, u \in Users :
           a = sessions[s].approval /\ u = sessions[s].user
    BY <1>0
  <1>2. /\ Exists(a)
        /\ sessions[s].required \in requiredEver[a]
        /\ u \in sessions[s].required
    BY <1>1 DEF HistoryInvariant, SessionBacked, RejectCommit
  <1>3. rows'[a] = [rows[a] EXCEPT !.status = "rejected", !.rejectedBy = u]
    BY <1>1 DEF HistoryInvariant, TypeOK, RejectCommit
  <1>4. /\ rows'[a].required = rows[a].required
        /\ rows'[a].rejectedBy = u
        /\ rows'[a].approvedBy = rows[a].approvedBy
        /\ rows'[a].status = "rejected"
    BY <1>1, <1>3 DEF HistoryInvariant, TypeOK, Row
  <1>5. /\ rejectors'[a] = rejectors[a] \cup {u}
        /\ approvers' = approvers /\ requiredEver' = requiredEver
    BY <1>1 DEF HistoryInvariant, TypeOK, RejectCommit
  <1>6. RowBacked(a)'
    <2>1. (Exists(a) => rows[a].required \in requiredEver[a])'
      BY <1>1, <1>2, <1>4, <1>5 DEF HistoryInvariant
    <2>2. (rows[a].approvedBy \subseteq approvers[a])'
      BY <1>1, <1>4, <1>5 DEF HistoryInvariant, RecordedUsersWereAsked
    <2>3. (approvers[a] \cup rejectors[a] \subseteq UNION requiredEver[a])'
      BY <1>1, <1>2, <1>5 DEF HistoryInvariant, RecordedUsersWereAsked
    <2>4. (rows[a].rejectedBy # NoUser => rows[a].rejectedBy \in rejectors[a])'
      BY <1>1, <1>4, <1>5
    <2>5. QED
      BY <1>4, <2>1, <2>2, <2>3, <2>4 DEF RowBacked
  <1>7. ASSUME NEW b \in Approvals, b # a
        PROVE  RowBacked(b)'
    BY <1>1, <1>7, RowBackedStable DEF HistoryInvariant, TypeOK, RejectCommit
  <1>8. PICK d : d = [pc |-> "committed", op |-> "reject", approval |-> a]
    OBVIOUS
  <1>9. SessionBacked(d)'
    BY <1>1, <1>2, <1>4, <1>8, NoUserAssumption DEF SessionBacked, Grown
  <1>10. (\A t \in Sessions : SessionBacked(sessions[t]))'
    BY <1>1, <1>8, <1>9, BackedUpdate DEF HistoryInvariant, RejectCommit
  <1>11. \A b \in Approvals : RowBacked(b)'
    BY <1>6, <1>7
  <1>12. QED
    BY <1>10, <1>11, RowStep DEF RejectCommit

\* A commit that ends the request and only touches status, list or expiry
\* keeps approvals and rejections as they are.
LEMMA EndingStep ==
  ASSUME HistoryInvariant, TypeOK', \A b \in Approvals : Grown(b),
         UNCHANGED <<published, approvers, rejectors>>,
         (\A s \in Sessions : SessionBacked(sessions[s]))',
         \A b \in Approvals :
            /\ rows'[b].approvedBy = rows[b].approvedBy
            /\ rows'[b].rejectedBy = rows[b].rejectedBy
            /\ Exists(b)' => Exists(b)
            /\ \/ rows'[b].required = rows[b].required
               \/ rows'[b].required \in requiredEver'[b]
            /\ rows'[b].status = "approved" => rows[b].status = "approved"
  PROVE  HistoryInvariant'
  <1>1. ASSUME NEW b \in Approvals
        PROVE  RowBacked(b)'
    <2>1. (Exists(b) => rows[b].required \in requiredEver[b])'
      BY DEF HistoryInvariant, Grown
    <2>2. (rows[b].approvedBy \subseteq approvers[b])'
      BY DEF HistoryInvariant, RecordedUsersWereAsked
    <2>3. (approvers[b] \cup rejectors[b] \subseteq UNION requiredEver[b])'
      BY DEF HistoryInvariant, RecordedUsersWereAsked, Grown
    <2>4. (rows[b].rejectedBy # NoUser => rows[b].rejectedBy \in rejectors[b])'
      BY DEF HistoryInvariant, RecordedUsersWereAsked
    <2>5. (rows[b].status = "approved" => Quorum(b))'
      BY QuorumStable DEF HistoryInvariant, ApprovedHasQuorum, Exists
    <2>6. QED
      BY <2>1, <2>2, <2>3, <2>4, <2>5 DEF RowBacked
  <1>2. QED
    BY <1>1, RowStep

LEMMA CancelCommitHistory ==
  ASSUME HistoryInvariant, TypeOK', \A b \in Approvals : Grown(b),
         NEW s \in Sessions, CancelCommit(s)
  PROVE  HistoryInvariant'
  <1>1. sessions[s].approval \in Approvals
    BY SessionShape DEF HistoryInvariant, CancelCommit, Cancelling
  <1>2. (\A t \in Sessions : SessionBacked(sessions[t]))'
    BY BackedUpdate DEF HistoryInvariant, CancelCommit, SessionBacked, Idle
  <1>3. Exists(sessions[s].approval)
    BY DEF HistoryInvariant, SessionBacked, CancelCommit
  <1>4. ASSUME NEW b \in Approvals
        PROVE  /\ rows'[b].approvedBy = rows[b].approvedBy
               /\ rows'[b].rejectedBy = rows[b].rejectedBy
               /\ rows'[b].required = rows[b].required
               /\ Exists(b)' => Exists(b)
               /\ rows'[b].status = "approved" => rows[b].status = "approved"
    BY <1>1, <1>3 DEF HistoryInvariant, TypeOK, CancelCommit, Row, Exists
  <1>5. QED
    BY <1>2, <1>4, EndingStep DEF CancelCommit, history

LEMMA EditCommitHistory ==
  ASSUME HistoryInvariant, TypeOK', \A b \in Approvals : Grown(b),
         NEW s \in Sessions, EditCommit(s)
  PROVE  HistoryInvariant'
  <1>1. sessions[s].approval \in Approvals
    BY SessionShape, SMTT(30) DEF HistoryInvariant, EditCommit, Editing
  <1>2. (\A t \in Sessions : SessionBacked(sessions[t]))'
    BY BackedUpdate DEF HistoryInvariant, EditCommit, SessionBacked, Idle
  <1>3. ASSUME NEW b \in Approvals, b # sessions[s].approval
        PROVE  rows'[b] = rows[b]
    BY <1>1, <1>3 DEF HistoryInvariant, TypeOK, EditCommit
  <1>4. ASSUME NEW b \in Approvals, b = sessions[s].approval
        PROVE  /\ rows'[b].approvedBy = rows[b].approvedBy
               /\ rows'[b].rejectedBy = rows[b].rejectedBy
               /\ rows'[b].status = rows[b].status
               /\ \/ rows'[b].required = rows[b].required
                  \/ rows'[b].required \in requiredEver'[b]
    BY <1>1, <1>4 DEF HistoryInvariant, TypeOK, EditCommit, Row
  <1>5. QED
    BY <1>2, <1>3, <1>4, EndingStep DEF EditCommit, Exists

LEMMA SweepCommitHistory ==
  ASSUME HistoryInvariant, TypeOK', \A b \in Approvals : Grown(b),
         NEW s \in Sessions, SweepCommit(s)
  PROVE  HistoryInvariant'
  <1>1. (\A t \in Sessions : SessionBacked(sessions[t]))'
    BY BackedUpdate DEF HistoryInvariant, SweepCommit, SessionBacked, Idle
  <1>2. \A b \in sessions[s].batch : Exists(b)
    BY DEF HistoryInvariant, SessionBacked, SweepCommit
  <1>3. ASSUME NEW b \in Approvals
        PROVE  /\ rows'[b].approvedBy = rows[b].approvedBy
               /\ rows'[b].rejectedBy = rows[b].rejectedBy
               /\ rows'[b].required = rows[b].required
               /\ Exists(b)' => Exists(b)
               /\ rows'[b].status = "approved" => rows[b].status = "approved"
    BY <1>2 DEF HistoryInvariant, TypeOK, SweepCommit, Row, Exists
  <1>4. QED
    BY <1>1, <1>3, EndingStep DEF SweepCommit, history

LEMMA ReachExpiryHistory ==
  ASSUME HistoryInvariant, TypeOK', \A b \in Approvals : Grown(b),
         NEW a \in Approvals, ReachExpiry(a)
  PROVE  HistoryInvariant'
  <1>1. (\A t \in Sessions : SessionBacked(sessions[t]))'
    <2>1. ASSUME NEW t \in Sessions
          PROVE  SessionBacked(sessions[t])'
      <3>1. PICK c \in SessionState : c = sessions[t]
        BY DEF HistoryInvariant, TypeOK
      <3>2. SessionBacked(c)'
        BY <3>1, BackedStable DEF HistoryInvariant
      <3>3. c = sessions'[t]
        BY <3>1 DEF ReachExpiry
      <3>4. QED
        BY <3>2, <3>3 DEF SessionBacked
    <2>2. QED
      BY <2>1
  <1>2. ASSUME NEW b \in Approvals
        PROVE  /\ rows'[b].approvedBy = rows[b].approvedBy
               /\ rows'[b].rejectedBy = rows[b].rejectedBy
               /\ rows'[b].required = rows[b].required
               /\ rows'[b].status = rows[b].status
    BY DEF HistoryInvariant, TypeOK, ReachExpiry, Row
  <1>3. QED
    BY <1>1, <1>2, EndingStep DEF ReachExpiry, history, Exists

LEMMA NextHistory == HistoryInvariant /\ [Next]_vars => HistoryInvariant'
  <1> SUFFICES ASSUME HistoryInvariant, [Next]_vars
               PROVE  HistoryInvariant'
    OBVIOUS
  <1>1. TypeOK'
    BY NextTypeOK DEF HistoryInvariant
  <1>2. \A b \in Approvals : Grown(b)
    BY NextGrown DEF HistoryInvariant
  <1>3. CASE Next
    BY <1>1, <1>2, <1>3, CreateHistory, LoadHistory, CancelLoadHistory,
       StartEditHistory, SweepLoadHistory, AbortHistory, RefreshHistory,
       PublishHistory, ApproveCommitHistory, RejectCommitHistory,
       CancelCommitHistory, EditCommitHistory, SweepCommitHistory,
       ReachExpiryHistory
       DEF Next, Proceed, DelegateLoad, UpdateRequest, ExtendRequest
  <1>4. CASE UNCHANGED vars
    BY <1>4 DEF vars, history, HistoryInvariant, TypeOK, SessionBacked, Exists,
            ApprovedHasQuorum, Quorum, RecordedUsersWereAsked, EventsAreTruthful,
            Truthful
  <1>5. QED
    BY <1>3, <1>4

LEMMA InitHistory == Init => HistoryInvariant
  BY TypeCorrectInit
     DEF Init, HistoryInvariant, AbsentRow, Idle, SessionBacked, Exists,
         ApprovedHasQuorum, RecordedUsersWereAsked, EventsAreTruthful

\* In every reachable state the rows, the requests in flight and the events
\* are backed by the histories.
THEOREM HistoryCorrect == Spec => []HistoryInvariant
  BY InitHistory, NextHistory, PTL DEF Spec

\* Lost updates may hide an approval but never invent one: a row is "approved"
\* only with a quorum of committed approvals, for any number of requests.
THEOREM ApprovalsAreReal == Spec => []ApprovedHasQuorum
  BY HistoryCorrect, PTL DEF HistoryInvariant

\* Nobody is recorded as approver or rejector who was not asked and answered.
THEOREM RecordedUsersReal == Spec => []RecordedUsersWereAsked
  BY HistoryCorrect, PTL DEF HistoryInvariant

\* Every event published about a row is true of its history.
THEOREM EventsReal == Spec => []EventsAreTruthful
  BY HistoryCorrect, PTL DEF HistoryInvariant

-----------------------------------------------------------------------------
\* Rows no two requests held at one time implement the contract

\* What Current reads of a row is kept
SameRow(a) ==
    /\ rows'[a].status = rows[a].status
    /\ rows'[a].required = rows[a].required
    /\ rows'[a].approvedBy = rows[a].approvedBy

\* How a step of session s may change row a
Touches(s, a) ==
    \/ SameRow(a)
    \/ rows[a].status = "absent"
    \/ /\ Holds(sessions[s], a)
       /\ sessions[s].pc = "editing" => rows'[a].status = rows[a].status

\* The inductive invariant
NobodyApprovesNothing ==
    \A a \in Approvals : rows[a].status = "absent" => rows[a].approvedBy = {}

ContractInv == HistoryInvariant /\ NobodyApprovesNothing /\ OverlapInvariant

\* A request is served by one session, and the others keep what they hold.
LEMMA OthersCurrent ==
  ASSUME ContractInv, NEW s \in Sessions, NEW t \in Sessions, s # t,
         NEW a \in Approvals, a \notin clashed, Touches(s, a),
         sessions'[t] = sessions[t]
  PROVE  Current(sessions[t], a)'
  <1> DEFINE d == sessions[t]
  <1>1. Current(d, a) /\ Current(sessions[s], a) /\ ~Clash(a)
    BY DEF ContractInv, OverlapInvariant
  <1>2. ~(Holds(sessions[s], a) /\ Holds(d, a))
    BY <1>1 DEF Clash
  <1>3. CASE SameRow(a)
    BY <1>1, <1>3 DEF SameRow, Current, Holds
  <1>4. CASE rows[a].status = "absent"
    BY <1>1, <1>4 DEF Current, Holds
  <1>5. CASE /\ Holds(sessions[s], a)
             /\ sessions[s].pc = "editing" => rows'[a].status = rows[a].status
    BY <1>1, <1>2, <1>5 DEF Current, Holds
  <1>6. QED
    BY <1>3, <1>4, <1>5 DEF Touches

\* A step of session s keeps the invariant if it leaves s itself current.
LEMMA StepOverlap ==
  ASSUME ContractInv, NEW s \in Sessions, NEW d,
         sessions' = [sessions EXCEPT ![s] = d],
         clashed' = clashed \cup Clashes',
         \A a \in Approvals : Touches(s, a),
         \A a \in Approvals : a \notin clashed => Current(d, a)'
  PROVE  OverlapInvariant'
  <1>1. sessions'[s] = d /\ \A t \in Sessions : t # s => sessions'[t] = sessions[t]
    BY DEF ContractInv, HistoryInvariant, TypeOK
  <1>2. clashed \subseteq Approvals
    BY DEF ContractInv, OverlapInvariant
  <1>3. ASSUME NEW t \in Sessions, NEW a \in Approvals, a \notin clashed'
        PROVE  Current(sessions[t], a)'
    <2>1. a \notin clashed
      BY <1>3
    <2>2. CASE t = s
      BY <1>1, <2>1, <2>2 DEF Current, Holds
    <2>3. CASE t # s
      BY <1>1, <2>1, <2>3, OthersCurrent
    <2>4. QED
      BY <2>2, <2>3
  <1>4. QED
    BY <1>2, <1>3 DEF OverlapInvariant, Clashes

\* A session that goes idle is current.
LEMMA IdleOverlap ==
  ASSUME ContractInv, NEW s \in Sessions,
         sessions' = [sessions EXCEPT ![s] = Idle],
         clashed' = clashed \cup Clashes',
         \A a \in Approvals : Touches(s, a)
  PROVE  OverlapInvariant'
  <1>1. \A a \in Approvals : Current(Idle, a)'
    BY DEF Current, Holds, Idle
  <1>2. QED
    BY <1>1, StepOverlap

LEMMA LoadOverlap ==
  ASSUME ContractInv, NEW s \in Sessions, NEW a \in Approvals, NEW u \in Users,
         ApproveLoad(s, a, u) \/ RejectLoad(s, a, u),
         clashed' = clashed \cup Clashes'
  PROVE  OverlapInvariant'
  <1>1. PICK op \in {"approve", "reject"} :
          /\ Load(s, op, a, u)
          /\ op = "approve" => u \notin rows[a].approvedBy
    BY DEF ApproveLoad, RejectLoad
  <1>2. PICK d : d = [pc |-> "deciding", op |-> op, approval |-> a, user |-> u,
                      required |-> rows[a].required, approvedBy |-> rows[a].approvedBy]
    OBVIOUS
  <1>3. \A b \in Approvals : Current(d, b)'
    BY <1>1, <1>2 DEF Load, Selectable, Current, Holds
  <1>4. \A b \in Approvals : Touches(s, b)
    BY <1>1 DEF Load, Touches, SameRow
  <1>5. QED
    BY <1>1, <1>2, <1>3, <1>4, StepOverlap DEF Load

LEMMA CancelLoadOverlap ==
  ASSUME ContractInv, NEW s \in Sessions, NEW a \in Approvals, CancelLoad(s, a),
         clashed' = clashed \cup Clashes'
  PROVE  OverlapInvariant'
  <1>1. PICK d : d = [pc |-> "cancelling", approval |-> a]
    OBVIOUS
  <1>2. \A b \in Approvals : Current(d, b)'
    BY <1>1 DEF CancelLoad, Selectable, Current, Holds
  <1>3. \A b \in Approvals : Touches(s, b)
    BY DEF CancelLoad, Touches, SameRow
  <1>4. QED
    BY <1>1, <1>2, <1>3, StepOverlap DEF CancelLoad

LEMMA StartEditOverlap ==
  ASSUME ContractInv, NEW s \in Sessions, NEW a \in Approvals,
         NEW sets, NEW R, NEW extends, StartEdit(s, a, sets, R, extends),
         clashed' = clashed \cup Clashes'
  PROVE  OverlapInvariant'
  <1>1. PICK d : d = [pc |-> "editing", approval |-> a, setsRequired |-> sets,
                      required |-> R, extends |-> extends]
    OBVIOUS
  <1>2. \A b \in Approvals : Current(d, b)'
    BY <1>1 DEF Current, Holds
  <1>3. \A b \in Approvals : Touches(s, b)
    BY DEF StartEdit, Touches, SameRow
  <1>4. QED
    BY <1>1, <1>2, <1>3, StepOverlap DEF StartEdit

LEMMA SweepLoadOverlap ==
  ASSUME ContractInv, NEW s \in Sessions, SweepLoad(s),
         clashed' = clashed \cup Clashes'
  PROVE  OverlapInvariant'
  <1>1. PICK d : d = [pc |-> "sweeping", batch |-> Overdue]
    OBVIOUS
  <1>2. \A b \in Approvals : Current(d, b)'
    BY <1>1 DEF SweepLoad, Overdue, Current, Holds
  <1>3. \A b \in Approvals : Touches(s, b)
    BY DEF SweepLoad, Touches, SameRow
  <1>4. QED
    BY <1>1, <1>2, <1>3, StepOverlap DEF SweepLoad

LEMMA CreateOverlap ==
  ASSUME ContractInv, NEW s \in Sessions, NEW a \in Approvals, NEW R \in EditLists,
         NEW all \in BOOLEAN, Create(s, a, R, all),
         clashed' = clashed \cup Clashes'
  PROVE  OverlapInvariant'
  <1>1. PICK d : d = [pc |-> "committed", op |-> "create", approval |-> a]
    OBVIOUS
  <1>2. \A b \in Approvals : Current(d, b)'
    BY <1>1 DEF Current, Holds
  <1>3. \A b \in Approvals : Touches(s, b)
    BY DEF Create, Touches, SameRow, ContractInv, HistoryInvariant, TypeOK
  <1>4. QED
    BY <1>1, <1>2, <1>3, StepOverlap DEF Create

LEMMA ApproveCommitOverlap ==
  ASSUME ContractInv, NEW s \in Sessions, ApproveCommit(s),
         clashed' = clashed \cup Clashes'
  PROVE  OverlapInvariant'
  <1>1. PICK d : d = [pc |-> "committed", op |-> "approve",
                      approval |-> sessions[s].approval]
    OBVIOUS
  <1>2. \A b \in Approvals : Current(d, b)'
    BY <1>1 DEF Current, Holds
  <1>3. \A b \in Approvals : b # sessions[s].approval => rows'[b] = rows[b]
    BY DEF ApproveCommit, ContractInv, HistoryInvariant, TypeOK
  <1>4. \A b \in Approvals : Touches(s, b)
    BY <1>3 DEF ApproveCommit, Touches, SameRow, Holds
  <1>5. QED
    BY <1>1, <1>2, <1>4, StepOverlap DEF ApproveCommit

LEMMA RejectCommitOverlap ==
  ASSUME ContractInv, NEW s \in Sessions, RejectCommit(s),
         clashed' = clashed \cup Clashes'
  PROVE  OverlapInvariant'
  <1>1. PICK a \in Approvals : a = sessions[s].approval
    BY SessionShape DEF ContractInv, HistoryInvariant, RejectCommit, Deciding
  <1>2. PICK d : d = [pc |-> "committed", op |-> "reject", approval |-> a]
    OBVIOUS
  <1>3. rows'[a].status = "rejected"
    BY <1>1 DEF ContractInv, HistoryInvariant, TypeOK, RejectCommit, Row
  <1>4. \A b \in Approvals : Current(d, b)'
    BY <1>2, <1>3 DEF Current, Holds
  <1>5. \A b \in Approvals : b # a => rows'[b] = rows[b]
    BY <1>1 DEF RejectCommit, ContractInv, HistoryInvariant, TypeOK
  <1>6. \A b \in Approvals : Touches(s, b)
    BY <1>1, <1>5 DEF RejectCommit, Touches, SameRow, Holds
  <1>7. QED
    BY <1>1, <1>2, <1>4, <1>6, StepOverlap DEF RejectCommit

LEMMA EndingOverlap ==
  ASSUME ContractInv, NEW s \in Sessions,
         \/ Abort(s) \/ Publish(s) \/ CancelCommit(s) \/ EditCommit(s) \/ SweepCommit(s),
         clashed' = clashed \cup Clashes'
  PROVE  OverlapInvariant'
  <1>1. TypeOK
    BY DEF ContractInv, HistoryInvariant
  <1>2. ASSUME NEW a \in Approvals
        PROVE  Touches(s, a)
    <2>1. CASE Abort(s) \/ Publish(s)
      BY <2>1 DEF Abort, Publish, Touches, SameRow
    <2>2. CASE CancelCommit(s)
      BY <1>1, <2>2 DEF CancelCommit, Touches, SameRow, Holds, TypeOK
    <2>3. CASE EditCommit(s)
      <3>1. CASE sessions[s].approval = a
        <4>1. rows'[a].status = rows[a].status
          BY <1>1, <2>3 DEF EditCommit, TypeOK, Row
        <4>2. QED
          BY <2>3, <3>1, <4>1 DEF EditCommit, Touches, Holds
      <3>2. CASE sessions[s].approval # a
        BY <1>1, <2>3, <3>2 DEF EditCommit, Touches, SameRow, TypeOK
      <3>3. QED
        BY <3>1, <3>2
    <2>4. CASE SweepCommit(s)
      BY <1>1, <2>4 DEF SweepCommit, Touches, SameRow, Holds, TypeOK
    <2>5. QED
      BY <2>1, <2>2, <2>3, <2>4
  <1>3. sessions' = [sessions EXCEPT ![s] = Idle]
    BY DEF Abort, Publish, CancelCommit, EditCommit, SweepCommit
  <1>4. QED
    BY <1>2, <1>3, IdleOverlap

LEMMA RefreshOverlap ==
  ASSUME ContractInv, NEW s \in Sessions, Refresh(s),
         clashed' = clashed \cup Clashes'
  PROVE  OverlapInvariant'
  <1>0. \A b \in Approvals : Touches(s, b)
    BY DEF Refresh, Touches, SameRow
  <1>1. sessions[s] \in Committed
    BY SessionShape DEF ContractInv, HistoryInvariant, Refresh
  <1>2. PICK op \in {"create", "approve", "reject"}, a \in Approvals :
          op = sessions[s].op /\ a = sessions[s].approval
    BY <1>1 DEF Committed
  <1>3. CASE ~Announces(op, a)
    BY <1>0, <1>2, <1>3, IdleOverlap DEF Refresh
  <1>4. CASE Announces(op, a)
    <2>1. PICK e : e = EventOf(op, a)
      OBVIOUS
    <2>2. /\ e.approval = a
          /\ e.type = "granted" => op = "approve"
          /\ e.type = "rejected" => op = "reject"
      BY <1>2, <2>1 DEF EventOf
    <2>3. PICK d : d = [pc |-> "publishing", event |-> e]
      OBVIOUS
    <2>4. rows' = rows /\ sessions' = [sessions EXCEPT ![s] = d]
      BY <1>2, <1>4, <2>1, <2>3 DEF Refresh
    <2>5. a \notin clashed => Current(sessions[s], a)
      BY DEF ContractInv, OverlapInvariant
    <2>6. ASSUME NEW b \in Approvals, b \notin clashed
          PROVE  Current(d, b)'
      BY <1>1, <1>2, <1>4, <2>2, <2>3, <2>4, <2>5, <2>6
         DEF Current, Holds, Announces, Committed
    <2>7. QED
      BY <1>0, <2>4, <2>6, StepOverlap
  <1>5. QED
    BY <1>3, <1>4

LEMMA ReachExpiryOverlap ==
  ASSUME ContractInv, NEW b \in Approvals, ReachExpiry(b),
         clashed' = clashed \cup Clashes'
  PROVE  OverlapInvariant'
  <1>1. \A a \in Approvals : SameRow(a)
    BY DEF ContractInv, HistoryInvariant, TypeOK, ReachExpiry, Row, SameRow
  <1>2. sessions' = sessions
    BY DEF ReachExpiry
  <1>3. ASSUME NEW t \in Sessions, NEW a \in Approvals, a \notin clashed'
        PROVE  Current(sessions[t], a)'
    <2>1. Current(sessions[t], a)
      BY <1>3 DEF ContractInv, OverlapInvariant
    <2>2. QED
      BY <1>1, <1>2, <2>1 DEF SameRow, Current, Holds
  <1>4. clashed \subseteq Approvals
    BY DEF ContractInv, OverlapInvariant
  <1>5. QED
    BY <1>3, <1>4 DEF OverlapInvariant, Clashes

LEMMA NextOverlap ==
  ASSUME ContractInv, [NextH]_varsH
  PROVE  OverlapInvariant'
  <1>1. CASE NextH
    BY <1>1, LoadOverlap, CancelLoadOverlap, StartEditOverlap, SweepLoadOverlap,
       CreateOverlap, ApproveCommitOverlap, RejectCommitOverlap, EndingOverlap,
       RefreshOverlap, ReachExpiryOverlap
       DEF NextH, Next, Proceed, DelegateLoad, UpdateRequest, ExtendRequest
  <1>2. CASE UNCHANGED varsH
    BY <1>2 DEF varsH, vars, ContractInv, OverlapInvariant, Clash, Holds, Current
  <1>3. QED
    BY <1>1, <1>2

\* Nobody has approved a row that is not there.
LEMMA NextNobodyApproves ==
  ASSUME ContractInv, [Next]_vars
  PROVE  NobodyApprovesNothing'
  <1>1. TypeOK
    BY DEF ContractInv, HistoryInvariant
  <1>2. ASSUME NEW a \in Approvals, rows'[a].status = "absent"
        PROVE  rows'[a].approvedBy = {}
    <2>1. rows[a].status = "absent"
      BY <1>1, <1>2, NextGrown DEF Grown, Exists
    <2>2. rows[a].approvedBy = {}
      BY <2>1 DEF ContractInv, NobodyApprovesNothing
    <2>3. ASSUME NEW s \in Sessions, NEW b \in Approvals, NEW R \in EditLists,
                 NEW all \in BOOLEAN, Create(s, b, R, all)
          PROVE  rows'[a].approvedBy = rows[a].approvedBy
      BY <1>1, <1>2, <2>1, <2>3 DEF TypeOK, Create
    <2>4. ASSUME NEW s \in Sessions, ApproveCommit(s)
          PROVE  rows'[a].approvedBy = rows[a].approvedBy
      <3>1. sessions[s].approval # a
        BY <2>1, <2>4 DEF ContractInv, HistoryInvariant, SessionBacked, Exists, ApproveCommit
      <3>2. QED
        BY <1>1, <2>4, <3>1 DEF TypeOK, ApproveCommit
    <2>5. ASSUME NEW s \in Sessions,
                 RejectCommit(s) \/ CancelCommit(s) \/ EditCommit(s) \/ SweepCommit(s)
          PROVE  rows'[a].approvedBy = rows[a].approvedBy
      <3>1. CASE RejectCommit(s)
        BY <1>1, <3>1 DEF TypeOK, RejectCommit, Row
      <3>2. CASE CancelCommit(s)
        BY <1>1, <3>2 DEF TypeOK, CancelCommit, Row
      <3>3. CASE EditCommit(s)
        BY <1>1, <3>3 DEF TypeOK, EditCommit, Row
      <3>4. CASE SweepCommit(s)
        BY <1>1, <3>4 DEF TypeOK, SweepCommit, Row
      <3>5. QED
        BY <2>5, <3>1, <3>2, <3>3, <3>4
    <2>6. ASSUME NEW b \in Approvals, ReachExpiry(b)
          PROVE  rows'[a].approvedBy = rows[a].approvedBy
      BY <1>1, <2>6 DEF TypeOK, ReachExpiry, Row
    <2>7. ASSUME UNCHANGED rows
          PROVE  rows'[a].approvedBy = rows[a].approvedBy
      BY <2>7
    <2>8. CASE Next
      BY <2>2, <2>3, <2>4, <2>5, <2>6, <2>7, <2>8
         DEF Next, Proceed, ApproveLoad, RejectLoad, Load, CancelLoad, DelegateLoad,
             UpdateRequest, ExtendRequest, StartEdit, SweepLoad, Refresh, Publish, Abort
    <2>9. QED
      BY <2>2, <2>7, <2>8 DEF vars
  <1>3. QED
    BY <1>2 DEF NobodyApprovesNothing

LEMMA NextContractInv ==
  ASSUME ContractInv, [NextH]_varsH
  PROVE  ContractInv'
  <1>1. [Next]_vars
    BY DEF NextH, varsH
  <1>2. HistoryInvariant'
    BY <1>1, NextHistory DEF ContractInv
  <1>3. QED
    BY <1>1, <1>2, NextOverlap, NextNobodyApproves DEF ContractInv

-----------------------------------------------------------------------------
\* Every step is one of the contract

\* The variables of the contract as functions of the state
status == [a \in Approvals |-> rows[a].status]
required == [a \in Approvals |-> rows[a].required]
requiresAll == [a \in Approvals |-> rows[a].requiresAll]
approvedBy == [a \in Approvals |-> rows[a].approvedBy]
announced == {<<e.approval, e.type>> : e \in {f \in published : f.type # "requested"}}

LEMMA InitContract == InitH => Contract!Init
  <1> SUFFICES ASSUME InitH
               PROVE  Contract!Init
    OBVIOUS
  <1>1. \A a \in Approvals : rows[a] = AbsentRow
    BY DEF InitH, Init
  <1>2. status = [a \in Approvals |-> "absent"] /\ required = [a \in Approvals |-> {}]
    BY <1>1 DEF status, required, AbsentRow
  <1>3. requiresAll = [a \in Approvals |-> FALSE]
    <2>1. AbsentRow.requiresAll = FALSE
      BY DEF AbsentRow
    <2>2. QED
      BY <1>1, <2>1, Zenon DEF requiresAll
  <1>5. approvedBy = [a \in Approvals |-> {}]
    BY <1>1 DEF approvedBy, AbsentRow
  <1>4. announced = {}
    BY DEF InitH, Init, announced
  <1>6. QED
    BY <1>2, <1>3, <1>4, <1>5
       DEF InitH, Contract!Init, status, required, requiresAll, approvedBy, announced

\* A session that holds no selection
Past(d) == d.pc \in {"idle", "committed", "publishing"}

\* A session past its selection overlaps with nobody.
LEMMA NoNewClash ==
  ASSUME ContractInv, NEW s \in Sessions, NEW d, Past(d),
         sessions' = [sessions EXCEPT ![s] = d],
         clashed' = clashed \cup Clashes'
  PROVE  clashed' = clashed
  <1>1. sessions'[s] = d /\ \A t \in Sessions : t # s => sessions'[t] = sessions[t]
    BY DEF ContractInv, HistoryInvariant, TypeOK
  <1>2. \A a \in Approvals : ~Holds(sessions'[s], a)
    BY <1>1 DEF Holds, Past
  <1>3. ASSUME NEW a \in Clashes'
        PROVE  a \in Clashes
    <2>1. PICK t, u \in Sessions : t # u /\ Holds(sessions'[t], a) /\ Holds(sessions'[u], a)
      BY <1>3 DEF Clashes, Clash, Holds
    <2>2. t # s /\ u # s
      BY <1>2, <1>3, <2>1 DEF Clashes
    <2>3. QED
      BY <1>1, <1>3, <2>1, <2>2 DEF Clashes, Clash
  <1>4. QED
    BY <1>3 DEF ContractInv, OverlapInvariant, Clashes

\* A step that keeps what the contract speaks of, but for overlaps
LEMMA ContractStutters ==
  ASSUME ContractInv,
         \A a \in Approvals : SameRow(a) /\ rows'[a].requiresAll = rows[a].requiresAll,
         published' = published,
         clashed' = clashed \cup Clashes'
  PROVE  Contract!Next
  <1>1. status' = status /\ required' = required /\ approvedBy' = approvedBy
    BY DEF status, required, approvedBy, SameRow
  <1>2. requiresAll' = requiresAll
    BY DEF requiresAll
  <1>3. announced' = announced
    BY DEF announced
  <1>4. PICK S \in SUBSET Approvals : S = Clashes'
    BY DEF Clashes
  <1>5. Contract!Overlap(S)
    BY <1>1, <1>2, <1>3, <1>4
       DEF Contract!Overlap, status, required, requiresAll, approvedBy, announced
  <1>6. QED
    BY <1>5 DEF Contract!Next

LEMMA CreateImplements ==
  ASSUME ContractInv, NEW s \in Sessions, NEW a \in Approvals, NEW R \in EditLists,
         NEW all \in BOOLEAN, Create(s, a, R, all), clashed' = clashed
  PROVE  Contract!Create(a)
  <1>0. TypeOK /\ rows[a].approvedBy = {}
    BY DEF ContractInv, HistoryInvariant, NobodyApprovesNothing, Create
  <1>1. rows' = [rows EXCEPT ![a] = [AbsentRow EXCEPT !.status = "pending",
                                         !.required = R, !.requiresAll = all]]
    BY DEF Create
  <1>2. /\ rows'[a].status = "pending" /\ rows'[a].required = R
        /\ rows'[a].requiresAll = all /\ rows'[a].approvedBy = {}
    BY <1>0, <1>1 DEF TypeOK, AbsentRow
  <1>3. \A b \in Approvals : b # a => rows'[b] = rows[b]
    BY <1>0, <1>1 DEF TypeOK
  <1>4. status' = [status EXCEPT ![a] = "pending"]
    BY <1>2, <1>3 DEF status
  <1>5. required' = [required EXCEPT ![a] = R]
    BY <1>2, <1>3 DEF required
  <1>6. requiresAll' = [requiresAll EXCEPT ![a] = all]
    BY <1>2, <1>3 DEF requiresAll
  <1>7. approvedBy' = approvedBy
    BY <1>0, <1>2, <1>3 DEF approvedBy
  <1>8. announced' = announced
    BY DEF Create, announced
  <1>9. status[a] = "absent"
    BY DEF Create, status
  <1>10. QED
    BY <1>4, <1>5, <1>6, <1>7, <1>8, <1>9
       DEF Contract!Create, status, required, requiresAll, approvedBy, announced

LEMMA ApproveImplements ==
  ASSUME ContractInv, NEW s \in Sessions, ApproveCommit(s), clashed' = clashed,
         sessions[s].approval \notin clashed
  PROVE  \E a \in Approvals, u \in Users : Contract!Approve(a, u)
  <1>1. TypeOK /\ sessions[s] \in Deciding /\ sessions[s].op = "approve"
    BY SessionShape DEF ContractInv, HistoryInvariant, ApproveCommit
  <1>2. PICK a \in Approvals, u \in Users : a = sessions[s].approval /\ u = sessions[s].user
    BY <1>1 DEF Deciding
  <1>3. /\ rows[a].status = "pending"
        /\ sessions[s].required = rows[a].required
        /\ sessions[s].approvedBy = rows[a].approvedBy
        /\ u \in rows[a].required /\ u \notin rows[a].approvedBy
    <2>1. Current(sessions[s], a) /\ SessionBacked(sessions[s])
      BY <1>2 DEF ContractInv, OverlapInvariant, HistoryInvariant
    <2>2. QED
      BY <1>1, <1>2, <2>1 DEF Current, Holds, SessionBacked, Deciding
  <1>4. PICK P : P = rows[a].approvedBy \cup {u}
    OBVIOUS
  <1>5. PICK st : st = IF Complete(rows[a].requiresAll, rows[a].required, P)
                       THEN "approved" ELSE "pending"
    OBVIOUS
  <1>6. rows' = [rows EXCEPT ![a] = [rows[a] EXCEPT !.approvedBy = P, !.status = st]]
    BY <1>2, <1>3, <1>4, <1>5 DEF ApproveCommit
  <1>7. /\ rows'[a].status = st /\ rows'[a].approvedBy = P
        /\ rows'[a].required = rows[a].required
        /\ rows'[a].requiresAll = rows[a].requiresAll
    BY <1>1, <1>6 DEF TypeOK, Row
  <1>8. \A b \in Approvals : b # a => rows'[b] = rows[b]
    BY <1>1, <1>6 DEF TypeOK
  <1>9. status' = [status EXCEPT ![a] = st] /\ status[a] = "pending"
    BY <1>3, <1>7, <1>8 DEF status
  <1>10. approvedBy' = [approvedBy EXCEPT ![a] = approvedBy[a] \cup {u}]
    BY <1>4, <1>7, <1>8 DEF approvedBy
  <1>11. required' = required
    BY <1>7, <1>8 DEF required
  <1>12. requiresAll' = requiresAll
    BY <1>7, <1>8, Zenon DEF requiresAll
  <1>13. announced' = announced
    BY DEF ApproveCommit, announced
  <1>14. u \in required[a] \ approvedBy[a]
    BY <1>3 DEF required, approvedBy
  <1>15. st = IF requiresAll[a] => approvedBy[a] \cup {u} = required[a]
              THEN "approved" ELSE "pending"
    BY <1>4, <1>5 DEF Complete, requiresAll, approvedBy, required
  <1>16. Contract!Approve(a, u)
    BY <1>9, <1>10, <1>11, <1>12, <1>13, <1>14, <1>15
       DEF Contract!Approve, status, required, requiresAll, approvedBy, announced
  <1>17. QED
    BY <1>16

\* A step that settles one pending row without an approval
LEMMA Dismissed ==
  ASSUME NEW a \in Approvals, rows[a].status = "pending",
         NEW st \in {"rejected", "cancelled"},
         st = "rejected" => rows[a].required # {},
         rows'[a].status = st,
         rows'[a].required = rows[a].required,
         rows'[a].requiresAll = rows[a].requiresAll,
         rows'[a].approvedBy = rows[a].approvedBy,
         \A b \in Approvals : b # a => rows'[b] = rows[b],
         published' = published, clashed' = clashed
  PROVE  Contract!Dismiss(a)
  <1>1. status' = [status EXCEPT ![a] = st] /\ status[a] = "pending"
    BY DEF status
  <1>2. required' = required /\ approvedBy' = approvedBy
    BY DEF required, approvedBy
  <1>3. requiresAll' = requiresAll
    BY Zenon DEF requiresAll
  <1>4. announced' = announced
    BY DEF announced
  <1>5. st = "rejected" => required[a] # {}
    BY DEF required
  <1>6. QED
    BY <1>1, <1>2, <1>3, <1>4, <1>5
       DEF Contract!Dismiss, status, required, requiresAll, approvedBy, announced

\* A commit to an overlapped row may settle it again and rewrite its approvals.
LEMMA Overwritten ==
  ASSUME NEW a \in Approvals, a \in clashed, rows[a].status # "absent",
         rows'[a].status \in {"approved", "rejected", "cancelled", rows[a].status},
         rows'[a].approvedBy \in SUBSET Users,
         rows'[a].required = rows[a].required,
         rows'[a].requiresAll = rows[a].requiresAll,
         \A b \in Approvals : b # a => rows'[b] = rows[b],
         published' = published, clashed' = clashed
  PROVE  Contract!Overwrite(a)
  <1>1. PICK st : st = rows'[a].status
    OBVIOUS
  <1>2. PICK U \in SUBSET Users : U = rows'[a].approvedBy
    OBVIOUS
  <1>3. status' = [status EXCEPT ![a] = st] /\ status[a] = rows[a].status
    BY <1>1 DEF status
  <1>4. approvedBy' = [approvedBy EXCEPT ![a] = U]
    BY <1>2 DEF approvedBy
  <1>5. required' = required
    BY DEF required
  <1>6. requiresAll' = requiresAll
    BY Zenon DEF requiresAll
  <1>7. announced' = announced
    BY DEF announced
  <1>8. st \in {"approved", "rejected", "cancelled", status[a]} /\ status[a] # "absent"
    BY <1>1, <1>3
  <1>9. QED
    BY <1>2, <1>3, <1>4, <1>5, <1>6, <1>7, <1>8
       DEF Contract!Overwrite, status, required, requiresAll, approvedBy, announced

LEMMA DecisionOverwrites ==
  ASSUME ContractInv, NEW s \in Sessions, ApproveCommit(s) \/ RejectCommit(s),
         clashed' = clashed, sessions[s].approval \in clashed
  PROVE  \E a \in Approvals : Contract!Overwrite(a)
  <1>1. TypeOK /\ sessions[s] \in Deciding /\ SessionBacked(sessions[s])
    BY SessionShape DEF ContractInv, HistoryInvariant, ApproveCommit, RejectCommit
  <1>2. PICK a \in Approvals : a = sessions[s].approval
    BY <1>1 DEF Deciding
  <1>3. rows[a].status # "absent" /\ rows[a] \in Row
    BY <1>1, <1>2 DEF SessionBacked, Exists, TypeOK, Deciding
  <1>4. CASE ApproveCommit(s)
    <2>1. PICK P \in SUBSET Users : P = sessions[s].approvedBy \cup {sessions[s].user}
      BY <1>1 DEF Deciding
    <2>2. PICK st \in {"approved", rows[a].status} :
            rows' = [rows EXCEPT ![a] = [rows[a] EXCEPT !.approvedBy = P, !.status = st]]
      BY <1>2, <1>4, <2>1 DEF ApproveCommit
    <2>3. /\ rows'[a].status = st /\ rows'[a].approvedBy = P
          /\ rows'[a].required = rows[a].required
          /\ rows'[a].requiresAll = rows[a].requiresAll
          /\ \A b \in Approvals : b # a => rows'[b] = rows[b]
      BY <1>1, <1>3, <2>2 DEF TypeOK, Row
    <2>4. published' = published
      BY <1>4 DEF ApproveCommit
    <2>5. Contract!Overwrite(a)
      BY <1>2, <1>3, <2>1, <2>2, <2>3, <2>4, Overwritten
    <2>6. QED
      BY <2>5
  <1>5. CASE RejectCommit(s)
    <2>1. /\ rows'[a].status = "rejected"
          /\ rows'[a].approvedBy = rows[a].approvedBy
          /\ rows'[a].required = rows[a].required
          /\ rows'[a].requiresAll = rows[a].requiresAll
          /\ \A b \in Approvals : b # a => rows'[b] = rows[b]
          /\ published' = published
      BY <1>1, <1>2, <1>3, <1>5 DEF TypeOK, RejectCommit, Row
    <2>2. rows[a].approvedBy \in SUBSET Users
      BY <1>3 DEF Row
    <2>3. Contract!Overwrite(a)
      BY <1>2, <1>3, <2>1, <2>2, Overwritten
    <2>4. QED
      BY <2>3
  <1>6. QED
    BY <1>4, <1>5

LEMMA RejectImplements ==
  ASSUME ContractInv, NEW s \in Sessions, RejectCommit(s), clashed' = clashed,
         sessions[s].approval \notin clashed
  PROVE  \E a \in Approvals : Contract!Dismiss(a)
  <1>1. TypeOK /\ sessions[s] \in Deciding
    BY SessionShape DEF ContractInv, HistoryInvariant, RejectCommit
  <1>2. PICK a \in Approvals : a = sessions[s].approval
    BY <1>1 DEF Deciding
  <1>3. rows[a].status = "pending" /\ rows[a].required # {}
    <2>1. Current(sessions[s], a) /\ SessionBacked(sessions[s])
      BY <1>2 DEF ContractInv, OverlapInvariant, HistoryInvariant
    <2>2. QED
      BY <1>1, <1>2, <2>1 DEF Current, Holds, SessionBacked, Deciding
  <1>4. /\ rows'[a].status = "rejected"
        /\ rows'[a].required = rows[a].required
        /\ rows'[a].requiresAll = rows[a].requiresAll
        /\ rows'[a].approvedBy = rows[a].approvedBy
        /\ \A b \in Approvals : b # a => rows'[b] = rows[b]
        /\ published' = published
    BY <1>1, <1>2 DEF TypeOK, RejectCommit, Row
  <1>5. QED
    BY <1>1, <1>3, <1>4, Dismissed

LEMMA CancelImplements ==
  ASSUME ContractInv, NEW s \in Sessions, CancelCommit(s), clashed' = clashed
  PROVE  \E a \in Approvals : Contract!Dismiss(a) \/ Contract!Overwrite(a)
  <1>1. TypeOK /\ sessions[s] \in Cancelling
    BY SessionShape DEF ContractInv, HistoryInvariant, CancelCommit
  <1>2. PICK a \in Approvals : a = sessions[s].approval
    BY <1>1 DEF Cancelling
  <1>3. /\ a \notin clashed => rows[a].status = "pending"
        /\ rows[a].status # "absent" /\ rows[a] \in Row
    <2>1. /\ a \notin clashed => Current(sessions[s], a)
          /\ SessionBacked(sessions[s])
      BY DEF ContractInv, OverlapInvariant, HistoryInvariant
    <2>2. QED
      BY <1>1, <1>2, <2>1 DEF Current, Holds, SessionBacked, Cancelling, Exists, TypeOK
  <1>4. /\ rows'[a].status = "cancelled"
        /\ rows'[a].required = rows[a].required
        /\ rows'[a].requiresAll = rows[a].requiresAll
        /\ rows'[a].approvedBy = rows[a].approvedBy
        /\ \A b \in Approvals : b # a => rows'[b] = rows[b]
        /\ published' = published
    BY <1>1, <1>2 DEF TypeOK, CancelCommit, Row
  <1>5. CASE a \notin clashed
    BY <1>3, <1>4, <1>5, Dismissed
  <1>6. CASE a \in clashed
    <2>1. rows'[a].approvedBy \in SUBSET Users
      BY <1>3, <1>4 DEF Row
    <2>2. QED
      BY <1>3, <1>4, <1>6, <2>1, Overwritten
  <1>7. QED
    BY <1>5, <1>6

LEMMA EditImplements ==
  ASSUME ContractInv, NEW s \in Sessions, EditCommit(s), clashed' = clashed
  PROVE  \E a \in Approvals : Contract!Edit(a)
  <1>1. TypeOK /\ SessionBacked(sessions[s]) /\ sessions[s] \in Editing
    BY SessionShape DEF ContractInv, HistoryInvariant, EditCommit
  <1>2. PICK a \in Approvals : a = sessions[s].approval
    BY <1>1 DEF Editing
  <1>3. rows[a].status # "absent"
    BY <1>1, <1>2 DEF SessionBacked, Editing, Exists
  <1>4. PICK R \in SUBSET Users :
          R = IF sessions[s].setsRequired THEN sessions[s].required ELSE rows[a].required
    BY <1>1 DEF TypeOK, Editing, Row
  <1>5. /\ rows'[a].status = rows[a].status
        /\ rows'[a].required = R
        /\ rows'[a].requiresAll = rows[a].requiresAll
        /\ rows'[a].approvedBy = rows[a].approvedBy
        /\ \A b \in Approvals : b # a => rows'[b] = rows[b]
        /\ published' = published
    BY <1>1, <1>2, <1>4 DEF TypeOK, EditCommit, Row
  <1>6. required' = [required EXCEPT ![a] = R]
    BY <1>5 DEF required
  <1>7. status' = status /\ approvedBy' = approvedBy
    BY <1>5 DEF status, approvedBy
  <1>8. requiresAll' = requiresAll
    BY <1>5, Zenon DEF requiresAll
  <1>9. announced' = announced /\ status[a] # "absent"
    BY <1>3, <1>5 DEF announced, status
  <1>10. Contract!Edit(a)
    BY <1>6, <1>7, <1>8, <1>9
       DEF Contract!Edit, status, required, requiresAll, approvedBy, announced
  <1>11. QED
    BY <1>10

LEMMA SweepImplements ==
  ASSUME ContractInv, NEW s \in Sessions, SweepCommit(s), clashed' = clashed
  PROVE  \E batch \in SUBSET Approvals : Contract!Expire(batch)
  <1>1. TypeOK /\ SessionBacked(sessions[s]) /\ sessions[s] \in Sweeping
    BY SessionShape DEF ContractInv, HistoryInvariant, SweepCommit
  <1>2. PICK batch \in SUBSET Approvals : batch = sessions[s].batch
    BY <1>1 DEF Sweeping
  <1>3. /\ \A a \in batch \ clashed : rows[a].status = "pending"
        /\ \A a \in batch : rows[a].status # "absent"
    <2>1. \A a \in Approvals : a \notin clashed => Current(sessions[s], a)
      BY DEF ContractInv, OverlapInvariant
    <2>2. QED
      BY <1>1, <1>2, <2>1 DEF Current, Holds, SessionBacked, Sweeping, Exists
  <1>4. \A a \in Approvals :
          /\ rows'[a].status = IF a \in batch THEN "expired" ELSE rows[a].status
          /\ rows'[a].required = rows[a].required
          /\ rows'[a].requiresAll = rows[a].requiresAll
          /\ rows'[a].approvedBy = rows[a].approvedBy
    BY <1>1, <1>2 DEF TypeOK, SweepCommit, Row
  <1>5. /\ \A a \in batch \ clashed : status[a] = "pending"
        /\ \A a \in batch : status[a] # "absent"
        /\ status' = [a \in Approvals |-> IF a \in batch THEN "expired" ELSE status[a]]
    BY <1>3, <1>4 DEF status
  <1>6. required' = required /\ approvedBy' = approvedBy
    BY <1>4 DEF required, approvedBy
  <1>7. requiresAll' = requiresAll
    BY <1>4, Zenon DEF requiresAll
  <1>8. announced' = announced
    BY DEF SweepCommit, announced
  <1>9. Contract!Expire(batch)
    BY <1>5, <1>6, <1>7, <1>8
       DEF Contract!Expire, status, required, requiresAll, approvedBy, announced
  <1>10. QED
    BY <1>9

LEMMA PublishImplements ==
  ASSUME ContractInv, NEW s \in Sessions, Publish(s), clashed' = clashed
  PROVE  \/ \E a \in Approvals : Contract!Announce(a)
         \/ UNCHANGED Contract!vars
  <1>1. sessions[s] \in Publishing /\ SessionBacked(sessions[s])
    BY SessionShape DEF ContractInv, HistoryInvariant, Publish
  <1>2. PICK e \in Event : e = sessions[s].event
    BY <1>1 DEF Publishing
  <1>3. /\ e.type = "granted" => rows[e.approval].status = "approved" \/ e.approval \in clashed
        /\ e.type = "rejected" => rows[e.approval].status = "rejected" \/ e.approval \in clashed
        /\ rows[e.approval].status # "absent"
        /\ e.approval \in Approvals /\ e.type \in {"requested", "granted", "rejected"}
    <2>1. e.approval \in Approvals /\ e.type \in {"requested", "granted", "rejected"}
      BY <1>2 DEF Event
    <2>2. e.approval \notin clashed => Current(sessions[s], e.approval)
      BY <2>1 DEF ContractInv, OverlapInvariant
    <2>3. QED
      BY <1>1, <1>2, <2>1, <2>2 DEF Current, SessionBacked, Publishing, Exists
  <1>4. rows' = rows /\ published' = published \cup {e}
    BY <1>2 DEF Publish
  <1>5. /\ status' = status /\ required' = required
        /\ requiresAll' = requiresAll /\ approvedBy' = approvedBy
    BY <1>4 DEF status, required, requiresAll, approvedBy
  <1>6. CASE e.type = "requested"
    <2>1. announced' = announced
      BY <1>4, <1>6 DEF announced
    <2>2. QED
      BY <1>5, <2>1
         DEF Contract!vars, status, required, requiresAll, approvedBy, announced
  <1>7. CASE e.type \in {"granted", "rejected"}
    <2>1. announced' = announced \cup {<<e.approval, e.type>>}
      BY <1>4, <1>7 DEF announced
    <2>2. /\ e.type = "granted" => status[e.approval] = "approved" \/ e.approval \in clashed
          /\ e.type = "rejected" => status[e.approval] = "rejected" \/ e.approval \in clashed
          /\ status[e.approval] # "absent"
      BY <1>3 DEF status
    <2>3. Contract!Announce(e.approval)
      BY <1>5, <1>7, <2>1, <2>2
         DEF Contract!Announce, status, required, requiresAll, approvedBy, announced
    <2>4. QED
      BY <1>3, <2>3
  <1>8. QED
    BY <1>3, <1>6, <1>7

LEMMA QuietImplements ==
  ASSUME ContractInv, published' = published,
         rows' = rows \/ \E b \in Approvals : ReachExpiry(b),
         clashed' = clashed \cup Clashes'
  PROVE  Contract!Next
  <1>1. \A a \in Approvals : SameRow(a) /\ rows'[a].requiresAll = rows[a].requiresAll
    BY DEF ContractInv, HistoryInvariant, TypeOK, ReachExpiry, Row, SameRow
  <1>2. QED
    BY <1>1, ContractStutters

\* The steps that write: no new overlap, and one step of the contract
LEMMA WriteImplements ==
  ASSUME ContractInv, NEW s \in Sessions,
         clashed' = clashed \cup Clashes',
         \/ \E a \in Approvals, R \in EditLists, all \in BOOLEAN : Create(s, a, R, all)
         \/ ApproveCommit(s) \/ RejectCommit(s) \/ CancelCommit(s)
         \/ EditCommit(s) \/ SweepCommit(s) \/ Publish(s)
  PROVE  [Contract!Next]_(Contract!vars)
  <1>1. ASSUME NEW d, Past(d),
               sessions' = [sessions EXCEPT ![s] = d]
        PROVE  clashed' = clashed
    BY <1>1, NoNewClash
  <1>2. clashed' = clashed
    <2>1. CASE CancelCommit(s) \/ EditCommit(s) \/ SweepCommit(s) \/ Publish(s)
      <3>1. sessions' = [sessions EXCEPT ![s] = Idle] /\ Past(Idle)
        BY <2>1 DEF CancelCommit, EditCommit, SweepCommit, Publish, Past, Idle
      <3>2. QED
        BY <1>1, <3>1
    <2>2. ASSUME NEW op, NEW a,
                 sessions' = [sessions EXCEPT
                    ![s] = [pc |-> "committed", op |-> op, approval |-> a]]
          PROVE  clashed' = clashed
      <3>1. PICK d : d = [pc |-> "committed", op |-> op, approval |-> a]
        OBVIOUS
      <3>2. Past(d)
        BY <3>1 DEF Past
      <3>3. QED
        BY <1>1, <2>2, <3>1, <3>2
    <2>3. QED
      BY <2>1, <2>2 DEF Create, ApproveCommit, RejectCommit
  <1>3. ASSUME NEW a \in Approvals, NEW R \in EditLists, NEW all \in BOOLEAN,
               Create(s, a, R, all)
        PROVE  Contract!Next
    BY <1>2, <1>3, CreateImplements DEF Contract!Next
  <1>4. CASE ApproveCommit(s) \/ RejectCommit(s)
    BY <1>2, <1>4, ApproveImplements, RejectImplements, DecisionOverwrites DEF Contract!Next
  <1>5. CASE CancelCommit(s) \/ EditCommit(s) \/ SweepCommit(s)
    BY <1>2, <1>5, CancelImplements, EditImplements, SweepImplements DEF Contract!Next
  <1>6. CASE Publish(s)
    BY <1>2, <1>6, PublishImplements DEF Contract!Next
  <1>7. QED
    BY <1>3, <1>4, <1>5, <1>6

LEMMA NextContract ==
  ASSUME ContractInv, [NextH]_varsH
  PROVE  [Contract!Next]_(Contract!vars)
  <1>1. CASE NextH
    BY <1>1, WriteImplements, QuietImplements
       DEF NextH, Next, Proceed, ApproveLoad, RejectLoad, Load, CancelLoad, DelegateLoad,
           UpdateRequest, ExtendRequest, StartEdit, SweepLoad, Refresh, Abort, ReachExpiry
  <1>2. CASE UNCHANGED varsH
    BY <1>2 DEF varsH, vars, Contract!vars
  <1>3. QED
    BY <1>1, <1>2

\* Any number of requests at a time: for a row no two of them held between
\* SELECT and commit, the SELECT, the decision and the UPDATE of
\* approve_request, reject_request, cancel_approval, update_approval and
\* expire_old_approvals amount to one atomic step, and what is published is
\* what the row was settled to; an overlapped row is never pending again and
\* harms no other - for any tables, users and lists, with aborts anywhere.
THEOREM RowsFollowContract == SpecH => ImplementsContract
  <1>1. InitH => ContractInv
    <2> SUFFICES ASSUME InitH
                 PROVE  ContractInv
      OBVIOUS
    <2>1. HistoryInvariant
      BY InitHistory DEF InitH
    <2>2. NobodyApprovesNothing
      BY DEF InitH, Init, NobodyApprovesNothing, AbsentRow
    <2>3. OverlapInvariant
      BY DEF InitH, Init, Idle, OverlapInvariant, Clash, Holds, Current
    <2>4. QED
      BY <2>1, <2>2, <2>3 DEF ContractInv
  <1>2. ContractInv /\ [NextH]_varsH => ContractInv'
    BY NextContractInv
  <1>3. ContractInv /\ [NextH]_varsH => [Contract!Next]_(Contract!vars)
    BY NextContract
  <1>4. QED
    BY <1>1, <1>2, <1>3, InitContract, PTL DEF SpecH, ImplementsContract, Contract!Spec
=============================================================================
