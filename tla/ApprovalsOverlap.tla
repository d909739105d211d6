-------------------------- MODULE ApprovalsOverlap --------------------------
(***************************************************************************)
(* Approvals with one more history variable: the rows that two requests    *)
(* held a SELECT of at the same time.  No action reads it; it says for     *)
(* which rows the handlers, which take no row locks, still implement the   *)
(* atomic contract.                                                        *)
(***************************************************************************)
EXTENDS Approvals

VARIABLE clashed

varsH == <<vars, clashed>>

\* Session d is between its SELECT of row a and its commit
Holds(d, a) ==
    \/ d.pc \in {"deciding", "cancelling", "editing"} /\ d.approval = a
    \/ d.pc = "sweeping" /\ a \in d.batch

Clash(a) == \E s, t \in Sessions :
                s # t /\ Holds(sessions[s], a) /\ Holds(sessions[t], a)

Clashes == {a \in Approvals : Clash(a)}

InitH == Init /\ clashed = {}

NextH == Next /\ clashed' = clashed \cup Clashes'

SpecH == InitH /\ [][NextH]_varsH

\* Fairness: a request in progress is served to its end unless it aborts (the
\* event loop runs it); nobody is obliged to send one, and nothing in the
\* service sends the sweep
ServiceSpecH == SpecH /\ \A s \in Sessions : WF_vars(Proceed(s))

-----------------------------------------------------------------------------
\* Properties

\* The table as the contract sees it.
Contract == INSTANCE ApprovalContract WITH
    status      <- [a \in Approvals |-> rows[a].status],
    required    <- [a \in Approvals |-> rows[a].required],
    requiresAll <- [a \in Approvals |-> rows[a].requiresAll],
    approvedBy  <- [a \in Approvals |-> rows[a].approvedBy],
    announced   <- {<<e.approval, e.type>> :
                       e \in {f \in published : f.type # "requested"}},
    overlapped  <- clashed

\* Any number of requests at a time, aborted or not: a row no two of them
\* held between SELECT and commit is answered atomically, settles once, and
\* what is published of it is what it was settled to, although refresh and
\* publication come after the commit and overlap with other requests; an
\* overlapped row never becomes pending again and harms no other row.
ImplementsContract == Contract!Spec

\* What the refinement rests on: a selection nobody overlapped is what the row
\* holds, and a request past its commit still finds what it committed.
Current(d, a) ==
    /\ Holds(d, a) /\ d.pc # "editing" => rows[a].status = "pending"
    /\ Holds(d, a) /\ d.pc = "deciding" =>
          /\ d.required = rows[a].required
          /\ d.approvedBy = rows[a].approvedBy
          /\ d.op = "approve" => d.user \notin d.approvedBy
    /\ d.pc = "committed" /\ d.approval = a /\ d.op = "reject" =>
          rows[a].status = "rejected"
    /\ d.pc = "publishing" /\ d.event.approval = a =>
          /\ d.event.type = "granted" => rows[a].status = "approved"
          /\ d.event.type = "rejected" => rows[a].status = "rejected"

OverlapInvariant ==
    /\ clashed \subseteq Approvals
    /\ \A a \in Approvals : Clash(a) => a \in clashed
    /\ \A s \in Sessions, a \in Approvals : a \notin clashed => Current(sessions[s], a)
=============================================================================
