--------------------------- MODULE ApprovalContract ---------------------------
(***************************************************************************)
(* What the approvals service promises about one table of approvals.  As   *)
(* long as a row has not been overlapped (no request SELECTed it while     *)
(* another one was between its SELECT and its commit), every answer is one *)
(* atomic step on it, it settles once, and approval.granted or             *)
(* approval.rejected is published for it only while it is settled that     *)
(* way.  The program takes no lock on the rows, so an overlap can happen;  *)
(* what is then left for the row is said by Overwrite: it may be settled   *)
(* again and lose approvals, but it never becomes pending again, and the   *)
(* other rows keep the full promise.                                       *)
(***************************************************************************)
CONSTANTS Approvals, Users, EditLists

VARIABLES
    status,        \* per approval, "absent" before it is created
    required,      \* per approval, who may answer
    requiresAll,   \* per approval, whether all of them must
    approvedBy,    \* per approval, who has approved
    announced,     \* pairs <<approval, "granted" or "rejected">> published
    overlapped     \* approvals two requests held a SELECT of at one time

vars == <<status, required, requiresAll, approvedBy, announced, overlapped>>

Init ==
    /\ status = [a \in Approvals |-> "absent"]
    /\ required = [a \in Approvals |-> {}]
    /\ requiresAll = [a \in Approvals |-> FALSE]
    /\ approvedBy = [a \in Approvals |-> {}]
    /\ announced = {}
    /\ overlapped = {}

Create(a) ==
    /\ status[a] = "absent"
    /\ status' = [status EXCEPT ![a] = "pending"]
    /\ \E R \in EditLists : required' = [required EXCEPT ![a] = R]
    /\ \E all \in BOOLEAN : requiresAll' = [requiresAll EXCEPT ![a] = all]
    /\ UNCHANGED <<approvedBy, announced, overlapped>>

Approve(a, u) ==
    /\ status[a] = "pending"
    /\ u \in required[a] \ approvedBy[a]
    /\ approvedBy' = [approvedBy EXCEPT ![a] = @ \cup {u}]
    /\ status' = [status EXCEPT
                    ![a] = IF requiresAll[a] => approvedBy[a] \cup {u} = required[a]
                           THEN "approved" ELSE "pending"]
    /\ UNCHANGED <<required, requiresAll, announced, overlapped>>

\* A required approver rejects, or the requester cancels
Dismiss(a) ==
    /\ status[a] = "pending"
    /\ \/ required[a] # {} /\ status' = [status EXCEPT ![a] = "rejected"]
       \/ status' = [status EXCEPT ![a] = "cancelled"]
    /\ UNCHANGED <<required, requiresAll, approvedBy, announced, overlapped>>

\* The sweep settles a batch of pending rows at once
Expire(batch) ==
    /\ \A a \in batch \ overlapped : status[a] = "pending"
    /\ \A a \in batch : status[a] # "absent"
    /\ status' = [a \in Approvals |-> IF a \in batch THEN "expired" ELSE status[a]]
    /\ UNCHANGED <<required, requiresAll, approvedBy, announced, overlapped>>

\* The list may be edited at any time, also of a settled row (PUT)
Edit(a) ==
    /\ status[a] # "absent"
    /\ \E R \in SUBSET Users : required' = [required EXCEPT ![a] = R]
    /\ UNCHANGED <<status, requiresAll, approvedBy, announced, overlapped>>

Announce(a) ==
    /\ status[a] # "absent"
    /\ \/ /\ status[a] = "approved" \/ a \in overlapped
          /\ announced' = announced \cup {<<a, "granted">>}
       \/ /\ status[a] = "rejected" \/ a \in overlapped
          /\ announced' = announced \cup {<<a, "rejected">>}
    /\ UNCHANGED <<status, required, requiresAll, approvedBy, overlapped>>

\* A request SELECTs rows another one has SELECTed and not yet committed
Overlap(S) ==
    /\ overlapped' = overlapped \cup S
    /\ UNCHANGED <<status, required, requiresAll, approvedBy, announced>>

\* What a commit may do to an overlapped row
Overwrite(a) ==
    /\ a \in overlapped
    /\ status[a] # "absent"
    /\ \E t \in {"approved", "rejected", "cancelled", status[a]} :
          status' = [status EXCEPT ![a] = t]
    /\ \E U \in SUBSET Users : approvedBy' = [approvedBy EXCEPT ![a] = U]
    /\ UNCHANGED <<required, requiresAll, announced, overlapped>>

Next ==
    \/ \E a \in Approvals :
          Create(a) \/ Dismiss(a) \/ Edit(a) \/ Announce(a) \/ Overwrite(a)
    \/ \E a \in Approvals, u \in Users : Approve(a, u)
    \/ \E S \in SUBSET Approvals : Expire(S) \/ Overlap(S)

Spec == Init /\ [][Next]_vars
=============================================================================
