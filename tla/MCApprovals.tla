---------------------------- MODULE MCApprovals ----------------------------
\* Instances of ApprovalsOverlap for TLC.
EXTENDS ApprovalsOverlap

CONSTANTS u1, u2, u3

\* Lists clients send: one approver, and two of whom one may delegate to u3
Lists == {{u1}, {u1, u2}}
=============================================================================
