\* Two processes, two requests of one key, a gated request with an approval;
\* two restarts.
CONSTANTS
    pay = pay
    again = again
    gated = gated
    Workers = {w1, w2}
    Requests = {pay, again, gated}
    Keys <- MCKeys
    KeyOf <- MCKeyOf
    Gated = {gated}
    NeedsApproval = {gated}
    Refused = {}
    MaxSends = 1
    MaxRestarts = 2
SPECIFICATION Spec
INVARIANTS
    PaidAfterApproval
CHECK_DEADLOCK FALSE
