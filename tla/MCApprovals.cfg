\* Two requests in flight on one row, three users, one edit of the list.
CONSTANTS
    Approvals = {a1}
    Users = {u1, u2, u3}
    u1 = u1
    u2 = u2
    u3 = u3
    Sessions = {s1, s2}
    NoUser = NoUser
    EditLists <- Lists
    MaxEdits = 1
SPECIFICATION SpecH
INVARIANTS
    ApprovedHasQuorum
    EventsAreTruthful
PROPERTIES
    ImplementsContract
CHECK_DEADLOCK FALSE
