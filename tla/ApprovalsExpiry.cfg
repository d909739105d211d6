\* One request at a time: a row becomes overdue and nobody sweeps.
CONSTANTS
    Approvals = {a1}
    Users = {u1, u2}
    u1 = u1
    u2 = u2
    u3 = u3
    Sessions = {s1}
    NoUser = NoUser
    EditLists <- Lists
    MaxEdits = 1
SPECIFICATION ServiceSpecH
PROPERTIES
    OverdueIsSettled
CHECK_DEADLOCK FALSE
