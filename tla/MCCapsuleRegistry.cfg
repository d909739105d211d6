CONSTANTS
    Requests = {r1, r2, r3}
    Keys = {k1, k2}
    Capsules = {c1, c2}
    Names = {n1, n2}
    Contents = {a, b, d}
    None = None
    MaxVersions = 3
    FirstCapsule = c1
    FirstName = n1
    FirstContent = a
    FirstRequest = r1
    FirstKey = k1
    Other = b
SPECIFICATION MCSpec
SYMMETRY Symmetry
CHECK_DEADLOCK FALSE
INVARIANTS VersionsInOrder OneVersionPerContent AnswersHold
