CONSTANTS
    Plan = {gold}
    Request = {q1, q2, q3}
    OneRequest = q1
    Price = {150, 200}
    Interval = {weekly, monthly}
    None = None
    Call = {c1, c2}
    MaxRetries = 1
    Person = {p1, p2}
    Registration = {n1, n2, n3}
    Slug = {s1}
    MaxConns = 2
    Device = {phone, desk}
    TTL = 3
    AccessTTL = 1
    MaxTime = 5
SPECIFICATION MCSpec
INVARIANTS ChargedAsOffered MadeAsOffered CreatedIsMade RegisteredHasOwner StuckOnlyWhenFull RefusedForAReason
PROPERTIES DeactivatedStaysSo
CHECK_DEADLOCK FALSE
