SPECIFICATION Spec
CONSTANTS
    Person = {p1, p2}
    Request = {q1, q2, q3}
    Slug = {s1}
    None = None
    MaxConns = 2
INVARIANTS TenantHasOwner
CHECK_DEADLOCK FALSE
