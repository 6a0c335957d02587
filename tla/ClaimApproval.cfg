CONSTANTS
    Subs = {s1}
    Payments = {p1}
    Webhooks = {w1, w2}
    Requests = {r1}
    Periods = {1}
    Grace = 0
    MaxTime = 0
    MaxFaults = 0
    None = None
SPECIFICATION HSpec
INVARIANT ApprovalNotSkipped
CHECK_DEADLOCK FALSE
