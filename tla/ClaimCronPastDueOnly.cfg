CONSTANTS
    Subs = {s1}
    Payments = {p1}
    Webhooks = {w1}
    Requests = {r1, r2}
    Periods = {1}
    Grace = 0
    MaxTime = 1
    MaxFaults = 0
    None = None
SPECIFICATION HSpec
PROPERTY CronCancelsPastDueOnly
CHECK_DEADLOCK FALSE
