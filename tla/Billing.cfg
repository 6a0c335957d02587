CONSTANTS
    Subs = {s1}
    Payments = {p1, p2}
    Webhooks = {w1, w2}
    Requests = {r1, r2}
    Periods = {1}
    Grace = 0
    MaxTime = 1
    MaxFaults = 1
    None = None
SPECIFICATION Spec
SYMMETRY Symmetry
CONSTRAINT Few
INVARIANTS TypeOK OneEventPerPayment AppliedOnce PastDueHasRejection SweepListFresh
PROPERTIES LedgerSpec RenewalPaid ReactivationPaid
CHECK_DEADLOCK FALSE
