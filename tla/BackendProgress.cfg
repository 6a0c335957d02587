CONSTANTS
    None = None
    Subs = {s1}
    Payments = {p1}
    Webhooks = {w1}
    Requests = {r1}
    Periods = {1}
    Grace = 0
    MaxTime = 2
    MaxFaults = 1
    Plan = {gold}
    Request = {q1}
    Price = {150, 200}
    Interval = {monthly}
    Call = {c1}
    MaxRetries = 2
    Person = {h1, h2}
    Registration = {n1, n2}
    Slug = {g1}
    MaxConns = 3
SPECIFICATION MCSpec
PROPERTIES NotificationHandled OverdueEnds AnswersCome LinksSpec
CHECK_DEADLOCK FALSE
