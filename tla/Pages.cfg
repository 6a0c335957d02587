CONSTANTS
    None = None
    Tab = {t1}
    Account = own
    Email = {own, other, bad}
    Invalid = {bad}
    Password = {p1, p2, short}
    Short = {short}
    Link = {l1, l2}
    FrameCount = 3
    Period = {"month", "week", "year"}
    Widget = {"kpis"}
    MaxChanges = 1
    RowCount = 3
    PageSize = 2
    Submission = {n1, n2}
    MaxLost = 2
    PlanId = {gold, silver}
    Slips = 1
    Whole = {0, 1, 15, 12000}
    Decimals = 2
SPECIFICATION MCSpec
INVARIANTS UserIsLoggedIn ChangedIsStored HeroInStep ChartIsOfPeriod TableIsTrue FormIsSent FieldsAreMeant
CHECK_DEADLOCK FALSE
