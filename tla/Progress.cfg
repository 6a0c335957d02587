CONSTANTS
    None = None
    Tenant = tenant
    Branch = branch
    Screen = "kanban"
    MaxTimers = 4
    DashboardTimers = 2
    Booking = {b1}
    Request = {r1}
    Scanner = {s1, s2, s3}
    Card = {k1, k2}
    MaxReports = 2
    Tab = {t1}
    Submission = {n1, n2}
    MaxLost = 0
    Plan = {gold}
    Period = {"month", "week"}
    Widget = {"kpis"}
    MaxChanges = 1
    FrameCount = 2
SPECIFICATION MCSpec
INVARIANTS OneSource CameraObeys
PROPERTIES ChannelConnects BoardHearsEvents Converges WaitsEnd WidgetsCatchUp
CHECK_DEADLOCK FALSE
