CONSTANTS
    None = None
    Booking = {b1, b2}
    Request = {r1, r2}
    NoBooking = NoBooking
    MaxDrags = 0
    MaxForeign = 1
    MaxFailures = 1
    Card = {k1, k2}
    MaxReports = 3
    Car = {c1, c2}
    Call = {a1, a2}
    MaxShown = 2
    Tab = {t1, t2, t3}
SPECIFICATION MCSpec
SYMMETRY Symmetry
INVARIANTS SettledAgrees AboutItsBooking OneWashPerScreen ButtonSaysTheme
CHECK_DEADLOCK FALSE
