SPECIFICATION Spec
CONSTANTS
    Booking = {b1}
    Request = {r1}
    NoBooking = NoBooking
    MaxDrags = 1
    MaxForeign = 0
    MaxFailures = 0
INVARIANTS DropReachesServer
CHECK_DEADLOCK FALSE
