CONSTANTS
    Subscriber = {s1, s2}
    Call = {c1, c2}
    None = None
    Stays = TRUE
SPECIFICATION Spec
SYMMETRY Symmetry
INVARIANTS ListSettles BadgeSettles
CHECK_DEADLOCK FALSE
