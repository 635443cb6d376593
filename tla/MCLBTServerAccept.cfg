SPECIFICATION Spec
CONSTANTS
    None = None
    Faults = {}
    OtherUser = FALSE
    GoesOn = TRUE
INVARIANTS AcceptTold
CHECK_DEADLOCK FALSE
