SPECIFICATION FairSpec
CONSTANTS
    None = None
    Faults = {"switch_on", "switch_off", "cm_init", "init_spp", "timer", "spp_accept"}
    OtherUser = FALSE
    GoesOn = FALSE
INVARIANTS NoWildWrite Answered AllOrNothing
PROPERTIES CallsReturn
CHECK_DEADLOCK FALSE
