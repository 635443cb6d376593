SPECIFICATION FairSpec
CONSTANTS
    None = None
    Faults = {"switch_on", "switch_off", "cm_init", "init_spp", "spp_connect"}
    OtherUser = FALSE
    EndUnbegun = FALSE
    Timers = {1}
PROPERTY WriteReturns
CHECK_DEADLOCK FALSE
