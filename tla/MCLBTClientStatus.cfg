SPECIFICATION Spec
CONSTANTS
    None = None
    Faults = {"switch_on", "switch_off", "cm_init", "init_spp", "spp_connect"}
    OtherUser = FALSE
    EndUnbegun = FALSE
    Timers = {1}
INVARIANT PoweringOnWaits
CHECK_DEADLOCK FALSE
