SPECIFICATION FairSpec
CONSTANTS
    None = None
    Faults = {"switch_on", "switch_off", "cm_init", "init_spp", "spp_connect"}
    OtherUser = TRUE
    EndUnbegun = FALSE
    Timers = {1, 2}
INVARIANTS AnsweredOnce NoWildWrite AllOrNothing
PROPERTIES AbortsOwnScan CallsReturn
CHECK_DEADLOCK FALSE
