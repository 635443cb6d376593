SPECIFICATION FairSpec
CONSTANTS
    None = None
    Server = 0
    NService = 2
    Profiles <- MCProfiles
    NoEvent = NoEvent
    Events <- MCEvents
    Asked = {"READ"}
    MAX_QUEUE_NODES = 3
    Faults = {"activate", "cm_init", "switch_on", "register", "service", "descriptor"}
    OtherUser = FALSE
INVARIANTS AnsweredOnce DeclaredInOrder FirstBeginFree NoneFreed
PROPERTIES ImplementsQueue CallsReturn
CHECK_DEADLOCK FALSE
