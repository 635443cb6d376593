SPECIFICATION FairSpec
CONSTANTS
    None = None
    Faults = {"dial", "refuse"}
INVARIANTS StatusFollows
PROPERTY CallsReturn
CHECK_DEADLOCK FALSE
