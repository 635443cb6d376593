SPECIFICATION FairSpec
CONSTANTS
    None = None
    NoId = NoId
    Ids = {m1, m2}
    Faults = {"send", "refuse", "read"}
    Bursts = FALSE
INVARIANTS CurrentMatches NoneForgotten
PROPERTY CallsReturn
CHECK_DEADLOCK FALSE
