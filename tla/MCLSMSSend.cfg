SPECIFICATION Spec
CONSTANTS
    None = None
    NoId = NoId
    Ids = {m1, m2}
    Faults = {"send"}
    Bursts = FALSE
INVARIANT SendTells
