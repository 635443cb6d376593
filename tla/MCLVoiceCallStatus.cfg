SPECIFICATION Spec
CONSTANTS
    None = None
    Faults = {}
PROPERTY StatusTold
