CONSTANTS
    Bytes = {0, 1, 2}
    SIZE = 4
    NoByte = NoByte
SPECIFICATION Spec
PROPERTIES
    ImplementsQueue
