CONSTANTS
    t1 = t1
    t2 = t2
    k1 = k1
    k2 = k2
    Threads = {t1, t2}
    Tasks = {k1, k2}
    Users <- MCUsers
    Signals = {s1, s2, s3}
    NoThread = NoThread
    NoTask = NoTask
    NoSignal = NoSignal
SPECIFICATION FairSpec
INVARIANTS OneAnswer NoDanglingUserdata
PROPERTIES
    CallsReturn
    ImplementsContract
