SPECIFICATION FairSpec
CONSTANTS
    WRITE_SIZE = 2
    Sizes = {0, 1, 2, 3, 4}
    MaxRuns = 2
    Faults = {"AT", "mode", "root", "createFolder", "open main", "data main", "close",
              "open autostart", "data autostart", "slow", "hangs"}
INVARIANTS AutostartSafe UploadedWhenDone
PROPERTIES ScriptEnds
CHECK_DEADLOCK FALSE
