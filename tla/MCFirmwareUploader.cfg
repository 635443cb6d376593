SPECIFICATION FairSpec
CONSTANTS
    Blocks <- MCBlocks
    Tails = {"EXT_BOOTLOADER", "ROM"}
    Timings = 3
    MaxDamage = 3
    MaxRuns = 2
    Faults = {"connectBootloader", "deep_test", "upload", "DA_DetectFlash",
              "FinishResponse", "DA_SetMemBlock", "DA_WriteCMD", "DA_doFATParition", "slow"}
INVARIANTS InOrder WholeWhenDone OneAtATime
PROPERTIES Ends
CHECK_DEADLOCK FALSE
