SPECIFICATION FairSpec
CONSTANTS
    Depth = 2
    OwnList = {FALSE}
    Starts = {1}
    Requested = {0}
    MaxInserts = 1
    MaxRejects = 0
    MaxCrashes = 0
    MaxProofs = 1
INVARIANT
    ValidatedRootIsStored
CHECK_DEADLOCK FALSE
