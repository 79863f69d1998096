SPECIFICATION FairSpec
CONSTANTS
    Depth = 2
    OwnList = {TRUE, FALSE}
    Starts = {1, 3}
    Requested = {0, 4}
    MaxInserts = 2
    MaxRejects = 1
    MaxCrashes = 1
    MaxProofs = 1
INVARIANTS
    TypeOK
    EventsHaveGaplessLeaves
    StoredRootsAreListRoots
    QuietProofsVerify
PROPERTIES
    OfferedEventsAreStored
    LeafWithoutEventIsRepaired
CHECK_DEADLOCK FALSE
