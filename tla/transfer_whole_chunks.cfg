\* One file that is a whole number of chunks, no failures.
SPECIFICATION FairSpec
CONSTANTS
    t1 = t1
    t2 = t2
    Id = {t1}
    Size <- WholeChunks
    Path <- OwnName
    ChunkSize = 2
    None = None
    MaxQueue = 2
    MaxProgress = 1
    MaxFaults = 0
PROPERTIES
    AcceptedCompletes
CHECK_DEADLOCK FALSE
