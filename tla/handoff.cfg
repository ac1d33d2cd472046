SPECIFICATION FairSpec
CONSTANTS
    Requests = {r1, r2}
    Makers = {r1}
    S3 = {r2}
    Patient = {2}
    Faulty = {2}
    MaxProcs = 3
    NoProc = NoProc
CHECK_DEADLOCK FALSE
INVARIANTS ListedAsStored OneSlips
PROPERTIES CutOnlyUnseen QueuedAreAccepted
