SPECIFICATION FairSpec
CONSTANTS
    Requests = {r1}
    Keys = {2, 3, 4}
    Neighbours = {1, 5, 6}
    Ops = {"put", "delete", "move"}
    MaxRestarts = 0
    Bucket <- MCBucket
    Name <- MCName
    Others <- MCOthers
    AskedPrefixes <- MCPrefixes
    AskedDelimiters = {0, 1}
    Limit = 2
CHECK_DEADLOCK FALSE
INVARIANTS ShownAscending StableShown ShownIsAsked
PROPERTIES ListingEnds
