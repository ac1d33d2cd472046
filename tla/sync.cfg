SPECIFICATION FairSpec
CONSTANTS
    Writers = {w1, w2, w3}
    Capacity = 1
CHECK_DEADLOCK FALSE
INVARIANTS TypeOK OkIsDurable NoneForgotten
PROPERTIES EveryWriterAnswered
