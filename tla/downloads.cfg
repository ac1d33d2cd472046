SPECIFICATION Spec
CONSTANTS
    Sizes = {0, 2, 3}
    MaxTime = 4
    MaxWord = 4
    None = None
INVARIANTS WindowIsRight NotModifiedIsCurrent ResumedIsOneVersion
