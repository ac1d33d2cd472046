SPECIFICATION Spec
CONSTANTS
    Requests = {r1, r2, r3}
    Kinds = {"ifMatch"}
    Expected = {e0, e1}
    Etags = {e1, e2}
    InitialEtags = {e0}
    AnyEtag = AnyEtag
    NoEtag = NoEtag
    Initial = Initial
    NoObject = NoObject
    NoLock = NoLock
    MaxRestarts = 0
SYMMETRY Symmetry
CHECK_DEADLOCK FALSE
INVARIANTS OneWinnerPerEtag
