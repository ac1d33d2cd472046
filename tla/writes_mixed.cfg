SPECIFICATION Spec
CONSTANTS
    Requests = {r1, r2, r3}
    Kinds = {"put", "create", "delete"}
    Expected = {}
    Etags = {e1}
    InitialEtags = {e1}
    AnyEtag = AnyEtag
    NoEtag = NoEtag
    Initial = Initial
    NoObject = NoObject
    NoLock = NoLock
    MaxRestarts = 1
CHECK_DEADLOCK FALSE
INVARIANTS AckedDurable CreateOnly
