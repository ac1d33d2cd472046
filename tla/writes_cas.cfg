SPECIFICATION FairSpec
CONSTANTS
    Requests = {r1, r2, r3}
    Kinds = {"ifMatch","create"}
    Expected = {e0}
    Etags = {e1}
    InitialEtags = {e0, NoEtag}
    AnyEtag = AnyEtag
    NoEtag = NoEtag
    Initial = Initial
    NoObject = NoObject
    NoLock = NoLock
    MaxRestarts = 1
CHECK_DEADLOCK FALSE
INVARIANTS TypeOK CasReplacesExpected OneWinnerPerEtag
PROPERTIES ImplementsAtomicObject EveryRequestAnswered
