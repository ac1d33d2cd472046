SPECIFICATION Spec
CONSTANTS
    Requests = {r1, r2, r3}
    Parts = {1, 2}
    Contents = {a, b}
    NoPart = NoPart
    NoObject = NoObject
    MaxRestarts = 1
SYMMETRY Symmetry
CHECK_DEADLOCK FALSE
INVARIANTS TypeOK AssembledAsAsked AckedPartsStay AbortedStaysGone NoSuchUploadMeansEnded
