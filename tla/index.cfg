SPECIFICATION Spec
CONSTANTS
    Requests = {r1, r2}
    Keys = {k1, k2}
    Ops = {"put", "copy", "delete", "move"}
    MaxRestarts = 2
SYMMETRY Symmetry
CHECK_DEADLOCK FALSE
INVARIANTS TypeOK ListedExactly MoveStaysListed
PROPERTIES ReconcileExact
