SPECIFICATION Spec
CONSTANTS
    Requests = {r1, r2, r3}
    Ops = {"read", "put", "create", "update", "delete"}
    MaxRestarts = 1
SYMMETRY Symmetry
CHECK_DEADLOCK FALSE
INVARIANTS TypeOK CoherentUnlessOvertaken
