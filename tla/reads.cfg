SPECIFICATION Spec
CONSTANTS
    Requests = {r1, r2, r3}
    Keys = {k1, k2}
    Kinds = {"put", "delete", "copy", "move", "chmod", "head", "get"}
    NoFile = NoFile
    Unset = Unset
    BucketLevel = "private"
SYMMETRY Symmetry
CHECK_DEADLOCK FALSE
INVARIANTS GetServesOneVersion HeadIsOfItsTime EtagMatchesBytes
