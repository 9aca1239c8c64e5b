SPECIFICATION Spec
CONSTANTS
    NBUF = 2
    Blocks = {0, 1, 2}
    Values = {0, 1}
    Refs = {r1, r2, r3}
    Interfaces = {"BlockRef"}
    ReadMayFail = TRUE
    WriteMayFail = TRUE
    UpdateMayFail = TRUE
INVARIANT CleanMatchesDisk
