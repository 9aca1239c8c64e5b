SPECIFICATION Spec

CONSTANTS
    r1 = r1
    r2 = r2
    Size = 8
    NumInodes = 3
    FSBLOCK_SIZE = 2
    NDIRECT = 1
    NUM_INODE = 1
    Refs = {r1, r2}
    Values = {1}
    Counts = {1, 3}
    WriteMayFail = TRUE
    FailingReads = {"mount", "run"}
    Crashes = {}
    MaxCrashes = 0
    MaxWrites = 2

SYMMETRY RefSymmetry

CHECK_DEADLOCK FALSE

INVARIANTS
    AllocatedOnce
