SPECIFICATION Spec

CONSTANTS
    r1 = r1
    r2 = r2
    Size = 8
    NumInodes = 3
    FSBLOCK_SIZE = 2
    NDIRECT = 1
    NUM_INODE = 2
    Refs = {r1, r2}
    Values = {1}
    Counts = {1, 3}
    WriteMayFail = FALSE
    FailingReads = {}
    Crashes = {"format"}
    MaxCrashes = 1
    MaxWrites = 0

SYMMETRY RefSymmetry

INVARIANTS
    MagicMeansFormatted
