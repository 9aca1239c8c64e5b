CONSTANTS
    Size = 3
    Count = 2
    MaxKeys = 7
SPECIFICATION FairSpec
INVARIANTS InOrder NeverEmptyHanded
PROPERTIES InputIsRead
