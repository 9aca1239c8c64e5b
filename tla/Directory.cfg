SPECIFICATION Spec
CONSTANTS
    DIRECTORY_NAME_SIZE = 2
    NUM_INODE = 3
    EntriesPerBlock = 2
    MaxEntries = 4
    Type <- MCType
    Characters <- MCCharacters
    Refs = {r1, r2}
    Links <- MCLinks
    Paths <- MCPaths
SYMMETRY RefSymmetry
INVARIANTS NamesUnique LinkedFound PathsResolve RefsExact
