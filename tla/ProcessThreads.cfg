CONSTANTS
    MAX_PROCESSES = 3
    NUM_FILES = 4
    NUM_OPEN_FILES = 3
    Channels = {c1}
    ExitStatuses = {1}
    HasInit = FALSE
    ForkedMayReturn = FALSE
    MaxPid = 4
    Closable = {0}
SPECIFICATION FairSpec
INVARIANTS
    TrampolineNeverResumes
    RefcntExact
PROPERTIES
    NoStarvation
    WaitReturns
