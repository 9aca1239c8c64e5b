CONSTANTS
    MAX_PROCESSES = 4
    NUM_FILES = 2
    NUM_OPEN_FILES = 3
    Channels = {}
    ExitStatuses = {1, 2}
    HasInit = TRUE
    ForkedMayReturn = FALSE
    MaxPid = 5
    Closable = {}
SPECIFICATION Spec
INVARIANTS
    TypeOK
    RunsAsItself
    LoadedNotFreed
    NoLostWakeup
    ParentNotFreed
    ExitsConserved
PROPERTIES
    ZombieWaitsForParent
