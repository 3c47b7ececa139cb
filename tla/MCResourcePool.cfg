CONSTANTS
    BLOCK_SIZE = 2
    HANDLE_GENERATIONS = 2
    SLOT_GENERATIONS = 3
    MAX_INDEX = 4
    MAX_CREATES = 6
SPECIFICATION Spec
INVARIANTS
    TypeOK
    BlockListConsistent
    SlotPerResource
    BadDataAlwaysThere
    LiveHandleResolves
    StaleHandleRejected
    GenerationsTrackReuse
CHECK_DEADLOCK TRUE
