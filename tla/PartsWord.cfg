SPECIFICATION Spec
CONSTANTS
    None = None
    Garbage = Garbage
    Bases = {"a", "dot"}
    Ids = {1, 2}
    MaxDeps = 1
    MaxStarts = 2
    MemSize = 3
    MaxScopes = 2
    Strs = {"s", "t"}
    Texts = {"x"}
    Allocators = {"D", "S"}
    DefaultAllocator = "D"
    MaxBuffers = 3
    MaxLen = 4
    MaxCalls = 4
    Empty = ""
    FileRefs = {"a", "b"}
    FileHandles = {"h1", "h2", "h3"}
    MaxLoads = 2
    MaxListed = 3
    LockCopies = {"a", "b"}
    LockSlots = {1, 2}
    MaxUnloads = 2
    LockValues = {0, 1}
    MaxScenes = 2
    MaxSwaps = 2
INVARIANT
    PartsKeepTheirWord
CHECK_DEADLOCK FALSE
