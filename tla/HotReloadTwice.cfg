CONSTANTS
    MAX_PRESSES = 3
    MAX_EDITS = 2
    None = None
SPECIFICATION Spec
INVARIANT
    ActiveAppRegistered
