SPECIFICATION Spec
CONSTANTS
    None = None
    MAX_SKIP = 3
    MAX_SKIPPED_KEYS = 2
    MAX_RETIRED_DH_KEYS = 1
    OldIds <- MCOldIds
    MaxPassed = 1
    MaxUntil = 3
INVARIANTS
    LoopComputesSkip
PROPERTIES
    EndsWithinCap
CHECK_DEADLOCK FALSE
