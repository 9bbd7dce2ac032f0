SPECIFICATION Spec
CONSTANTS
    None = None
    MAX_SKIP = 1
    MAX_SKIPPED_KEYS = 2
    MAX_RETIRED_DH_KEYS = 1
    MaxSent = 3
    Garbles = FALSE
    MaxHeader = 0
    Upgraders = {}
    Wipers = {}
INVARIANTS
    ReadIsReplay
