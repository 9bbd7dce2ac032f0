SPECIFICATION Spec
CONSTANTS
    None = None
    MAX_SKIP = 2
    MAX_SKIPPED_KEYS = 1
    MAX_RETIRED_DH_KEYS = 1
    MaxSent = 4
    Garbles = TRUE
    MaxHeader = 3
    Upgraders = {}
    Wipers = {}
INVARIANTS
    TypeOK
    LostOnlyToTheCap
    UsedKeysAreGone
    RecentReplayIsReplay
PROPERTIES
    ImplementsChannel
