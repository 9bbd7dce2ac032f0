SPECIFICATION Spec
CONSTANTS
    None = None
    MAX_SKIP = 2
    MAX_SKIPPED_KEYS = 1
    MAX_RETIRED_DH_KEYS = 1
    MaxSent = 4
    Garbles = FALSE
    MaxHeader = 0
    Upgraders = {"initiator", "responder"}
    Wipers = {"responder"}
INVARIANTS
    LostOnlyToTheCap
    BankOrder
    UsedKeysAreGone
    WipedHoldsNothing
PROPERTIES
    ImplementsChannel
