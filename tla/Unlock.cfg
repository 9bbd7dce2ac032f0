SPECIFICATION Spec
CONSTANTS
    None = None
    Passphrases = {"p", "q"}
    DEFAULT_STEP = 3
    WORD = 64
    SALT_SIZE = 1
    NONCE_SIZE = 1
    Skews <- MCSkews
    MaxTime = 7
    MaxSeals = 2
INVARIANTS TypeOK DecodeIsTotal OpensOnlyWithBoth BothOpen
