SPECIFICATION Spec
CONSTANTS
    None = None
    Locked = Locked
    SPK_ROTATION_SECS = 2
    SPK_RETENTION_SECS = 3
    OPK_COUNT = 1
    MaxTime = 7
    MaxKeys = 5
    MaxOlder = 2
INVARIANT LegacyBundleRejected
