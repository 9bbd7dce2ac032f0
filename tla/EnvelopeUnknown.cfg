SPECIFICATION Spec
CONSTANTS
    Texts = {hello}
    Wrong = Wrong
    None = None
    Empty = Empty
INVARIANT UnknownFieldsRejected
CHECK_DEADLOCK FALSE
