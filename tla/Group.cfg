SPECIFICATION Spec
CONSTANTS
    None = None
    p1 = p1
    p2 = p2
    p3 = p3
    g1 = g1
    g2 = g2
    Accounts = {p1, p2, p3}
    MAX_GROUP_MEMBERS = 3
    Gids = {g1}
    MaxGroups = 1
    Creators = {p1}
    Name <- MCName
    Photo <- MCPhoto
    Alters = TRUE
    OtherClients = {p2, p3}
    MaxIssued = 5
    MaxRestores = 0
SYMMETRY MCSymmetry
CHECK_DEADLOCK FALSE
INVARIANTS TypeOK LookupFindsOwner
PROPERTY ImplementsLog
