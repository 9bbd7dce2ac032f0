SPECIFICATION LiveSpec
CONSTANTS
    None = None
    p1 = p1
    p2 = p2
    p3 = p3
    g1 = g1
    g2 = g2
    Accounts = {p1, p2, p3}
    MAX_GROUP_MEMBERS = 2
    Gids = {g1, g2}
    MaxGroups = 1
    Creators = {p1}
    Name <- MCName
    Photo <- MCPhoto
    Alters = TRUE
    OtherClients = {}
    MaxIssued = 5
    MaxRestores = 1
CHECK_DEADLOCK FALSE
INVARIANT OnlyIssued
PROPERTIES NeverBack Converges
