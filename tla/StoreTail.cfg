CONSTANTS
    g1 = g1
    g2 = g2
    g3 = g3
    p1 = p1
    p2 = p2
    c1 = c1
    c2 = c2
    NoPortal = NoPortal
    NoChat = NoChat
    Guid = {g1, g2}
    Portal = {p1}
    AppleChat = {c1}
    SourceOf <- MCSiblings
    HomePortal <- MCHome
    ChatPortals <- MCOnePortal
    Sent <- MCSent
    Cap = 1
    Filterable = {}
    Removable = {}
    Restorable = {p1}
    Retractable = {}
    Recyclable = {}
    Faults = FALSE
    BridgeFiltered = FALSE
    Seedable <- MCSeeds
    MaxOutside = 5
SPECIFICATION MCSpec
CHECK_DEADLOCK FALSE
PROPERTIES RestoreKeepsText
