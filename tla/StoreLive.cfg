CONSTANTS
    g1 = g1
    g2 = g2
    g3 = g3
    p1 = p1
    p2 = p2
    c1 = c1
    c2 = c2
    NoPortal = NoPortal
    NoChat = NoChat
    Guid = {g1}
    Portal = {p1}
    AppleChat = {c1}
    SourceOf <- MCLegacy
    HomePortal <- MCHome
    ChatPortals <- MCOnePortal
    Sent <- MCSent
    Cap = 0
    Filterable = {c1}
    Removable = {p1}
    Restorable = {p1}
    Retractable = {}
    Recyclable = {}
    Faults = TRUE
    BridgeFiltered = FALSE
    Seedable = {}
    MaxOutside = 4
SPECIFICATION MCFairSpec
CHECK_DEADLOCK FALSE
PROPERTIES OwedTextGoes
