CONSTANTS
    g1 = g1
    g2 = g2
    g3 = g3
    p1 = p1
    p2 = p2
    c1 = c1
    c2 = c2
    NoPortal = NoPortal
    NoChat = NoChat
    Guid = {g1}
    Portal = {p1, p2}
    AppleChat = {c1}
    SourceOf <- MCLegacy
    HomePortal <- MCHome
    ChatPortals <- MCAnyPortal
    Sent <- MCSent
    Cap = 0
    Filterable = {}
    Removable = {p1}
    Restorable = {p1}
    Retractable = {g1}
    Recyclable = {g1}
    Faults = TRUE
    BridgeFiltered = FALSE
    Seedable = {}
    MaxOutside = 5
SPECIFICATION MCSpec
CHECK_DEADLOCK FALSE
INVARIANTS ScrubbedIsEmpty
PROPERTIES TombstoneDurable ScrubsOnlyDelivered
