CONSTANTS
    Guids = {"g1", "g2", "g3"}
    GroupOf <- MCGroupOf
    People = {"a", "b", "c"}
    FirstMembers <- MCFirstMembers
    Legacy = {{"a", "c"}}
    MaxRoutes = 3
    MaxChanges = 1
    Card <- MCCard
    Spellings <- MCSpellings
    ChatDB <- MCChatDB
    OldRooms = {"telsms"}
    MaxDeliveries = 2
    MaxSends = 2
    MaxRouteFaults = 1
    Portals = {"x", "y"}
    MaxMessages = 2
    Sent0 <- MCSent0
    InBin0 = {"y"}
    Suffix = 2
    HintFloor = 2
    MaxEvents = 2
    MaxStarts = 2
    MaxDevices = 2
    MaxLogins = 1
    MaxSaves = 2
    MaxClients = 2
    MaxBoots = 2
    MaxSessionFaults = 2
    maxTwoFactorAttempts = 2
    Nameless = {2}
    AnonymousClient = FALSE
INIT MCInit
NEXT MCNext
CHECK_DEADLOCK FALSE
INVARIANTS OneRoomPerGroup SendsFollowRoute ContactKeepsRoom ScanKeepsVerdicts ResetRestores
PROPERTIES BackupKept DeviceReused
