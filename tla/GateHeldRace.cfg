CONSTANTS
    new = new
    forced = forced
    offline = offline
    unknown = unknown
    Portals = {new, unknown}
    Kind <- MCKind
    Msgs = {2}
    PortalOf <- MCPortalOf
    History = History
    Flushers = {f1}
    Deleters = {}
    MaxSize = 2
    ForwardSlots = 1
    Failures = FALSE
    Ctl = Ctl
    Net = Net
SPECIFICATION FairSpec
CHECK_DEADLOCK FALSE
PROPERTIES HeldReplayed
