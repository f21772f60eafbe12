CONSTANTS
    new = new
    forced = forced
    offline = offline
    unknown = unknown
    Portals = {new, unknown}
    Kind <- MCKind
    Msgs = {1, 2}
    PortalOf <- MCPortalOf
    History = History
    Flushers = {f1}
    Deleters = {u}
    MaxSize = 2
    ForwardSlots = 1
    Failures = TRUE
    Ctl = Ctl
    Net = Net
SPECIFICATION Spec
CHECK_DEADLOCK FALSE
INVARIANTS NotDropped NoEarlyRoom HistoryFirstInNewRooms
 
