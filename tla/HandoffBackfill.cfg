CONSTANTS
    m1 = m1
    p1 = p1
    p2 = p2
    text = text
    att = att
    reuse = reuse
    NoPortal = NoPortal
    Msg = {m1}
    Portal <- MCPortal
    Copy = {text, att, reuse}
    MsgOf <- MCMsgOf
    PortalOf <- MCPortalOf
    Backfills = TRUE
SPECIFICATION Spec
CHECK_DEADLOCK FALSE
INVARIANTS VisibleCopyIsFindable
PROPERTIES RedactsOnlyDeletedPortal
