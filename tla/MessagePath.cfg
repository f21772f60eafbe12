CONSTANTS
    Components = {"media", "retry", "retraction", "sync", "history", "annotations", "albums", "notices"}
    Records = {"neg", "gone"}
    RealSize <- MCRealSize
    Word = 16
    MaxAttachmentBytes = 15
    MaxInFlightBytes = 3
    MaxParallel = 2
    MaxAttachmentRetries = 2
    Gone = {"gone"}
    Multi = FALSE
    MaxSyncPasses = 2
    MaxMediaFaults = 2
    Atts = {0}
    HasText = TRUE
    RetrierMaxAttempts = 3
    MaxRetryFaults = 2
    Splits = {"chunks", "caption", "puppet", "inbound"}
    Chunks = 2
    Peer = {9}
    MaxSendFaults = 1
    Feed <- MCFeed
    Early <- MCEarly
    ChatOf <- MCChatOf
    AttsOf <- MCAttsOf
    Bare = {"m2"}
    ZoneErrors = 2
    Delays = 2
    MaxZoneFaults = 3
    Stamp <- MCStamp
    Late = {1}
    Count = 2
    DeferBound = 2
    Loops = {1, 2}
    MaxHistoryFaults = 3
    Reactions = {"love"}
    EditSizes = {1, 3}
    Attempts = 3
    InsertBy = 2
    Plans <- MCPlans
    MaxAnnotationFaults = 1
    Albums = {"a", "b"}
    AssetsAtStart = 1
    Inputs <- MCReplies
    ListMax = 2
    Downloads = {1}
    Handlers = {1, 2}
    MaxAlbumEdits = 3
    BrowseEdits = 1
    MaxBrowses = 2
    MaxAlbumFaults = 1
SPECIFICATION Path
CHECK_DEADLOCK FALSE
INVARIANTS SplitSendsTracked NothingSkipped BackfillBooksHold EditShowsText GoneLeftAlone RetryAccounted
PROPERTIES FanOutsBoundedAndEnd PendingRowsGo RetractedGoesAway FirstSyncFinishes HistoryArrives AnnotationsSettle DownloadsEndTruthfully
