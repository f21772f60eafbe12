----------------------------- MODULE CloudMedia ------------------------------
(* The attachments of CloudKit history: the pre-upload before portals are   *)
(* created, the one of a forward backfill chunk and the conversion of the   *)
(* chunk's rows all end in downloadAndUploadAttachment, and share the byte  *)
(* budget attachmentByteSem, the caches and the failure tracking.  One      *)
(* attachment-only message per record, all in one portal.                   *)
EXTENDS Integers, FiniteSets, FiniteSetsExt

CONSTANTS
    Records,               \* CloudKit record names
    RealSize,              \* the bytes Apple will serve for a record
    Word,                  \* CloudKit's file_size wraps at this width (2^32)
    MaxAttachmentBytes,    \* max_attachment_size_mb
    MaxInFlightBytes,      \* attachmentMaxInFlightBytes
    MaxParallel,           \* attachmentMaxParallelDownloads
    MaxAttachmentRetries,  \* maxAttachmentRetries
    Gone,                  \* records whose asset Apple no longer serves
    Multi,                 \* the records are attachments of one message
    MaxSyncPasses,         \* bootstrap and delayed re-syncs of one session
    MaxMediaFaults         \* bound: failing calls and restarts

ASSUME MediaAssumption ==
    /\ RealSize \in [Records -> Nat]
    /\ Word \in Nat \ {0} /\ Word % 2 = 0
    /\ MaxAttachmentBytes < Word
    /\ MaxInFlightBytes \in Nat \ {0}
    /\ MaxParallel \in Nat \ {0}
    /\ Gone \subseteq Records

\* preUploadCloudAttachments, preUploadChunkAttachments, and
\* cloudAttachmentsToBackfill in the conversion that follows the chunk.
Passes == {"sync", "chunk", "convert"}
Jobs == Passes \X Records

VARIABLES
    mem,          \* attachmentContentCache
    kept,         \* cloud_attachment_cache
    failed,       \* failedAttachments: retries and abandoned, retries 0 for no entry
    dead,         \* deadAttachments
    deadKept,     \* cloud_attachment_dead
    deadLoaded,   \* deadAttachmentsOnce has run
    job,          \* per goroutine: program counter and the failure entry it read
    fanOuts,      \* passes under way
    mediaRoom,    \* what the room shows for the record's message
    batch,        \* what the conversion has produced for it so far
    unfetched,    \* rows the next forward fetch lists
    syncPasses,   \* passes the controller has made in this session
    told,         \* history: downloads of the record that Apple answered with
                  \* ATTACHMENT_UNRECOVERABLE, over all sessions
    forgot,       \* history: records whose tombstone a fault kept from the table
                  \* or from a session
    mediaFaults   \* faults so far

mediaVars == <<mem, kept, failed, dead, deadKept, deadLoaded, job, fanOuts,
               mediaRoom, batch, unfetched, syncPasses, told, forgot, mediaFaults>>

\* The caches, the tombstones, the chunk and what came of it.
cacheVars == <<mem, kept>>
tombVars == <<dead, deadKept, deadLoaded, forgot>>
chunkVars == <<mediaRoom, batch, unfetched>>

NoFailure == [retries |-> 0, abandoned |-> FALSE]
NoJob == [pc |-> "none", old |-> NoFailure]

\* file_size as CloudKit stores it: an i32 that wraps.
FileSize(r) ==
    LET w == RealSize[r] % Word IN IF w >= Word \div 2 THEN w - Word ELSE w

recoverAttachmentSize(n) == IF n < 0 THEN n + Word ELSE n

\* Mutation: the unwrapped size, whatever the budget is.
clampAttachmentWeightUnclamped(n) == recoverAttachmentSize(n)

\* An unknown or invalid size costs the whole budget.
clampAttachmentWeight(n) ==
    IF n < 1 \/ n > MaxInFlightBytes THEN MaxInFlightBytes ELSE n

\* A lone attachment of a message is converted without the budget.
Budgeted(p) == p # "convert" \/ Multi

HoldsSlot(j) == job[j].pc \notin {"none", "slot"}
HoldsBytes(j) == Budgeted(j[1]) /\ HoldsSlot(j) /\ job[j].pc # "bytes"
BytesInUse ==
    MapThenSumSet(LAMBDA j : clampAttachmentWeight(FileSize(j[2])), {j \in Jobs : HoldsBytes(j)})

\* The blob is in memory from os.ReadFile to the end of the upload.
Resident == {j \in Jobs : job[j].pc = "upload" /\ Budgeted(j[1])}

Exhausted(r) == failed[r].abandoned \/ failed[r].retries >= MaxAttachmentRetries

-----------------------------------------------------------------------------

MediaInit ==
    /\ mem = {} /\ kept = {} /\ dead = {} /\ deadKept = {} /\ deadLoaded = FALSE
    /\ failed = [r \in Records |-> NoFailure]
    /\ job = [j \in Jobs |-> NoJob]
    /\ fanOuts = {}
    /\ mediaRoom = [r \in Records |-> "none"]
    /\ batch = [r \in Records |-> "none"]
    /\ unfetched = Records
    /\ syncPasses = 0
    /\ told = [r \in Records |-> 0] /\ forgot = {}
    /\ mediaFaults = 0

Fault == mediaFaults < MaxMediaFaults /\ mediaFaults' = mediaFaults + 1

\* ensureDeadAttachmentsLoaded, at the first check of the session: an error is
\* logged, and the table is not read again.
loadDeadAttachments == deadKept
LoadedDead(fails) == IF deadLoaded \/ fails THEN dead ELSE dead \cup loadDeadAttachments

NotFound(fails) ==
    IF fails THEN ~deadLoaded /\ Fault /\ forgot' = forgot \cup loadDeadAttachments
             ELSE UNCHANGED <<forgot, mediaFaults>>

loadAttachmentCacheJSON(names) == kept \cap names
restoreAttachmentCache(names) == mem \cup loadAttachmentCacheJSON(names)
cachedAttachmentContent(r) == r \in mem \/ r \in loadAttachmentCacheJSON({r})

\* Rows of a portal whose first forward backfill is not done.
listPendingAttachmentMessages == unfetched

\* A failed attachment whose message is live and still refers to it.
loadCurrentAttachmentRetryRow(r) == failed[r].retries > 0 /\ ~Exhausted(r)

Spawn(p, todo) ==
    /\ fanOuts' = fanOuts \cup {p}
    /\ job' = [j \in Jobs |-> IF j[1] = p /\ j[2] \in todo THEN [NoJob EXCEPT !.pc = "slot"] ELSE job[j]]

\* preUploadCloudAttachments: rows of portals whose first backfill is not
\* done, and messages whose download failed in this session.
PreUploadCloudAttachments(includePending) ==
    /\ "sync" \notin fanOuts /\ syncPasses < MaxSyncPasses
    /\ syncPasses' = syncPasses + 1
    /\ \E fails \in BOOLEAN :
         LET candidates == (IF includePending THEN listPendingAttachmentMessages ELSE {})
                               \cup {r \in Records : loadCurrentAttachmentRetryRow(r)}
             cached == restoreAttachmentCache(candidates)
             checks == ~(candidates \subseteq cached)
             todo == {r \in candidates \ (cached \cup LoadedDead(fails)) : ~Exhausted(r)}
         IN /\ fails => checks
            /\ NotFound(fails)
            /\ mem' = cached
            /\ Spawn("sync", todo)
            /\ dead' = IF checks THEN LoadedDead(fails) ELSE dead
            /\ deadLoaded' = (deadLoaded \/ checks)
    /\ UNCHANGED <<kept, failed, deadKept, chunkVars, told>>

\* FetchMessages(Forward): preUploadChunkAttachments on the rows it lists.
\* It consults neither tombstones nor failures: downloadAndUploadAttachment
\* does the first, nothing the second.
PreUploadChunkAttachments ==
    /\ fanOuts \cap {"chunk", "convert"} = {}
    /\ unfetched # {}
    /\ LET cached == restoreAttachmentCache(unfetched)
       IN mem' = cached /\ Spawn("chunk", unfetched \ cached)
    /\ UNCHANGED <<tombVars, kept, failed, chunkVars, syncPasses, told, mediaFaults>>

\* cloudRowToBackfillMessages on the rows of the chunk.
ConvertChunk ==
    /\ "chunk" \in fanOuts
    /\ \A r \in Records : job[<<"chunk", r>>].pc = "none"
    /\ fanOuts' = (fanOuts \ {"chunk"}) \cup {"convert"}
    /\ job' = [j \in Jobs |-> IF j[1] = "convert" /\ j[2] \in unfetched
                              THEN [NoJob EXCEPT !.pc = "slot"] ELSE job[j]]
    /\ UNCHANGED <<tombVars, cacheVars, failed, chunkVars, syncPasses, told, mediaFaults>>

\* wg.Wait returns when every goroutine of the pass is done.
SyncPassDone ==
    /\ "sync" \in fanOuts
    /\ \A r \in Records : job[<<"sync", r>>].pc = "none"
    /\ fanOuts' = fanOuts \ {"sync"}
    /\ UNCHANGED <<tombVars, cacheVars, failed, job, chunkVars, syncPasses, told, mediaFaults>>

\* The batch is sent and the portal's first backfill is done.  A message
\* that has its media is a duplicate to the framework.
SendMediaBatch ==
    /\ "convert" \in fanOuts
    /\ \A r \in Records : job[<<"convert", r>>].pc = "none"
    /\ fanOuts' = fanOuts \ {"convert"}
    /\ mediaRoom' = [r \in Records |-> IF batch[r] = "none" \/ mediaRoom[r] = "media" THEN mediaRoom[r]
                                       ELSE batch[r]]
    /\ batch' = [r \in Records |-> "none"]
    /\ unfetched' = {}
    /\ UNCHANGED <<tombVars, cacheVars, failed, job, syncPasses, told, mediaFaults>>

\* sem: a slot of the pass.
TakeSlot(j) ==
    /\ job[j].pc = "slot"
    /\ Cardinality({k \in Jobs : k[1] = j[1] /\ HoldsSlot(k)}) < MaxParallel
    /\ job' = [job EXCEPT ![j].pc = IF Budgeted(j[1]) THEN "bytes" ELSE "begin"]
    /\ UNCHANGED <<tombVars, cacheVars, failed, fanOuts, chunkVars, syncPasses, told, mediaFaults>>

\* attachmentByteSem.Acquire, weighted by the size CloudKit reports.
TakeBytes(j) ==
    /\ job[j].pc = "bytes"
    /\ BytesInUse + clampAttachmentWeight(FileSize(j[2])) <= MaxInFlightBytes
    /\ job' = [job EXCEPT ![j].pc = "begin"]
    /\ UNCHANGED <<tombVars, cacheVars, failed, fanOuts, chunkVars, syncPasses, told, mediaFaults>>

\* What the caller does with the outcome: the conversion puts the message,
\* or a notice in its place, in its batch; the pre-uploads drop it.
Produce(j, outcome) ==
    batch' = IF j[1] = "convert" THEN [batch EXCEPT ![j[2]] = outcome] ELSE batch

\* redactCloudAttachmentNotices: the stored content makes the notice stale.
Redact(r) == mediaRoom' = [mediaRoom EXCEPT ![r] = IF @ = "notice" THEN "none" ELSE @]

\* Mutation: the tombstones are loaded and not consulted.
BeginUntombstoned(j) ==
    LET r == j[2]
        skip == recoverAttachmentSize(FileSize(r)) > MaxAttachmentBytes
        hit == ~skip /\ cachedAttachmentContent(r)
    IN /\ job[j].pc = "begin"
       /\ dead' = LoadedDead(FALSE) /\ deadLoaded' = TRUE
       /\ mem' = IF hit THEN mem \cup {r} ELSE mem
       /\ IF hit THEN Redact(r) ELSE UNCHANGED mediaRoom
       /\ IF skip \/ hit THEN Produce(j, IF hit THEN "media" ELSE "notice") ELSE UNCHANGED batch
       /\ job' = [job EXCEPT ![j] = IF skip \/ hit THEN NoJob ELSE [job[j] EXCEPT !.pc = "download"]]
       /\ UNCHANGED <<kept, failed, deadKept, fanOuts, unfetched, syncPasses, told, forgot, mediaFaults>>

\* downloadAndUploadAttachment up to the download: the size gate, the
\* tombstones, the caches.
Begin(j) ==
    \E fails \in BOOLEAN :
    LET r == j[2]
        oversized == recoverAttachmentSize(FileSize(r)) > MaxAttachmentBytes
        skip == oversized \/ r \in LoadedDead(fails)
        hit == ~skip /\ cachedAttachmentContent(r)
    IN /\ job[j].pc = "begin"
       /\ fails => ~oversized
       /\ NotFound(fails)
       /\ IF oversized THEN UNCHANGED <<dead, deadLoaded>>
                       ELSE dead' = LoadedDead(fails) /\ deadLoaded' = TRUE
       /\ mem' = IF hit THEN mem \cup {r} ELSE mem
       /\ IF hit THEN Redact(r) ELSE UNCHANGED mediaRoom
       /\ IF skip \/ hit THEN Produce(j, IF hit THEN "media" ELSE "notice") ELSE UNCHANGED batch
       /\ job' = [job EXCEPT ![j] = IF skip \/ hit THEN NoJob ELSE [job[j] EXCEPT !.pc = "download"]]
       /\ UNCHANGED <<kept, failed, deadKept, fanOuts, unfetched, syncPasses, told>>

\* downloadAttachmentToTempFile succeeds: the real size is known now.
Download(j) ==
    LET r == j[2]
        next == IF RealSize[r] = 0 THEN "fail"
                ELSE IF RealSize[r] > MaxAttachmentBytes THEN "drop" ELSE "upload"
    IN /\ job[j].pc = "download" /\ r \notin Gone
       /\ job' = [job EXCEPT ![j] = IF next = "drop" THEN NoJob
                                    ELSE IF next = "fail" THEN [pc |-> "fail", old |-> failed[r]]
                                    ELSE [job[j] EXCEPT !.pc = "upload"]]
       /\ IF next = "drop" THEN Produce(j, "notice") ELSE UNCHANGED batch
       /\ UNCHANGED <<tombVars, mediaRoom, cacheVars, failed, fanOuts, unfetched, syncPasses, told, mediaFaults>>

\* The download fails: for good, when Apple says that the asset is gone, or
\* for now, of whatever record (a timeout, an FFI panic, the network, a full
\* disk).
DownloadFails(j) ==
    LET failure(pc) == job' = [job EXCEPT ![j] = [pc |-> pc, old |-> failed[j[2]]]]
    IN /\ job[j].pc = "download"
       /\ \/ /\ j[2] \in Gone /\ failure("gone")
             /\ told' = [told EXCEPT ![j[2]] = @ + 1]
             /\ UNCHANGED mediaFaults
          \/ Fault /\ failure("fail") /\ UNCHANGED told
       /\ UNCHANGED <<tombVars, cacheVars, failed, fanOuts, chunkVars, syncPasses>>

\* recordAttachmentFailure and markAttachmentDead, from the entry read before.
\* An error of saveDeadAttachment is ignored.
RecordAttachmentFailure(j) ==
    LET r == j[2]
        old == job[j].old
        tries == old.retries + 1
        gone == job[j].pc = "gone"
    IN /\ job[j].pc \in {"fail", "gone"}
       /\ failed' = [failed EXCEPT ![r] =
              [retries |-> tries, abandoned |-> old.abandoned \/ gone \/ tries >= MaxAttachmentRetries]]
       /\ dead' = IF gone THEN dead \cup {r} ELSE dead
       /\ \/ /\ deadKept' = IF gone /\ r \notin dead THEN deadKept \cup {r} ELSE deadKept
             /\ UNCHANGED <<forgot, mediaFaults>>
          \/ /\ gone /\ r \notin dead /\ Fault
             /\ forgot' = forgot \cup {r} /\ UNCHANGED deadKept
       /\ Produce(j, "notice")
       /\ job' = [job EXCEPT ![j] = NoJob]
       /\ UNCHANGED <<mediaRoom, cacheVars, deadLoaded, fanOuts, unfetched, syncPasses, told>>

\* UploadMedia succeeds: the caches, the failure entry, the notice.
Upload(j) ==
    /\ job[j].pc = "upload"
    /\ mem' = mem \cup {j[2]} /\ kept' = kept \cup {j[2]}
    /\ failed' = [failed EXCEPT ![j[2]] = NoFailure]
    /\ Redact(j[2]) /\ Produce(j, "media")
    /\ job' = [job EXCEPT ![j] = NoJob]
    /\ UNCHANGED <<tombVars, fanOuts, unfetched, syncPasses, told, mediaFaults>>

UploadFails(j) ==
    /\ job[j].pc = "upload"
    /\ Fault
    /\ job' = [job EXCEPT ![j] = [pc |-> "fail", old |-> failed[j[2]]]]
    /\ UNCHANGED <<tombVars, cacheVars, failed, fanOuts, chunkVars, syncPasses, told>>

\* The process stops and starts: only the tables survive.
MediaRestart ==
    /\ Fault
    /\ mem' = {} /\ dead' = {} /\ deadLoaded' = FALSE /\ fanOuts' = {} /\ syncPasses' = 0
    /\ failed' = [r \in Records |-> NoFailure]
    /\ job' = [j \in Jobs |-> NoJob]
    /\ batch' = [r \in Records |-> "none"]
    /\ forgot' = forgot \cup {r \in Records \ deadKept : \E p \in Passes : job[<<p, r>>].pc = "gone"}
    /\ UNCHANGED <<kept, deadKept, mediaRoom, unfetched, told>>

JobStep(j) ==
    TakeSlot(j) \/ TakeBytes(j) \/ Begin(j) \/ Download(j) \/ DownloadFails(j)
    \/ RecordAttachmentFailure(j) \/ Upload(j)

MediaNext ==
    \/ \E b \in BOOLEAN : PreUploadCloudAttachments(b)
    \/ PreUploadChunkAttachments
    \/ ConvertChunk
    \/ SyncPassDone
    \/ SendMediaBatch
    \/ \E j \in Jobs : JobStep(j) \/ UploadFails(j)
    \/ MediaRestart

\* Every goroutine runs; a waiter for bytes gets them once they stay free.
MediaFairness ==
    /\ WF_mediaVars(SyncPassDone \/ ConvertChunk \/ SendMediaBatch)
    /\ \A j \in Jobs : WF_mediaVars(JobStep(j)) /\ WF_mediaVars(TakeBytes(j))

MediaSpec == MediaInit /\ [][MediaNext]_mediaVars /\ MediaFairness

-----------------------------------------------------------------------------

\* The attachments that the fan-outs hold in memory fit the shared budget, or
\* a single one is held alone, whatever size CloudKit reported for them
\* (attachmentByteSem, clampAttachmentWeight).
FanOutFitsBudget ==
    \/ MapThenSumSet(LAMBDA j : RealSize[j[2]], Resident) <= MaxInFlightBytes
    \/ Cardinality(Resident) <= 1

\* Apple says of an asset twice at most that it is gone, over all sessions and
\* whatever retriable errors, retries and restarts come in between: to a sync
\* pass and to a chunk's that are under way when it is first said.  From then
\* on nobody asks: the tombstone outlives restarts, if no fault kept it from the
\* table or a session from reading it (markAttachmentDead, isDeadAttachment).
GoneLeftAlone == \A r \in Gone \ forgot : told[r] <= 2

\* The memory that fan-outs take is bounded, over all sync passes, retries and
\* restarts; and every fan-out comes to its end: no goroutine waits for a budget
\* it can never get or for a slot nobody gives back, so wg.Wait returns and the
\* portal's event loop goes on.
FanOutsBoundedAndEnd == []FanOutFitsBudget /\ <>[](fanOuts = {})

=============================================================================
