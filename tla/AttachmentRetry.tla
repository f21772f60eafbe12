--------------------------- MODULE AttachmentRetry ---------------------------
(* Attachments of a live message whose MMCS download failed: the notice in  *)
(* their place, the table pending_attachment_retry and the background       *)
(* retrier, which edits the notice into the media.  Time is left out: a row *)
(* may be due at any tick.                                                  *)
EXTENDS Integers, FiniteSets

CONSTANTS
    Atts,               \* indexes of the message's attachments, from 0
    HasText,            \* liveMessageHasText: the message has a text part
    RetrierMaxAttempts, \* attachmentRetrierMaxAttempts
    MaxRetryFaults      \* bound: faults of the network, the database, crashes

ASSUME RetryAssumption ==
    /\ Atts \subseteq Nat /\ HasText \in BOOLEAN
    /\ RetrierMaxAttempts \in Nat \ {0} /\ MaxRetryFaults \in Nat

VARIABLES
    delivery,        \* the attachment's event: new, enqueued (converted), handled
    part,        \* what its bridge row holds: nothing, notice, media, redacted
    attempts,    \* attempt_count of its pending row, NoRow for no row
    edits,       \* recovery edits in the portal's event queue
    retrier,     \* the retrier's goroutine: the row it works on and its stage
    stranded,    \* history: attachments whose notice a fault left for good
    rows,        \* history: rows stored for the attachment
    downloads,   \* history: failed downloads
    retryFaults

retryVars == <<delivery, part, attempts, edits, retrier, stranded, rows, downloads, retryFaults>>

NoRow == -1
Resting == [pc |-> "idle", att |-> 0, count |-> 0]

RetryInit ==
    /\ delivery = [a \in Atts |-> "new"]
    /\ part = [a \in Atts |-> "nothing"]
    /\ attempts = [a \in Atts |-> NoRow]
    /\ edits = [a \in Atts |-> 0]
    /\ retrier = Resting
    /\ stranded = {} /\ rows = [a \in Atts |-> 0] /\ downloads = [a \in Atts |-> 0] /\ retryFaults = 0

RetryFault == retryFaults < MaxRetryFaults /\ retryFaults' = retryFaults + 1

\* The message ID handleMessage gives the attachment's event.
attachmentID(a) == IF a > 0 \/ HasText THEN <<"att", a>> ELSE <<"uuid">>

\* The message ID the retrier will look for.
makeAttID(a) == IF a = 0 /\ ~HasText THEN <<"uuid">> ELSE <<"att", a>>

\* GetPartByID: the attachment's own row, under the ID stored when it failed.
GetPartByID(a) == makeAttID(a) = attachmentID(a) /\ part[a] \in {"notice", "media"}

-----------------------------------------------------------------------------
(* The portal's event loop *)

\* Mutation: a replayed message starts its budget again.
InsertResets(a) == attempts' = [attempts EXCEPT ![a] = 0]

\* ON CONFLICT DO NOTHING: a replayed message keeps the attempts made so far.
Insert(a) == attempts' = [attempts EXCEPT ![a] = IF @ = NoRow THEN 0 ELSE @]

\* ConvertMessageFunc: enqueuePendingMMCSRecovery, then the notice.
EnqueuePendingMMCSRecovery(a) ==
    /\ delivery[a] = "new" /\ part[a] = "nothing"
    /\ delivery' = [delivery EXCEPT ![a] = "enqueued"]
    /\ \/ Insert(a) /\ UNCHANGED <<stranded, retryFaults>>
          /\ rows' = [rows EXCEPT ![a] = IF attempts[a] = NoRow THEN @ + 1 ELSE @]
       \/ RetryFault /\ stranded' = stranded \cup {a} /\ UNCHANGED <<attempts, rows>>
    /\ UNCHANGED <<part, edits, retrier, downloads>>

\* The framework sends the notice and inserts its row.
SendNotice(a) ==
    /\ delivery[a] = "enqueued"
    /\ delivery' = [delivery EXCEPT ![a] = "handled"]
    /\ part' = [part EXCEPT ![a] = "notice"]
    /\ UNCHANGED <<attempts, edits, retrier, stranded, downloads, retryFaults, rows>>

\* ConvertEditFunc of a recovery edit: findMatchingPart, convertAttachment.
\* The edit is dropped when its conversion or upload fails.
HandleEdit(a) ==
    /\ edits[a] > 0
    /\ edits' = [edits EXCEPT ![a] = @ - 1]
    /\ \/ part' = [part EXCEPT ![a] = IF @ = "notice" THEN "media" ELSE @]
          /\ UNCHANGED <<stranded, retryFaults>>
       \/ RetryFault /\ stranded' = stranded \cup {a} /\ UNCHANGED part
    /\ UNCHANGED <<delivery, attempts, retrier, downloads, rows>>

\* The user redacts the notice, or the portal is wiped.
RedactNotice(a) ==
    /\ part[a] = "notice" /\ RetryFault
    /\ part' = [part EXCEPT ![a] = "redacted"]
    /\ UNCHANGED <<delivery, attempts, edits, retrier, stranded, downloads, rows>>

-----------------------------------------------------------------------------
(* The retrier *)

\* tick: a row of GetDue.
Tick(a) ==
    /\ retrier.pc = "idle" /\ attempts[a] # NoRow
    /\ retrier' = [pc |-> "download", att |-> a, count |-> attempts[a]]
    /\ UNCHANGED <<delivery, part, attempts, edits, stranded, downloads, retryFaults, rows>>

\* downloadViaMMCS, or downloadViaCloudKit after it failed, returns bytes.
DownloadRecovered ==
    /\ retrier.pc = "download"
    /\ retrier' = [retrier EXCEPT !.pc = "deliver"]
    /\ UNCHANGED <<delivery, part, attempts, edits, stranded, downloads, retryFaults, rows>>

\* Both fail, or the bytes are empty.
DownloadsFail ==
    /\ retrier.pc = "download"
    /\ retrier' = [retrier EXCEPT !.pc = "reschedule"]
    /\ downloads' = [downloads EXCEPT ![retrier.att] = @ + 1]
    /\ UNCHANGED <<delivery, part, attempts, edits, stranded, retryFaults, rows>>

\* reschedule: give up at the limit, else UpdateSchedule, whose error is
\* only logged.
Reschedule ==
    LET a == retrier.att
        n == retrier.count + 1
    IN /\ retrier.pc = "reschedule"
       /\ retrier' = Resting
       /\ IF n >= RetrierMaxAttempts
          THEN /\ attempts' = [attempts EXCEPT ![a] = NoRow]
               /\ stranded' = stranded \cup {a} /\ UNCHANGED retryFaults
          ELSE /\ \/ attempts' = [attempts EXCEPT ![a] = IF @ = NoRow THEN @ ELSE n]
                     /\ UNCHANGED retryFaults
                  \/ RetryFault /\ UNCHANGED attempts
               /\ UNCHANGED stranded
       /\ UNCHANGED <<delivery, part, edits, downloads, rows>>

\* Mutation: a row without its notice is left in the table.
DeliverAsEditKeeps ==
    /\ retrier.pc = "deliver"
    /\ IF GetPartByID(retrier.att)
       THEN /\ edits' = [edits EXCEPT ![retrier.att] = @ + 1]
            /\ retrier' = [retrier EXCEPT !.pc = "delete"]
       ELSE retrier' = Resting /\ UNCHANGED edits
    /\ UNCHANGED <<delivery, part, attempts, stranded, downloads, retryFaults, rows>>

\* deliverAsEdit: without a notice in the bridge database the row is dropped,
\* also when the notice is still on its way.
DeliverAsEdit ==
    LET a == retrier.att
    IN /\ retrier.pc = "deliver"
       /\ \/ /\ GetPartByID(a)
             /\ edits' = [edits EXCEPT ![a] = @ + 1]
             /\ retrier' = [retrier EXCEPT !.pc = "delete"]
             /\ UNCHANGED <<stranded, retryFaults>>
          \/ /\ ~GetPartByID(a)
             /\ retrier' = [retrier EXCEPT !.pc = "delete"]
             /\ stranded' = IF part[a] = "nothing" THEN stranded \cup {a} ELSE stranded
             /\ UNCHANGED <<edits, retryFaults>>
          \/ /\ RetryFault
             /\ retrier' = [retrier EXCEPT !.pc = "reschedule"]
             /\ UNCHANGED <<edits, stranded>>
       /\ UNCHANGED <<delivery, part, attempts, downloads, rows>>

\* The row goes after success; when that fails it is found again.
DeleteRow ==
    /\ retrier.pc = "delete"
    /\ retrier' = Resting
    /\ \/ attempts' = [attempts EXCEPT ![retrier.att] = NoRow] /\ UNCHANGED retryFaults
       \/ RetryFault /\ UNCHANGED attempts
    /\ UNCHANGED <<delivery, part, edits, stranded, downloads, rows>>

\* The bridge stops: queued events and edits are gone.  Apple delivers a
\* message it has no acknowledgement for again.
RetryCrash ==
    /\ RetryFault
    /\ retrier' = Resting
    /\ edits' = [a \in Atts |-> 0]
    /\ stranded' = stranded \cup {a \in Atts : edits[a] > 0}
    /\ delivery' = [a \in Atts |-> IF delivery[a] = "enqueued" THEN "new" ELSE delivery[a]]
    /\ UNCHANGED <<part, attempts, downloads, rows>>

RetryNext ==
    \/ \E a \in Atts : EnqueuePendingMMCSRecovery(a) \/ SendNotice(a) \/ HandleEdit(a) \/ RedactNotice(a) \/ Tick(a)
    \/ DownloadRecovered \/ DownloadsFail \/ Reschedule \/ DeliverAsEdit \/ DeleteRow
    \/ RetryCrash

RetryHandles(a) == EnqueuePendingMMCSRecovery(a) \/ SendNotice(a)

RetryWorks == DownloadRecovered \/ DownloadsFail \/ Reschedule \/ DeliverAsEdit \/ DeleteRow

\* The event loop and the retrier's ticker run for as long as the bridge does.
RetryFairness ==
    /\ \A a \in Atts : /\ WF_retryVars(RetryHandles(a))
                       /\ WF_retryVars(HandleEdit(a))
                       /\ WF_retryVars(Tick(a))
    /\ WF_retryVars(RetryWorks)

RetrySpec == RetryInit /\ [][RetryNext]_retryVars /\ RetryFairness

-----------------------------------------------------------------------------

\* A notice nobody will edit any more is one the retrier gave up on or one of
\* the known faults stranded: a row that was not stored, a row dropped before
\* its notice arrived, an edit lost with the queue.  Otherwise its row is
\* pending or its edit is queued (attempt, deliverAsEdit, makeAttID).
NoticeHasOwner ==
    \A a \in Atts : part[a] = "notice" => attempts[a] # NoRow \/ edits[a] > 0 \/ a \in stranded

\* The retry budget holds over restarts and replays: apart from attempts that
\* a fault kept from being written down, the downloads made for a stored row
\* stay within attachmentRetrierMaxAttempts (Insert, reschedule).
RetryBudgetHolds ==
    \A a \in Atts : downloads[a] <= RetrierMaxAttempts * rows[a] + retryFaults

\* The pending table keeps the books of the failed attachments over crashes,
\* replays and lost edits: no notice is forgotten, no attempt is made beyond the
\* budget but what a fault left unwritten (Insert, reschedule, deliverAsEdit).
RetryAccounted == NoticeHasOwner /\ RetryBudgetHolds

\* The table empties, every row ending in an edit or in giving up, although every
\* download may fail (attempt, deliverAsEdit, reschedule).
PendingRowsGo == <>[](\A a \in Atts : attempts[a] = NoRow)

=============================================================================
