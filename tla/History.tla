---- MODULE History ----
(***************************************************************************)
(* How the history of one conversation reaches its room on a homeserver    *)
(* without batch sending: forward backfill, the backward backfill task,    *)
(* the loop that dispatches the task (synapse_backfill.go) and what a      *)
(* start of the bridge does about unfinished tasks.                        *)
(*                                                                         *)
(* A row of cloud_message is a number; rows sort by timestamp, then GUID,  *)
(* and the GUIDs sort as the numbers do.  Without batch sending a batch is *)
(* delivered event by event, oldest first.  The number of deferrals is     *)
(* kept up to one past its bound, beyond which the code only logs it.  The *)
(* configuration is the one that runs the loop: CloudKit backfill, with no *)
(* cap on the initial messages; every other one returns an empty page.     *)
(***************************************************************************)
EXTENDS Naturals, FiniteSets, Sequences

CONSTANTS
    Stamp,            \* a sequence: the timestamp of each row
    Late,             \* rows that CloudKit delivers readable only at a later start
    Count,            \* rows in a backward batch
    DeferBound,       \* maxBackwardDeferAttempts
    Loops,            \* starts of the drain loop that Connect may attempt
    MaxHistoryFaults  \* bound: failed reads and sends, restarts

ASSUME HistoryAssumption ==
    /\ Stamp \in Seq(Nat)
    /\ Late \subseteq DOMAIN Stamp
    /\ Count \in Nat \ {0} /\ DeferBound \in Nat /\ MaxHistoryFaults \in Nat

VARIABLES
    stored,     \* rows of cloud_message
    bridged,    \* rows the bridge's message table has
    forward,    \* the forward backfill of this process
    fwdDone,    \* cloud_chat.fwd_backfill_done
    task,       \* backfill_task: "stranded" is a done task of an older version
    fresh,      \* a row was written after completed_at
    rearmed,    \* cloud_backfill_reconciled
    boot,       \* how far Connect has come
    registered, \* synapseDrainRunning
    drain,      \* the drain loops
    defers,     \* backwardDeferCounts
    excuse,     \* what has happened that no retry makes up for
    historyFaults

historyVars == <<stored, bridged, forward, fwdDone, task, fresh, rearmed, boot, registered,
                 drain, defers, excuse, historyFaults>>

Rows == DOMAIN Stamp
Older(r, s) == Stamp[r] < Stamp[s] \/ (Stamp[r] = Stamp[s] /\ r < s)
Newest(n, S) == {r \in S : Cardinality({s \in S : Older(r, s)}) < n}
Oldest(S) == CHOOSE r \in S : \A s \in S \ {r} : Older(r, s)
listLatestMessages(n) == Newest(n, stored)
listBackwardMessages(before, n) == Newest(n, {r \in stored : Older(r, before)})
listForwardMessages(after) == {r \in stored : Older(after, r)}

\* The message table is asked by timestamp alone: of several rows, any one.
FirstBridged == {r \in bridged : \A s \in bridged : Stamp[r] <= Stamp[s]}
LastBridged == {r \in bridged : \A s \in bridged : Stamp[s] <= Stamp[r]}

NoForward == [pc |-> "none", todo |-> {}, sent |-> FALSE]
NoBatch == [rows |-> {}, cursor |-> 0, more |-> FALSE, sent |-> FALSE, recovery |-> FALSE]
NoLoop == [pc |-> "off", batch |-> NoBatch]

\* A new conversation, one an older version stranded, one whose rows are gone.
HistoryInit ==
    /\ \/ stored = Rows \ Late /\ task = [state |-> "none", cursor |-> 0] /\ boot = "reconcile"
       \/ stored = Rows \ Late /\ task = [state |-> "stranded", cursor |-> 0] /\ boot = "reconcile"
       \/ stored = {} /\ task = [state |-> "armed", cursor |-> 0] /\ boot = "up"
    /\ bridged = {} /\ forward = NoForward /\ fwdDone = FALSE
    /\ fresh = FALSE /\ rearmed = FALSE /\ registered = {}
    /\ drain = [l \in Loops |-> NoLoop]
    /\ defers = 0 /\ excuse = {} /\ historyFaults = 0

HistoryFault == historyFaults < MaxHistoryFaults /\ historyFaults' = historyFaults + 1
NoHistoryFault == UNCHANGED historyFaults
IsDone == task.state \in {"done", "stranded"}

-----------------------------------------------------------------------------
(* A start of the bridge.                                                  *)

Stranded == IsDone /\ stored # {} /\ bridged = {} /\ ~rearmed

reconcileStrandedBackfills ==
    /\ boot = "reconcile" /\ boot' = "ingest"
    /\ \/ /\ HistoryFault
          /\ excuse' = excuse \cup {"not reconciled"}
          /\ UNCHANGED <<task, rearmed>>
       \/ /\ NoHistoryFault
          /\ excuse' = excuse \ {"not reconciled"}
          /\ IF Stranded
               THEN task' = [task EXCEPT !.state = "armed"] /\ rearmed' = TRUE
               ELSE UNCHANGED <<task, rearmed>>
    /\ UNCHANGED <<stored, bridged, forward, fwdDone, fresh, registered, drain, defers>>

IngestLate ==
    /\ boot = "ingest" /\ boot' = "portals"
    /\ \/ UNCHANGED <<stored, fresh>>
       \/ /\ ~(Late \subseteq stored)
          /\ stored' = stored \cup Late /\ fresh' = TRUE
    /\ UNCHANGED <<bridged, forward, fwdDone, task, rearmed, registered, drain, defers, excuse,
                   historyFaults>>

portalsFullyBackfilledNoNewContent == IsDone /\ ~fresh

\* No row here is newer than the newest contentful one, so nothing is forced.
NeedsForward == \/ bridged = {}
                \/ \E r \in stored : \A s \in bridged : Stamp[s] < Stamp[r]

createPortalsFromCloudSync ==
    /\ boot = "portals" /\ boot' = "up"
    /\ \E readFails \in BOOLEAN :   \* then nothing is skipped
         /\ IF readFails THEN HistoryFault ELSE NoHistoryFault
         /\ IF stored = {} \/ (~readFails /\ portalsFullyBackfilledNoNewContent)
              THEN UNCHANGED <<forward, task>>
              ELSE /\ forward' = IF NeedsForward THEN [NoForward EXCEPT !.pc = "queued"]
                                 ELSE forward
                   /\ task' = [state |-> "armed", cursor |-> 0]
    /\ UNCHANGED <<stored, bridged, fwdDone, fresh, rearmed, registered, drain, defers, excuse>>

\* A batch that was partly delivered is taken up by nobody.
Torn(begun) == IF begun THEN excuse \cup {"torn"} ELSE excuse

HistoryRestart ==
    /\ HistoryFault
    /\ boot' = "reconcile" /\ forward' = NoForward /\ registered' = {} /\ defers' = 0
    /\ drain' = [l \in Loops |-> NoLoop]
    /\ excuse' = Torn(forward.sent \/ \E l \in Loops : drain[l].batch.sent)
    /\ UNCHANGED <<stored, bridged, fwdDone, task, fresh, rearmed>>

-----------------------------------------------------------------------------
(* Forward backfill.                                                       *)

ForwardFetches ==
    /\ forward.pc = "queued"
    /\ \/ HistoryFault /\ forward' = [forward EXCEPT !.pc = "failed"] /\ UNCHANGED fwdDone
       \/ /\ NoHistoryFault
          /\ \E todo \in IF bridged = {} THEN {listLatestMessages(Len(Stamp))}
                         ELSE {listForwardMessages(a) : a \in LastBridged} :
               /\ forward' = [forward EXCEPT !.pc = IF todo = {} THEN "done" ELSE "sending",
                                             !.todo = todo]
               /\ fwdDone' = (fwdDone \/ todo = {})
    /\ UNCHANGED <<stored, bridged, task, fresh, rearmed, boot, registered, drain, defers, excuse>>

ForwardSends ==
    /\ forward.pc = "sending" /\ forward.todo # {}
    /\ bridged' = bridged \cup {Oldest(forward.todo)}
    /\ forward' = [forward EXCEPT !.todo = @ \ {Oldest(forward.todo)}, !.sent = TRUE]
    /\ UNCHANGED <<stored, fwdDone, task, fresh, rearmed, boot, registered, drain, defers, excuse,
                   historyFaults>>

\* The send fails: the CompleteCallback never runs.
ForwardFails ==
    /\ forward.pc = "sending" /\ forward.todo # {}
    /\ HistoryFault
    /\ excuse' = Torn(forward.sent)
    /\ forward' = [NoForward EXCEPT !.pc = "failed"]
    /\ UNCHANGED <<stored, bridged, fwdDone, task, fresh, rearmed, boot, registered, drain, defers>>

ForwardCompletes ==
    /\ forward.pc = "sending" /\ forward.todo = {}
    /\ forward' = [NoForward EXCEPT !.pc = "done"] /\ fwdDone' = TRUE
    /\ UNCHANGED <<stored, bridged, task, fresh, rearmed, boot, registered, drain, defers, excuse,
                   historyFaults>>

-----------------------------------------------------------------------------
(* The drain loop.                                                         *)

\* Mutation: every Connect starts a loop of its own.
startSynapseBackfillDrainAlways(l) ==
    /\ boot = "up" /\ drain[l].pc = "off"
    /\ registered' = registered \cup {l}
    /\ drain' = [drain EXCEPT ![l] = [@ EXCEPT !.pc = "wait"]]
    /\ UNCHANGED <<stored, bridged, forward, fwdDone, task, fresh, rearmed, boot, defers, excuse,
                   historyFaults>>

startSynapseBackfillDrain(l) ==
    /\ boot = "up" /\ drain[l].pc = "off" /\ registered = {}
    /\ registered' = {l}
    /\ drain' = [drain EXCEPT ![l] = [@ EXCEPT !.pc = "wait"]]
    /\ UNCHANGED <<stored, bridged, forward, fwdDone, task, fresh, rearmed, boot, defers, excuse,
                   historyFaults>>

\* The wait for the first forward backfills ends with them, or after 30 minutes.
waitForStart(l) ==
    /\ drain[l].pc = "wait"
    /\ drain' = [drain EXCEPT ![l] = [@ EXCEPT !.pc = "idle"]]
    /\ UNCHANGED <<stored, bridged, forward, fwdDone, task, fresh, rearmed, boot, registered,
                   defers, excuse, historyFaults>>

Dispatched(l) == drain[l].pc = "idle" /\ task.state = "armed"

Respond(l, batch) ==
    /\ drain' = [drain EXCEPT ![l] = [pc |-> "send", batch |-> batch]]
    /\ UNCHANGED <<stored, bridged, forward, fwdDone, task, fresh, rearmed, boot, registered, excuse>>

Nothing(more) == [NoBatch EXCEPT !.more = more]
Batch(rows, more, recovery) ==
    [rows |-> rows, cursor |-> IF more THEN Oldest(rows) ELSE 0, more |-> more, sent |-> FALSE,
     recovery |-> recovery]

FetchPage(l) ==
    /\ Dispatched(l)
    /\ \E before \in IF task.cursor # 0 THEN {task.cursor} ELSE FirstBridged :
         LET found == listBackwardMessages(before, Count + 1)
         IN  Respond(l, Batch(Newest(Count, found), Cardinality(found) > Count, FALSE))
    /\ NoHistoryFault /\ UNCHANGED defers

\* Mutation: a failed read says that there is no history.
HasHistoryRead(failed) == stored # {} /\ failed # "exists"
HasHistory(failed) == stored # {} \/ failed = "exists"

\* Mutation: there is no bound.
DeferExceededNever(n) == FALSE
DeferExceeded(n) == n > DeferBound

Recovered(failed) ==
    IF failed = "recovery" THEN Nothing(TRUE)
    ELSE IF stored = {} THEN Nothing(FALSE)
    ELSE LET rows == listLatestMessages(Count)
         IN  Batch(rows, Cardinality(rows) = Count, TRUE)

\* failed names the read that fails, if one does.
FetchWithoutAnchor(l, failed) ==
    /\ Dispatched(l) /\ task.cursor = 0 /\ bridged = {}
    /\ IF failed = "none" THEN NoHistoryFault ELSE HistoryFault
    /\ LET isForwardBackfillDone == fwdDone /\ failed # "flag"
           waits == ~isForwardBackfillDone /\ HasHistory(failed)
           count == IF ~waits THEN 0 ELSE IF defers > DeferBound THEN defers ELSE defers + 1
       IN  /\ defers' = count
           /\ \/ /\ waits /\ ~DeferExceeded(count)
                 /\ Respond(l, Nothing(TRUE))
              \/ /\ ~isForwardBackfillDone /\ ~waits
                 /\ Respond(l, Nothing(FALSE))
              \/ /\ isForwardBackfillDone \/ (waits /\ DeferExceeded(count))
                 /\ Respond(l, Recovered(failed))

\* Any other failed read leaves the task for the next dispatch.
FetchFails(l) ==
    /\ Dispatched(l) /\ HistoryFault
    /\ UNCHANGED <<stored, bridged, forward, fwdDone, task, fresh, rearmed, boot, registered, drain,
                   defers, excuse>>

SendBatch(l) ==
    /\ drain[l].pc = "send" /\ drain[l].batch.rows # {}
    /\ LET batch == drain[l].batch
           r == Oldest(batch.rows)
       IN  /\ bridged' = bridged \cup {r}
           /\ drain' = [drain EXCEPT ![l].batch = [batch EXCEPT !.rows = @ \ {r}, !.sent = TRUE]]
    /\ UNCHANGED <<stored, forward, fwdDone, task, fresh, rearmed, boot, registered, defers, excuse,
                   historyFaults>>

FinishTask(l) ==
    /\ drain[l].pc = "send" /\ drain[l].batch.rows = {}
    /\ LET batch == drain[l].batch
       IN  /\ task' = [state |-> IF batch.more THEN "armed" ELSE "done", cursor |-> batch.cursor]
           /\ fwdDone' = (fwdDone \/ batch.recovery)
           /\ defers' = IF batch.recovery THEN 0 ELSE defers
    /\ fresh' = FALSE
    /\ drain' = [drain EXCEPT ![l] = [pc |-> "idle", batch |-> NoBatch]]
    /\ UNCHANGED <<stored, bridged, forward, rearmed, boot, registered, excuse, historyFaults>>

-----------------------------------------------------------------------------
Failures == {"none", "flag", "exists", "recovery"}

Boots == reconcileStrandedBackfills \/ IngestLate \/ createPortalsFromCloudSync
Forwards == ForwardFetches \/ ForwardSends \/ ForwardCompletes
Fetches(l) == FetchPage(l) \/ \E failed \in Failures : FetchWithoutAnchor(l, failed)
Drains(l) ==
    startSynapseBackfillDrain(l) \/ waitForStart(l) \/ Fetches(l) \/ SendBatch(l) \/ FinishTask(l)

HistoryNext ==
    \/ Boots
    \/ Forwards
    \/ ForwardFails
    \/ HistoryRestart
    \/ \E l \in Loops : Drains(l) \/ FetchFails(l)

\* Connect, the portal's event loop and the drain loop keep running; a timer
\* ends each of their waits.
HistoryFairness ==
    /\ WF_historyVars(Boots) /\ WF_historyVars(Forwards)
    /\ \A l \in Loops : WF_historyVars(Drains(l))

HistorySpec == HistoryInit /\ [][HistoryNext]_historyVars /\ HistoryFairness

-----------------------------------------------------------------------------
(* Properties.                                                             *)

\* A backward task is never finished before the oldest row of the conversation
\* is in the room: HasMore=false is permanent, so no failed read, exhausted
\* deferral or tie of timestamps at a batch boundary may produce it early
\* (client.go FetchMessages, "no path in this function answers a failed read
\* with HasMore=false").
DoneMeansReached ==
    task.state = "done" /\ ~fresh => stored = {} \/ Oldest(stored) \in bridged

\* Two drain loops never hold the same rows for delivery, however often Connect
\* starts the loop (synapse_backfill.go, the registry).
RowsDispatchedOnce ==
    \A l, m \in Loops : l # m => drain[l].batch.rows \cap drain[m].batch.rows = {}

\* The bookkeeping of the backfill tells the truth: finished means reached, and
\* a row under delivery has one owner.
BackfillBooksHold == DoneMeansReached /\ RowsDispatchedOnce

\* The whole history reaches the room, after failed sends and reads and restarts
\* and for portals an older version stranded, unless a batch was cut off half
\* way or the reconciliation itself failed at the last start.
HistoryArrives == <>[](stored \subseteq bridged \/ excuse # {})

\* A record that a later start can read for the first time reaches its room
\* although its message is older than what the room already shows
\* (cloud_backfill_store.go, the comment of portalsFullyBackfilledNoNewContent).
LateRowsArrive == <>[](Late \cap stored \subseteq bridged \/ excuse # {})
====
