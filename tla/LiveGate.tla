------------------------------ MODULE LiveGate ------------------------------
(***************************************************************************)
(* The gate between live APNs messages and the first CloudKit sync         *)
(* (pkg/connector/client.go, sync_controller.go, backfill_semaphore.go).   *)
(*                                                                         *)
(* Until cloudSyncDone is set, messageBuffer collects messages and nothing *)
(* flushes it; a message that is dispatched anyway and has no room yet is  *)
(* held in pendingPortalMsgs.  The sync controller counts the portals that *)
(* need a first backfill, queues a ChatResync for every candidate, opens   *)
(* the gate and then leaves the flush to whoever brings                    *)
(* pendingInitialBackfills to 0, or to a safety net.                       *)
(*                                                                         *)
(* A flush runs in whatever goroutine asked for it: the controller, the    *)
(* safety net, a buffer timer, the handler of a chat deletion in Matrix,   *)
(* or the event loop of the portal whose backfill came last.  It takes the *)
(* entries under a lock and dispatches them one by one without it, so      *)
(* several flushes interleave with each other and with the gate.           *)
(*                                                                         *)
(* Messages are their timestamps.  Portals are never deleted here: a chat  *)
(* deletion is a flush on behalf of some portal outside Portals.           *)
(***************************************************************************)
EXTENDS Integers, Sequences, FiniteSets

CONSTANTS
    Portals,        \* the portals the messages and the history belong to
    Kind,           \* what the sync finds for each portal, see below
    Msgs,           \* live messages, each its own timestamp
    PortalOf,       \* the portal of a message
    History,        \* CloudKit history: a ChatResync in a queue, a batch in a room
    Flushers,       \* goroutines of time.AfterFunc and go b.flush()
    Deleters,       \* chat deletions in Matrix, each handled once
    MaxSize,        \* messageBufferMaxSize
    ForwardSlots,   \* capacity of forwardBackfillSem
    Failures,       \* do queries fail, contexts end, resyncs get lost?
    Ctl, Net        \* the sync controller and its safety net, as flushing agents

\* new: CloudKit history, no room.  forced: a room that must catch up on
\* reactions or rewritten rows (shouldForceCloudBackfill).  offline: a room with
\* messages received while the bridge was down.  unknown: neither room nor
\* candidate, a conversation that starts now.
PortalKind == {"new", "forced", "offline", "unknown"}

Agents == {Ctl, Net} \cup Flushers \cup Deleters \cup Portals

ASSUME GateAssumption ==
    /\ Kind \in [Portals -> PortalKind]
    /\ Msgs \subseteq Nat
    /\ PortalOf \in [Msgs -> Portals]
    /\ History \notin Msgs
    /\ IsFiniteSet(Portals) /\ Portals # {} /\ IsFiniteSet(Msgs)
    /\ MaxSize \in Nat \ {0} /\ ForwardSlots \in Nat \ {0}
    /\ Failures \in BOOLEAN

ASSUME AgentsDistinct ==
    /\ Ctl # Net
    /\ {Ctl, Net} \cap (Flushers \cup Deleters \cup Portals) = {}
    /\ Flushers \cap (Deleters \cup Portals) = {}
    /\ Deleters \cap Portals = {}

VARIABLES
    syncDone,   \* cloudSyncDone
    pending,    \* pendingInitialBackfills
    flushed,    \* apnsBufferFlushedAt is stamped
    ctl,        \* where runCloudSyncController is
    toQueue,    \* candidates createPortalsFromCloudSync has not queued yet
    net,        \* safety-net goroutine of setCloudSyncDone
    buffer,     \* entries of the messageBuffer
    timer,      \* its quiet-window timer is armed
    flush,      \* per agent: the flush it is running
    held,       \* pendingPortalMsgs
    rooms,      \* portals with an MXID
    queue,      \* event queue of each portal
    loop,       \* event loop of each portal
    sem,        \* slots of forwardBackfillSem in use
    shown,      \* what each room received, in order
    dropped,    \* messages the framework dropped for want of a room
    discarded,  \* messages messageBuffer.stop() threw away
    arrived,    \* messages APNs delivered
    stopped     \* Disconnect was called

gateVars == <<syncDone, pending, flushed>>
ctlVars  == <<ctl, toQueue, net>>
bufVars  == <<buffer, timer>>
loopVars == <<rooms, loop, sem, shown, dropped>>
logVars  == <<discarded, arrived, stopped>>
vars == <<gateVars, ctlVars, bufVars, flush, held, queue, loopVars, logVars>>

Event == [msg: Msgs \cup {History}, create: BOOLEAN]

Flush == [phase: {"idle", "take", "buffer", "held", "over"},
          todo: SUBSET Msgs,
          step: {"gate", "room", "act"},
          create: BOOLEAN, missing: BOOLEAN]

TypeOK ==
    /\ syncDone \in BOOLEAN /\ pending \in Int /\ flushed \in BOOLEAN
    /\ ctl \in {"contacts", "sync", "scan", "queue", "gate", "load", "done"}
    /\ toQueue \in SUBSET Portals
    /\ net \in {"off", "watch"}
    /\ buffer \in SUBSET Msgs /\ timer \in BOOLEAN
    /\ flush \in [Agents -> Flush]
    /\ held \in SUBSET Msgs
    /\ rooms \in SUBSET Portals
    /\ queue \in [Portals -> Seq(Event)]
    /\ loop \in [Portals -> {"idle", "wait", "fetch", "deliver"}]
    /\ sem \in 0..ForwardSlots
    /\ shown \in [Portals -> Seq(Msgs \cup {History})]
    /\ dropped \in SUBSET Msgs /\ discarded \in SUBSET Msgs
    /\ arrived \in SUBSET Msgs
    /\ stopped \in BOOLEAN

Candidates == {p \in Portals : Kind[p] # "unknown"}

NoFlush == [phase |-> "idle", todo |-> {}, step |-> "gate",
            create |-> FALSE, missing |-> FALSE]

Init ==
    /\ syncDone = FALSE /\ pending = 0 /\ flushed = FALSE
    /\ ctl = "contacts" /\ toQueue = Candidates /\ net = "off"
    /\ buffer = {} /\ timer = FALSE
    /\ flush = [a \in Agents |-> NoFlush]
    /\ held = {}
    /\ rooms = {p \in Portals : Kind[p] \in {"forced", "offline"}}
    /\ queue = [p \in Portals |-> <<>>]
    /\ loop = [p \in Portals |-> "idle"]
    /\ sem = 0
    /\ shown = [p \in Portals |-> <<>>]
    /\ dropped = {} /\ discarded = {} /\ arrived = {}
    /\ stopped = FALSE

-----------------------------------------------------------------------------
(* The reorder buffer, and the flush an agent runs.                        *)

\* What a caller of msgBuffer.flush does first: it has yet to take the entries.
FlushFrom(a) == [flush EXCEPT ![a] = [NoFlush EXCEPT !.phase = "take"]]

\* OnMessage of a content message: messageBuffer.add.  (Tapbacks and edits share
\* the buffer; what their handlers do afterwards is not modelled.)
OnMessage(m) ==
    /\ ~stopped /\ m \notin arrived
    /\ arrived' = arrived \cup {m}
    /\ buffer' = buffer \cup {m}
    /\ \/ ~syncDone /\ UNCHANGED <<timer, flush>>
       \/ /\ syncDone /\ Cardinality(buffer') >= MaxSize
          /\ timer' = FALSE
          /\ \E a \in Flushers : flush[a].phase = "idle" /\ flush' = FlushFrom(a)
       \/ /\ syncDone /\ Cardinality(buffer') < MaxSize
          /\ timer' = TRUE
          /\ UNCHANGED flush
    /\ UNCHANGED <<gateVars, ctlVars, held, queue, loopVars, discarded, stopped>>

\* The quiet window ended.
TimerFires(a) ==
    /\ timer /\ flush[a].phase = "idle"
    /\ timer' = FALSE
    /\ flush' = FlushFrom(a)
    /\ UNCHANGED <<gateVars, ctlVars, buffer, held, queue, loopVars, logVars>>

\* HandleMatrixDeleteChat starts by flushing the buffer and the held messages;
\* once Disconnect has dropped the client it does nothing.
HandleMatrixDeleteChat(a) ==
    /\ ~stopped /\ flush[a].phase = "idle"
    /\ flush' = FlushFrom(a)
    /\ UNCHANGED <<gateVars, ctlVars, bufVars, held, queue, loopVars, logVars>>

\* messageBuffer.flush: all entries at once, the timer cancelled.
TakeBuffer(a) ==
    /\ flush[a].phase = "take"
    /\ flush' = [flush EXCEPT ![a] = [@ EXCEPT !.phase = "buffer", !.todo = buffer]]
    /\ buffer' = {}
    /\ timer' = (timer /\ buffer = {})
    /\ UNCHANGED <<gateVars, ctlVars, held, queue, loopVars, logVars>>

\* Mutation: pendingPortalMsgs is not reset after it is read.
TakeHeldKeeps(a) ==
    /\ flush[a].phase = "buffer" /\ flush[a].todo = {} /\ a \notin Flushers
    /\ flush' = [flush EXCEPT ![a] = [@ EXCEPT !.phase = "held", !.todo = held]]
    /\ UNCHANGED <<gateVars, ctlVars, bufVars, held, queue, loopVars, logVars>>

\* flushPendingPortalMsgs follows, except after a flush of the buffer's own.
TakeHeld(a) ==
    /\ flush[a].phase = "buffer" /\ flush[a].todo = {} /\ a \notin Flushers
    /\ flush' = [flush EXCEPT ![a] = [@ EXCEPT !.phase = "held", !.todo = held]]
    /\ held' = {}
    /\ UNCHANGED <<gateVars, ctlVars, bufVars, queue, loopVars, logVars>>

FlushReturns(a) ==
    /\ flush[a].todo = {}
    /\ flush[a].phase = "held" \/ (flush[a].phase = "buffer" /\ a \in Flushers)
    /\ flush' = [flush EXCEPT ![a] = [@ EXCEPT !.phase = IF a \in Deleters THEN "over" ELSE "idle"]]
    /\ UNCHANGED <<gateVars, ctlVars, bufVars, held, queue, loopVars, logVars>>

-----------------------------------------------------------------------------
(* handleMessage on the next message of a flush, in timestamp order.       *)

\* Is m the message that agent a is dispatching?
Dispatches(a, m) ==
    /\ flush[a].phase \in {"buffer", "held"}
    /\ m \in flush[a].todo
    /\ \A n \in flush[a].todo : m <= n

\* Mutation: live messages may always create their portal.
ReadGateOpen(a) ==
    /\ flush[a].step = "gate" /\ flush[a].todo # {}
    /\ flush' = [flush EXCEPT ![a] = [@ EXCEPT !.step = "room", !.create = TRUE]]
    /\ UNCHANGED <<gateVars, ctlVars, bufVars, held, queue, loopVars, logVars>>

\* createPortal is read from the gate once.
ReadGate(a) ==
    /\ flush[a].step = "gate" /\ flush[a].todo # {}
    /\ flush' = [flush EXCEPT ![a] = [@ EXCEPT !.step = "room", !.create = syncDone]]
    /\ UNCHANGED <<gateVars, ctlVars, bufVars, held, queue, loopVars, logVars>>

\* GetExistingPortalByKey: missingPortal.
LookUpPortal(a, m) ==
    /\ Dispatches(a, m) /\ flush[a].step = "room"
    /\ flush' = [flush EXCEPT ![a] = [@ EXCEPT !.step = "act",
                                                !.missing = PortalOf[m] \notin rooms]]
    /\ UNCHANGED <<gateVars, ctlVars, bufVars, held, queue, loopVars, logVars>>

Dispatched(a, m) ==
    flush' = [flush EXCEPT ![a] = [NoFlush EXCEPT !.phase = flush[a].phase,
                                                  !.todo = flush[a].todo \ {m}]]

\* Neither a room nor leave to create one: pendingPortalMsgs.
HoldMessage(a, m) ==
    /\ Dispatches(a, m) /\ flush[a].step = "act"
    /\ ~flush[a].create /\ flush[a].missing
    /\ held' = held \cup {m}
    /\ Dispatched(a, m)
    /\ UNCHANGED <<gateVars, ctlVars, bufVars, queue, loopVars, logVars>>

\* Mutation: a message without a room is queued instead of held.
QueueMessageUnheld(a, m) ==
    /\ Dispatches(a, m) /\ flush[a].step = "act"
    /\ queue' = [queue EXCEPT ![PortalOf[m]] =
                    Append(@, [msg |-> m, create |-> flush[a].create])]
    /\ Dispatched(a, m)
    /\ UNCHANGED <<gateVars, ctlVars, bufVars, held, loopVars, logVars>>

\* QueueRemoteEvent with CreatePortal = createPortal.
QueueMessage(a, m) ==
    /\ Dispatches(a, m) /\ flush[a].step = "act"
    /\ flush[a].create \/ ~flush[a].missing
    /\ queue' = [queue EXCEPT ![PortalOf[m]] =
                    Append(@, [msg |-> m, create |-> flush[a].create])]
    /\ Dispatched(a, m)
    /\ UNCHANGED <<gateVars, ctlVars, bufVars, held, loopVars, logVars>>

-----------------------------------------------------------------------------
(* runCloudSyncController up to setCloudSyncDone.                          *)

CtlGoes(from, to) == ctl = from /\ ctl' = to

\* waitForContactsReady: FALSE only when the bridge stops; then the gate opens
\* and no portal is queued.
ContactsReady ==
    /\ CtlGoes("contacts", IF stopped THEN "gate" ELSE "sync")
    /\ toQueue' = IF stopped THEN {} ELSE toQueue
    /\ UNCHANGED <<gateVars, net, bufVars, flush, held, queue, loopVars, logVars>>

\* The bootstrap loop retries until a sync succeeds; a failed attempt changes
\* nothing here.
SyncSucceeds ==
    /\ CtlGoes("sync", "scan")
    /\ UNCHANGED <<gateVars, toQueue, net, bufVars, flush, held, queue, loopVars, logVars>>

\* stopChan ends the loop with the gate shut.
SyncAbandoned ==
    /\ stopped /\ CtlGoes("sync", "done")
    /\ toQueue' = {}
    /\ UNCHANGED <<gateVars, net, bufVars, flush, held, queue, loopVars, logVars>>

NeedsInitialBackfill == {p \in Portals : Kind[p] \in {"new", "forced"}}

\* createPortalsFromCloudSync: the counter is set before anything is queued.
CountPortals ==
    /\ CtlGoes("scan", "queue")
    /\ pending' = Cardinality(NeedsInitialBackfill)
    /\ UNCHANGED <<syncDone, flushed, toQueue, net, bufVars, flush, held, queue,
                   loopVars, logVars>>

\* The candidate listing failed; a later pass retries it.
ScanFails ==
    /\ Failures /\ CtlGoes("scan", "gate")
    /\ toQueue' = {}
    /\ UNCHANGED <<gateVars, net, bufVars, flush, held, queue, loopVars, logVars>>

QueueResync(p) ==
    /\ ctl = "queue" /\ p \in toQueue
    /\ toQueue' = toQueue \ {p}
    /\ queue' = [queue EXCEPT ![p] = Append(@, [msg |-> History, create |-> TRUE])]
    /\ UNCHANGED <<gateVars, ctl, net, bufVars, flush, held, loopVars, logVars>>

\* Mutation: the gate opens while candidates are still to be queued.
AllQueuedEarly ==
    /\ CtlGoes("queue", "gate")
    /\ UNCHANGED <<gateVars, toQueue, net, bufVars, flush, held, queue, loopVars, logVars>>

AllQueued ==
    /\ toQueue = {} /\ CtlGoes("queue", "gate")
    /\ UNCHANGED <<gateVars, toQueue, net, bufVars, flush, held, queue, loopVars, logVars>>

\* setCloudSyncDone: first the gate ...
OpenGate ==
    /\ CtlGoes("gate", "load")
    /\ syncDone' = TRUE
    /\ UNCHANGED <<pending, flushed, toQueue, net, bufVars, flush, held, queue, loopVars,
                   logVars>>

\* ... then the counter decides who flushes.
LoadPending ==
    /\ CtlGoes("load", "done")
    /\ \/ /\ pending <= 0
          /\ flushed' = TRUE
          /\ flush' = FlushFrom(Ctl)
          /\ UNCHANGED net
       \/ /\ pending > 0
          /\ net' = "watch"
          /\ UNCHANGED <<flushed, flush>>
    /\ UNCHANGED <<syncDone, pending, toQueue, bufVars, held, queue, loopVars, logVars>>

\* The safety net sees the counter at or below 0 and leaves.
NetLeaves ==
    /\ net = "watch" /\ pending <= 0
    /\ net' = "off"
    /\ UNCHANGED <<gateVars, ctl, toQueue, bufVars, flush, held, queue, loopVars, logVars>>

\* No progress for noProgressTimeout: the counter is not looked at again.
NetForcesFlush ==
    /\ net = "watch"
    /\ net' = "off"
    /\ flushed' = TRUE
    /\ flush' = FlushFrom(Net)
    /\ UNCHANGED <<syncDone, pending, ctl, toQueue, bufVars, held, queue, loopVars, logVars>>

-----------------------------------------------------------------------------
(* The event loop of a portal (bridgev2) and the forward FetchMessages it  *)
(* calls.  The loop of a portal that runs a flush does nothing else.       *)

Free(p) == loop[p] = "idle" /\ flush[p].phase = "idle"

NextEvent(p) == Free(p) /\ queue[p] # <<>>

\* CheckNeedsBackfill on an existing room: forced, or the trigger timestamp is
\* newer than everything in the room.
NeedsBackfill(p) == Kind[p] = "forced" \/ shown[p] = <<>>

\* A ChatResync creates the missing room; a new room is always backfilled.
HandleResync(p) ==
    /\ NextEvent(p) /\ Head(queue[p]).msg = History
    /\ queue' = [queue EXCEPT ![p] = Tail(@)]
    /\ rooms' = rooms \cup {p}
    /\ loop' = [loop EXCEPT ![p] = IF p \notin rooms \/ NeedsBackfill(p)
                                    THEN "wait" ELSE "idle"]
    /\ UNCHANGED <<gateVars, ctlVars, bufVars, flush, held, sem, shown, dropped, logVars>>

\* A ChatResync that never reaches FetchMessages: the case the safety net names.
LoseResync(p) ==
    /\ Failures /\ NextEvent(p) /\ Head(queue[p]).msg = History
    /\ queue' = [queue EXCEPT ![p] = Tail(@)]
    /\ UNCHANGED <<gateVars, ctlVars, bufVars, flush, held, loopVars, logVars>>

\* A message for an existing room is sent to it; the framework drops one that
\* has no room and may not create it.
HandleMessageEvent(p) ==
    /\ NextEvent(p) /\ Head(queue[p]).msg # History
    /\ p \in rooms \/ ~Head(queue[p]).create
    /\ queue' = [queue EXCEPT ![p] = Tail(@)]
    /\ shown' = IF p \in rooms
                THEN [shown EXCEPT ![p] = Append(@, Head(queue[p]).msg)] ELSE shown
    /\ dropped' = IF p \in rooms THEN dropped ELSE dropped \cup {Head(queue[p]).msg}
    /\ UNCHANGED <<gateVars, ctlVars, bufVars, flush, held, rooms, loop, sem, logVars>>

\* A message that may create its room does so, and the new room is backfilled
\* before the message is sent.
CreateRoom(p) ==
    /\ NextEvent(p) /\ Head(queue[p]).msg # History
    /\ p \notin rooms /\ Head(queue[p]).create
    /\ rooms' = rooms \cup {p}
    /\ loop' = [loop EXCEPT ![p] = "wait"]
    /\ UNCHANGED <<gateVars, ctlVars, bufVars, flush, held, queue, sem, shown, dropped, logVars>>

\* Mutation: the counter has to pass zero.
OnForwardBackfillDoneLate(p) ==
    /\ pending' = pending - 1
    /\ flushed' = (flushed \/ pending' = -1)
    /\ flush' = IF pending' = -1 THEN FlushFrom(p) ELSE flush

\* onForwardBackfillDone, in the goroutine of portal p.
OnForwardBackfillDone(p) ==
    /\ pending' = pending - 1
    /\ flushed' = (flushed \/ pending' = 0)
    /\ flush' = IF pending' = 0 THEN FlushFrom(p) ELSE flush

\* waitForForwardBackfillSlot
AcquireSlot(p) ==
    /\ loop[p] = "wait" /\ sem < ForwardSlots
    /\ sem' = sem + 1
    /\ loop' = [loop EXCEPT ![p] = "fetch"]
    /\ UNCHANGED <<gateVars, ctlVars, bufVars, flush, held, queue, rooms, shown, dropped, logVars>>

\* The portal's context is cancelled, or a guard returns before the semaphore.
FetchCancelled(p) ==
    /\ Failures /\ loop[p] = "wait"
    /\ OnForwardBackfillDone(p)
    /\ loop' = [loop EXCEPT ![p] = "idle"]
    /\ UNCHANGED <<syncDone, ctlVars, bufVars, held, queue, rooms, sem, shown, dropped, logVars>>

\* History that a fetch finds: an anchored fetch finds only what is newer than
\* the room's last message, a forced one goes by write activity.
Deliverable(p) ==
    /\ Kind[p] # "unknown"
    /\ \A i \in 1..Len(shown[p]) : shown[p][i] # History
    /\ Kind[p] = "forced" \/ shown[p] = <<>>

\* Mutation: the slot is only released when a batch is returned.
FetchReturnsNothingLeaks(p) ==
    /\ loop[p] = "fetch" /\ (Failures \/ ~Deliverable(p))
    /\ OnForwardBackfillDone(p)
    /\ loop' = [loop EXCEPT ![p] = "idle"]
    /\ UNCHANGED <<syncDone, ctlVars, bufVars, held, queue, rooms, sem, shown, dropped, logVars>>

\* A query fails, or there is nothing to deliver: the deferred calls release
\* the slot and count the portal as done.
FetchReturnsNothing(p) ==
    /\ loop[p] = "fetch" /\ (Failures \/ ~Deliverable(p))
    /\ sem' = sem - 1
    /\ OnForwardBackfillDone(p)
    /\ loop' = [loop EXCEPT ![p] = "idle"]
    /\ UNCHANGED <<syncDone, ctlVars, bufVars, held, queue, rooms, shown, dropped, logVars>>

\* Messages are returned with a CompleteCallback; the slot is released.
FetchReturnsBatch(p) ==
    /\ loop[p] = "fetch" /\ Deliverable(p)
    /\ sem' = sem - 1
    /\ loop' = [loop EXCEPT ![p] = "deliver"]
    /\ UNCHANGED <<gateVars, ctlVars, bufVars, flush, held, queue, rooms, shown, dropped, logVars>>

\* bridgev2 delivers the batch and runs the CompleteCallback.
DeliverBatch(p) ==
    /\ loop[p] = "deliver"
    /\ shown' = [shown EXCEPT ![p] = Append(@, History)]
    /\ OnForwardBackfillDone(p)
    /\ loop' = [loop EXCEPT ![p] = "idle"]
    /\ UNCHANGED <<syncDone, ctlVars, bufVars, held, queue, rooms, sem, dropped, logVars>>

\* Disconnect: messageBuffer.stop discards the entries and closes stopChan.
Disconnect ==
    /\ Failures /\ ~stopped
    /\ stopped' = TRUE
    /\ discarded' = discarded \cup buffer
    /\ buffer' = {} /\ timer' = FALSE
    /\ UNCHANGED <<gateVars, ctlVars, flush, held, queue, loopVars, arrived>>

-----------------------------------------------------------------------------

ControllerStep ==
    \/ ContactsReady \/ SyncAbandoned \/ CountPortals \/ ScanFails
    \/ \E p \in Portals : QueueResync(p)
    \/ AllQueued \/ OpenGate \/ LoadPending

NetStep == NetLeaves \/ NetForcesFlush

FlushStep(a) ==
    \/ TakeBuffer(a) \/ TakeHeld(a) \/ FlushReturns(a) \/ ReadGate(a)
    \/ \E m \in Msgs : LookUpPortal(a, m) \/ HoldMessage(a, m) \/ QueueMessage(a, m)

LoopStep(p) ==
    \/ HandleResync(p) \/ HandleMessageEvent(p) \/ CreateRoom(p)
    \/ AcquireSlot(p) \/ FetchReturnsNothing(p) \/ FetchReturnsBatch(p) \/ DeliverBatch(p)

Next ==
    \/ \E m \in Msgs : OnMessage(m)
    \/ \E a \in Flushers : TimerFires(a)
    \/ \E a \in Deleters : HandleMatrixDeleteChat(a)
    \/ \E a \in Agents : FlushStep(a)
    \/ ControllerStep \/ SyncSucceeds \/ NetStep
    \/ \E p \in Portals : LoopStep(p) \/ LoseResync(p) \/ FetchCancelled(p)
    \/ Disconnect

Spec == Init /\ [][Next]_vars

\* Every goroutine keeps running and CloudKit answers in the end; nothing is
\* assumed of APNs, of the user or of failures.
FairSpec ==
    /\ Spec
    /\ WF_vars(ControllerStep) /\ WF_vars(SyncSucceeds) /\ WF_vars(NetStep)
    /\ \A a \in Agents : WF_vars(FlushStep(a))
    /\ WF_vars(\E a \in Flushers : TimerFires(a))
    /\ \A p \in Portals : WF_vars(LoopStep(p))

-----------------------------------------------------------------------------
(* Properties.                                                             *)

Occurrences(m) ==
      (IF m \in buffer THEN 1 ELSE 0) + (IF m \in held THEN 1 ELSE 0)
    + (IF m \in discarded THEN 1 ELSE 0) + (IF m \in dropped THEN 1 ELSE 0)
    + Cardinality({a \in Agents : m \in flush[a].todo})
    + Cardinality({i \in 1..Len(queue[PortalOf[m]]) : queue[PortalOf[m]][i].msg = m})
    + Cardinality({i \in 1..Len(shown[PortalOf[m]]) : shown[PortalOf[m]][i] = m})

\* Whatever flushes interleave, a message that APNs delivered is in exactly one
\* place: the buffer, one flush, pendingPortalMsgs, its portal's queue, its
\* room, or the entries stop() discarded (messageBuffer, flushPendingPortalMsgs).
InOnePlace ==
    \A m \in Msgs : Occurrences(m) = IF m \in arrived THEN 1 ELSE 0

\* No message reaches the framework without a room and without leave to create
\* one: that is what pendingPortalMsgs is for (client.go, handleMessage).
NotDropped == dropped = {}

\* Live messages create no room before the gate opens: until then every room is
\* an old one or one whose ChatResync the controller queued.
NoEarlyRoom ==
    ~syncDone => \A p \in rooms : Kind[p] # "unknown" /\ (Kind[p] = "new" => p \notin toQueue)

\* The backfill of p has not run yet, or is running.
BackfillAhead(p) ==
    \/ p \in toQueue
    \/ \E i \in 1..Len(queue[p]) : queue[p][i].msg = History
    \/ loop[p] # "idle"

LiveShown(p) == \E i \in 1..Len(shown[p]) : shown[p][i] # History

\* In a room that the sync creates, the CloudKit history comes before any live
\* message, however early the buffer was flushed (createPortalsFromCloudSync
\* queues every ChatResync before setCloudSyncDone).
HistoryFirstInNewRooms ==
    \A p \in Portals : Kind[p] = "new" /\ LiveShown(p) => ~BackfillAhead(p)

\* setCloudSyncDone: live messages appear in any room only after its history.
HistoryFirst ==
    \A p \in Candidates : LiveShown(p) => ~BackfillAhead(p)

\* A buffered message leaves the buffer once the gate is open, whoever's task
\* the flush becomes (setCloudSyncDone, onForwardBackfillDone, the safety net).
BufferDrains == \A m \in Msgs : (syncDone /\ m \in buffer) ~> (m \notin buffer)

\* A queued message is shown: no portal loop waits forever for a slot or for a
\* flush it runs itself.
QueueDrains ==
    \A m \in Msgs :
        (\E i \in 1..Len(queue[PortalOf[m]]) : queue[PortalOf[m]][i].msg = m)
            ~> (\E i \in 1..Len(shown[PortalOf[m]]) : shown[PortalOf[m]][i] = m)

\* Read receipts pass in the end: the gate opens and the flush is stamped, even
\* when a counted portal never reports back (handleReadReceipt, safety net).
ReceiptsPass == <>(stopped \/ (syncDone /\ flushed))

\* What the gate holds back does not wait for a portal that never reports back:
\* the buffer drains and the receipts pass (setCloudSyncDone, the safety net).
GateLetsThrough == BufferDrains /\ ReceiptsPass

\* pendingPortalMsgs is flushed by setCloudSyncDone: a held message does not
\* stay held once the gate is open.
HeldReplayed == \A m \in Msgs : (syncDone /\ m \in held) ~> (m \notin held \/ stopped)

=============================================================================
