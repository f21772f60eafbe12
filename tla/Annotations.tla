---- MODULE Annotations ----
(***************************************************************************)
(* What a contact adds to a message that is already in its room: tapbacks  *)
(* and edits on one message of theirs, and the delivery and read receipts  *)
(* of one message of the user's.  All of them come as pushes; tapbacks     *)
(* come a second time as CloudKit records.                                 *)
(*                                                                         *)
(* A tapback is the reaction it leaves behind, "none" for a removal.  An   *)
(* edit is the number of parts its text needs.  Portal resolution is in    *)
(* GroupRouting and DMRouting; here every annotation finds its room.       *)
(***************************************************************************)
EXTENDS Naturals, Sequences, FiniteSets

CONSTANTS
    Reactions,            \* reactions the contact uses
    EditSizes,            \* sizes of edited texts, in parts
    Attempts,             \* lookups of a delivery receipt's message: 5
    InsertBy,             \* the lookup by which the framework's insert has landed
    Plans,                \* bounds: tapbacks, edits and whether the user sends
    MaxAnnotationFaults   \* bound: failed calls and restarts

ASSUME AnnotationsAssumption ==
    /\ EditSizes \subseteq Nat \ {0}
    /\ Attempts \in Nat \ {0} /\ InsertBy \in 1 .. Attempts
    /\ Plans \subseteq [taps : Nat, edits : Nat, sends : BOOLEAN]
    /\ MaxAnnotationFaults \in Nat

VARIABLES
    plan,       \* the bounds of this behaviour
    tapbacks,   \* the contact's tapbacks, in order; the position is the UUID
    texts,      \* the contact's edits, in order
    push,       \* APNs to the bridge, first in first out
    running,    \* whether the bridge runs; meanwhile APNs marks what it keeps as stored
    knownUuids, \* tapbacks with a row in cloud_message
    imported,   \* how many of them CloudKit has delivered as records
    handed,     \* of those, how many this process handed to a catch-up
    completed,  \* of those, how many precede the backfill task's completed_at
    events,     \* the portal's event queue
    reaction,   \* the contact's reaction in the room
    parts,      \* the text parts in the room: for each the edit it shows
    own,        \* the user's message: "unsent", "sent" or "stored"
    ownInCloud, \* CloudKit has delivered its record
    lookup,     \* the lookups the delivery receipt has made, 0 when none runs
    ticked, seen, readAt,   \* when the contact read it, and whether CloudKit was first
    excused,    \* events that nothing repeats were lost
    annotationFaults

annotationVars ==
    <<plan, tapbacks, texts, push, running, knownUuids, imported, handed, completed, events, reaction,
      parts, own, ownInCloud, lookup, ticked, readAt, seen, excused, annotationFaults>>

cloudVars == <<imported, handed, completed, ownInCloud>>
roomVars == <<reaction, parts, ticked, seen>>
contactVarsOf == <<plan, tapbacks, texts, readAt>>

AnnotationsInit ==
    /\ plan \in Plans
    /\ tapbacks = <<>> /\ texts = <<1>> /\ push = <<>> /\ running = TRUE
    /\ knownUuids = {} /\ imported = 0 /\ handed = 0 /\ completed = 0
    /\ events = <<>> /\ reaction = "none" /\ parts = <<1>>
    /\ own = "unsent" /\ ownInCloud = FALSE /\ lookup = 0
    /\ ticked = FALSE /\ readAt = "unread" /\ seen = FALSE
    /\ excused = FALSE /\ annotationFaults = 0

AnnotationFault == annotationFaults < MaxAnnotationFaults /\ annotationFaults' = annotationFaults + 1
Smooth == UNCHANGED annotationFaults

Push(kind, n) == push' = Append(push, [kind |-> kind, n |-> n, stored |-> ~running])
Queue(kind, n) == Append(events, [kind |-> kind, n |-> n])

-----------------------------------------------------------------------------
(* The contact, the user and the connection.                               *)

React ==
    /\ Len(tapbacks) < plan.taps
    /\ \E r \in (Reactions \cup {"none"}) \
                {IF tapbacks = <<>> THEN "none" ELSE tapbacks[Len(tapbacks)]} :
         tapbacks' = Append(tapbacks, r)
    /\ Push("tapback", Len(tapbacks) + 1)
    /\ UNCHANGED <<plan, texts, readAt, running, knownUuids, cloudVars, events, roomVars, own, lookup,
                   excused, annotationFaults>>

Edit ==
    /\ Len(texts) <= plan.edits
    /\ \E n \in EditSizes : texts' = Append(texts, n)
    /\ Push("edit", Len(texts) + 1)
    /\ UNCHANGED <<plan, tapbacks, readAt, running, knownUuids, cloudVars, events, roomVars, own, lookup,
                   excused, annotationFaults>>

\* HandleMatrixMessage runs in the portal's event loop; the framework inserts
\* the row after it returns.
SendOwn ==
    /\ own = "unsent" /\ running /\ plan.sends
    /\ own' = "sent"
    /\ Push("delivery", 0)
    /\ UNCHANGED <<contactVarsOf, running, knownUuids, cloudVars, events, roomVars, lookup,
                   excused, annotationFaults>>

InsertOwn ==
    /\ own = "sent" /\ own' = "stored"
    /\ UNCHANGED <<contactVarsOf, push, running, knownUuids, cloudVars, events, roomVars, lookup,
                   excused, annotationFaults>>

\* The contact reads the message; a receipt that APNs has to store is dropped.
ReadOwn ==
    /\ own # "unsent" /\ readAt = "unread"
    /\ readAt' = IF running THEN "live" ELSE "away"
    /\ Push("read", 0)
    /\ UNCHANGED <<plan, tapbacks, texts, running, knownUuids, cloudVars, events, roomVars, own, lookup,
                   excused, annotationFaults>>

StopBridge ==
    /\ AnnotationFault /\ running /\ running' = FALSE
    /\ UNCHANGED <<contactVarsOf, push, knownUuids, cloudVars, events, roomVars, own, lookup, excused>>

completedBackfillWriteWatermark == completed

\* The queue and the lookups are gone; what was pushed but not taken is stored,
\* and a stored read receipt is dropped.
StartBridge ==
    /\ ~running /\ running' = TRUE
    /\ push' = [i \in DOMAIN push |-> [push[i] EXCEPT !.stored = TRUE]]
    /\ excused' = \/ excused \/ events # <<>> \/ own = "sent" \/ lookup # 0
                  \/ \E i \in DOMAIN push : push[i].kind = "read" /\ ~push[i].stored
    /\ events' = <<>> /\ lookup' = 0 /\ handed' = completedBackfillWriteWatermark
    /\ UNCHANGED <<contactVarsOf, knownUuids, imported, completed, ownInCloud, roomVars, own,
                   annotationFaults>>

-----------------------------------------------------------------------------
(* Pushes.                                                                 *)

Taken(kind) ==
    /\ running /\ push # <<>> /\ Head(push).kind = kind
    /\ push' = Tail(push)

hasMessageUUID(u) == u \in knownUuids
persistTapbackUUID(u) == knownUuids' = knownUuids \cup {u}

handleTapback ==
    /\ Taken("tapback")
    /\ LET m == Head(push)
       IN  IF m.stored \/ hasMessageUUID(m.n)
             THEN UNCHANGED <<knownUuids, events>>
             ELSE /\ persistTapbackUUID(m.n)
                  /\ events' = Queue("tapback", m.n)
    /\ Smooth
    /\ UNCHANGED <<contactVarsOf, running, cloudVars, roomVars, own, lookup, excused>>

handleEdit ==
    /\ Taken("edit")
    /\ events' = Queue("edit", Head(push).n)
    /\ UNCHANGED <<contactVarsOf, running, knownUuids, cloudVars, roomVars, own, lookup, excused,
                   annotationFaults>>

handleDeliveryReceipt ==
    /\ Taken("delivery")
    /\ lookup' = 1
    /\ UNCHANGED <<contactVarsOf, running, knownUuids, cloudVars, events, roomVars, own, excused,
                   annotationFaults>>

AttemptsLeft == lookup < Attempts

\* A goroutine of its own; the last lookups come after the insert has landed.
tryLookup ==
    /\ lookup # 0
    /\ own = "sent" => lookup < InsertBy
    /\ IF own = "stored" THEN ticked' = TRUE /\ lookup' = 0
       ELSE /\ lookup' = IF AttemptsLeft THEN lookup + 1 ELSE 0
            /\ UNCHANGED ticked
    /\ UNCHANGED <<contactVarsOf, push, running, knownUuids, cloudVars, events, reaction, parts,
                   own, seen, excused, annotationFaults>>

isCloudBackfilledMessage == ownInCloud

\* Mutation: a message that is not stored yet gets no receipt.
queueGhostReceiptFallbackNot == events
queueGhostReceiptFallback == Queue("read", 0)

sendGhostReadReceipt ==
    \/ /\ own = "stored" /\ Smooth
       /\ seen' = TRUE /\ UNCHANGED events
    \/ /\ IF own = "stored" THEN AnnotationFault ELSE Smooth
       /\ events' = queueGhostReceiptFallback /\ UNCHANGED seen

\* The buffer has been flushed.  A record with a read date is one that
\* isCloudBackfilledMessage knows too.
handleReadReceipt ==
    /\ Taken("read")
    /\ IF Head(push).stored \/ isCloudBackfilledMessage
         THEN UNCHANGED <<events, seen>> /\ Smooth
         ELSE sendGhostReadReceipt
    /\ readAt' = IF isCloudBackfilledMessage THEN "in cloud" ELSE readAt
    /\ UNCHANGED <<plan, tapbacks, texts, running, knownUuids, cloudVars, reaction, parts, ticked, own,
                   lookup, excused>>

-----------------------------------------------------------------------------
(* The portal's event loop.  It is busy while the user's message is sent.  *)

\* Mutation: the parts after the last one needed start one too late.
ConvertEditLate(rev) ==
    LET n == texts[rev]
    IN  [i \in 1 .. (IF Len(parts) > n THEN n + 1 ELSE n) |-> IF i <= n THEN rev ELSE parts[i]]
\* The text parts by ordinal: rewritten, added at the end, the rest redacted.
ConvertEdit(rev) ==
    LET n == texts[rev]
        modified == [i \in 1 .. (IF Len(parts) < n THEN Len(parts) ELSE n) |-> rev]
        added == [i \in 1 .. (n - Len(modified)) |-> rev]
    IN  modified \o added

PortalHandles ==
    /\ running /\ events # <<>> /\ own # "sent"
    /\ events' = Tail(events)
    /\ LET e == Head(events)
       IN  /\ reaction' = IF e.kind = "tapback" THEN tapbacks[e.n] ELSE reaction
           /\ parts' = IF e.kind = "edit" THEN ConvertEdit(e.n) ELSE parts
           /\ seen' = (seen \/ e.kind = "read")
    /\ UNCHANGED <<contactVarsOf, push, running, knownUuids, cloudVars, ticked, own, lookup,
                   excused, annotationFaults>>

-----------------------------------------------------------------------------
(* CloudKit.                                                               *)

ImportRecords ==
    /\ running
    /\ imported < Len(tapbacks) \/ (own # "unsent" /\ ~ownInCloud)
    /\ \E upTo \in imported .. Len(tapbacks), mine \in BOOLEAN :
         /\ mine => own # "unsent"
         /\ imported' = upTo /\ ownInCloud' = (ownInCloud \/ mine)
         /\ knownUuids' = knownUuids \cup 1 .. upTo
    /\ UNCHANGED <<contactVarsOf, push, running, handed, completed, events, roomVars, own, lookup,
                   excused, annotationFaults>>

\* Mutation: a removal is filtered as an addition is.
AlreadyThereBoth(u) == reaction # "none"
AlreadyThere(u) == tapbacks[u] # "none" /\ reaction # "none"

listForwardMessagesByWriteActivity == (handed + 1) .. imported

\* A forced forward backfill by write activity: the target is in no batch.
cloudTapbackToBackfill ==
    /\ running /\ listForwardMessagesByWriteActivity # {}
    /\ handed' = handed + 1
    /\ events' = IF AlreadyThere(handed + 1) THEN events ELSE Queue("tapback", handed + 1)
    /\ UNCHANGED <<contactVarsOf, push, running, knownUuids, imported, completed, ownInCloud,
                   roomVars, own, lookup, excused, annotationFaults>>

\* The backward task, reset with every catch-up, ends.
TaskCompletes ==
    /\ running /\ completed < handed /\ handed = imported
    /\ completed' = imported
    /\ UNCHANGED <<contactVarsOf, push, running, knownUuids, imported, handed, ownInCloud, events,
                   roomVars, own, lookup, excused, annotationFaults>>

-----------------------------------------------------------------------------
Pushes == handleTapback \/ handleEdit \/ handleDeliveryReceipt \/ handleReadReceipt

AnnotationsNext ==
    \/ React \/ Edit \/ SendOwn \/ InsertOwn \/ ReadOwn
    \/ StopBridge \/ StartBridge
    \/ Pushes \/ tryLookup
    \/ PortalHandles
    \/ ImportRecords \/ cloudTapbackToBackfill \/ TaskCompletes

ImportAll == ImportRecords /\ imported' = Len(tapbacks)

\* The receiver, the portal loop, the catch-up and a lookup's timer keep running,
\* the framework inserts what it sent, the bridge is started again, and CloudKit
\* is read again and again, its newest record included.
AnnotationsFairness ==
    /\ WF_annotationVars(Pushes) /\ WF_annotationVars(PortalHandles)
    /\ WF_annotationVars(tryLookup) /\ WF_annotationVars(InsertOwn)
    /\ WF_annotationVars(cloudTapbackToBackfill) /\ WF_annotationVars(StartBridge)
    /\ WF_annotationVars(ImportAll)

AnnotationsSpec == AnnotationsInit /\ [][AnnotationsNext]_annotationVars /\ AnnotationsFairness

-----------------------------------------------------------------------------
(* Properties.                                                             *)

\* With no edit under way the room shows every part of the newest edit and no
\* part of an older one, however the texts grew and shrank (handleEdit).
EditShowsText ==
    ~excused /\ (\A i \in DOMAIN push : push[i].kind # "edit")
             /\ (\A i \in DOMAIN events : events[i].kind # "edit")
    => parts = [i \in 1 .. texts[Len(texts)] |-> Len(texts)]

\* A reaction that the contact has taken back for good does not stay in the
\* room, although removals and additions come by push and by CloudKit in any
\* interleaving and stored pushes are skipped (handleTapback,
\* cloudTapbackToBackfill).
RemovalSettles ==
    <>[](excused \/ tapbacks = <<>> \/ (tapbacks[Len(tapbacks)] = "none" => reaction = "none"))

\* A read receipt that comes before the message's row reaches the message, by
\* way of the portal's queue, unless CloudKit knows the message already
\* (handleReadReceipt, queueGhostReceiptFallback).
ReadIsSeen == <>[](excused \/ (readAt = "live" => seen))

\* A delivery receipt that comes before the message's row is not lost
\* (handleDeliveryReceipt).
DeliveryTicks == <>[](excused \/ (own # "unsent" => ticked))

\* What races the row or the reaction it is about settles: removals win in the
\* end, and receipts that come before the row of their message are not lost
\* (handleTapback, handleReadReceipt, handleDeliveryReceipt).
AnnotationsSettle == RemovalSettles /\ ReadIsSeen /\ DeliveryTicks

\* The room ends up with the reaction the contact ends up with: what the push
\* handler skips as stored, the backfill delivers (handleTapback, "CloudKit
\* backfill handles those").
ReactionSettles ==
    <>[](excused \/ tapbacks = <<>> \/ reaction = tapbacks[Len(tapbacks)])
====
