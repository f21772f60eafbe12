---------------------------- MODULE DeleteHandoff ----------------------------
(***************************************************************************)
(* The handoff between live delivery of a message and an Apple per-message *)
(* delete of it (pkg/connector/client.go).                                 *)
(*                                                                         *)
(* Three goroutines meet on one message UUID:                              *)
(*   - handleMessage persists the route of the message and checks for a    *)
(*     tombstone (admitLiveMessage), then queues one remote event per part;*)
(*   - the portal event loop of bridgev2 sends each queued part to Matrix, *)
(*     inserts its row in the bridge's message table and runs              *)
(*     deletedMessagePostHandle;                                           *)
(*   - handleMessageDelete resolves the bridge rows of the UUID, writes    *)
(*     the durable tombstone, looks the rows up again                      *)
(*     (prepareDeletedMessage) and redacts what it found.                  *)
(* messageDeleteHandoffMu serialises admitLiveMessage with                 *)
(* prepareDeletedMessage; the event loop, CloudKit sync and backfill take  *)
(* no lock.  A UUID can be live in several portals (Apple's SMS relay      *)
(* reuses UUIDs across short-code threads).                                *)
(*                                                                         *)
(* A Copy is what one part of one message becomes in one portal: a Matrix  *)
(* event and a row of the bridge's message table.                          *)
(***************************************************************************)
EXTENDS FiniteSets

CONSTANTS
    Msg,        \* message UUIDs
    Portal,     \* portals of this login
    NoPortal,   \* an empty or NULL portal_id
    Copy,       \* (message, portal, part) triples
    MsgOf,      \* the message a copy belongs to
    PortalOf,   \* the portal a copy lives in
    Backfills   \* does a forward backfill of CloudKit rows run?

ASSUME HandoffAssumption ==
    /\ NoPortal \notin Portal
    /\ MsgOf \in [Copy -> Msg]
    /\ PortalOf \in [Copy -> Portal]
    /\ Backfills \in BOOLEAN

VARIABLES
    row,        \* cloud_message: [here, portal, deleted] for each UUID
    live,       \* handleMessage, per UUID and portal
    ev,         \* remote event of a copy in the portal event loop
    bridged,    \* copies with a row in the bridge's message table
    visible,    \* copies whose Matrix event exists and is not redacted
    del,        \* handleMessageDelete, per UUID
    found,      \* what a delete handler looked up: route, stored route, copies
    backfill,   \* forward backfill: the batch being delivered to each portal
    failed,     \* UUIDs whose delete ended in a logged error
    homes,      \* history: portals the row of a UUID was routed to while a
                \* delete of it was handled or on record
    moved       \* history: UUIDs whose tombstone CloudKit has moved to
                \* another portal since it was last written

storeVars   == <<row>>
bridgeVars  == <<ev, bridged, visible>>
historyVars == <<homes, moved>>
vars == <<row, live, ev, bridged, visible, del, found, backfill, failed, homes, moved>>

PortalId == Portal \cup {NoPortal}

Row == [here: BOOLEAN, portal: PortalId, deleted: BOOLEAN]

NoRow == [here |-> FALSE, portal |-> NoPortal, deleted |-> FALSE]

Found == [route: PortalId, stored: PortalId, copies: SUBSET Copy]

NothingFound == [route |-> NoPortal, stored |-> NoPortal, copies |-> {}]

TypeOK ==
    /\ row \in [Msg -> Row]
    /\ live \in [Msg -> [Portal -> {"idle", "persisted", "admitted", "dropped"}]]
    /\ ev \in [Copy -> {"none", "queued", "sent", "inserted", "doomed", "done"}]
    /\ bridged \in SUBSET Copy
    /\ visible \in SUBSET Copy
    /\ del \in [Msg -> {"idle", "resolved", "tombstoned", "redact"}]
    /\ found \in [Msg -> Found]
    /\ backfill \in [Portal -> SUBSET Msg]
    /\ failed \in SUBSET Msg
    /\ homes \in [Msg -> SUBSET Portal]
    /\ moved \in SUBSET Msg

Init ==
    /\ row = [m \in Msg |-> NoRow]
    /\ live = [m \in Msg |-> [p \in Portal |-> "idle"]]
    /\ ev = [c \in Copy |-> "none"]
    /\ bridged = {}
    /\ visible = {}
    /\ del = [m \in Msg |-> "idle"]
    /\ found = [m \in Msg |-> NothingFound]
    /\ backfill = [p \in Portal |-> {}]
    /\ failed = {}
    /\ homes = [m \in Msg |-> {}]
    /\ moved = {}

-----------------------------------------------------------------------------
(* cloud_message statements on the row of one UUID.                        *)

\* persistMessageUUID: insert a stub, or fill the missing route of a
\* delete-first tombstone; a routed row is left alone.
PersistMessageUUID(r, p) ==
    [here    |-> TRUE,
     portal  |-> IF r.portal = NoPortal THEN p ELSE r.portal,
     deleted |-> r.deleted]

\* softDeleteMessageByGUID / softDeleteRow: scrub and tombstone the row, or
\* stub-insert a tombstone; the route only fills a missing one.
SoftDeleteRow(r, p) ==
    [here    |-> TRUE,
     portal  |-> IF r.portal = NoPortal THEN p ELSE r.portal,
     deleted |-> TRUE]

\* upsertMessageBatch: CloudKit's route wins, a tombstone is never revived.
UpsertMessage(r, p) ==
    [here    |-> TRUE,
     portal  |-> p,
     deleted |-> r.deleted]

\* Mutation: the tombstone query without its portal_id condition.
IsMessageDeletedAnywhere(m, p) == row[m].deleted

\* isMessageDeletedInPortal
IsMessageDeletedInPortal(m, p) == row[m].deleted /\ row[m].portal = p

CopiesOf(m) == {c \in Copy : MsgOf[c] = m}

CopiesIn(m, p) == {c \in CopiesOf(m) : PortalOf[c] = p}

\* The route that the row of m has after the step is noted, if a delete of m
\* is under way or on record then.
NoteHome(m) ==
    homes' = IF (del'[m] # "idle" \/ row'[m].deleted) /\ row'[m].portal # NoPortal
             THEN [homes EXCEPT ![m] = @ \cup {row'[m].portal}] ELSE homes

-----------------------------------------------------------------------------
(* messageDeleteHandoffMu is held from the first to the last store access  *)
(* of admitLiveMessage and of prepareDeletedMessage.                       *)

HandoffMuFree ==
    /\ \A m \in Msg : del[m] \notin {"resolved", "tombstoned"}
    /\ \A m \in Msg, p \in Portal : live[m][p] # "persisted"

-----------------------------------------------------------------------------
(* handleMessage.                                                          *)

\* admitLiveMessage, first half: lock and persist the route.
AdmitPersist(m, p) ==
    /\ live[m][p] = "idle"
    /\ HandoffMuFree
    /\ row' = [row EXCEPT ![m] = PersistMessageUUID(@, p)]
    /\ live' = [live EXCEPT ![m][p] = "persisted"]
    /\ UNCHANGED <<bridgeVars, del, found, backfill, failed, moved>>
    /\ NoteHome(m)

\* The route could not be persisted, also not by the retry: the message is
\* dropped before it is queued.
AdmitPersistFails(m, p) ==
    /\ live[m][p] = "idle"
    /\ HandoffMuFree
    /\ live' = [live EXCEPT ![m][p] = "dropped"]
    /\ UNCHANGED <<storeVars, bridgeVars, del, found, backfill, failed, historyVars>>

\* admitLiveMessage, second half: the tombstone check, unlock, and queue one
\* event per part.  A check that fails with an error admits the message.
AdmitCheck(m, p) ==
    /\ live[m][p] = "persisted"
    /\ \/ /\ IsMessageDeletedInPortal(m, p)
          /\ live' = [live EXCEPT ![m][p] = "dropped"]
          /\ UNCHANGED ev
       \/ \* not deleted, or the check returned an error
          /\ live' = [live EXCEPT ![m][p] = "admitted"]
          /\ ev' = [c \in Copy |-> IF c \in CopiesIn(m, p) THEN "queued" ELSE ev[c]]
    /\ UNCHANGED <<storeVars, bridged, visible, del, found, backfill, failed, historyVars>>

-----------------------------------------------------------------------------
(* The portal event loop of bridgev2: one event of a portal at a time.     *)

PortalLoopIdle(p) ==
    /\ \A c \in Copy : PortalOf[c] = p => ev[c] \notin {"sent", "inserted", "doomed"}
    /\ backfill[p] = {}

\* The message is sent to Matrix; a copy that is already bridged is a
\* duplicate and is dropped.
LoopSend(c) ==
    /\ ev[c] = "queued"
    /\ PortalLoopIdle(PortalOf[c])
    /\ \/ /\ c \notin bridged
          /\ ev' = [ev EXCEPT ![c] = "sent"]
          /\ visible' = visible \cup {c}
       \/ /\ c \in bridged
          /\ ev' = [ev EXCEPT ![c] = "done"]
          /\ UNCHANGED visible
    /\ UNCHANGED <<storeVars, live, bridged, del, found, backfill, failed, historyVars>>

\* The sent message is recorded in the bridge's message table.
LoopInsert(c) ==
    /\ ev[c] = "sent"
    /\ ev' = [ev EXCEPT ![c] = "inserted"]
    /\ bridged' = bridged \cup {c}
    /\ UNCHANGED <<storeVars, live, visible, del, found, backfill, failed, historyVars>>

\* Mutation: no post-handle hook.
PostHandleUnchecked(c) ==
    /\ ev[c] = "inserted"
    /\ ev' = [ev EXCEPT ![c] = "done"]
    /\ UNCHANGED <<storeVars, live, bridged, visible, del, found, backfill, failed, historyVars>>

\* deletedMessagePostHandle: was the message of the part just inserted
\* deleted in this portal meanwhile, and is its bridge row still there?
PostHandle(c) ==
    /\ ev[c] = "inserted"
    /\ ev' = [ev EXCEPT ![c] =
          IF IsMessageDeletedInPortal(MsgOf[c], PortalOf[c]) /\ c \in bridged
          THEN "doomed" ELSE "done"]
    /\ UNCHANGED <<storeVars, live, bridged, visible, del, found, backfill, failed, historyVars>>

\* The part is redacted and its bridge row deleted.
PostHandleRedact(c) ==
    /\ ev[c] = "doomed"
    /\ ev' = [ev EXCEPT ![c] = "done"]
    /\ bridged' = bridged \ {c}
    /\ visible' = visible \ {c}
    /\ UNCHANGED <<storeVars, live, del, found, backfill, failed, historyVars>>

\* The tombstone check, the lookup of the part or the redaction failed: a
\* warning is logged and the bridge row is retained.
PostHandleFails(c) ==
    /\ ev[c] \in {"inserted", "doomed"}
    /\ ev' = [ev EXCEPT ![c] = "done"]
    /\ failed' = failed \cup {MsgOf[c]}
    /\ UNCHANGED <<storeVars, live, bridged, visible, del, found, backfill, historyVars>>

-----------------------------------------------------------------------------
(* handleMessageDelete.                                                    *)

\* getAppleDeletedMessageParts: the bridge rows of a UUID, an error when
\* they lie in several portals.
BridgedCopies(m) == CopiesOf(m) \cap bridged

Routes(m) == {PortalOf[c] : c \in BridgedCopies(m)}

Ambiguous(m) == \E p, q \in Routes(m) : p # q

Differ(p, q) == p # NoPortal /\ q # NoPortal /\ p # q

RouteOf(m) == IF Routes(m) = {} THEN NoPortal ELSE CHOOSE p \in Routes(m) : TRUE

GiveUp(m) ==
    /\ del' = [del EXCEPT ![m] = "idle"]
    /\ found' = [found EXCEPT ![m] = NothingFound]
    /\ failed' = failed \cup {m}

\* prepareDeletedMessage up to the tombstone write: lock, look the bridge
\* rows up, read the stored route.  The two reads touch different tables,
\* so no step of another goroutine between them can be told apart from one
\* before or after both.
DeleteResolve(m) ==
    /\ del[m] = "idle"
    /\ HandoffMuFree
    /\ \/ /\ ~Ambiguous(m)
          /\ ~Differ(row[m].portal, RouteOf(m))
          /\ del' = [del EXCEPT ![m] = "resolved"]
          /\ found' = [found EXCEPT ![m] =
                [route |-> RouteOf(m), stored |-> row[m].portal, copies |-> {}]]
          /\ UNCHANGED failed
       \/ \* ambiguous portals, or a failed read
          GiveUp(m)
    /\ UNCHANGED <<storeVars, live, bridgeVars, backfill, moved>>
    /\ NoteHome(m)

\* softDeleteMessageByGUID with the route the lookup found.
DeleteTombstone(m) ==
    /\ del[m] = "resolved"
    /\ row' = [row EXCEPT ![m] = SoftDeleteRow(@, found[m].route)]
    /\ del' = [del EXCEPT ![m] = "tombstoned"]
    /\ moved' = moved \ {m}
    /\ UNCHANGED <<live, bridgeVars, found, backfill, failed>>
    /\ NoteHome(m)

\* The tombstone could not be written: nothing is redacted.
DeleteTombstoneFails(m) ==
    /\ del[m] = "resolved"
    /\ GiveUp(m)
    /\ UNCHANGED <<storeVars, live, bridgeVars, backfill, historyVars>>

\* Mutation: no second lookup, redact what the first one found.
DeleteRefreshSkipped(m) ==
    /\ del[m] = "tombstoned"
    /\ del' = [del EXCEPT ![m] = "redact"]
    /\ UNCHANGED <<storeVars, live, bridgeVars, found, backfill, failed, historyVars>>

\* The second lookup, and unlock.  With no bridge row the handler ends and
\* leaves the message to the tombstone.
DeleteRefresh(m) ==
    /\ del[m] = "tombstoned"
    /\ \/ /\ ~Ambiguous(m)
          /\ ~Differ(found[m].route, RouteOf(m))
          /\ ~Differ(found[m].stored, RouteOf(m))
          /\ IF BridgedCopies(m) = {}
             THEN /\ del' = [del EXCEPT ![m] = "idle"]
                  /\ found' = [found EXCEPT ![m] = NothingFound]
             ELSE /\ del' = [del EXCEPT ![m] = "redact"]
                  /\ found' = [found EXCEPT ![m].copies = BridgedCopies(m)]
          /\ UNCHANGED failed
       \/ \* ambiguous portals, or a failed read
          GiveUp(m)
    /\ UNCHANGED <<storeVars, live, bridgeVars, backfill, historyVars>>

\* redactAppleDeletedMessageParts: redact the parts found, then delete their
\* bridge rows.
DeleteRedact(m) ==
    /\ del[m] = "redact"
    /\ visible' = visible \ found[m].copies
    /\ bridged' = bridged \ found[m].copies
    /\ del' = [del EXCEPT ![m] = "idle"]
    /\ found' = [found EXCEPT ![m] = NothingFound]
    /\ UNCHANGED <<storeVars, live, ev, backfill, failed, historyVars>>

\* Mutation: the bridge rows are deleted before the redaction fails.
DeleteRedactFailsLate(m) ==
    /\ del[m] = "redact"
    /\ bridged' = bridged \ found[m].copies
    /\ GiveUp(m)
    /\ UNCHANGED <<storeVars, live, ev, visible, backfill, historyVars>>

\* The portal is unavailable or the bot's redaction failed: the bridge rows
\* are retained.
DeleteRedactFails(m) ==
    /\ del[m] = "redact"
    /\ GiveUp(m)
    /\ UNCHANGED <<storeVars, live, bridgeVars, backfill, historyVars>>

-----------------------------------------------------------------------------
(* CloudKit sync and forward backfill, neither of which takes the lock.    *)

\* A CloudKit record of the message is upserted, in the portal that the
\* record resolves to: a stored row may move, a tombstone with it.
CloudUpsert(m, p) ==
    /\ row' = [row EXCEPT ![m] = UpsertMessage(@, p)]
    /\ moved' = IF row[m].deleted /\ row[m].portal \notin {p, NoPortal}
                THEN moved \cup {m} ELSE moved
    /\ UNCHANGED <<live, bridgeVars, del, found, backfill, failed>>
    /\ NoteHome(m)

\* FetchMessages, forward: list the live rows of the portal that the room
\* does not have.  It runs inside the portal's event loop.
BackfillRows(p) ==
    {m \in Msg : /\ row[m].here /\ ~row[m].deleted /\ row[m].portal = p
                 /\ CopiesIn(m, p) \cap bridged = {}}

BackfillRead(p) ==
    /\ Backfills
    /\ PortalLoopIdle(p)
    /\ BackfillRows(p) # {}
    /\ backfill' = [backfill EXCEPT ![p] = BackfillRows(p)]
    /\ UNCHANGED <<storeVars, live, bridgeVars, del, found, failed, historyVars>>

\* bridgev2 sends the batch and records it; no post-handle hook runs.
BackfillCopies(p) == UNION {CopiesIn(m, p) : m \in backfill[p]}

BackfillDeliver(p) ==
    /\ backfill[p] # {}
    /\ visible' = visible \cup BackfillCopies(p)
    /\ bridged' = bridged \cup BackfillCopies(p)
    /\ backfill' = [backfill EXCEPT ![p] = {}]
    /\ UNCHANGED <<storeVars, live, ev, del, found, failed, historyVars>>

-----------------------------------------------------------------------------
LiveStep(m, p) ==
    AdmitPersist(m, p) \/ AdmitPersistFails(m, p) \/ AdmitCheck(m, p)

LoopStep(c) ==
    \/ LoopSend(c) \/ LoopInsert(c)
    \/ PostHandle(c) \/ PostHandleRedact(c) \/ PostHandleFails(c)

DeleteStep(m) ==
    \/ DeleteResolve(m) \/ DeleteTombstone(m) \/ DeleteTombstoneFails(m)
    \/ DeleteRefresh(m) \/ DeleteRedact(m) \/ DeleteRedactFails(m)

Next ==
    \/ \E m \in Msg : DeleteStep(m)
    \/ \E m \in Msg, p \in Portal : LiveStep(m, p) \/ CloudUpsert(m, p)
    \/ \E p \in Portal : BackfillRead(p) \/ BackfillDeliver(p)
    \/ \E c \in Copy : LoopStep(c)

Spec == Init /\ [][Next]_vars

\* A running event loop and a running delete handler go on; nothing obliges
\* a message, a delete or a CloudKit page to arrive.
DeleteGoesOn(m) == del[m] # "idle" /\ DeleteStep(m)

FairSpec ==
    /\ Spec
    /\ \A c \in Copy : WF_vars(LoopStep(c))
    /\ \A m \in Msg : WF_vars(DeleteGoesOn(m))

-----------------------------------------------------------------------------
(* Properties.                                                             *)

\* The Apple delete of c's message is on record for the portal c lives in.
DeletedHere(c) ==
    /\ row[MsgOf[c]].deleted
    /\ row[MsgOf[c]].portal = PortalOf[c]

\* Some step that will redact c is still to come: its own post-handle hook,
\* or the delete handler, which has found c or is about to look it up.
RemovalPending(c) ==
    \/ ev[c] \in {"sent", "inserted", "doomed"}
    \/ del[MsgOf[c]] = "tombstoned" /\ c \in bridged
    \/ del[MsgOf[c]] = "redact" /\ c \in found[MsgOf[c]].copies

\* The handoff window is closed (client.go:4712 "a bridge row inserted after
\* the first lookup is either visible here or its PostHandle observes the
\* tombstone"): once the tombstone of a message is stored, every Matrix copy
\* of it in that portal is one that some running goroutine is bound to
\* redact, unless an error of this message was logged or CloudKit has moved
\* the tombstone since.  Rows that CloudKit moves before the tombstone is
\* written, between the lookups included, make no difference.
NoDeletedCopyLeft ==
    \A c \in visible :
        DeletedHere(c) /\ MsgOf[c] \notin failed \cup moved => RemovalPending(c)

\* A reused UUID does not take down a conversation that has nothing to do
\* with the delete: whatever redacts a copy (the delete handler, acting on
\* its lookups, or a post-handle hook) and however often CloudKit moves the
\* row meanwhile, the row was routed to that copy's own portal while the
\* delete was being handled or on record.
RedactsOnlyDeletedPortal ==
    [][\A c \in visible \ visible' :
          row[MsgOf[c]].deleted /\ PortalOf[c] \in homes[MsgOf[c]]]_vars

\* Bridge rows and Matrix events do not drift apart: a copy on screen can
\* always be found by a later delete, because it has a bridge row or its
\* event-loop turn is about to insert one.
VisibleCopyIsFindable ==
    \A c \in visible : c \in bridged \/ ev[c] = "sent"

\* A deleted message does disappear from the portal it is tombstoned in,
\* unless an error of this message was logged or CloudKit moves the
\* tombstone to another portal before the redaction.
DeletedCopyGoes ==
    \A c \in Copy :
        (c \in visible /\ DeletedHere(c)) ~> (c \notin visible \/ MsgOf[c] \in failed \cup moved)

=============================================================================
