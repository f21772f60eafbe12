----------------------------- MODULE CloudStore ------------------------------
(***************************************************************************)
(* The life of CloudKit history in the bridge's own database: ingested by  *)
(* the sync controller, delivered to Matrix by forward backfill, scrubbed  *)
(* of its plaintext once delivered, soft-deleted with its chat or message, *)
(* and brought back by a restore.                                          *)
(*                                                                         *)
(* Actors: the sync controller (one goroutine), the portal event loops of  *)
(* bridgev2 (forward backfill, room deletion), the APNs handlers (deletes),*)
(* one restore pipeline per portal, and the privacy scrubber.  A step is   *)
(* one call into the store (a delete of a chat is its two statements) or   *)
(* one access to a map in memory.  Two locks matter: restorePipelinesMu,   *)
(* which a scrub pass holds from end to end and a restore takes to start   *)
(* and to finish, and restoreMu, which keeps the first stages of two       *)
(* restores apart.                                                         *)
(* A crash loses everything but the tables.                                *)
(***************************************************************************)
EXTENDS CloudRows, Integers

CONSTANTS
    SourceOf,    \* the chat_id CloudKit gives a message
    HomePortal,  \* the portal its participants resolve to without a chat row
    ChatPortals, \* the portals CloudKit may map a chat to
    Sent,        \* the order of timestamp_ms
    Cap,         \* Backfill.MaxInitialMessages, 0 when uncapped
    Filterable,  \* chats CloudKit may report as filtered
    Removable,   \* portals whose chat may be deleted
    Restorable,  \* portals that may be restored
    Retractable, \* messages that may be deleted one by one
    Recyclable,  \* messages the change feed may report as deleted
    Seedable,    \* chats a restore may name
    Faults       \* may calls fail and the bridge crash?

ASSUME StoreAssumption ==
    /\ SourceOf \in [Guid -> AppleChat \cup {NoChat}]
    /\ HomePortal \in [Guid -> Portal]
    /\ ChatPortals \in [AppleChat -> SUBSET Portal]
    /\ Sent \in [Guid -> Int]
    /\ \A g, h \in Guid : Sent[g] = Sent[h] => g = h
    /\ Cap \in Nat
    /\ Filterable \subseteq AppleChat
    /\ Removable \subseteq Portal
    /\ Restorable \subseteq Portal
    /\ Retractable \subseteq Guid
    /\ Recyclable \subseteq Guid
    /\ Seedable \subseteq ChatId
    /\ Faults \in BOOLEAN

VARIABLES
    msg,        \* cloud_message
    chat,       \* cloud_chat
    delivered,  \* bridgev2's message table: <<guid, portal>>
    tracked,    \* recentlyDeletedPortals: "no", "live" entry or "tombstone"
    ingest,     \* the sync controller between two statements
    deleting,   \* deletion of a portal's chat in progress
    roomDelete, \* portals with a ChatDelete event queued
    restore,    \* restorePipelines: the stage of each portal's pipeline
    fwd,        \* FetchMessages(Forward) of each portal
    pass,       \* scrubBridgedBodies
    tail        \* scrubUnbridgedTail

tables == <<msg, chat, delivered>>
vars == <<msg, chat, delivered, tracked, ingest, deleting, roomDelete,
          restore, fwd, pass, tail>>

Candidate == [guid: Guid, portal: Portal \cup {NoPortal}, force: BOOLEAN]

Ingest == [pc: {"idle", "confirm", "undelete", "message"}, guids: SUBSET Guid,
           portal: Portal \cup {NoPortal}, deleted: BOOLEAN]

Deleting == [pc: {"idle", "chats", "messages"}, by: {"apple", "cloudkit"}]

Fwd == [pc: {"idle", "deliver", "clear", "refetch", "rescrub", "reread", "complete"},
        batch: SUBSET Guid, cleared: SUBSET Guid]

Pass == [pc: {"idle", "load", "batch"}, excl: SUBSET Portal,
         cands: SUBSET Candidate, seen: SUBSET (Guid \X Portal)]

Tail == [pc: {"idle", "portals", "update"}, todo: SUBSET Portal,
         at: Portal \cup {NoPortal}, floor: Int]

IngestIdle == [pc |-> "idle", guids |-> {}, portal |-> NoPortal, deleted |-> FALSE]
NotDeleting == [pc |-> "idle", by |-> "apple"]
FwdIdle == [pc |-> "idle", batch |-> {}, cleared |-> {}]
PassIdle == [pc |-> "idle", excl |-> {}, cands |-> {}, seen |-> {}]
TailIdle == [pc |-> "idle", todo |-> {}, at |-> NoPortal, floor |-> 0]

TypeOK ==
    /\ msg \in [Guid -> MsgRow]
    /\ chat \in [ChatId -> ChatRow]
    /\ delivered \subseteq Guid \X Portal
    /\ tracked \in [Portal -> {"no", "live", "tombstone"}]
    /\ ingest \in Ingest
    /\ deleting \in [Portal -> Deleting]
    /\ roomDelete \subseteq Portal
    /\ restore \in [Portal -> {"off", "chats", "messages", "clear", "check",
                               "recycle", "fetch", "finish"}]
    /\ fwd \in [Portal -> Fwd]
    /\ pass \in Pass
    /\ tail \in Tail

Init ==
    /\ msg = [g \in Guid |-> NoMsg]
    /\ chat = [k \in ChatId |-> NoChatRow]
    /\ delivered = {}
    /\ tracked = [p \in Portal |-> "no"]
    /\ ingest = IngestIdle
    /\ deleting = [p \in Portal |-> NotDeleting]
    /\ roomDelete = {}
    /\ restore = [p \in Portal |-> "off"]
    /\ fwd = [p \in Portal |-> FwdIdle]
    /\ pass = PassIdle
    /\ tail = TailIdle

\* restorePipelinesMu is held for the whole of a scrub pass
\* (withActiveRestorePortals).
ScrubberIdle == pass.pc = "idle" /\ tail.pc = "idle"

-----------------------------------------------------------------------------
(* CloudKit sync: ingestCloudChats and ingestCloudMessages, one goroutine. *)

SyncIdle ==
    /\ ingest.pc = "idle"
    /\ \A p \in Portal : deleting[p].by = "apple"

\* A live chat record is upserted.
IngestChat(k, p, f) ==
    /\ SyncIdle
    /\ p \in ChatPortals[k]
    /\ f => k \in Filterable
    /\ chat' = [chat EXCEPT ![k] = UpsertChat(@, p, f)]
    /\ ingest' = [IngestIdle EXCEPT !.pc = "confirm", !.portal = p]
    /\ UNCHANGED <<msg, delivered, tracked, deleting, roomDelete, restore, fwd,
                   pass, tail>>

\* Its portal is dropped from recentlyDeletedPortals if it is there as a
\* tombstone; an entry of a delete made in Matrix or on a device stays.
IngestConfirm ==
    /\ ingest.pc = "confirm"
    /\ LET p == ingest.portal IN
       IF tracked[p] = "tombstone"
       THEN /\ tracked' = [tracked EXCEPT ![p] = "no"]
            /\ ingest' = [ingest EXCEPT !.pc = "undelete"]
       ELSE /\ ingest' = IngestIdle
            /\ UNCHANGED tracked
    /\ UNCHANGED <<tables, deleting, roomDelete, restore, fwd, pass, tail>>

\* undeleteCloudChatByPortalID
UndeleteChats(ct, p) ==
    [k \in ChatId |-> IF On(ct[k], p) /\ ct[k].deleted
                      THEN [ct[k] EXCEPT !.deleted = FALSE, !.done = FALSE]
                      ELSE ct[k]]

IngestUndelete ==
    /\ ingest.pc = "undelete"
    /\ \/ chat' = UndeleteChats(chat, ingest.portal)
       \/ Faults /\ UNCHANGED chat
    /\ ingest' = IngestIdle
    /\ UNCHANGED <<msg, delivered, tracked, deleting, roomDelete, restore, fwd,
                   pass, tail>>

\* A chat tombstone: soft-delete its row, then delete its portal locally.
IngestChatTombstone(k) ==
    /\ SyncIdle
    /\ chat[k].here
    /\ chat[k].portal \in Removable
    /\ deleting[chat[k].portal].pc = "idle"
    /\ chat' = [chat EXCEPT ![k].deleted = TRUE]
    /\ deleting' = [deleting EXCEPT ![chat[k].portal] =
                        [pc |-> "chats", by |-> "cloudkit"]]
    /\ UNCHANGED <<msg, delivered, tracked, ingest, roomDelete, restore, fwd,
                   pass, tail>>

\* The change feed reports a message as deleted: deleteMessageBatch.
IngestDelete(g) ==
    /\ SyncIdle
    /\ g \in Recyclable
    /\ msg[g].here /\ ~msg[g].deleted
    /\ msg' = [msg EXCEPT ![g] = SoftDelete(@)]
    /\ UNCHANGED <<chat, delivered, tracked, ingest, deleting, roomDelete,
                   restore, fwd, pass, tail>>

\* resolveConversationID
Resolve(g) ==
    IF SourceOf[g] # NoChat /\ chat[SourceOf[g]].here
    THEN chat[SourceOf[g]].portal
    ELSE HomePortal[g]

PortalIsExplicitlyDeleted(p) == \E k \in ChatId : On(chat[k], p) /\ chat[k].deleted

PortalHasChat(p) == \E k \in ChatId : On(chat[k], p) /\ ~chat[k].deleted

\* Phase 1 for a live message record: the snapshot of recentlyDeletedPortals
\* and the checks that skip it.
IngestResolve(g) ==
    /\ SyncIdle
    /\ ~PortalIsExplicitlyDeleted(Resolve(g))
    /\ SourceOf[g] = NoChat => PortalHasChat(Resolve(g))
    /\ ingest' = [pc |-> "message", guids |-> {g}, portal |-> Resolve(g),
                  deleted |-> tracked[Resolve(g)] # "no"]
    /\ UNCHANGED <<tables, tracked, deleting, roomDelete, restore, fwd, pass, tail>>

\* Phase 2: the batch is upserted, or the transaction fails.
IngestCommit ==
    /\ ingest.pc = "message"
    /\ \/ msg' = [g \in Guid |-> IF g \in ingest.guids
                    THEN Upsert(msg[g], SourceOf[g], ingest.portal, ingest.deleted)
                    ELSE msg[g]]
       \/ Faults /\ UNCHANGED msg
    /\ ingest' = IngestIdle
    /\ UNCHANGED <<chat, delivered, tracked, deleting, roomDelete, restore, fwd,
                   pass, tail>>

-----------------------------------------------------------------------------
(* Deletes that arrive over APNs.                                          *)

\* handleMessageDelete's write: softDeleteMessageByGUID with the route of
\* the bridge rows, if any.
MessageDelete(g, p) ==
    /\ g \in Retractable
    /\ msg' = [msg EXCEPT ![g] = Tombstone(@, p)]
    /\ UNCHANGED <<chat, delivered, tracked, ingest, deleting, roomDelete,
                   restore, fwd, pass, tail>>

\* The bridge row of a tombstoned message goes with its redaction.
MessageRedact(g, p) ==
    /\ msg[g].msgDeleted /\ msg[g].portal = p
    /\ <<g, p>> \in delivered
    /\ delivered' = delivered \ {<<g, p>>}
    /\ UNCHANGED <<msg, chat, tracked, ingest, deleting, roomDelete, restore,
                   fwd, pass, tail>>

\* handleChatDelete: trackDeletedChat, then deleteLocalChatByPortalID.
ChatDelete(p) ==
    /\ p \in Removable
    /\ deleting[p].pc = "idle"
    /\ tracked' = [tracked EXCEPT ![p] = "live"]
    /\ deleting' = [deleting EXCEPT ![p] = [pc |-> "chats", by |-> "apple"]]
    /\ UNCHANGED <<tables, ingest, roomDelete, restore, fwd, pass, tail>>

\* deleteLocalChatByPortalID, first statement.
DeleteChatRows(p) ==
    /\ deleting[p].pc = "chats"
    /\ chat' = [k \in ChatId |-> IF On(chat[k], p)
                                 THEN [chat[k] EXCEPT !.deleted = TRUE]
                                 ELSE chat[k]]
    /\ deleting' = [deleting EXCEPT ![p].pc = "messages"]
    /\ UNCHANGED <<msg, delivered, tracked, ingest, roomDelete, restore, fwd,
                   pass, tail>>

\* deleteLocalChatByPortalID, second statement; then the room is queued for
\* deletion, and a CloudKit tombstone is remembered as one.
DeleteMessageRows(p) ==
    /\ deleting[p].pc = "messages"
    /\ msg' = [g \in Guid |-> IF msg[g].here /\ msg[g].portal = p /\ ~msg[g].deleted
                              THEN SoftDelete(msg[g])
                              ELSE msg[g]]
    /\ tracked' = [tracked EXCEPT ![p] =
                      IF deleting[p].by = "cloudkit" THEN "tombstone" ELSE @]
    /\ deleting' = [deleting EXCEPT ![p] = NotDeleting]
    /\ roomDelete' = roomDelete \cup {p}
    /\ UNCHANGED <<chat, delivered, ingest, restore, fwd, pass, tail>>

\* A statement failed: fail closed, the room is kept.
DeleteFails(p) ==
    /\ Faults
    /\ deleting[p].pc # "idle"
    /\ deleting' = [deleting EXCEPT ![p] = NotDeleting]
    /\ UNCHANGED <<tables, tracked, ingest, roomDelete, restore, fwd, pass, tail>>

\* bridgev2 deletes the room and, with it, its message rows.
RoomDelete(p) ==
    /\ p \in roomDelete
    /\ fwd[p].pc = "idle"
    /\ roomDelete' = roomDelete \ {p}
    /\ delivered' = {d \in delivered : d[2] # p}
    /\ UNCHANGED <<msg, chat, tracked, ingest, deleting, restore, fwd, pass, tail>>

\* pruneRecentlyDeletedPortals
PruneTracked(p) ==
    /\ tracked[p] # "no"
    /\ tracked' = [tracked EXCEPT ![p] = "no"]
    /\ UNCHANGED <<tables, ingest, deleting, roomDelete, restore, fwd, pass, tail>>

-----------------------------------------------------------------------------
(* runRestoreBackfillPipeline.                                             *)

\* Mutation: a restore starts without restorePipelinesMu.
RestoreStartUnlocked(p) ==
    /\ p \in Restorable
    /\ restore[p] = "off"
    /\ restore' = [restore EXCEPT ![p] = "chats"]
    /\ UNCHANGED <<tables, tracked, ingest, deleting, roomDelete, fwd, pass, tail>>

\* startRestoreBackfillPipeline
RestoreStart(p) ==
    /\ p \in Restorable
    /\ restore[p] = "off"
    /\ ScrubberIdle
    /\ restore' = [restore EXCEPT ![p] = "chats"]
    /\ UNCHANGED <<tables, tracked, ingest, deleting, roomDelete, fwd, pass, tail>>

\* The chat a restore of p may name: one of Apple's, or none (recycle:<p>).
SeedsOf(p) ==
    Seedable \cap ({<<"recycle", p>>} \cup {k \in AppleChat : p \in ChatPortals[k]})

\* restoreMu is held from the first statement of a restore to its check for
\* contentful messages.
RestoreMuFree == \A p \in Portal : restore[p] \notin {"messages", "clear", "check"}

\* Lock, untrack the portal, seed a chat row when the restore names its chat,
\* and undelete the portal's chat rows.
RestoreChats(p) ==
    /\ restore[p] = "chats"
    /\ RestoreMuFree
    /\ tracked' = [tracked EXCEPT ![p] = "no"]
    /\ \E seeds \in {{}} \cup {{k} : k \in SeedsOf(p)} :
          chat' = UndeleteChats(
                    [k \in ChatId |-> IF k \in seeds THEN SeedChat(chat[k], p) ELSE chat[k]], p)
    /\ restore' = [restore EXCEPT ![p] = "messages"]
    /\ UNCHANGED <<msg, delivered, ingest, deleting, roomDelete, fwd, pass, tail>>

\* undeleteCloudMessagesByPortalID: chat rows undeleted and no longer done,
\* message rows undeleted unless deleted one by one.
RestoreMessages(p) ==
    /\ restore[p] = "messages"
    /\ chat' = [k \in ChatId |-> IF On(chat[k], p)
                    THEN [chat[k] EXCEPT !.deleted = FALSE, !.done = FALSE]
                    ELSE chat[k]]
    /\ msg' = [g \in Guid |-> IF Undeletable(msg[g], p) THEN Undelete(msg[g]) ELSE msg[g]]
    /\ restore' = [restore EXCEPT ![p] = "clear"]
    /\ UNCHANGED <<delivered, tracked, ingest, deleting, roomDelete, fwd, pass, tail>>

\* clearBodyScrubByPortalID
RestoreClear(p) ==
    /\ restore[p] = "clear"
    /\ msg' = [g \in Guid |-> IF Clearable(msg[g], p) THEN ClearScrub(msg[g]) ELSE msg[g]]
    /\ restore' = [restore EXCEPT ![p] = "check"]
    /\ UNCHANGED <<chat, delivered, tracked, ingest, deleting, roomDelete, fwd, pass, tail>>

\* A store call of the first stage failed: logged, and the pipeline goes on.
RestoreCallFails(p) ==
    /\ Faults
    /\ \/ /\ restore[p] = "chats" /\ RestoreMuFree
          /\ tracked' = [tracked EXCEPT ![p] = "no"]
          /\ restore' = [restore EXCEPT ![p] = "messages"]
       \/ /\ restore[p] = "messages"
          /\ restore' = [restore EXCEPT ![p] = "clear"]
          /\ UNCHANGED tracked
       \/ /\ restore[p] = "clear"
          /\ restore' = [restore EXCEPT ![p] = "check"]
          /\ UNCHANGED tracked
    /\ UNCHANGED <<tables, ingest, deleting, roomDelete, fwd, pass, tail>>

HasContentfulMessages(p) ==
    \E g \in Guid : Listed(chat, msg[g], p) /\ msg[g].text /\ ~msg[g].scrubbed

\* The recycle bin is worth a look when the portal has nothing deliverable;
\* a failed check says no.  Unlock.
RestoreCheck(p) ==
    /\ restore[p] = "check"
    /\ \/ /\ ~HasContentfulMessages(p)
          /\ restore' = [restore EXCEPT ![p] = "recycle"]
       \/ /\ HasContentfulMessages(p) \/ Faults
          /\ restore' = [restore EXCEPT ![p] = "fetch"]
    /\ UNCHANGED <<tables, tracked, ingest, deleting, roomDelete, fwd, pass, tail>>

\* recoverMessagesFromRecycleBin: undelete what Apple lists as recoverable,
\* or else seed it.  The list may be empty, or its fetch fail.
RestoreRecycle(p) ==
    /\ restore[p] = "recycle"
    /\ \E listed \in SUBSET Guid :
          LET revived == {g \in listed : Undeletable(msg[g], p)}
              seeded == {g \in listed : revived = {} /\ Resolve(g) = p}
          IN  msg' = [g \in Guid |->
                  IF g \in revived THEN Undelete(msg[g])
                  ELSE IF g \in seeded THEN SeedMessage(msg[g], SourceOf[g], p)
                  ELSE msg[g]]
    /\ restore' = [restore EXCEPT ![p] = "fetch"]
    /\ UNCHANGED <<chat, delivered, tracked, ingest, deleting, roomDelete, fwd, pass, tail>>

\* fetchRecoveredMessagesFromCloudKit: what CloudKit returns for the portal
\* is upserted under it.  An attempt that imports nothing changes nothing,
\* so the retries are one step.
FetchRecovered(found, p) ==
    [g \in Guid |-> IF g \in found THEN Upsert(msg[g], SourceOf[g], p, FALSE) ELSE msg[g]]

Recoverable(p) == {g \in Guid : Resolve(g) = p \/ HomePortal[g] = p}

RestoreFetch(p) ==
    /\ restore[p] = "fetch"
    /\ \E found \in SUBSET Recoverable(p) : msg' = FetchRecovered(found, p)
    /\ restore' = [restore EXCEPT ![p] = "finish"]
    /\ UNCHANGED <<chat, delivered, tracked, ingest, deleting, roomDelete, fwd, pass, tail>>

\* finishRestoreBackfillPipeline
RestoreFinish(p) ==
    /\ restore[p] = "finish"
    /\ ScrubberIdle
    /\ restore' = [restore EXCEPT ![p] = "off"]
    /\ UNCHANGED <<tables, tracked, ingest, deleting, roomDelete, fwd, pass, tail>>

-----------------------------------------------------------------------------
(* FetchMessages(Forward), run by the portal's event loop.                 *)

HasAnchor(p) == \E d \in delivered : d[2] = p

\* After the anchor when the room has one, else the newest Cap.
ForwardRows(p) ==
    LET listed == {g \in Guid : Listed(chat, msg[g], p)}
        newer(g) == {h \in listed : Sent[h] > Sent[g]}
    IN  IF HasAnchor(p)
        THEN {g \in listed : \A d \in delivered : d[2] = p => Sent[d[1]] < Sent[g]}
        ELSE {g \in listed : Cap = 0 \/ Cardinality(newer(g)) < Cap}

\* cloudRowsToBackfillMessages: a scrubbed or empty row makes no message.
Convertible(p) == {g \in ForwardRows(p) : msg[g].text /\ ~msg[g].scrubbed}

FwdGoTo(p, pc) == fwd' = [fwd EXCEPT ![p].pc = pc]

\* Read and convert.  An empty first batch out of scrubbed rows is worth one
\* rehydrate; any other empty batch completes the backfill.
FwdRead(p) ==
    /\ fwd[p].pc = "idle"
    /\ tracked[p] # "no" => \E g \in Guid : Listed(chat, msg[g], p)
    /\ IF Convertible(p) # {}
       THEN fwd' = [fwd EXCEPT ![p] = [FwdIdle EXCEPT !.pc = "deliver", !.batch = Convertible(p)]]
       ELSE IF ~HasAnchor(p) /\ \E g \in ForwardRows(p) : msg[g].scrubbed
       THEN FwdGoTo(p, "clear")
       ELSE FwdGoTo(p, "complete")
    /\ UNCHANGED <<tables, tracked, ingest, deleting, roomDelete, restore, pass, tail>>

\* rehydrateScrubbedPortal: clearBodyScrubForRehydrate,
RehydrateClear(p) ==
    LET cleared == {g \in Guid : /\ msg[g].here /\ msg[g].portal = p
                                 /\ msg[g].scrubbed /\ ~msg[g].deleted
                                 /\ Readable(chat, msg[g])}
    IN  /\ fwd[p].pc = "clear"
        /\ msg' = [g \in Guid |-> IF g \in cleared THEN MarkCleared(msg[g]) ELSE msg[g]]
        /\ fwd' = [fwd EXCEPT ![p].pc = "refetch", ![p].cleared = cleared]
        /\ UNCHANGED <<chat, delivered, tracked, ingest, deleting, roomDelete,
                       restore, pass, tail>>

\* ... the CloudKit fetch, which may bring nothing,
RehydrateFetch(p) ==
    /\ fwd[p].pc = "refetch"
    /\ \E found \in SUBSET Recoverable(p) :
          /\ msg' = FetchRecovered(found, p)
          /\ fwd' = [fwd EXCEPT ![p].pc = "rescrub", ![p].batch = found]
    /\ UNCHANGED <<chat, delivered, tracked, ingest, deleting, roomDelete,
                   restore, pass, tail>>

\* ... and rescrubClearedRows, whose failure is only logged.  The portal is
\* read again if CloudKit returned anything.
RehydrateRescrub(p) ==
    /\ fwd[p].pc = "rescrub"
    /\ \/ msg' = [g \in Guid |->
                    IF g \in fwd[p].cleared /\ Rescrubbable(msg[g], p)
                    THEN Rescrub(msg[g]) ELSE msg[g]]
       \/ Faults /\ UNCHANGED msg
    /\ fwd' = [fwd EXCEPT ![p] = [FwdIdle EXCEPT !.pc =
                    IF fwd[p].batch = {} THEN "complete" ELSE "reread"]]
    /\ UNCHANGED <<chat, delivered, tracked, ingest, deleting, roomDelete,
                   restore, pass, tail>>

FwdReread(p) ==
    /\ fwd[p].pc = "reread"
    /\ fwd' = [fwd EXCEPT ![p].batch = Convertible(p),
                          ![p].pc = IF Convertible(p) # {} THEN "deliver" ELSE "complete"]
    /\ UNCHANGED <<tables, tracked, ingest, deleting, roomDelete, restore, pass, tail>>

\* bridgev2 sends the batch and records it.
FwdDeliver(p) ==
    /\ fwd[p].pc = "deliver"
    /\ delivered' = delivered \cup (fwd[p].batch \X {p})
    /\ fwd' = [fwd EXCEPT ![p] = [FwdIdle EXCEPT !.pc = "complete"]]
    /\ UNCHANGED <<msg, chat, tracked, ingest, deleting, roomDelete, restore, pass, tail>>

\* CompleteCallback, or the empty return: markForwardBackfillDone.
FwdComplete(p) ==
    /\ fwd[p].pc = "complete"
    /\ chat' = IF \E k \in ChatId : On(chat[k], p)
               THEN [k \in ChatId |-> IF On(chat[k], p)
                                      THEN [chat[k] EXCEPT !.done = TRUE]
                                      ELSE chat[k]]
               ELSE [chat EXCEPT ![<<"synthetic", p>>] = SyntheticChat(p)]
    /\ fwd' = [fwd EXCEPT ![p] = FwdIdle]
    /\ UNCHANGED <<msg, delivered, tracked, ingest, deleting, roomDelete, restore, pass, tail>>

\* A query failed or the portal's context was cancelled: not marked done.
FwdAborts(p) ==
    /\ Faults
    /\ fwd[p].pc \in {"deliver", "clear", "reread"}
    /\ fwd' = [fwd EXCEPT ![p] = FwdIdle]
    /\ UNCHANGED <<tables, tracked, ingest, deleting, roomDelete, restore, pass, tail>>

-----------------------------------------------------------------------------
(* The privacy scrubber: scrubBridgedBodies and scrubUnbridgedTail.        *)

Restoring == {p \in Portal : restore[p] # "off"}

ForceScrub(r) == r.deleted \/ PermanentlyFiltered(chat, r)

Deliverable(r) == ~Held(chat, r) /\ Readable(chat, r)

\* body_scrubbed=FALSE and older than the grace window.
Aged(r) == r.here /\ ~r.scrubbed /\ r.ts = "old"

\* scrubCandidates.  A NULL portal is in no IN list and in no NOT IN list.
ScrubCandidates ==
    {[guid |-> g, portal |-> msg[g].portal, force |-> ForceScrub(msg[g])] :
        g \in {h \in Guid :
                 /\ Aged(msg[h])
                 /\ ForceScrub(msg[h]) \/ Deliverable(msg[h])
                 /\ Restoring = {} \/ msg[h].portal \notin Restoring \cup {NoPortal}}}

ScrubScan ==
    /\ ScrubberIdle
    /\ ScrubCandidates # {}
    /\ pass' = [pc |-> "load", excl |-> Restoring, cands |-> ScrubCandidates, seen |-> {}]
    /\ UNCHANGED <<tables, tracked, ingest, deleting, roomDelete, restore, fwd, tail>>

\* loadBridgedMessageIDs, skipped when every candidate is forced.
ScrubLoad ==
    /\ pass.pc = "load"
    /\ pass' = [pass EXCEPT !.pc = "batch",
                            !.seen = IF \E c \in pass.cands : ~c.force THEN delivered ELSE {}]
    /\ UNCHANGED <<tables, tracked, ingest, deleting, roomDelete, restore, fwd, tail>>

\* Mutation: the UPDATE trusts the delivery witness loaded earlier.
StillEligibleByCache(c) ==
    LET r == msg[c.guid] IN
    /\ Aged(r)
    /\ \/ c.force /\ ForceScrub(r)
       \/ /\ ~c.force
          /\ <<c.guid, c.portal>> \in pass.seen
          /\ r.portal = c.portal
          /\ Deliverable(r)

\* scrubBatchIfEligible on one candidate: the UPDATE checks again what made
\* the row a candidate and that its delivery witness is still there.
StillEligible(c) ==
    LET r == msg[c.guid] IN
    /\ Aged(r)
    /\ \/ c.force /\ ForceScrub(r)
       \/ /\ ~c.force
          /\ <<c.guid, c.portal>> \in pass.seen \cap delivered
          /\ r.portal = c.portal
          /\ Deliverable(r)

\* One chunk of candidates.
ScrubBatch ==
    /\ pass.pc = "batch"
    /\ \E chunk \in SUBSET pass.cands :
          /\ chunk # {}
          /\ msg' = [g \in Guid |->
                        IF \E c \in chunk : c.guid = g /\ StillEligible(c)
                        THEN Scrub(msg[g]) ELSE msg[g]]
          /\ pass' = IF chunk = pass.cands THEN PassIdle
                     ELSE [pass EXCEPT !.cands = @ \ chunk]
    /\ UNCHANGED <<chat, delivered, tracked, ingest, deleting, roomDelete,
                   restore, fwd, tail>>

\* A statement failed or the five-minute context ended.
ScrubAborts ==
    /\ Faults
    /\ ~ScrubberIdle
    /\ pass' = PassIdle
    /\ tail' = TailIdle
    /\ UNCHANGED <<tables, tracked, ingest, deleting, roomDelete, restore, fwd>>

\* Mutation: the tail scrub does not leave restoring portals out.
TailPortalsAll ==
    {p \in Portal :
        Cardinality({g \in Guid : Listed(chat, msg[g], p) /\ ~Held(chat, msg[g])}) > Cap}

\* scrubUnbridgedTail: the portals with more than Cap deliverable rows that
\* no pending backfill holds.
TailPortals ==
    {p \in Portal \ Restoring :
        Cardinality({g \in Guid : Listed(chat, msg[g], p) /\ ~Held(chat, msg[g])}) > Cap}

TailScan ==
    /\ Cap > 0
    /\ ScrubberIdle
    /\ TailPortals # {}
    /\ tail' = [TailIdle EXCEPT !.pc = "portals", !.todo = TailPortals]
    /\ UNCHANGED <<tables, tracked, ingest, deleting, roomDelete, restore, fwd, pass>>

\* The timestamp of the Cap-th newest row of the portal; a portal that has
\* fewer by now is passed over.
TailThreshold(p) ==
    LET listed == {g \in Guid : Listed(chat, msg[g], p)}
        capth == {g \in listed : Cardinality({h \in listed : Sent[h] > Sent[g]}) = Cap - 1}
    IN  /\ tail.pc = "portals"
        /\ p \in tail.todo
        /\ tail' = [tail EXCEPT
                !.todo = @ \ {p},
                !.pc = IF capth # {} THEN "update"
                       ELSE IF tail.todo = {p} THEN "idle" ELSE "portals",
                !.at = IF capth # {} THEN p ELSE NoPortal,
                !.floor = IF capth # {} THEN Sent[CHOOSE g \in capth : TRUE] ELSE 0]
        /\ UNCHANGED <<tables, tracked, ingest, deleting, roomDelete, restore, fwd, pass>>

TailRow(g) ==
    /\ Aged(msg[g])
    /\ msg[g].portal = tail.at
    /\ Readable(chat, msg[g])
    /\ Sent[g] < tail.floor

TailUpdate ==
    /\ tail.pc = "update"
    /\ msg' = [g \in Guid |-> IF TailRow(g) THEN Scrub(msg[g]) ELSE msg[g]]
    /\ tail' = IF tail.todo = {} THEN TailIdle
               ELSE [tail EXCEPT !.pc = "portals", !.at = NoPortal, !.floor = 0]
    /\ UNCHANGED <<chat, delivered, tracked, ingest, deleting, roomDelete,
                   restore, fwd, pass>>

-----------------------------------------------------------------------------
(* Housekeeping, time and crashes.                                         *)

\* deleteOrphanedMessages
OrphanCleanup(g) ==
    /\ msg[g].here /\ msg[g].deleted /\ ~msg[g].msgDeleted
    /\ msg[g].portal # NoPortal
    /\ ~\E k \in ChatId : On(chat[k], msg[g].portal)
    /\ msg' = [msg EXCEPT ![g] = NoMsg]
    /\ UNCHANGED <<chat, delivered, tracked, ingest, deleting, roomDelete,
                   restore, fwd, pass, tail>>

\* A row leaves the grace window.  A pass computes its cutoff once, so rows
\* age between passes; a rehydrate attempt is over well inside the window.
Age(g) ==
    /\ ScrubberIdle
    /\ msg[g].here
    /\ \/ msg[g].ts = "fresh"
       \/ msg[g].ts = "marker" /\ \A p \in Portal : g \notin fwd[p].cleared
    /\ msg' = [msg EXCEPT ![g].ts = "old"]
    /\ UNCHANGED <<chat, delivered, tracked, ingest, deleting, roomDelete,
                   restore, fwd, pass, tail>>

\* pendingBackfillScrubHold runs out for a chat.
HoldExpires(k) ==
    /\ chat[k].here /\ chat[k].recent
    /\ chat' = [chat EXCEPT ![k].recent = FALSE]
    /\ UNCHANGED <<msg, delivered, tracked, ingest, deleting, roomDelete,
                   restore, fwd, pass, tail>>

\* The process ends and starts again; recentlyDeletedPortals is reloaded
\* from the portals whose chat rows are all deleted (listDeletedPortalIDs).
Restart ==
    /\ Faults
    /\ tracked' = [p \in Portal |->
                      IF PortalIsExplicitlyDeleted(p) /\ ~PortalHasChat(p)
                      THEN "tombstone" ELSE "no"]
    /\ ingest' = IngestIdle
    /\ deleting' = [p \in Portal |-> NotDeleting]
    /\ roomDelete' = {}
    /\ restore' = [p \in Portal |-> "off"]
    /\ fwd' = [p \in Portal |-> FwdIdle]
    /\ pass' = PassIdle
    /\ tail' = TailIdle
    /\ UNCHANGED tables

-----------------------------------------------------------------------------
IngestGoesOn == IngestConfirm \/ IngestUndelete \/ IngestCommit

DeleteGoesOn(p) == DeleteChatRows(p) \/ DeleteMessageRows(p) \/ RoomDelete(p)

RestoreGoesOn(p) ==
    \/ RestoreChats(p) \/ RestoreMessages(p) \/ RestoreClear(p)
    \/ RestoreCallFails(p) \/ RestoreCheck(p) \/ RestoreRecycle(p)
    \/ RestoreFetch(p) \/ RestoreFinish(p)

FwdGoesOn(p) ==
    \/ RehydrateClear(p) \/ RehydrateFetch(p) \/ RehydrateRescrub(p)
    \/ FwdReread(p) \/ FwdDeliver(p) \/ FwdComplete(p)

ScrubGoesOn == ScrubLoad \/ ScrubBatch \/ TailUpdate \/ \E p \in Portal : TailThreshold(p)

\* What Apple, the user, the network or a failing database may do.
Outside ==
    \/ \E k \in AppleChat, p \in Portal, f \in BOOLEAN : IngestChat(k, p, f)
    \/ \E k \in AppleChat : IngestChatTombstone(k)
    \/ \E g \in Guid : IngestDelete(g) \/ IngestResolve(g)
    \/ \E g \in Guid, p \in Portal \cup {NoPortal} : MessageDelete(g, p)
    \/ \E p \in Portal : \/ ChatDelete(p) \/ DeleteFails(p) \/ PruneTracked(p)
                         \/ RestoreStart(p) \/ FwdRead(p) \/ FwdAborts(p)
    \/ ScrubAborts
    \/ Restart

\* What the bridge does by itself.
Inside ==
    \/ IngestGoesOn
    \/ \E p \in Portal : DeleteGoesOn(p) \/ RestoreGoesOn(p) \/ FwdGoesOn(p)
    \/ \E g \in Guid, p \in Portal : MessageRedact(g, p)
    \/ ScrubScan \/ TailScan \/ ScrubGoesOn
    \/ \E g \in Guid : OrphanCleanup(g) \/ Age(g)
    \/ \E k \in ChatId : HoldExpires(k)

Next == Outside \/ Inside

Spec == Init /\ [][Next]_vars

\* What is running goes on, time passes, and the scrub ticker fires.
Fairness ==
    /\ WF_vars(IngestGoesOn)
    /\ \A p \in Portal : /\ WF_vars(DeleteGoesOn(p))
                         /\ WF_vars(RestoreGoesOn(p))
                         /\ WF_vars(FwdGoesOn(p))
    /\ WF_vars(ScrubScan \/ TailScan)
    /\ WF_vars(ScrubGoesOn)
    /\ \A g \in Guid : WF_vars(Age(g))
    /\ \A k \in ChatId : WF_vars(HoldExpires(k))

FairSpec == Spec /\ Fairness

-----------------------------------------------------------------------------
(* Properties.                                                             *)

\* A message deleted on its own stays deleted: no restore, CloudKit upsert,
\* rehydrate, recycle-bin recovery or orphan cleanup drops its tombstone or
\* puts its plaintext back (undeleteCloudMessagesByPortalID "Messages
\* deleted or unsent individually (message_deleted) stay deleted").
TombstoneDurable ==
    [][\A g \in Guid : msg[g].msgDeleted =>
          msg'[g].msgDeleted /\ msg'[g].deleted /\ ~msg'[g].text]_vars

\* body_scrubbed means the plaintext is gone, whoever set it: the scrubber,
\* a delete, or the rehydrate attempt that puts the flag back without
\* touching the columns.
ScrubbedIsEmpty == \A g \in Guid : msg[g].scrubbed => ~msg[g].text

\* The step takes the plaintext of a row that stays alive.
Nulls(g) ==
    msg[g].text /\ ~msg[g].deleted /\ ~msg'[g].text /\ ~msg'[g].deleted

\* A restore and the scrubber do not fight: while a portal is being
\* restored, readable plaintext in it goes only with a delete
\* (withActiveRestorePortals "a new restore cannot start between candidate
\* enumeration and the scrub UPDATE").
RestoreKeepsText ==
    [][\A g \in Guid :
          Nulls(g) /\ Readable(chat, msg[g]) => msg[g].portal \notin Restoring]_vars

\* No loss: readable plaintext of a live row is nulled only if the bridge
\* holds the delivered message in that row's current portal, even when the
\* room is deleted, the row rerouted or its chat remapped during the pass
\* (scrubBatchIfEligible "A deleted witness or a newly recoverable routing
\* mismatch therefore preserves the plaintext").
ScrubsOnlyDelivered ==
    [][\A g \in Guid :
          Nulls(g) /\ Readable(chat, msg[g]) => <<g, msg[g].portal>> \in delivered]_vars

\* A row of a chat whose first forward backfill is still pending keeps its
\* plaintext (scrubUnbridgedTail "Portals still waiting for their first
\* forward backfill are skipped"; pendingBackfillGateSQL "A completed sibling
\* is proof only for the message rows belonging to that same chat").
PendingKeepsText ==
    [][\A g \in Guid :
          Nulls(g) /\ Readable(chat, msg[g]) => ~Held(chat, msg[g])]_vars

\* A portal tracked as deleted has no live row once the delete is through
\* (ingestCloudMessages "This closes the race where a periodic re-sync
\* downloads messages for a portal that was just deleted").
DeletedPortalHasNoLiveRow ==
    \A g \in Guid : LET p == msg[g].portal IN
        p # NoPortal /\ tracked[p] = "live" /\ deleting[p].pc = "idle"
           /\ p \in roomDelete /\ msg[g].here
        => msg[g].deleted

\* Plaintext the scrubber owes to remove: of a deleted or permanently
\* filtered row, or of a readable delivered one.
Owed(g) ==
    /\ msg[g].text
    /\ \/ ForceScrub(msg[g])
       \/ Readable(chat, msg[g]) /\ <<g, msg[g].portal>> \in delivered

\* Privacy: once the outside world is quiet, no plaintext the scrubber owes
\* to remove stays behind, whatever holds, restores and crashes came first.
OwedTextGoes ==
    <>[][~Outside]_vars => \A g \in Guid : Owed(g) ~> ~Owed(g)

=============================================================================
