------------------------------ MODULE CloudRows ------------------------------
(***************************************************************************)
(* The rows of cloud_message and cloud_chat, and what each statement of    *)
(* pkg/connector/cloud_backfill_store.go does to a row or reads off it.    *)
(*                                                                         *)
(* Kept of a message row: whether it exists, its source chat and portal,   *)
(* whether it came with a CloudKit record (rec), whether plaintext is      *)
(* stored (text: text, subject, sender and tapback emoji, which are always *)
(* written and nulled together), the flags deleted, message_deleted and    *)
(* body_scrubbed, and the age of updated_ts against the scrubber's grace   *)
(* window ("marker": the timestamp of a running rehydrate attempt).        *)
(* Kept of a chat row: portal, deleted, is_filtered, fwd_backfill_done and *)
(* whether created_ts lies inside pendingBackfillScrubHold (recent).       *)
(* Only message rows proper are modelled, not tapback rows.                *)
(***************************************************************************)
EXTENDS FiniteSets

CONSTANTS
    Guid,           \* message GUIDs
    Portal,         \* portals of this login
    AppleChat,      \* cloud_chat_ids CloudKit reports
    NoPortal,       \* an empty or NULL portal_id
    NoChat,         \* an empty or unknown chat_id
    BridgeFiltered  \* bridge_filtered_chats

ASSUME RowsAssumption ==
    /\ NoPortal \notin Portal
    /\ NoChat \notin AppleChat
    /\ BridgeFiltered \in BOOLEAN

\* Besides Apple's own ids a portal may have a row "synthetic:<portal>"
\* (markForwardBackfillDone) and a row "recycle:<portal>"
\* (seedChatFromRecycleBin).
ChatId == AppleChat \cup ({"synthetic", "recycle"} \X Portal)

MsgRow == [here: BOOLEAN, chat: AppleChat \cup {NoChat},
           portal: Portal \cup {NoPortal}, rec: BOOLEAN, text: BOOLEAN,
           deleted: BOOLEAN, msgDeleted: BOOLEAN, scrubbed: BOOLEAN,
           ts: {"old", "fresh", "marker"}]

ChatRow == [here: BOOLEAN, portal: Portal \cup {NoPortal}, deleted: BOOLEAN,
            filtered: BOOLEAN, done: BOOLEAN, recent: BOOLEAN]

NoMsg == [here |-> FALSE, chat |-> NoChat, portal |-> NoPortal, rec |-> FALSE,
          text |-> FALSE, deleted |-> FALSE, msgDeleted |-> FALSE,
          scrubbed |-> FALSE, ts |-> "old"]

NoChatRow == [here |-> FALSE, portal |-> NoPortal, deleted |-> FALSE,
              filtered |-> FALSE, done |-> FALSE, recent |-> FALSE]

-----------------------------------------------------------------------------
(* Writes of one message row.                                              *)

\* Mutation: the upsert writes the body of a scrubbed row.
UpsertBody(r, k, p, del) ==
    [here |-> TRUE, chat |-> k, portal |-> p, rec |-> TRUE, text |-> TRUE,
     deleted |-> r.deleted \/ del, msgDeleted |-> r.msgDeleted,
     scrubbed |-> r.scrubbed, ts |-> "fresh"]

\* upsertMessageBatch: CloudKit's routing wins; a scrubbed body stays NULL
\* and a deleted row stays deleted.
Upsert(r, k, p, del) ==
    [here |-> TRUE, chat |-> k, portal |-> p, rec |-> TRUE,
     text |-> IF r.scrubbed THEN r.text ELSE TRUE, deleted |-> r.deleted \/ del,
     msgDeleted |-> r.msgDeleted, scrubbed |-> r.scrubbed, ts |-> "fresh"]

\* deleteMessageBatch and deleteLocalChatByPortalID: the soft delete that a
\* restore may revert.
SoftDelete(r) ==
    [r EXCEPT !.deleted = TRUE, !.text = FALSE, !.scrubbed = TRUE, !.ts = "fresh"]

\* softDeleteMessageByGUID: the per-message tombstone, stub-inserted when
\* the row is missing; a missing route is filled, a stored one kept.
Tombstone(r, p) ==
    [r EXCEPT !.here = TRUE, !.deleted = TRUE, !.msgDeleted = TRUE,
              !.text = FALSE, !.scrubbed = TRUE,
              !.portal = IF @ = NoPortal THEN p ELSE @,
              !.ts = IF r.here THEN @ ELSE "fresh"]

\* undeleteCloudMessagesByPortalID, undeleteRecycleBinMessages
Undelete(r) == [r EXCEPT !.deleted = FALSE, !.ts = "fresh"]

\* Mutation: the restore does not look at message_deleted.
UndeletableAny(r, p) == r.here /\ r.portal = p /\ r.deleted

Undeletable(r, p) == r.here /\ r.portal = p /\ r.deleted /\ ~r.msgDeleted

\* clearBodyScrubByPortalID
ClearScrub(r) == [r EXCEPT !.scrubbed = FALSE, !.ts = "fresh"]

Clearable(r, p) == r.here /\ r.portal = p /\ r.scrubbed /\ ~r.msgDeleted

\* clearBodyScrubForRehydrate
MarkCleared(r) == [r EXCEPT !.scrubbed = FALSE, !.ts = "marker"]

\* rescrubClearedRows: the flag goes back on a row no upsert has touched and
\* on one whose upsert brought nothing.
Rescrub(r) ==
    [r EXCEPT !.scrubbed = TRUE, !.ts = IF @ = "marker" THEN "old" ELSE @]

Rescrubbable(r, p) ==
    r.here /\ r.portal = p /\ ~r.scrubbed /\ (r.ts = "marker" \/ ~r.text)

\* scrubBatchIfEligible, scrubUnbridgedTail
Scrub(r) == [r EXCEPT !.text = FALSE, !.scrubbed = TRUE]

\* recoverMessagesFromRecycleBin: the placeholder row of a recoverable GUID,
\* or the existing row rerouted and revived unless it is tombstoned.
SeedMessage(r, k, p) ==
    IF r.here
    THEN [r EXCEPT !.deleted = r.msgDeleted, !.portal = p]
    ELSE [NoMsg EXCEPT !.here = TRUE, !.chat = k, !.portal = p,
                       !.rec = TRUE, !.ts = "fresh"]

-----------------------------------------------------------------------------
(* Writes of one chat row.                                                 *)

\* upsertChatBatch: routing and filter from CloudKit, the rest kept.
UpsertChat(c, p, f) ==
    [here |-> TRUE, portal |-> p, deleted |-> c.deleted, filtered |-> f,
     done |-> c.done, recent |-> IF c.here THEN c.recent ELSE TRUE]

\* seedChatFromRecycleBin
SeedChat(c, p) ==
    [here |-> TRUE, portal |-> p, deleted |-> FALSE, filtered |-> c.filtered,
     done |-> c.done, recent |-> IF c.here THEN c.recent ELSE TRUE]

\* The row markForwardBackfillDone inserts when no row of the portal exists.
SyntheticChat(p) ==
    [here |-> TRUE, portal |-> p, deleted |-> FALSE, filtered |-> FALSE,
     done |-> TRUE, recent |-> TRUE]

-----------------------------------------------------------------------------
(* Predicates.  ct is the cloud_chat table.                                *)

Allowed(c) == BridgeFiltered \/ ~c.filtered

On(c, p) == c.here /\ c.portal = p

\* A row of the chat the message names.
HasSource(ct, r) == r.chat # NoChat /\ ct[r.chat].here

\* That row, when it is on the message's own portal.
SourceOn(ct, r) == r.chat # NoChat /\ On(ct[r.chat], r.portal)

LiveSource(ct, r) ==
    SourceOn(ct, r) /\ ~ct[r.chat].deleted /\ Allowed(ct[r.chat])

\* A live filtered chat of Apple's on the portal.
FilteredSibling(ct, p) ==
    \E k \in AppleChat : On(ct[k], p) /\ ~ct[k].deleted /\ ct[k].filtered

\* cloudMessageChatFilterWhere
Readable(ct, r) ==
    \/ LiveSource(ct, r)
    \/ ~HasSource(ct, r) /\ (BridgeFiltered \/ ~FilteredSibling(ct, r.portal))

\* permanentlyFilteredMessageWhere
PermanentlyFiltered(ct, r) ==
    \/ SourceOn(ct, r) /\ ~LiveSource(ct, r)
    \/ ~BridgeFiltered /\ ~HasSource(ct, r) /\ FilteredSibling(ct, r.portal)

\* Mutation: the hold of a pending backfill has no end.
PendingForever(c, p) == On(c, p) /\ ~c.deleted /\ Allowed(c) /\ ~c.done

\* pendingBackfillGateSQL, negated: some chat this row may belong to still
\* waits for its first forward backfill, and the row's own chat has not had
\* it.
Pending(c, p) == On(c, p) /\ ~c.deleted /\ Allowed(c) /\ ~c.done /\ c.recent

Held(ct, r) ==
    /\ \E k \in ChatId :
          /\ Pending(ct[k], r.portal)
          /\ r.chat = NoChat \/ k = r.chat \/ ~SourceOn(ct, r)
    /\ ~(LiveSource(ct, r) /\ ct[r.chat].done)

\* listLatestMessages (and the same population in scrubUnbridgedTail)
Listed(ct, r, p) ==
    r.here /\ r.portal = p /\ ~r.deleted /\ r.rec /\ Readable(ct, r)

=============================================================================
