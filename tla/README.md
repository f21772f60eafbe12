# A TLA+ model of the iMessage bridge

This directory models the Matrix–iMessage bridge `corten-matrix`: TLA+ modules
translated from `pkg/connector`, TLC configurations that check them on small
instances, and TLAPS proofs of the main invariants of its core.
Line numbers refer to `src/`; `client.go`, `cloud_backfill_store.go` (the store)
and `sync_controller.go` are in `pkg/connector/`.

## 1. The system

The bridge receives Apple messages over two channels, APNs push (live) and
CloudKit (history), and writes them to Matrix rooms ("portals") through the
library bridgev2. It keeps CloudKit history in its own SQLite database, because
the rooms are filled from it later and again after a restore.

| part | state | operations | talks to |
|---|---|---|---|
| sync controller | zone tokens, versions, `recentlyDeletedPortals` | bootstrap, zone walk, delayed passes, room creation, recycle-bin scan | store, portal event loops |
| history store | tables `cloud_chat`, `cloud_message`, attachment cache | upsert, soft delete, tombstone, undelete, list, scrub, rehydrate, orphan cleanup | everyone |
| portal event loops (bridgev2) | a queue per portal, bridgev2's `message` table | send, record, post-handle hook, backfill, room deletion | client.go callbacks |
| live handlers | `messageDeleteHandoffMu`, unsend trackers and others | `handleMessage`, delete, unsend, edit, tapback, receipts | event queues, store |
| Matrix handlers | continuation and sibling UUIDs of split sends | send, redact, delete chat | rustpush, unsend trackers |
| forward and backward backfill | a batch in flight, deferral counter, backfill task | `FetchMessages`, rehydrate, complete callback, drain loop | store, CloudKit |
| CloudKit attachments | `attachmentByteSem`, caches, dead records | pre-upload, chunk upload, conversion | store, CloudKit |
| attachment retrier | table `pending_attachment_retry` | notice, tick, delivery as an edit, give up | event queues |
| restore pipelines | `restorePipelines`, `restoreMu` | `runRestoreBackfillPipeline` per portal | store, CloudKit, scrubber |
| privacy scrubber | none between passes | `scrubBridgedBodies`, `scrubUnbridgedTail` | store, restore map |
| APNs gate and buffer | `messageBuffer`, `pendingPortalMsgs`, `cloudSyncDone`, `pendingInitialBackfills` | hold live messages until history is in the room; flush from five kinds of goroutine | sync controller, event queues |
| portal resolution | group GUID and participant caches, SMS routes and their memo | find the room of a group or of a contact, choose the service of a send | portal metadata, chat.db |
| contacts | CardDAV source, photo bytes, ghosts | sync, retry, reconcile | portal resolution, ghosts |
| StatusKit presence | pull token and meta rows, dedup rows, room titles | key pull, subscribe, status update, title refresh | rustpush, CloudKit |
| shared profiles, shared albums | profile rows and backoff; album baselines, browse sessions | share, refresh; watch, browse, download | rustpush, ghosts, rooms |
| session and login | the login row, `session.json`, the keystore, the trust circle, the clients of a login | login, load, connect, save, reconnect, reset, restore | rustpush, bridgev2 |
| commands, CLI and the rest | see section 6 | | |

What is hard here: nearly every operation is several store statements without a
common transaction, run by goroutines that share no lock. Deletes race
deliveries, restores race the scrubber, refreshes race pushes, a CloudKit page is
resolved long before it is committed, and any of it can be cut short by a
restart. Unit tests of the repository run one handler at a time. `PROJECT.json`
lists every such hazard at its line, with the properties aimed at it.

What makes each part correct:

- *delete handoff*: a message that Apple deletes does not stay on screen, and
  the delete of a reused UUID never reaches another conversation;
- *store*: a message deleted on its own stays deleted; `body_scrubbed` and the
  plaintext agree;
- *scrubber*: it removes the plaintext it owes to remove, never plaintext that
  is still to be delivered, and leaves portals under restore alone;
- *gate and buffer*: every live message is handed to its room at most once and
  given up only by a shutdown, none is dropped for want of a room, none creates
  a room before the first sync, history comes first in new rooms, and nothing
  stays buffered; every slot of the semaphore is given back once;
- *sync controller*: a saved token never runs ahead of the store, and the
  bootstrap ends with the gate open and every room made;
- *backfill*: paging ends only at the oldest row, sends no row twice, and does
  end;
- *attachments*: the bytes in flight keep to their budget, every fan-out ends,
  a notice always has a retry behind it or has been given up;
- *sends and unsends*: whatever way a message was split, a redaction reaches all
  of it, and what was taken back does not stay;
- *tapbacks, edits, receipts*: the room settles on what the contact last did;
- *portal resolution*: one room a group and a contact, replies by the route that
  was heard last;
- *recycle bin*: known deletes and restores outlive the scan;
- *contacts, presence, profiles, albums*: what is shown follows what was
  published last;
- *session*: a saved session that works is never replaced by one that does not,
  a login uses the device it has again, and the start after a reset restores
  what the reset relied on.

## 2. Modules

| module | models | proofs |
|---|---|---|
| `DeleteHandoff` | one message UUID between `handleMessage`, the event loop, `handleMessageDelete`, CloudKit upserts and forward backfill | `DeleteHandoff_proofs` |
| `CloudRows` | the rows of `cloud_message` and `cloud_chat`; what each SQL statement does to one row and reads off it | |
| `CloudStore` | the actors over those tables: sync controller, APNs deletes, restore pipelines, forward backfill, scrubber, time and crashes | `CloudStore_proofs` |
| `LiveGate` | the gate between APNs and the first sync: controller, safety net, buffer, held messages, event loops, forward fetches and their semaphore | `LiveGate_proofs` |
| `HandOver`, `GateHandOver` | what the gate promises, abstractly, and the mapping under which `LiveGate` keeps it | `LiveGate_proofs` |
| `CloudSync` | the controller: bootstrap and its retries, zones, tokens, versions, delayed passes | `CloudSync_proofs` |
| `RecycleBin` | deletes and restores of chats and the recycle-bin scan | `Places_proofs` |
| `History` | forward backfill, backward task and drain loop of one conversation | `Messages_proofs` |
| `CloudMedia` | attachment fan-outs, budgets, caches, dead records | `CloudSync_proofs` |
| `AttachmentRetry` | notices and the background retrier | `CloudSync_proofs` |
| `Retraction` | split sends, echoes, redactions, unsends | `Messages_proofs` |
| `Annotations` | tapbacks, edits, delivery and read receipts | `Messages_proofs` |
| `GroupRouting`, `DMRouting` | the room of a group or contact; the route of a reply | `Places_proofs` |
| `KeyPull` | StatusKit keys | |
| `Presence` | focus status | `People_proofs` |
| `SharedProfiles`, `Contacts`, `SharedStreams` | profile sharing, address book and ghosts, albums | `People_proofs` |
| `Session` | login, the saved session in its three places, clients that load and save it, reset and restore | `Session_proofs` |
| `MCDeleteHandoff`, `MCCloudStore`, `MCLiveGate` | instances for TLC | |
| `MCMessagePath`, `MCPeople`, `MCPlaces` | sums of the other components, for TLC | |

`PROJECT.json` maps every definition to the lines it stands for. An operator
marked `Mutation` is a plausible bug of the definition below it, kept to show
that a property can fail.

### DeleteHandoff

`row` is the `cloud_message` row of a UUID reduced to its portal and its
tombstone, `live` the progress of `admitLiveMessage`, `ev` the remote event of a
*copy* (one part of a message in one portal) in the event loop, `bridged` and
`visible` bridgev2's message table and the Matrix timeline, `del` and `found`
the delete handler. `HandoffMuFree` is `messageDeleteHandoffMu`: it covers both
store accesses of `admitLiveMessage` and the first lookup, tombstone and second
lookup of `prepareDeletedMessage`, but neither the event loop nor the redaction.
Every store call and every redaction may fail; `failed` remembers messages whose
failure was logged, which is all the code promises for them. bridgev2 is
external: it sends, inserts and calls the hook, one event of a portal at a time.
The hook is two steps, its look at the tombstone and the redaction.

A CloudKit record is upserted at any moment, also between the steps of a delete,
and in the portal that the record itself resolves to (sync_controller.go:3475);
`portal_id=excluded.portal_id` (store:919) moves a stored row there, a tombstone
too. `moved` remembers messages whose tombstone was moved since it was last
written; no goroutine goes after their copies in the portal the tombstone left.
`homes` remembers the portals a row was routed to while a delete of its message
was handled or on record.

### CloudRows and CloudStore

A message row keeps its chat, portal, whether it has a CloudKit record, whether
plaintext is stored, `deleted`, `message_deleted`, `body_scrubbed` and the age
of `updated_ts` against the grace window. A chat row keeps portal, deleted,
filtered, `fwd_backfill_done` and whether the scrub hold still applies. Each
action of `CloudStore` is one store call of one actor; a read and the write
decided by it are separate actions wherever the code separates them (page
resolution and commit, scrub candidates, witness load and UPDATE, tail threshold
and UPDATE, the stages of a restore, the two statements of a chat delete).
`ScrubberIdle` is `restorePipelinesMu`, `RestoreMuFree` is `restoreMu`.
`Restart` loses everything but the tables and reloads `recentlyDeletedPortals`.

Left out of these two modules: the statements of a chat delete and of
`trackDeletedChat` for group-id siblings and aliases; `scrubReactionText`; the
stub rows of live messages; notices and metadata refresh; catch-up by write
activity; retries of one fetch, of which only the last can change anything. A
comment above `rehydrateScrubbedPortal` (client.go:9363) names
`clearBodyScrubByPortalID`; the code, and the model, use
`clearBodyScrubForRehydrate`.

### LiveGate, HandOver, GateHandOver

A message is its timestamp; a portal is of the kind the sync finds it in (`new`,
`forced`, `offline`, `unknown`). `flush[a]` is the flush that agent `a` is
running: `TakeBuffer` is the critical section of `messageBuffer.flush`,
`TakeHeld` that of `flushPendingPortalMsgs`, and between them the agent
dispatches what it took, oldest first. `handleMessage` is three steps, as in the
code: the gate is read (client.go:3457), the room is looked up (:3473), and
later the message is held (:3665) or queued with the leave to create a room that
was read in the first step. Agents are the controller, the safety net, the
timer's goroutines, chat deletions in Matrix and the event loops themselves,
since `onForwardBackfillDone` flushes in the goroutine of the portal that brought
the counter to 0. `setCloudSyncDone` is `OpenGate` followed by `LoadPending`:
backfills may finish in between. The net's five minutes are a step that may
happen at any time.

bridgev2 is external: a FIFO queue per portal, a loop that creates the missing
room of a ChatResync or of a message that may create it, backfills a new room at
once, and drops a message without a room or leave. `LoseResync`, failing
queries, cancelled contexts and `Disconnect` happen only with `Failures`.

`HandOver` forgets all of that: a message waits, is shown once in its own
conversation, or is given up by the shutdown. `GateHandOver` maps "waits" to the
buffer, the flushes, `pendingPortalMsgs` and the portal queues together, and
"shown" to `shown`, a room's timeline with the history that a backfill brings in
one batch (`Backfill`).

Left out: deletion of the portals under study and their revival by a message
(`handleMessage` on `recentlyDeletedPortals`), a reconnect of the same client,
the grace window of read receipts after the flush, and the ghost, StatusKit and
drain work that a finished backfill starts. The comment above
`messageBuffer.add` says messages also accumulate while initial backfills are
pending; the code below it, and the model, hold them only while the gate is shut.

### CloudSync

`walk` is the pass in flight: its zone, its page and the attachments it has
seen. `ReadPage` ingests a page and saves the token as the code does, in
that order; failing pages, ingests and saves, panics and restarts come in
between, at most `MaxZoneFaults` of them. `Feed` is what CloudKit will list,
`Early` what has propagated when the bridge starts. `software` and `saved` are
`cloudSyncVersion` and `cloudChatSyncVersion` as built and as stored; a restart
may bring a new build. After the bootstrap come the delayed passes
(`Delays`), which make rooms only when `shouldRunDelayedCloudReconciliation`
says so.

### RecycleBin

A chat's messages are numbered; `Dead` and the three sources of
`seedDeletedChatsFromRecycleBin` (recoverable chats, recoverable GUIDs against
stored rows, portals named by GUIDs) are read in turn, with deletes and restores
of the phone and of Matrix between them. `Suffix` and `HintFloor` stand for the
code's thresholds. Rows are those of `CloudStore`, each operation in one step.
Store errors are not modelled here. The scan does not delete a room that exists.

### History

One conversation on a homeserver without batch sending: rows by timestamp and
GUID (`Stamp` has two of the same second), the forward fetch, the backward task
with its anchor, cursor and deferrals, the drain loops of `synapse_backfill.go`
(`Loops`; a second one starts when the single-flight guard lets it) and what a
start does about unfinished tasks. `Late` rows arrive after the first fetch.

### CloudMedia, AttachmentRetry

`CloudMedia`: `FileSize` is CloudKit's wrapped 32-bit size (`Word` stands for
2^32), `recoverAttachmentSize` and `clampAttachmentWeight` what becomes of it,
`BytesInUse` the weighted semaphore, `Jobs` the uploads of the fan-outs, of a
sync pass and of a chunk, that share it. Failure counters and dead records
survive or do not survive a restart as in the code. A download of any record,
one that is gone included, may fail for now (a timeout, an FFI panic, the
network, a full disk), which counts towards the failures of a session and leaves
no tombstone; only an answer that the asset is unrecoverable does, and `told`
counts those answers. The tombstone is best effort: `forgot` remembers the
records whose tombstone was not written, was not read by a session (the table is
read once), or was cut off by a restart between that answer and the write.
`AttachmentRetry`: a live attachment whose download failed, its notice, its row,
the retrier's tick, delivery as an edit and the bound on attempts. Both leave out
codecs, and `AttachmentRetry` leaves out time: a row may be due at any tick.

### Retraction, Annotations

`Retraction`: a Matrix event goes out as chunks, or as an attachment with its
caption, with or without a double puppet, or a peer writes (`Splits`). Apple
returns every message and every unsend at any time; `recentUnsends` and
`recentOutboundUnsends` are in memory and expire. `Annotations`: tapbacks (the
reaction they leave, or none), edits (the number of parts of the new text) and
receipts arrive by push; tapbacks a second time by CloudKit. `excused` marks the
faults whose loss the code only logs.

### GroupRouting, DMRouting

`GroupRouting` follows `resolveExistingGroupPortalID`: alias, GUID cache,
participants, index, each with its staleness check, then what the event writes
back. Groups have several GUIDs, change members, have legacy rooms named by
their members; restarts lose the caches. `DMRouting`: a contact with several
handles and spellings, rooms of which some are empty, and the service of a
portal in memory (`smsPortals`) and in its metadata, written by deliveries, the
chat.db seed, room refreshes and GUID refreshes.

What these two promise has limits the code sets. Groups of one room hang
together: a group joins a room by a list of members it shares with a group
there, so two groups of one room need not have shared a list themselves
(`RoomHoldsOneGroup`; with three groups TLC refutes the pairwise form). A group
gets no second room (`NoSecondRoom`) as long as it is alone in its room; after a
restart only if it has kept its members, and an event without the member list
may start one. A contact's messages stay in the room that holds their history
until another room of the contact comes into use: the choice prefers a room with
messages and cannot tell two of them apart (`HomeAfter`). Carrier (MMS) groups, group
names and the text of GUIDs are left out.

### KeyPull, Presence, SharedProfiles, Contacts, SharedStreams

`KeyPull`: a pass walks the zone page by page (also the Rust side of a page),
decodes an invitation when it has the channel, and stores token and meta; time
is ticks against the floors and backoffs of `nextAllowedAt`. `Presence`: each
update is a goroutine that finds the room, installs the dedup rows, may panic and
roll back, and writes the title, as does the contact refresh. `SharedProfiles`:
shares are goroutines, two workers refresh; a row is compared by pointer, hence
the flags `own` and `mine`. `Contacts`: one card with a name and a photo URL, the
source that was configured, its sync and retry loops, and overlapping
reconciles. `SharedStreams`: watcher, browse command, downloads and their
90-second timeout; every command and reply is a goroutine (`handler`) that clears
the command state, waits for iCloud, sends its list and only then stores what
the next reply will be taken for. `offered` are the lists sent so far, `listed`
the one seen last, and `plain` marks a selection that no other one overlapped and
whose list was sent. Requests, parsing and wording are left out of all of them.

### Session

The session is in the login row (`row`, and `meta` in memory) and in the backup
`session.json`; its signing keys are in the keystore and the trust circle in
`trustedpeers.plist`. A device is the number of an identity registered with
Apple. `persistState` is a snapshot of the client, the check that the login still
has this client, the row and the file: four steps between which a reconnect or a
second login may put another client in place, and each write may fail.
`FinishDisconnect` may come without the final save, as after the code's 15
seconds. A login reads the cached session twice, when it opens its connection and
when it registers, writes the backup and then the row. `Start` is a start of the
process with `tryAutoRestore`, `Reset` the reset script once `check-restore` has
agreed, with the setup that follows: the script deletes `config.yaml`
(reset-bridge.sh:410), and the setup asks again how to backfill
(install-beeper.sh:244) and writes a new file. `host` keeps from it whether
CloudKit is on and whether a user is admin. `tryAutoRestore` also gives up
without an admin (connector.go:208) or a login ID (:197; `Nameless` are the
devices of which Apple gave none), which `check-restore` does not ask.
`owed` is a start that the reset has promised: its setup named an admin and did not
turn CloudKit on, and the session has a login ID. `uncleared` remembers a row of lost keys that could not be cleared.
`AnonymousClient` says whether rustpush makes a client for a login without users;
it does not, which is taken from how the code in `src/` uses it.

Left out: ticks and key updates of a client replaced by a second login, whose
saves `persistState` drops; refresh of tokens and of the delegate; the preferred
handle; the full wipe, which removes the session together with the database.

## 3. Runs

| run | question | result |
|---|---|---|
| `handoff_live` | live delivery against deletes, UUID reused in a second portal, failures | holds: no deleted copy stays, and it does go |
| `handoff_backfill` | the same with backfill | holds: rows and events stay together, redactions only in portals the deleted row was routed to |
| `store_restore` | one message, every actor, failures and crashes, a chat that moves between two portals | holds |
| `store_tail` | capped bridge, both scrubs against restore | holds |
| `store_live` | does owed plaintext go, that of a filtered chat included? | holds under fairness |
| `gate_safe` | two conversations, one new and one the sync does not know, a chat deletion, failures, `Disconnect` | holds: `LiveGate` implements `HandOver`; nothing dropped, no early room, history first in new rooms |
| `gate_live` | do the buffer, the queues and the receipts get through, with lost resyncs and failing fetches? | holds under fairness |
| `message_path` | attachments, retrier, split sends and unsends, controller, paging, annotations, shared albums | holds, safety and liveness |
| `people` | keys, focus, profiles, contacts | holds, safety and liveness |
| `places` | groups, direct chats, recycle bin, session | holds |
| `contacts_retry` | does a retry that finds the delegate still expired leave the bridge running? | violated: it stops the process |
| `gate_held_race` | is every held message replayed once the gate is open? | violated |

What the properties of the three sums say:

| property | parts | about |
|---|---|---|
| `FanOutsBoundedAndEnd` | `FanOutFitsBudget` | bytes in memory keep to the budget whatever size CloudKit reports; every fan-out ends, so no job waits for bytes that cannot come |
| `GoneLeftAlone` | | Apple says of a record twice at most over all sessions that it is gone, whatever retriable errors come in between, unless a fault or a restart kept its tombstone from the table or a session from reading it |
| `RetryAccounted` | `NoticeHasOwner`, `RetryBudgetHolds` | a notice has a row, an edit under way, or was given up or lost to a named fault; attempts stay within the bound across restarts |
| `PendingRowsGo` | | no row is retried for ever |
| `SplitSendsTracked` | `RedactionReachesAll`, `TailNotRepeated` | a redaction reaches every iMessage of its event; a retry does not send the tail again |
| `RetractedGoesAway` | | what was unsent or redacted leaves the room, whichever of message, echo and unsend comes first |
| `NothingSkipped` | `PassedIsStored`, `AttachmentsKnown`, `UpgradeRereads` | tokens never run ahead of the store, across faults, restarts, upgrades |
| `FirstSyncFinishes` | `RoomsNotForgotten`, `GateOpens` | delayed passes leave rooms out only when none is owed; the gate opens |
| `BackfillBooksHold` | `DoneMeansReached`, `RowsDispatchedOnce` | a finished backward task reached the oldest row; overlapping loops send no row twice |
| `HistoryArrives` | | the history gets into the room, although the forward fetch it waits for may die |
| `EditShowsText` | | with no edit under way the room shows the newest text and nothing older |
| `AnnotationsSettle` | `RemovalSettles`, `ReadIsSeen`, `DeliveryTicks` | removals and receipts settle against the rows they need |
| `NewerInstallKept`, `TitleSettles` | | a rollback takes back only its own installation; the title settles on the recorded status |
| `PublishedKeysSettle` | `KeysArrive`, `KeysHeard` | a published key is pulled and subscribed to |
| `ProfileFollowsShare` | `ShareSticks`, `ProfileSettles` | a refresh never replaces a later share; ghost and store settle on the newest |
| `FaceFollowsCard` | `PhotoMatchesCard`, `FaceSettles` | bytes belong to the URL of the card; the ghost settles on the card |
| `DownloadsEndTruthfully` | `NoticeIsNews`, `DownloadsWhatWasShown`, `SummaryIsTrue` | notices and summaries are true; what is downloaded was picked from a list that was sent, and from the one seen last unless selections overlapped or its reply was lost; downloads end |
| `OneRoomPerGroup` | `RoomHoldsOneGroup`, `NoSecondRoom` | the groups of a room are linked by shared member lists; a group gets no second room |
| `SendsFollowRoute` | `ReplyTakesLatestRoute`, `SendIsGrounded` | a reply takes the route heard last; a memo is used only for the target it was made for |
| `ContactKeepsRoom` | | a conversation with history is not moved to another room of the contact |
| `ScanKeepsVerdicts` | `KnownDeletesKept`, `RestoredSurvivesScan` | the scan neither forgets a delete nor hides a restored chat |
| `BackupKept` | | no eager save, late save or interrupted login puts a session whose keys are gone over a backup that works |
| `DeviceReused` | | no new device is registered while a session that works is saved |
| `ResetRestores` | | the start after a reset finds its login again, if the setup in between named an admin and did not turn CloudKit on, the session has a login ID, and no call and not the keystore failed |

The sums. The fifteen components of `MCMessagePath`, `MCPeople` and `MCPlaces`
share no state with each other at the level these modules keep, so their product
would multiply states without adding a case. A behaviour of a sum is a behaviour
of one component, chosen by `component` in the initial state, while the others
stay in one of their initial states. Each component has a specification of its
own (`MediaSpec`, `RetrySpec`, ...), and the sums repeat its fairness under the
condition that it is the one that runs. A property of a resting component holds
at its initial state; the two that would not (`GateOpens`, `KeysSettle`) are
asked for of the behaviours in which their component runs. The watcher and the
commands of `SharedStreams` have only the albums in common, so a behaviour has
either the one or the others.

### Statements the runs refute

1. *A retry that stops the bridge* (`contacts_retry`). client.go:1641 promises
   periodic retries while the MobileMe delegate is expired. `retryCloudContacts`
   assigns a nil `*cloudContactsClient` to the interface `c.contacts`
   (client.go:11041); the check against nil passes and `SyncContacts` dereferences
   its nil receiver in a goroutine that recovers nothing.
2. *A message held too late* (`gate_held_race`). client.go:602 says the held
   messages are flushed by `setCloudSyncDone`. A flush that runs before the gate
   opens (the counted backfills are done early, or a chat is deleted in Matrix)
   may have read the shut gate and still be in its database calls when the gate
   opens and the list is replayed. It then holds its message, and nothing is
   bound to replay it.

### Other statements the code does not keep

The modules define these statements too; TLC refutes each one when it is put in
a configuration (those of the first four are in this directory).

- *Backfill after a tombstone* (`NoDeletedCopyLeft`, `HandoffBackfillRace.cfg`).
  client.go:4712 argues that every bridge row is seen by the second lookup or by
  its own `PostHandle`. A forward backfill lists the row, the delete writes its
  tombstone and finds no bridge row, and bridgev2 then sends the batch, for which
  no hook runs.
- *Tail scrub of a pending sibling* (`PendingKeepsText`, `StoreTailSibling.cfg`).
  store:5488 says portals waiting for their first backfill are skipped. The gate
  is evaluated per row when portals are chosen; the UPDATE has none, so one
  completed chat in a shared portal exposes the old rows of a pending one.
- *Ingest across a chat delete* (`DeletedPortalHasNoLiveRow`,
  `StoreDeleteRace.cfg`). sync_controller.go:3381 says the snapshot of deleted
  portals closes the race. The snapshot comes before the page is resolved, the
  commit after: a chat delete in between misses the new row.
- *A delete whose row moves* (`NoDeletedCopyLeft` without `moved`). client.go:4712
  and :4852 say a concurrent live event sees the tombstone or is caught by the
  redaction or its hook. A CloudKit record may move the tombstone to another
  portal before the hook looks (store:919); the copy then stays.
- *Live before catch-up* (`HistoryFirst`, `GateHistory.cfg`).
  sync_controller.go:153 says messages appear after the CloudKit history. Only
  new and forced portals are counted, but every forward fetch decrements, so the
  flush may come while an old room's ChatResync is not processed yet. In *new*
  rooms the statement holds, and is proved.
- *A recovery walk that restarts* (`KeyPull!RecoveryEnds`).
  statuskit_cloudkit.go:532 says that once attempted, later passes resume from
  the mid-walk token. When the pass runs into its deadline the latch is written
  under the expired context (:630) and lost, so a zone longer than one pass is
  walked from the start each time. `PublishedKeysSettle` is checked with passes
  long enough to reach the end of the zone.
- *Late rows* (`History!LateRowsArrive`). store:4401 says a portal is backfilled
  again when an undecryptable record becomes readable. Such a row is older than
  the anchor of the backward task (client.go:8925) and its portal is not forced
  (sync_controller.go:4069).
- *A reaction skipped twice* (`Annotations!ReactionSettles`). client.go:3797 says
  stored tapbacks are left to the backfill, whose filter (client.go:9676) reads
  the database before a queued removal is applied. Removals do settle.
- *An older route over a newer one* (`DMRouting!NewerRouteKept`). client.go:473
  says concurrent deliveries cannot restore stale metadata; the extra update of
  `GetChatInfo` (client.go:8260) writes outside the mutex. In memory, which sends
  read first, the newer route stays: `ReplyTakesLatestRoute`.
- *A message without its chat record* (`CloudSync!NeverDiscarded`).
  sync_controller.go:3247 says no message is discarded because its chat record
  was not seen; a message without a chat id is filtered when its chat row is
  missing (sync_controller.go:3523).
- *Restored on the phone* (`RecycleBin!RestoredOnPhoneReturns`).
  sync_controller.go:272 says such portals recover by themselves; the ingest of a
  live chat record undeletes the chat row and leaves its messages deleted
  (sync_controller.go:3101).
- *A blank login over a good backup* (`Session!BackupKept` with `AnonymousClient
  = TRUE`). connector.go:332 guards the eager save against a cleared row. If
  rustpush made a client for a login without users, the `persistState` of
  `Connect` would write that client's empty users over `session.json` all the
  same: the guard rests on rustpush's refusal.

- *A reset that cannot restore* (`Session!ResetRestores` without the conditions
  of `owed`). install-beeper.sh:941 announces after a plain `check-restore` that
  the bridge will restore the login. The start does not when the setup has turned
  CloudKit on and there is no trust circle, or when there is no admin or login
  ID (connector.go:189-219).
- *A reply taken for another list* (`SharedStreams!DownloadsWhatWasShown` without
  `plain`). Two album selections may show list B last and store list A, since the
  reply is sent and the state stored in two steps (sharedstreams.go:401, :408);
  so may a list whose reply is lost. sharedstreams.go:408 stores it for the user's
  next number, which then picks from a list the user does not look at.

One comment says the opposite of a property that holds. sync_controller.go:2215
says of messages that arrive while the gate is shut: "APNs delivers them with
CreatePortal=false (gate closed), so bridgev2 drops them for non-existent
portals". That is how the code once was. `handleMessage` now holds such a message
in `pendingPortalMsgs` (client.go:600, :3658-3674) and `setCloudSyncDone` replays
it with the leave to create its room. `NotDropped` checks what the code does, and
the comment is out of date; the exception is `gate_held_race`.

Found by reading, and not stated in a module: after a restart every deleted
portal counts as a tombstone (sync_controller.go:2073), so a live record revives
a chat deleted in Matrix, against :3080. store:5458 says the tail scrub never
takes a row a forward backfill would deliver, but threshold and UPDATE are two
statements. client.go:686 says the initial flush keeps the order, but the buffer
is dispatched before the older, held messages. sync_controller.go:2089 says
messages for existing portals are delivered while the first sync fails, but
`messageBuffer.add` (client.go:688) keeps every message. Three page errors end a
zone without an error (sync_controller.go:2917), so the gate may open on a partial
sync. A batch cut short by a restart on Synapse is not resumed
(client.go:8549). The echo of a captioned attachment without a double puppet has
neither row nor tombstone (client.go:7118). The read receipt of a message sent
live is dropped once its CloudKit record is imported (client.go:6355). Saves of a
group's roster are goroutines without an order (client.go:12422). A skipped
address book empties the cache of a sync that succeeds (cloud_contacts.go:163).
identity.plist is removed also when the session migrated from it could not be
saved (identity_store.go:323). The owner check of `persistState` and its assignments are not atomic
(client.go:10768).

### Bounds

`DeleteHandoff` is finite for a finite set of copies; one message, two
portals and three copies give a part sibling, a UUID reuse, a row that moves, and
contention for the lock between the message's admissions and its delete. Messages
meet in nothing but that lock. `MCCloudStore` bounds the outside world with a `budget`: at most
`MaxOutside` records, deletes, backfill requests, restores, failures and crashes
(4 to 6). Ingesting a chat and its message and backfilling takes three; the rest
are for the delete, restore, re-ingest or crash that meets it. What the bridge
does by itself is not bounded. One message suffices for `store_restore` because
no statement relates two messages except through the cap, which `store_tail` has
with two; two portals are there for rerouting. `LiveGate` is finite for finite
messages: every message arrives once and every candidate is queued once. One
timer goroutine at a time is the bound `Flushers`; the controller, the net, a
deletion and two event loops flush beside it. A buffer limit of 2 and one
semaphore slot make both limits bind with two messages and two portals.

The other modules bound what comes from outside by a constant each (`Max...`),
and what the bridge does by itself not at all:

- `CloudMedia`: two records, one with a negative reported size and one that is
  gone, files larger than a budget of 3 units, two slots, two passes, two faults.
- `AttachmentRetry`: one attachment in a message with text, 3 attempts, 2 faults,
  so that a restart meets a failed download.
- `Retraction`: two chunks or an attachment with caption, one message of a peer,
  one fault. Two faults (598,000 states) show nothing more.
- `CloudSync`: two pages a zone, one of chats and messages late; a message
  without a chat id; two page errors end a zone, two delayed passes, three faults.
- `History`: four rows, two of one second, pages of two, deferral bound 2, two
  loops, three faults.
- `Annotations`: plans of three tapbacks, of a tapback, an edit and a send, or of
  two edits; 3 lookups, one fault.
- `KeyPull`: four pages, an invitation ahead of its channel, the last page late,
  one fault. `Presence`: two aliases, one change of focus, one fault (with two
  changes, 658,000 states, it passes too). `SharedProfiles`: two workers, two
  shares, one edit, one fault. `Contacts`: two reconciles, one edit, one fault.
  `SharedStreams`: two albums, two commands or replies at a time, two uses of the
  command, one download, three edits (one of them while somebody browses), one
  fault.
- `GroupRouting`: three GUIDs of two groups that share a member and a legacy
  room, three events, one change. `DMRouting`: a phone with two spellings and a
  mail address, two deliveries, two sends, one fault. `RecycleBin`: two chats,
  two events, two starts (three events, 614,000 states, pass too).
- `Session`: two devices, one login, two starts of the process, two clients in
  each, two saves at a time, two faults; a Mac that is new or lost its database,
  another host that got CloudKit after its login, and an installation of the first
  version; the second device has no login ID.

Runs do not check deadlock: an idle bridge waits.

### Fairness

Always weak, and only of loops and goroutines of a running process and of timers;
nothing obliges a message, a delete, an edit or a fault to happen.
`DeleteHandoff`: a queued event is processed and a running delete goes on.
`CloudStore`: a running ingest, delete, restore, backfill or scrub pass goes on,
time passes and the scrub ticker of `runBodyScrubLoop` fires; `OwedTextGoes`
assumes that the outside world falls silent, since an endless run of failing
passes scrubs nothing. `LiveGate`: the controller, the net, a running flush, an
armed timer and the event loops go on, and the bootstrap succeeds in the end,
which only CloudKit can grant.

`CloudMedia`: every upload job goes on. `AttachmentRetry`: event loop and
retrier. `Retraction`: handlers end, the loop empties, Apple delivers what it
accepted. `CloudSync`: the controller's goroutine. `History`: start-up, the
forward event loop, each drain loop. `Annotations`: receiver, loop and lookup
timers go on, bridgev2 inserts what it sent, the bridge is started again after a
stop, CloudKit is read again. `KeyPull`: ticks, pages, timers. `Presence`:
goroutines, event loop, contact refresh, APNs delivery. `SharedProfiles`:
goroutines, timers, a lost connection is made again. `Contacts`: requests are
answered or time out, an expired delegate is fetched again, the supervisor
restarts a process that died. `SharedStreams`: download goroutines; a file need
never arrive. Faults are bounded in all of them, so liveness is about what
happens after the last one.

## 4. Proofs

The theorems hold for all values of the constants that satisfy the assumption of
their module (`HandoffAssumption`, `RowsAssumption`, `StoreAssumption`,
`GateAssumption`, `AgentsDistinct`, `CloudSyncAssumption`, `SessionAssumption`,
`RecycleBinAssumption`, `DMAssumption`, `RoutingAssumption`,
`AnnotationsAssumption`, `HistoryAssumption`, `RetractionAssumption`,
`PresenceAssumption`, `MediaAssumption`, `RetryAssumption`,
`SharedProfilesAssumption`, `ContactsAssumption`, `SharedStreamsAssumption`): types and ranges, that distinct kinds of names are
distinct, and that a contact's handle is the first of its own spellings. TLC evaluates every one of them.

| module | theorems | inductive invariant |
|---|---|---|
| `DeleteHandoff_proofs` | `TypeCorrect`, `Findable`, `NoCrossPortalRedaction`, `HandoffClosed` | `HandoffInv` |
| `CloudStore_proofs` | `TypeCorrect`, `ScrubbedRowsAreEmpty`, `TombstonesAreDurable`, `RestoreIsSafeFromScrubber`, `NoUndeliveredTextLost` | `RowsOK`, `ScrubInv` |
| `LiveGate_proofs` | `TypeCorrect`, `SlotsExact`, `NothingDropped`, `GateHolds`, `HistoryBeforeLive`, `OnePlace`, `Refinement` | `IInv`, `PlaceInv` |
| `CloudSync_proofs` | `NothingIsSkipped`, `RoomsAreMade`, `GoneIsLeftAlone`, `NoNoticeForgotten` | `SyncInv`, `MediaInv`, `RetryInv` |
| `Session_proofs` | `BackupIsKept`, `DeviceIsReused`, `ResetIsRestored` | `KeptInv`, `OwedInv`, `IssuedInv` |
| `Places_proofs` | `VerdictsAreKept`, `RepliesFollowRoutes`, `RoomIsKept`, `GroupsAndRooms` | `BinInv`, `DMInv`, `RoutingInv` |
| `Messages_proofs` | `BooksHold`, `SendsStayTied`, `NewestEditStands` | `HistoryInv`, `RetractionInv`, `EditsInOrder` |
| `People_proofs` | `NewestInstallStands`, `SharesStick`, `PhotosMatch`, `AlbumsAreToldTruly` | `RowHasOwner`, `ProfileInv`, `PhotoInv`, `AlbumInv` |

Four theorems have a hypothesis of their own. `HandoffClosed` assumes
`~Backfills` (`HandoffBackfillRace.cfg` shows that it is needed);
`NoUndeliveredTextLost` assumes `Cap = 0`, since the tail scrub takes undelivered
text by design; `BackupIsKept` and `DeviceIsReused` assume `~AnonymousClient`,
which is what rustpush does, and without which TLC refutes `BackupKept`.

*Delete handoff.* `HandoffClosed` is inductive together with the type invariant
and `BackfillOff`: a copy of a tombstoned message that is on screen is in its
turn of the event loop (its hook sees the tombstone), or has a bridge row and the
delete handler has not looked the second time, or is in what it found; the lock
keeps a second handler from replacing what the first found.
`NoCrossPortalRedaction` cannot rest on the stored route, which CloudKit may change
between any two steps. `HomesNoted` says that every route the row has had while
the delete was handled or on record is a home of the message, and
`LookupHolds` that the stored route which the handler read is one. A copy that its second
lookup finds lies in that route, or the row had none: then the message had not
been admitted, nothing of it was in an event loop, and what a backfill has brought
was listed under a home. The hook redacts a copy whose portal it has seen as the
tombstone's. `HandoffClosed` excuses messages in `moved`, whose copies no step is
bound to redact.

*Store.* `RowsOK` says of every row that a scrubbed or tombstoned row has no text
and a tombstone is deleted; each row operator of `CloudRows` preserves it by a
lemma of its own, and every action is a pointwise application of those.
`ScrubInv` says that the portals excluded by a running pass are the ones under
restore (nothing may enter or leave `restorePipelines` during it) and that no
candidate or tail portal is among them, which with the re-check in the UPDATE
gives `RestoreKeepsText`.

*Gate.* `IInv` ties the three places that could break the order: until the gate
opens no event and no flush carries leave to create a room; an event without
leave, and a flush that found a room, belong to a portal that has one (rooms are
never lost); and for a new portal either its ChatResync is still to be queued and
it has no room, or the ChatResync is in the queue ahead of every message, or its
room has been backfilled. The gate opens only after `toQueue` is empty, so the
leave to create a room always comes behind the ChatResync in the same FIFO queue.
`SemInv` is needed for the type invariant: without it a release could take `sem`
below 0.

*Refinement of `HandOver`.* All steps but three (an arrival, a room's turn, the
shutdown) map to stutters. That takes `OnePlace`: buffer, flushes, held list,
queue and timeline are disjoint, and each has a message at most once. `PlaceInv`
adds why no flush overwrites another: an agent starts one only when it has none,
which follows from where the controller, the net, the loops and the timers are,
and not from a lock.

*Sync controller.* `NothingSkipped` speaks of the saved tokens, but the next
token is saved from the position of the walk, which runs ahead of it after a
failed save; `SyncInv` says of the position what the property says of the token.
An upgrade makes the stored rows old at once while the tokens are reset only when
the next bootstrap begins: until then `ResetDue` holds. `RoomsInv` says when the
flags that let a delayed pass leave the rooms out are down.

*Session.* Saves of several clients overlap and write what they saw some time
ago. No session without keys is among them, because keys are lost only between
two runs: a run that starts with a row of lost keys has one client, and no save
or login beside it, until Connect has noticed and cleared the row (`SettledInv`,
`UnsettledInv`); from then on every session in memory is blank or has its keys.
`OwedInv` says that a backup a start is owed passes every check of that start, under
the configuration that the setup after the reset has written.

*Recycle bin.* That the scan has blocked a chat says nothing of what would make
the next pass create its room: `HiddenInv` adds that the chat has no live row and
no override and is still in Apple's bin, `VerdictInv` and `KeptInv` what the
verdicts in flight may not say of it.

*Direct chats.* `MemoryOK` says that the service in memory is that of the
portal's last message, `StoredOK` when the stored one is, which is where a
restart starts from. `HomeOK` says that the room of the contact's last message is
the one a search finds, or that no room of the contact is in use yet. The lemma behind `RoomIsKept` is that the choice of a room depends on
which rooms have messages and on nothing else, through both levels of
`findExistingDMPortalCandidate`.

*Groups.* `RoomsInv` says that every name by which a portal can be found (alias,
cached and stored GUID, pending save) belongs to a group heard there, and that
every list of members it can be found by is one that such a group has had; a
message then joins its group to a portal only over a shared list, which keeps the
groups connected (`JoinsTogether`). `HomeOf` says for a group that is alone in
its room by which of those names and lists the next message, before or after a
restart, will find it.

*History.* A finished task has reached the oldest row because a batch that claims
to have nothing behind it was not a full page. `PageOf` is the lemma: the newest
`n` rows of a set are all of it when they are fewer than `n`, and otherwise
exactly `n` and above the rest, also when timestamps are equal. `BatchKept` says
it of the batch a loop holds while bridging goes on beside it, and that the
batch's cursor is a row of the room or of the batch itself; `OneLoopRuns` says
that only the registered loop holds one.

*Retraction.* `RedactionReachesAll` is about what the recipient still sees after
the row, and with it the list of UUIDs, is gone. `RowsNameAll` says of each row
that it names every iMessage of its event still shown, and `RemovalGoesOn` of a
redaction under way that what is still shown is still on its list. Both need that
no second row ever stands for the event: once the send is over, the head has its
row, a tombstone or a redaction (`HeadSaved`), so neither an echo nor CloudKit can
bridge it under a row that names nothing else. `TailMarked` is the same for the
chunks behind the head. `SendInOrder` and `QueuesHold` say how far the send is
and that no queue holds a message before it was sent.

*Edits.* `EditsInOrder` follows the newest text: while the pushes hold an edit,
the last of them is the newest; when they hold none, the last in the portal's
queue is; when that holds none either, the room shows it.

*Focus.* `RowHasOwner` says that the recorded row is that of the last
installation, or of none, and that a goroutine that may roll back owns a number
nobody else has; so a rollback finds its own number or leaves the row alone.

*Dead attachments.* Two answers is the exact bound: a sync pass and one of the
two passes of a chunk may both be in the download when the record is first said to
be gone. `TombstoneKept` counts: until the tombstone is stored, the answers given
are those about to be recorded; afterwards those given and the downloads still
under way are two at most, and no new one begins, because a loaded session knows
what the table knows. That a chunk's pre-upload and its conversion never overlap
(`PassesApart`) keeps the bound from being three.

*Retrier.* `NoticeOwned` covers the moments between two stages: a row may be
deleted only when an edit is queued, the notice is one no more, or it was
stranded. `WithinBudget` adds what the row still allows (`Left`) to the downloads
made; a failed download takes from the one what it adds to the other, and a fault
of `UpdateSchedule` costs one of `retryFaults`.

*Shared profiles.* `PassHolds` says that what a background pass has fetched is at
least as new as the last share heard, as long as the pass still owns the row it
began with: a share in between ends the ownership of all passes. `CacheIsCurrent`
needs beside it that an empty cache has heard nothing since the start, which is
when a stored row, of whatever age, is taken into it.

*Contacts.* `PhotoInv` says of the card under download and of the book that their
bytes are of their URL. The bytes of the last sync are carried over to a card
with the same URL only, and a URL is cleared only from a card without bytes.

*Shared albums.* `NoticeIsNews` counts notices against additions, but a summary
compares sets of assets that also shrink. `Marks` puts a number between the two
counts: the notices sent or due are no more than it, and every asset a summary
would find new was added after it; a summary with news moves it to the newest
asset. `Accounted` says of a download at every stage that the assets still to do,
failed and sent make up the ones picked. `HandlerInv` and `CommandInv` follow a
list from its reply to the command state: whatever overlaps, what is stored was
sent; and a plain selection is the only one under way, so that its list is still
the one seen last when it is stored and until the reply comes.

The inductive invariants of the sums' modules were model-checked before they were
proved. Only model-checked: liveness, which is out of the prover's reach;
and `FanOutFitsBudget`, a bound on a sum over a set, which needs induction over the
set. The safety halves of `ProfileFollowsShare`, `FaceFollowsCard` and
`DownloadsEndTruthfully` (`ShareSticks`, `PhotoMatchesCard`, `NoticeIsNews`,
`DownloadsWhatWasShown`, `SummaryIsTrue`) are proved, their liveness halves are
model-checked; the properties of `KeyPull` are liveness throughout. The type invariants of the proved modules are
proved and not checked by a run.

## 5. Plan

Every safety invariant of a passing run is proved, and so is the safety half of
every property that states both, but for `FanOutFitsBudget`. Theorems to add: lemmas
of `CloudStore` and `LiveGate` that their proofs repeat. To model: the revival of a deleted
portal by a live message, composed with `LiveGate` over the leave to create a
room; the carrier group consolidation of `GroupRouting`; invitations of StatusKit.

## 6. Not modelled

- Generated code (`rustpushgo.go`) and the Apple protocol in Rust beyond the key
  pull and the calls of the login, NAC validation, codecs and previews,
  installers: no logic of the bridge, or out of TLC's reach.
- Bridge commands, CLI, supervisor, `bbctl`: dialogues and commands of one
  user, each a sequence of calls into the parts above or into the operating
  system.
- `dbowner`, `ford_cache.go`, sync status and space, chat.db reader, legacy IPC:
  a repair of one row, a cache whose miss costs a download, reporting, and
  conversions without state.
- Dead code: the invite sweep of sync_controller.go:1130-1520, which
  `statusKitAutoInvite = false` keeps from running, and `refreshAllGhosts`, which
  nothing calls.
