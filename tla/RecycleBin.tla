---- MODULE RecycleBin ----
(***************************************************************************)
(* The scan of Apple's recycle bin (seedDeletedChatsFromRecycleBin) and    *)
(* the map of deleted portals, among the deletes and restores of the       *)
(* phone and of the Matrix user.                                           *)
(*                                                                         *)
(* The scan runs once per start, after the CloudKit sync and before rooms  *)
(* are created, and not within 30 minutes of the last one.  It judges a    *)
(* chat by three sources in turn: the recoverable chats, the recoverable   *)
(* message GUIDs held against the stored rows, and the portals those GUIDs *)
(* name.  Message rows, restores and deletes are those of CloudStore, each *)
(* in one step here; a chat's messages are numbered from the oldest.       *)
(***************************************************************************)
EXTENDS Integers, FiniteSets

CONSTANTS
    Portals,
    MaxMessages,   \* messages of one chat
    Sent0,         \* messages of each chat when the bridge is first started
    InBin0,        \* chats in the bin when the bridge is first started
    Suffix,        \* recycleBinDeleteThreshold's 3
    HintFloor,     \* recoverable messages that make a hint credible: 2
    MaxEvents,     \* bound: deletes, restores and messages
    MaxStarts      \* bound: restarts

ASSUME RecycleBinAssumption ==
    /\ MaxMessages \in Nat \ {0} /\ Suffix \in Nat \ {0} /\ HintFloor \in Nat
    /\ Sent0 \in [Portals -> 0 .. MaxMessages] /\ InBin0 \subseteq Portals
    /\ MaxEvents \in Nat /\ MaxStarts \in Nat

VARIABLES
    cloud,   \* CloudKit: the zone of each chat record, messages, bin, unread changes
    chatRow, \* cloud_chat of each portal: "none", "live" or "deleted"
    rows,    \* cloud_message of each portal: the same, per message
    entry,   \* recentlyDeletedPortals: "no", "live" or "tombstone"
    override,\* restore_override
    scan,    \* the controller's place in its start-up sequence
    shownIn, \* portals with a Matrix room
    seen,    \* history: why each chat should be hidden or shown
    events   \* events and restarts so far

binVars == <<cloud, chatRow, rows, entry, override, scan, shownIn, seen, events>>

Numbers == 1 .. MaxMessages
Verdict == {"none", "deleted", "restored"}
Stages == {"sync", "soft", "chats", "list", "judge", "apply", "hints", "create",
           "notify", "idle"}

\* Nothing of a scan is left over.
NoScan == [todo |-> {}, bin |-> [p \in Portals |-> {}],
           verdict |-> [p \in Portals |-> "none"], dead |-> {}, blocked |-> {}]

ScanAt(stage, cool, s) ==
    [stage |-> stage, cooling |-> cool, todo |-> s.todo, bin |-> s.bin,
     verdict |-> s.verdict, dead |-> s.dead, blocked |-> s.blocked]

\* runCloudSyncController on an empty database: CloudKit is read from the
\* start.
BinInit ==
    /\ cloud = [p \in Portals |->
                  [zone |-> IF p \in InBin0 THEN "bin" ELSE "live", sent |-> Sent0[p],
                   bin |-> IF p \in InBin0 THEN 1 .. Sent0[p] ELSE {},
                   chat |-> IF p \in InBin0 THEN "none" ELSE "live",
                   unread |-> 1 .. Sent0[p]]]
    /\ chatRow = [p \in Portals |-> "none"]
    /\ rows = [p \in Portals |-> [i \in Numbers |-> "none"]]
    /\ entry = [p \in Portals |-> "no"]
    /\ override = {} /\ shownIn = {}
    /\ scan = ScanAt("sync", FALSE, NoScan)
    /\ seen = [hidden |-> {}, kept |-> {}, userDeleted |-> {}, phoneRestored |-> {}]
    /\ events = [said |-> 0, starts |-> 0]

-----------------------------------------------------------------------------
(* Rows.                                                                   *)

\* Mutation: the second statement of deleteLocalChatByPortalID is missing.
DeadChatOnly(r) == r

\* deleteLocalChatByPortalID.
Dead(r) == [i \in Numbers |-> IF r[i] = "live" THEN "deleted" ELSE r[i]]

deleteLocalChatByPortalID(p) ==
    /\ chatRow' = [chatRow EXCEPT ![p] = IF @ = "live" THEN "deleted" ELSE @]
    /\ rows' = [rows EXCEPT ![p] = Dead(@)]

\* insertDeletedChatTombstone (a row that is there stays as it is), then
\* deleteLocalChatByPortalID.
Tombstoned(p) ==
    /\ chatRow' = [chatRow EXCEPT ![p] = "deleted"]
    /\ rows' = [rows EXCEPT ![p] = Dead(@)]

\* undeleteCloudMessagesByPortalID, which undeletes the chat's rows first.
Undeleted(r) == [i \in Numbers |-> IF r[i] = "deleted" THEN "live" ELSE r[i]]

undeleteCloudMessagesByPortalID(p) ==
    /\ chatRow' = [chatRow EXCEPT ![p] = IF @ = "deleted" THEN "live" ELSE @]
    /\ rows' = [rows EXCEPT ![p] = Undeleted(@)]

\* Mutation: overrides are not looked up.
neverOverridden(p) == FALSE

isRestoreOverridden(p) == p \in override

portalHasChatRow(p) == chatRow[p] = "live"
hasPortalMessages(p) == \E i \in Numbers : rows[p][i] = "live"

Unblock(p) == entry' = [entry EXCEPT ![p] = "no"]
SameRows == UNCHANGED <<chatRow, rows>>

-----------------------------------------------------------------------------
(* classifyRecycleBinPortals: a portal's stored messages, newest first,    *)
(* against the recoverable GUIDs.                                          *)

Stored(p) == {i \in Numbers : rows[p][i] # "none"}
RecoverableIn(p, bin) == Stored(p) \cap bin[p]
RecoverableSuffix(p, bin) ==
    {i \in Stored(p) : \A j \in Stored(p) : j >= i => j \in bin[p]}

recycleBinDeleteThreshold(total) == IF total < Suffix THEN total ELSE Suffix

LooksDeleted(p, bin) ==
    /\ Stored(p) # {}
    /\ Cardinality(RecoverableSuffix(p, bin))
         >= recycleBinDeleteThreshold(Cardinality(Stored(p)))

NeedsUndelete(p, bin) ==
    /\ RecoverableIn(p, bin) # {} /\ ~LooksDeleted(p, bin)
    /\ \E i \in Stored(p) : rows[p][i] = "deleted"
    /\ ~hasPortalMessages(p)

classifyRecycleBinPortals(p, bin) ==
    CASE RecoverableIn(p, bin) = {} -> "none"
      [] LooksDeleted(p, bin) -> "deleted"
      [] NeedsUndelete(p, bin) -> "restored"
      [] OTHER -> "none"

-----------------------------------------------------------------------------
(* The phone, the user and CloudKit.                                       *)

Happens == /\ events.said < MaxEvents
           /\ events' = [events EXCEPT !.said = @ + 1]

\* handleChatDelete and HandleMatrixDeleteChat: trackDeletedChat, the
\* override goes, the rows are soft-deleted, the room goes.
Deletes(p) ==
    /\ entry' = [entry EXCEPT ![p] = "live"]
    /\ override' = override \ {p}
    /\ deleteLocalChatByPortalID(p)
    /\ shownIn' = shownIn \ {p}

\* runRestoreBackfillPipeline: override, map entry, chat row, messages; the
\* room when it has messages.
Restores(p) ==
    /\ override' = override \cup {p}
    /\ Unblock(p)
    /\ chatRow' = [chatRow EXCEPT ![p] = "live"]
    /\ rows' = [rows EXCEPT ![p] = Undeleted(@)]
    /\ shownIn' = shownIn \cup (IF Stored(p) # {} THEN {p} ELSE {})

Untouched == UNCHANGED <<chatRow, rows, entry, override, shownIn>>

Deleted(c) == [c EXCEPT !.zone = "bin", !.bin = 1 .. c.sent, !.chat = "gone"]
Live(c) == [c EXCEPT !.zone = "live", !.bin = {}, !.chat = "live", !.unread = 1 .. c.sent]
Received(c) == [c EXCEPT !.zone = "live", !.chat = "live", !.sent = c.sent + 1,
                         !.unread = @ \cup {c.sent + 1}]

\* The chat is deleted on the phone; the bridge hears of it, or is offline.
PhoneDeletes(p) ==
    /\ cloud[p].zone = "live"
    /\ Happens
    /\ cloud' = [cloud EXCEPT ![p] = Deleted(@)]
    /\ seen' = [seen EXCEPT !.phoneRestored = @ \ {p}, !.userDeleted = @ \ {p},
                            !.kept = @ \ {p}]
    /\ (Deletes(p) \/ Untouched)
    /\ UNCHANGED scan

\* The chat is restored on the phone: handleChatRecover, or nobody heard.
PhoneRestores(p) ==
    /\ cloud[p].zone = "bin" /\ Stored(p) # {}
    /\ Happens
    /\ cloud' = [cloud EXCEPT ![p] = Live(@)]
    /\ seen' = [seen EXCEPT !.hidden = @ \ {p}, !.phoneRestored = @ \cup {p},
                            !.userDeleted = @ \ {p}]
    /\ (Restores(p) \/ Untouched)
    /\ UNCHANGED scan

\* A message is written to the chat while the bridge is not listening.
PhoneReceives(p) ==
    /\ cloud[p].sent < MaxMessages
    /\ Happens
    /\ cloud' = [cloud EXCEPT ![p] = Received(@)]
    /\ seen' = [seen EXCEPT !.hidden = @ \ {p}, !.userDeleted = @ \ {p}]
    /\ Untouched /\ UNCHANGED scan

\* HandleMatrixDeleteChat; deleteFromApple follows on its own.
UserDeletes(p) ==
    /\ p \in shownIn
    /\ Happens
    /\ Deletes(p)
    /\ seen' = [seen EXCEPT !.userDeleted = @ \cup {p}, !.phoneRestored = @ \ {p},
                            !.kept = @ \ {p}]
    /\ UNCHANGED <<cloud, scan>>

AppleDeletes(p) ==
    /\ p \in seen.userDeleted /\ cloud[p].zone = "live"
    /\ cloud' = [cloud EXCEPT ![p] = Deleted(@)]
    /\ UNCHANGED <<chatRow, rows, entry, override, scan, shownIn, seen, events>>

\* The restore-chat command, with recoverChatOnApple.
UserRestores(p) ==
    /\ p \notin shownIn /\ Stored(p) # {}
    /\ Happens
    /\ Restores(p)
    /\ cloud' = [cloud EXCEPT ![p] = Live(@)]
    /\ seen' = [seen EXCEPT !.hidden = @ \ {p}, !.userDeleted = @ \ {p}]
    /\ UNCHANGED scan

-----------------------------------------------------------------------------
(* Reading CloudKit: the bootstrap sync, and the delayed passes after it.  *)

Reading == scan.stage \in {"sync", "idle"}

\* ingestCloudChats, a live record: the upsert keeps the deleted flag; a
\* tombstone entry is cleared and its rows undeleted.
ReadLiveChat(p) ==
    /\ chatRow' = [chatRow EXCEPT ![p] = IF @ = "none" \/ entry[p] = "tombstone"
                                         THEN "live" ELSE @]
    /\ entry' = [entry EXCEPT ![p] = IF @ = "tombstone" THEN "no" ELSE @]
    /\ UNCHANGED <<rows, shownIn>>

\* ingestCloudChats, a deleted record of a chat that has a row.
ReadGoneChat(p) ==
    /\ IF chatRow[p] = "none" THEN SameRows /\ UNCHANGED <<entry, shownIn>>
       ELSE /\ deleteLocalChatByPortalID(p)
            /\ entry' = [entry EXCEPT ![p] = "tombstone"]
            /\ shownIn' = shownIn \ {p}

ReadChat(p) ==
    /\ Reading /\ cloud[p].chat # "none"
    /\ IF cloud[p].chat = "live" THEN ReadLiveChat(p) ELSE ReadGoneChat(p)
    /\ cloud' = [cloud EXCEPT ![p].chat = "none"]
    /\ UNCHANGED <<override, scan, seen, events>>

\* ingestCloudMessages: a tombstoned chat's messages are skipped, those of a
\* portal in the map are stored deleted, and a deleted row stays deleted.
MessageRowAfter(p, r) ==
    IF chatRow[p] = "deleted" THEN r
    ELSE IF r = "deleted" \/ entry[p] # "no" THEN "deleted" ELSE "live"

ReadMessages(p) ==
    /\ Reading /\ cloud[p].unread # {}
    /\ rows' = [rows EXCEPT ![p] = [i \in Numbers |->
                  IF i \in cloud[p].unread THEN MessageRowAfter(p, @[i]) ELSE @[i]]]
    /\ cloud' = [cloud EXCEPT ![p].unread = {}]
    /\ UNCHANGED <<chatRow, entry, override, scan, shownIn, seen, events>>

AllRead == \A p \in Portals : cloud[p].chat = "none" /\ cloud[p].unread = {}

-----------------------------------------------------------------------------
(* The start-up sequence.                                                  *)

Stays == UNCHANGED <<cloud, override, shownIn, events>>

\* The bootstrap is through: skipPortals is what the map holds.
SyncEnds ==
    /\ scan.stage = "sync" /\ AllRead
    /\ scan' = ScanAt("soft", scan.cooling, [NoScan EXCEPT
                  !.todo = {p \in Portals : entry[p] # "no"}])
    /\ SameRows /\ UNCHANGED <<entry, seen>> /\ Stays

\* Re-imported records of dead portals are soft-deleted again.
SoftDelete(p) ==
    /\ scan.stage = "soft" /\ p \in scan.todo
    /\ deleteLocalChatByPortalID(p)
    /\ scan' = [scan EXCEPT !.todo = @ \ {p}]
    /\ UNCHANGED <<entry, seen>> /\ Stays

\* seedDeletedChatsFromRecycleBin: not again within the cooldown, which
\* starts before the bin is read; then the recoverable chats, if the call
\* succeeds.
ScanStarts ==
    /\ scan.stage = "soft" /\ scan.todo = {}
    /\ IF scan.cooling THEN scan' = [scan EXCEPT !.stage = "create"]
       ELSE \E fails \in BOOLEAN :
              scan' = ScanAt("chats", TRUE, [NoScan EXCEPT !.todo =
                        IF fails THEN {} ELSE {p \in Portals : cloud[p].zone = "bin"}])
    /\ seen' = [seen EXCEPT !.kept = override]
    /\ SameRows /\ UNCHANGED entry /\ Stays

\* History: chats that the scan, when it blocks them, is right to block.
StillGone == {p \in Portals \ (override \cup shownIn) : cloud[p].zone = "bin"}

\* The first source.  seedChatFromRecycleBin makes a live row of a chat that
\* has live messages; a tombstone entry is added only where there is none.
Block(p) ==
    /\ Tombstoned(p)
    /\ entry' = [entry EXCEPT ![p] = IF @ = "no" THEN "tombstone" ELSE @]
    /\ scan' = [scan EXCEPT !.todo = @ \ {p}, !.blocked = @ \cup {p}]
    /\ seen' = [seen EXCEPT !.hidden =
                 IF entry[p] = "no" THEN @ \cup ({p} \cap StillGone) ELSE @]

Pass(p) == /\ scan' = [scan EXCEPT !.todo = @ \ {p}]
           /\ UNCHANGED seen

SeedChat(p) ==
    /\ scan.stage = "chats" /\ p \in scan.todo
    /\ \/ isRestoreOverridden(p) /\ undeleteCloudMessagesByPortalID(p) /\ Unblock(p) /\ Pass(p)
       \/ ~isRestoreOverridden(p) /\ portalHasChatRow(p) /\ Unblock(p) /\ SameRows /\ Pass(p)
       \/ /\ ~isRestoreOverridden(p) /\ ~portalHasChatRow(p) /\ hasPortalMessages(p)
          /\ chatRow' = [chatRow EXCEPT ![p] = "live"]
          /\ Pass(p) /\ UNCHANGED <<rows, entry>>
       \/ /\ ~isRestoreOverridden(p) /\ ~portalHasChatRow(p) /\ ~hasPortalMessages(p)
          /\ Block(p)
    /\ Stays

\* ListRecoverableMessageGuids, and the verdicts of one query.
ListGuids ==
    /\ scan.stage = "chats" /\ scan.todo = {}
    /\ \/ scan' = [scan EXCEPT !.stage = "create"]
       \/ LET bin == [p \in Portals |-> cloud[p].bin]
              verdict == [p \in Portals |-> classifyRecycleBinPortals(p, bin)]
          IN scan' = [scan EXCEPT !.stage = "judge", !.bin = bin, !.verdict = verdict,
                        !.todo = {p \in Portals : verdict[p] # "none"}]
    /\ SameRows /\ UNCHANGED <<entry, seen>> /\ Stays

\* The second source, portal by portal: what looks restored is undeleted,
\* what looks deleted is noted unless it is live or overridden.
Judge(p) ==
    /\ scan.stage = "judge" /\ p \in scan.todo
    /\ \/ /\ scan.verdict[p] = "restored" \/ (~portalHasChatRow(p) /\ isRestoreOverridden(p))
          /\ undeleteCloudMessagesByPortalID(p) /\ Unblock(p) /\ Pass(p)
       \/ /\ scan.verdict[p] = "deleted" /\ portalHasChatRow(p)
          /\ Unblock(p) /\ SameRows /\ Pass(p)
       \/ /\ scan.verdict[p] = "deleted" /\ ~portalHasChatRow(p) /\ ~isRestoreOverridden(p)
          /\ scan' = [scan EXCEPT !.todo = @ \ {p}, !.dead = @ \cup {p}]
          /\ SameRows /\ UNCHANGED <<entry, seen>>
    /\ Stays

\* The noted portals are tombstoned together, under the map's lock; one that
\* is in the map is left alone.
NewlyDead == {p \in scan.dead : entry[p] = "no"}

\* buildRecoverableMessagePortalHints: the portals that recoverable messages
\* name, each with their number.
HintsOf(bin) == {p \in Portals : bin[p] # {}}

ApplyDead ==
    /\ scan.stage = "judge" /\ scan.todo = {}
    /\ chatRow' = [p \in Portals |-> IF p \in NewlyDead THEN "deleted" ELSE chatRow[p]]
    /\ rows' = [p \in Portals |-> IF p \in NewlyDead THEN Dead(rows[p]) ELSE rows[p]]
    /\ entry' = [p \in Portals |-> IF p \in NewlyDead THEN "tombstone" ELSE entry[p]]
    /\ scan' = [scan EXCEPT !.stage = "hints", !.blocked = @ \cup NewlyDead,
                            !.todo = HintsOf(scan.bin)]
    /\ seen' = [seen EXCEPT !.hidden = @ \cup (NewlyDead \cap StillGone)]
    /\ Stays

\* The third source: portals that recoverable messages name.
Hint(p) ==
    /\ scan.stage = "hints" /\ p \in scan.todo
    /\ \/ p \in scan.blocked /\ SameRows /\ UNCHANGED entry /\ Pass(p)
       \/ /\ p \notin scan.blocked /\ isRestoreOverridden(p)
          /\ undeleteCloudMessagesByPortalID(p) /\ Unblock(p) /\ Pass(p)
       \/ /\ p \notin scan.blocked /\ ~isRestoreOverridden(p) /\ portalHasChatRow(p)
          /\ Unblock(p) /\ SameRows /\ Pass(p)
       \/ /\ p \notin scan.blocked /\ ~isRestoreOverridden(p) /\ chatRow[p] = "none"
          /\ Cardinality(scan.bin[p]) < HintFloor
          /\ SameRows /\ UNCHANGED entry /\ Pass(p)
       \/ /\ p \notin scan.blocked /\ ~isRestoreOverridden(p)
          /\ \/ chatRow[p] = "deleted"
             \/ chatRow[p] = "none" /\ Cardinality(scan.bin[p]) >= HintFloor
          /\ Block(p)
    /\ Stays

ScanEnds ==
    /\ scan.stage = "hints" /\ scan.todo = {}
    /\ scan' = [scan EXCEPT !.stage = "create"]
    /\ SameRows /\ UNCHANGED <<entry, seen>> /\ Stays

\* createPortalsFromCloudSync: a room for every portal with live messages
\* that is not in the map.
RoomsWanted == {p \in Portals : entry[p] = "no" /\ hasPortalMessages(p)}

CreateRooms ==
    /\ scan.stage = "create" \/ (scan.stage = "idle" /\ AllRead)
    /\ shownIn' = shownIn \cup RoomsWanted
    /\ scan' = [scan EXCEPT !.stage = IF @ = "create" THEN "notify" ELSE @]
    /\ UNCHANGED <<cloud, chatRow, rows, entry, override, seen, events>>

\* notifyRecycleBinCandidates, then pruneRecentlyDeletedPortals.
NotifyAndPrune ==
    /\ scan.stage = "notify"
    /\ scan' = ScanAt("idle", scan.cooling, NoScan)
    /\ \E old \in SUBSET Portals :
         entry' = [p \in Portals |-> IF p \in old THEN "no" ELSE entry[p]]
    /\ SameRows /\ UNCHANGED seen /\ Stays

\* listDeletedPortalIDs: the map after a start holds the portals all of
\* whose chat rows are deleted.
Repopulated == [p \in Portals |-> IF chatRow[p] = "deleted" THEN "tombstone" ELSE "no"]

\* A stop and a start, after which CloudKit is read from its tokens or, when
\* they were cleared, from the start.
RestartScan ==
    /\ events.starts < MaxStarts
    /\ events' = [events EXCEPT !.starts = @ + 1]
    /\ entry' = Repopulated
    /\ \E cooled \in BOOLEAN :
         scan' = ScanAt("sync", scan.cooling /\ ~cooled, NoScan)
    /\ \/ UNCHANGED cloud
       \/ cloud' = [p \in Portals |-> [cloud[p] EXCEPT
                      !.chat = IF cloud[p].zone = "live" THEN "live" ELSE @,
                      !.unread = 1 .. cloud[p].sent]]
    /\ SameRows /\ UNCHANGED <<override, shownIn, seen>>

BinNext ==
    \/ SyncEnds \/ ScanStarts \/ ListGuids \/ ApplyDead \/ ScanEnds
    \/ CreateRooms \/ NotifyAndPrune \/ RestartScan
    \/ \E p \in Portals :
         \/ PhoneDeletes(p) \/ PhoneRestores(p) \/ PhoneReceives(p)
         \/ UserDeletes(p) \/ AppleDeletes(p) \/ UserRestores(p)
         \/ ReadChat(p) \/ ReadMessages(p)
         \/ SoftDelete(p) \/ SeedChat(p) \/ Judge(p) \/ Hint(p)

BinSpec == BinInit /\ [][BinNext]_binVars

-----------------------------------------------------------------------------
(* A chat the scan has blocked gets no room, whatever restarts, cooldowns  *)
(* and re-reads of CloudKit follow, until somebody restores it or writes   *)
(* to it: "already-known deletes are never lost".                          *)
KnownDeletesKept == \A p \in seen.hidden : p \notin shownIn

(* A chat that was restored before a scan began, and not deleted since, is *)
(* not hidden by that scan: none of the three sources blocks it.           *)
RestoredSurvivesScan ==
    scan.blocked \cap seen.kept = {}

(* The verdicts of the recycle-bin scan respect what is known already: no  *)
(* known delete is revived, no restored chat is hidden.                    *)
ScanKeepsVerdicts == KnownDeletesKept /\ RestoredSurvivesScan

(* Once all of CloudKit is read and rooms are created, a chat that was     *)
(* restored on the phone has its room, whether or not the phone's          *)
(* notification reached the bridge (sync_controller.go:272: "also          *)
(* auto-recovers portals").                                                *)
RestoredOnPhoneReturns ==
    scan.stage = "idle" /\ AllRead => seen.phoneRestored \subseteq shownIn \cup RoomsWanted
====
