------------------------------ MODULE CloudSync ------------------------------
(* The CloudKit sync controller: the bootstrap pass with its retries, the    *)
(* delayed passes after it, and inside a pass the walk through the           *)
(* attachment, chat and message zones page by page, with a saved             *)
(* continuation token per zone.  Page errors, failed ingests and saves,      *)
(* panics, restarts, upgrades of the sync logic and records that propagate   *)
(* late.                                                                     *)
EXTENDS Integers, Sequences, FiniteSets

CONSTANTS
    Feed,          \* per zone: its pages, each a set of records
    Early,         \* per zone: pages that have propagated at the start
    ChatOf,        \* per message: its chat
    Bare,          \* messages whose record names no chat
    AttsOf,        \* per message: its attachment records
    ZoneErrors,    \* maxConsecutiveErrors
    Delays,        \* number of delayed passes
    MaxZoneFaults  \* bound: errors, panics and restarts

Zones == {"atts", "chats", "msgs"}

Before(z, n) == UNION {Feed[z][i] : i \in 1..n}
Everything == Before("chats", Len(Feed["chats"])) \cup Before("msgs", Len(Feed["msgs"]))

\* Every message belongs to a chat, and no record is a chat and a message.
ASSUME CloudSyncAssumption ==
    /\ ZoneErrors \in Nat \ {0} /\ Delays \in Nat /\ MaxZoneFaults \in Nat
    /\ Early \in [Zones -> Nat]
    /\ \A z \in Zones : Len(Feed[z]) \in Nat /\ Early[z] <= Len(Feed[z])
    /\ DOMAIN ChatOf = Before("msgs", Len(Feed["msgs"]))
    /\ DOMAIN ChatOf \cap Before("chats", Len(Feed["chats"])) = {}

VARIABLES
    arrived,     \* per zone: pages in the change feed
    tokens,      \* cloud_sync_state: the saved token per zone, 0 is none
    saved,       \* _version and _chat_version: [all, chats]
    software,    \* cloudSyncVersion, cloudChatSyncVersion: [all, chats]
    records,     \* cloud_chat and cloud_message: what is stored of a record
    walk,        \* the running pass
    control,     \* the controller: boot, portals, wait, ended
    passesLeft,
    failedBefore, portalsPending, \* previousPassFailed, portalReconciliationPending
    gateOpen,    \* cloudSyncDone
    rooms,       \* chats with a Matrix room
    passedOver,  \* history: messages discarded for want of a chat row
    interrupted, \* history: the logic was upgraded while a first sync was halfway
    zoneFaults

syncVars == <<arrived, tokens, saved, software, records, walk, control, passesLeft, failedBefore, portalsPending,
              gateOpen, rooms, passedOver, interrupted, zoneFaults>>

NoWalk == [zone |-> "none"]
NotStored == [ver |-> 0]

IsStored(r) == r \in Everything /\ records[r] # NotStored

CloudSyncInit ==
    /\ arrived = Early
    /\ tokens = [z \in Zones |-> 0]
    /\ saved = [all |-> 0, chats |-> 0] /\ software = [all |-> 1, chats |-> 1]
    /\ records = [r \in Everything |-> NotStored]
    /\ walk = NoWalk /\ control = "boot" /\ passesLeft = Delays
    /\ failedBefore = FALSE /\ portalsPending = FALSE
    /\ gateOpen = FALSE /\ rooms = {}
    /\ passedOver = {} /\ interrupted = FALSE /\ zoneFaults = 0

ZoneFault == zoneFaults < MaxZoneFaults /\ zoneFaults' = zoneFaults + 1

controller == <<control, passesLeft, failedBefore, portalsPending, gateOpen, rooms>>
history == <<passedOver, interrupted>>
stores == <<tokens, saved, records>>

-----------------------------------------------------------------------------
(* runCloudSyncOnce *)

hasAnySyncState == (\E z \in Zones : tokens[z] # 0) \/ saved.all # 0 \/ saved.chats # 0

\* Mutation: the attachment zone goes on from its saved token.
AttachmentStartResumed(toks) == toks

\* runCloudKitBackfill: the attachment map is in memory, so its zone is always
\* read from the start.
AttachmentStart(toks) == [toks EXCEPT !["atts"] = 0]

\* Mutation: an upgrade drops the chat token alone.
UpgradedTokensChats(toks) == [toks EXCEPT !["chats"] = 0]

\* clearSyncTokens: an upgrade of the sync logic reads everything again.
UpgradedTokens(toks) == [z \in Zones |-> 0]

\* The tokens a bootstrap starts from.
BootTokens ==
    CASE rooms = {} -> tokens
      [] rooms # {} /\ saved.all < software.all -> UpgradedTokens(tokens)
      [] rooms # {} /\ saved.all = software.all /\ saved.chats < software.chats -> [tokens EXCEPT !["chats"] = 0]
      [] OTHER -> tokens

\* A pass starts; a bootstrap without rooms and without any sync state empties
\* the store first.
StartSync ==
    /\ walk = NoWalk
    /\ control = "boot" \/ (control = "wait" /\ passesLeft > 0)
    /\ LET boot == control = "boot"
           fresh == boot /\ rooms = {} /\ ~hasAnySyncState
           toks == AttachmentStart(IF boot THEN BootTokens ELSE tokens)
       IN /\ tokens' = toks
          /\ records' = IF fresh THEN [r \in Everything |-> NotStored] ELSE records
          /\ walk' = [zone |-> "atts", at |-> toks["atts"], errs |-> 0, boot |-> boot, got |-> FALSE,
                      atts |-> {}, known |-> {}]
    /\ UNCHANGED <<arrived, saved, software, controller, history, zoneFaults>>

NextZone(z) == IF z = "atts" THEN "chats" ELSE "msgs"

\* The walk of a zone is over; the message zone is the last.
Leaves(w) == IF w.zone = "msgs" THEN [w EXCEPT !.zone = "done"]
             ELSE [w EXCEPT !.zone = NextZone(w.zone), !.at = tokens[NextZone(w.zone)], !.errs = 0]

\* Attachments that a full reading of the zone would have shown.
AttsArrived == Before("atts", arrived["atts"])

\* What is stored of a message: whether each of its attachments is known, and
\* which of them the pass should have known.
MessageRow(m) == [ver |-> software.all, atts |-> AttsOf[m] \cap walk.atts, due |-> AttsOf[m] \cap walk.known]

\* resolveConversationID, ingestCloudMessages: a message that names no chat is
\* passed over unless a row of its chat is there.
IsIngested(m) == m \notin Bare \/ IsStored(ChatOf[m])

\* The records of a page that are stored.
IngestedOf(z, page) ==
    CASE z = "chats" -> page
      [] z = "msgs" -> {m \in page : IsIngested(m)}
      [] OTHER -> {}

\* Mutation: the walk stops at the last page before it is ingested.
IngestSkipsLast(z, page) ==
    [r \in Everything |-> IF r \in IngestedOf(z, page) /\ walk.at + 1 < arrived[z]
                          THEN (IF z = "chats" THEN [ver |-> software.chats] ELSE MessageRow(r)) ELSE records[r]]

\* ingestCloudChats, ingestCloudMessages: the rows after a page.
Ingest(z, page) ==
    [r \in Everything |-> IF r \in IngestedOf(z, page)
                          THEN (IF z = "chats" THEN [ver |-> software.chats] ELSE MessageRow(r)) ELSE records[r]]

\* The zone's next page, or the empty one at its end.  The token is saved
\* after the ingest; when saving fails the walk goes on.
ReadPage ==
    LET z == walk.zone
        more == walk.at < arrived[z]
        page == IF more THEN Feed[z][walk.at + 1] ELSE {}
        atts == IF z = "atts" THEN walk.atts \cup page ELSE walk.atts
        got == walk.got \/ (z # "atts" /\ page # {})
        read == [walk EXCEPT !.at = IF more THEN @ + 1 ELSE @, !.errs = 0, !.atts = atts, !.got = got]
        finished == walk.at + 1 >= arrived[z]
    IN /\ z \in Zones
       /\ records' = Ingest(z, page)
       /\ \/ tokens' = [tokens EXCEPT ![z] = IF more THEN walk.at + 1 ELSE @] /\ UNCHANGED zoneFaults
          \/ more /\ ZoneFault /\ UNCHANGED tokens
       /\ walk' = CASE ~finished -> read
                    [] finished /\ z = "atts" -> [Leaves(read) EXCEPT !.known = AttsArrived]
                    [] OTHER -> Leaves(read)
       /\ passedOver' = IF z = "msgs" THEN passedOver \cup (page \ IngestedOf(z, page)) ELSE passedOver
       /\ UNCHANGED <<arrived, saved, software, controller, interrupted>>

syncCloudAttachments == walk.zone = "atts" /\ ReadPage
syncCloudChats == walk.zone = "chats" /\ ReadPage
syncCloudMessages == walk.zone = "msgs" /\ ReadPage

\* A page cannot be read.  After ZoneErrors of them in a row the zone is left,
\* without an error; for attachments a query of the zone may make up for it.
PageError ==
    LET z == walk.zone
        gone == Leaves(walk)
    IN /\ z \in Zones
       /\ ZoneFault
       /\ IF walk.errs + 1 < ZoneErrors
          THEN walk' = [walk EXCEPT !.errs = @ + 1]
          ELSE walk' \in {gone, IF z = "atts" THEN [gone EXCEPT !.atts = AttsArrived] ELSE gone}
       /\ UNCHANGED <<arrived, stores, software, controller, history>>

\* Mutation: a failed bootstrap is not tried again.
AfterBootFailureEnded == "ended"

\* What a failed bootstrap does next.
AfterBootFailure == "boot"

\* The database refuses a page: the pass fails, its counts are lost.
IngestError ==
    /\ walk.zone \in {"chats", "msgs"}
    /\ ZoneFault
    /\ walk' = NoWalk
    /\ control' = IF walk.boot THEN AfterBootFailure ELSE "portals"
    /\ failedBefore' = ~walk.boot
    /\ UNCHANGED <<arrived, stores, software, passesLeft, portalsPending, gateOpen, rooms, history>>

\* Mutation: only what the pass itself counted decides.
shouldRunDelayedCountsOnly(got) == got

\* shouldRunDelayedCloudReconciliation, for a pass that did not fail.
shouldRunDelayed(got) == got \/ failedBefore \/ portalsPending

\* setSyncVersion, setChatSyncVersion: a bootstrap that received nothing saves
\* no version.
SavedVersions(w) ==
    [all |-> IF w.boot /\ w.got THEN software.all ELSE saved.all,
     chats |-> IF w.got \/ ~w.boot THEN software.chats ELSE saved.chats]

\* The bootstrap pass is over; the rooms are next.
FinishBootstrap ==
    /\ walk.zone = "done" /\ walk.boot
    /\ walk' = NoWalk /\ saved' = SavedVersions(walk)
    /\ control' = "portals" /\ failedBefore' = FALSE
    /\ UNCHANGED <<arrived, tokens, software, records, passesLeft, portalsPending, gateOpen, rooms, history, zoneFaults>>

\* A delayed pass is over; rooms are made where there may be new ones.
FinishDelayed ==
    /\ walk.zone = "done" /\ ~walk.boot
    /\ walk' = NoWalk /\ saved' = SavedVersions(walk)
    /\ IF shouldRunDelayed(walk.got)
       THEN control' = "portals" /\ failedBefore' = FALSE /\ UNCHANGED passesLeft
       ELSE /\ passesLeft' = passesLeft - 1
            /\ control' = IF passesLeft = 1 THEN "ended" ELSE "wait"
            /\ UNCHANGED failedBefore
    /\ UNCHANGED <<arrived, tokens, software, records, portalsPending, gateOpen, rooms, history, zoneFaults>>

\* createPortalsFromCloudSync and setCloudSyncDone; the scan for candidates may
\* fail, and the gate opens all the same.
CreatePortals ==
    LET first == ~gateOpen
    IN /\ control = "portals"
       /\ \/ /\ rooms' = rooms \cup {ChatOf[m] : m \in {m \in DOMAIN ChatOf : IsStored(m)}}
             /\ portalsPending' = FALSE /\ UNCHANGED zoneFaults
          \/ ZoneFault /\ portalsPending' = TRUE /\ UNCHANGED rooms
       /\ gateOpen' = TRUE
       /\ passesLeft' = IF first THEN passesLeft ELSE passesLeft - 1
       /\ control' = IF passesLeft' = 0 THEN "ended" ELSE "wait"
       /\ UNCHANGED <<arrived, stores, software, walk, failedBefore, history>>

-----------------------------------------------------------------------------

\* Records reach the change feed late.
Propagates ==
    /\ \E z \in Zones : arrived[z] < Len(Feed[z]) /\ arrived' = [arrived EXCEPT ![z] = @ + 1]
    /\ UNCHANGED <<stores, software, walk, controller, history, zoneFaults>>

\* A panic in the controller: recovered once the gate is open, else the
\* process goes down (RestartSync).
ControllerPanics ==
    /\ ZoneFault /\ gateOpen /\ control # "ended"
    /\ walk' = NoWalk /\ control' = "ended"
    /\ UNCHANGED <<arrived, stores, software, passesLeft, failedBefore, portalsPending, gateOpen, rooms, history>>

\* The bridge restarts, perhaps with newer sync logic.
RestartSync(bump) ==
    /\ ZoneFault
    /\ walk' = NoWalk /\ control' = "boot" /\ passesLeft' = Delays
    /\ failedBefore' = FALSE /\ portalsPending' = FALSE /\ gateOpen' = FALSE
    /\ software' = [all |-> software.all + bump.all, chats |-> software.chats + bump.chats]
    /\ interrupted' = (interrupted \/ (bump.all + bump.chats > 0 /\ rooms = {} /\ hasAnySyncState))
    /\ UNCHANGED <<arrived, stores, rooms, passedOver>>

Bumps == {b \in [all : 0..1, chats : 0..1] : b.all + b.chats + software.all + software.chats <= 3}

CloudSyncNext ==
    \/ StartSync \/ syncCloudAttachments \/ syncCloudChats \/ syncCloudMessages \/ PageError \/ IngestError
    \/ FinishBootstrap \/ FinishDelayed \/ CreatePortals
    \/ Propagates \/ ControllerPanics
    \/ \E b \in Bumps : RestartSync(b)

ControllerRuns == StartSync \/ ReadPage \/ FinishBootstrap \/ FinishDelayed \/ CreatePortals

\* The controller's goroutine runs.
CloudSyncFairness == WF_syncVars(ControllerRuns)

CloudSyncSpec == CloudSyncInit /\ [][CloudSyncNext]_syncVars /\ CloudSyncFairness

-----------------------------------------------------------------------------

\* A token never runs ahead of the store, whatever fails in between: every
\* message on a page the saved token has passed is stored, or was discarded
\* for want of a chat row (syncCloudMessages, setSyncStateSuccess).
PassedIsStored == \A m \in Before("msgs", tokens["msgs"]) : IsStored(m) \/ m \in passedOver

\* Messages create conversations: none is discarded because its chat record
\* was not seen yet (rule 3 of resolveConversationID).
NeverDiscarded == \A m \in Before("msgs", tokens["msgs"]) : IsStored(m)

\* A stored message has every attachment that the pass could have known, also
\* after a restart in mid-walk (runCloudKitBackfill).
AttachmentsKnown == \A m \in DOMAIN ChatOf : IsStored(m) => records[m].due \subseteq records[m].atts

\* Once the new version is saved, everything before the tokens was read with
\* it, unless the upgrade met a first sync that was halfway
\* (runCloudSyncOnce, cloudSyncVersion, cloudChatSyncVersion).
UpgradeRereads ==
    ~interrupted =>
        /\ saved.all = software.all =>
              \A m \in Before("msgs", tokens["msgs"]) : IsStored(m) => records[m].ver = software.all
        /\ saved.chats = software.chats =>
              \A c \in Before("chats", tokens["chats"]) : IsStored(c) => records[c].ver = software.chats

\* Nothing that the continuation tokens have passed is missing from the store, in
\* part or as a whole, whatever failed, restarted or was upgraded on the way.
NothingSkipped == PassedIsStored /\ AttachmentsKnown /\ UpgradeRereads

\* A delayed pass leaves out the making of rooms only when none is owed, also
\* after a failed pass and a failed scan (shouldRunDelayedCloudReconciliation).
RoomsNotForgotten ==
    [][walk.zone = "done" /\ passesLeft' = passesLeft - 1 =>
          \A m \in DOMAIN ChatOf : IsStored(m) => ChatOf[m] \in rooms]_syncVars

\* The gate opens in the end: failed bootstraps are tried again
\* (runCloudSyncController).
GateOpens == <>[]gateOpen

=============================================================================
