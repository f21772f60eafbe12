------------------------------- MODULE DMRouting ------------------------------
(* Which portal a one-to-one message belongs to and which way a reply goes.   *)
(* A contact has several handles, a handle may have rooms under older        *)
(* spellings, the contact's card arrives at its own time, and the service    *)
(* (iMessage, or SMS with a destination) changes with every message.  The    *)
(* service is kept in memory and, for a restart, in the portal's metadata.   *)
EXTENDS Integers, Sequences, FiniteSets, SequencesExt

CONSTANTS
    Card,           \* the contact's handles, phones first (preferredContactPortalIDs)
    Spellings,      \* portal IDs under which a handle may have a room, its own first
    ChatDB,         \* chats of chat.db, latest first: handle and service
    OldRooms,       \* portals that have an empty room from the start
    MaxDeliveries,  \* bound: messages received
    MaxSends,       \* bound: messages sent
    MaxRouteFaults  \* bound: failing saves, restarts, changes outside the bridge

VARIABLES
    known,          \* the contact's card is in the contact store
    room,           \* of a portal: none, empty, or used (it has messages)
    smsPortals,     \* the service in memory: absent, iMessage or the SMS destination
    metadata,       \* PortalMetadata.IsSms and SMSDestination
    inbox,          \* remote events queued for a portal
    handling,       \* the event a portal's loop is at: kind, stage, captured service
    chatsSynced,    \* UserLoginMetadata.ChatsSynced
    initialSync,    \* runChatDBInitialSync: stage and entries left
    registered,     \* handles that IDS knows
    hasRelay,       \* a device relays text messages
    memo,           \* carrierVerifiedAt, carrierCheckedAt by portal and target
    relayMemo,      \* smsRelayValue while it is fresh
    latest,         \* history: service of the last message routed to a portal
    overtaken,      \* history: portals where GetChatInfo wrote an older service
    unsaved,        \* history: portals whose last save failed or was cut off
    homePortal,     \* history: portal of the contact's last message
    drifted,        \* history: the contact left a room in use
    groundless,     \* history: a send used the wrong service or target
    deliveries, sends, routeFaults

places == <<known, room>>
route == <<smsPortals, metadata>>
work == <<inbox, handling>>
syncState == <<chatsSynced, initialSync>>
ids == <<registered, hasRelay, memo, relayMemo>>
dmHistory == <<latest, overtaken, unsaved, homePortal, drifted, groundless>>
dmBounds == <<deliveries, sends, routeFaults>>
dmVars == <<places, route, work, syncState, ids, dmHistory, dmBounds>>

Handles == Range(Card)
DMPortals == UNION {Range(Spellings[h]) : h \in Handles}
NoPortal == "no portal"
Absent == "absent"
IMessage == "iMessage"
NotHandling == [kind |-> "idle", stage |-> "idle", seen |-> Absent]

ASSUME DMAssumption ==
    /\ Card \in Seq(Handles) /\ Card # <<>>
    /\ Spellings \in [Handles -> Seq(DMPortals)]
    /\ \A h \in Handles : Spellings[h] # <<>> /\ Spellings[h][1] = h
    /\ ChatDB \in Seq(Handles \X ({IMessage} \cup Handles))
    /\ OldRooms \subseteq DMPortals
    /\ NoPortal \notin DMPortals /\ Absent \notin {IMessage} \cup Handles
    /\ {MaxDeliveries, MaxSends, MaxRouteFaults} \subseteq Nat

DMInit ==
    /\ known \in BOOLEAN
    /\ room = [p \in DMPortals |-> IF p \in OldRooms THEN "empty" ELSE "none"]
    /\ smsPortals = [p \in DMPortals |-> Absent]
    /\ metadata = [p \in DMPortals |-> IMessage]
    /\ inbox = [p \in DMPortals |-> {}] /\ handling = [p \in DMPortals |-> NotHandling]
    /\ chatsSynced = FALSE /\ initialSync = [stage |-> "start", todo |-> <<>>]
    /\ registered \in {{}, {Card[Len(Card)]}} /\ hasRelay \in BOOLEAN
    /\ memo = [p \in DMPortals |-> [h \in Handles |-> "none"]] /\ relayMemo = "none"
    /\ latest = [p \in DMPortals |-> Absent]
    /\ overtaken = {} /\ unsaved = {} /\ homePortal = NoPortal
    /\ drifted = FALSE /\ groundless = FALSE
    /\ deliveries = 0 /\ sends = 0 /\ routeFaults = 0

RouteFault == routeFaults < MaxRouteFaults /\ routeFaults' = routeFaults + 1

-----------------------------------------------------------------------------
(* contact_merge.go *)

HasRoom(p) == p # NoPortal /\ room[p] # "none"
IsUsed(p) == p # NoPortal /\ room[p] = "used"

\* The first member of a list that passes a test.
FirstWith(list, Test(_)) ==
    LET found == {i \in DOMAIN list : Test(list[i])}
    IN IF found = {} THEN NoPortal ELSE list[CHOOSE i \in found : \A j \in found : i <= j]

\* Mutation: the first room, whether it has messages or not.
preferredExistingDMPortalCandidateFirst(portals) == FirstWith(portals, HasRoom)

\* preferredExistingDMPortalCandidate: the first room with messages, or the
\* first room.
preferredExistingDMPortalCandidate(portals) ==
    IF FirstWith(portals, IsUsed) # NoPortal THEN FirstWith(portals, IsUsed)
    ELSE FirstWith(portals, HasRoom)

preferredExistingDMPortalSpelling(h) == preferredExistingDMPortalCandidate(Spellings[h])

\* The room of each candidate, if it has one.
SpelledRooms(candidates) ==
    [i \in DOMAIN candidates |-> preferredExistingDMPortalSpelling(candidates[i])]

\* findExistingDMPortalCandidateWithFastPath: a used room of the first
\* candidate ends the search.
findExistingDMPortalCandidate(candidates) ==
    LET direct == FirstWith(Spellings[candidates[1]], IsUsed)
    IN IF direct # NoPortal THEN direct
       ELSE preferredExistingDMPortalCandidate(SpelledRooms(candidates))

liveContactPortalIDCandidates(h) == IF known /\ Len(Card) > 1 THEN Card ELSE <<h>>

\* chooseContactPortalID
resolveContactPortalID(h) ==
    LET candidates == liveContactPortalIDCandidates(h)
        existing == findExistingDMPortalCandidate(candidates)
    IN IF existing # NoPortal THEN existing ELSE candidates[1]

\* Mutation: only the portal's own handle is tried.
resolveSendTargetOwn(p) == CHOOSE h \in Handles : p \in Range(Spellings[h])

\* resolveSendTarget, pickSendTarget: the portal's handle, unless IDS knows
\* only another handle of the contact.
resolveSendTarget(p) ==
    LET own == CHOOSE h \in Handles : p \in Range(Spellings[h])
        IsValid(h) == h \in registered /\ h # own
    IN IF ~known \/ own \in registered \/ FirstWith(Card, IsValid) = NoPortal THEN own
       ELSE FirstWith(Card, IsValid)

-----------------------------------------------------------------------------
(* The service of a portal *)

getPortalSMSRouting(p) == IF smsPortals[p] # Absent THEN smsPortals[p] ELSE metadata[p]

\* Saving a portal's metadata under smsRoutePersistMu: an error restores the
\* old value.  s is the service to save.
PersistRouting(p, s) ==
    \/ /\ metadata' = [metadata EXCEPT ![p] = s]
       /\ unsaved' = unsaved \ {p} /\ UNCHANGED routeFaults
    \/ /\ metadata[p] # s /\ RouteFault
       /\ unsaved' = unsaved \cup {p} /\ UNCHANGED metadata

\* A message of h goes to p though the contact's last message, or history in
\* another room when p has none, is elsewhere.
LeavesHistory(h, p) ==
    \/ known /\ homePortal \notin {NoPortal, p} /\ IsUsed(homePortal)
    \/ /\ ~IsUsed(p)
       /\ \E c \in Range(liveContactPortalIDCandidates(h)) : \E q \in Range(Spellings[c]) : IsUsed(q)

\* A message of handle h by service s, as far as handleMessage routes it: it
\* updates the service in memory, and in the metadata of a room that exists.
ReceiveDM(h, s) ==
    LET p == resolveContactPortalID(h)
    IN /\ deliveries < MaxDeliveries /\ deliveries' = deliveries + 1
       /\ smsPortals' = [smsPortals EXCEPT ![p] = s]
       /\ latest' = [latest EXCEPT ![p] = s]
       /\ IF HasRoom(p) THEN PersistRouting(p, s) /\ overtaken' = overtaken \ {p}
          ELSE UNCHANGED <<metadata, unsaved, overtaken, routeFaults>>
       /\ inbox' = [inbox EXCEPT ![p] = @ \cup {IF HasRoom(p) THEN "message" ELSE "create"}]
       /\ drifted' = (drifted \/ LeavesHistory(h, p))
       /\ homePortal' = IF known THEN p ELSE NoPortal
       /\ UNCHANGED <<places, handling, syncState, ids, groundless, sends>>

\* Where the contact's history is, once portal p is in state r: nowhere in
\* particular when another room of the contact has come into use.
HomeAfter(p, r) ==
    IF p # homePortal /\ ~IsUsed(p) /\ r = "used" THEN NoPortal ELSE homePortal

\* An event reaches the portal's loop.  Creating a room and refreshing it ask
\* GetChatInfo, which reads the service; the resync of the initial sync brings
\* its own ChatInfo.
TakeEvent(p, k) ==
    /\ k \in inbox[p] /\ handling[p] = NotHandling
    /\ inbox' = [inbox EXCEPT ![p] = @ \ {k}]
    /\ handling' = [handling EXCEPT ![p] =
           [kind |-> k, stage |-> "update",
            seen |-> IF k = "refresh" \/ (k = "create" /\ ~HasRoom(p)) THEN getPortalSMSRouting(p) ELSE Absent]]
    /\ UNCHANGED <<places, route, syncState, ids, dmHistory, dmBounds>>

\* ChatInfo.ExtraUpdates writes the service that GetChatInfo saw, outside the
\* mutex; then the room exists, and a message is stored in it.
UpdateRoom(p) ==
    LET e == handling[p]
    IN /\ e.stage = "update"
       /\ metadata' = [metadata EXCEPT ![p] = IF e.seen = Absent THEN @ ELSE e.seen]
       /\ overtaken' = IF e.seen # Absent /\ latest[p] \notin {Absent, e.seen} THEN overtaken \cup {p} ELSE overtaken
       /\ room' = [room EXCEPT ![p] = IF e.kind \in {"create", "message"} THEN "used"
                                      ELSE IF @ = "none" /\ e.kind = "sync" THEN "empty" ELSE @]
       /\ handling' = [handling EXCEPT ![p] =
              IF e.kind \in {"create", "sync"} THEN [e EXCEPT !.stage = "post"] ELSE NotHandling]
       /\ homePortal' = HomeAfter(p, room'[p])
       /\ UNCHANGED <<known, smsPortals, inbox, syncState, ids, latest, unsaved, drifted,
                      groundless, dmBounds>>

\* Mutation: the post handler saves the service its message came with.
SavedServiceCaptured(p) ==
    IF handling[p].seen # Absent THEN handling[p].seen ELSE getPortalSMSRouting(p)

\* persistCurrentPortalSMSRouting and updateInitialSyncPortalMetadata save
\* the service of this moment.
SavedService(p) == getPortalSMSRouting(p)

\* PostHandle: the service is saved; the initial sync waits for the result.
PostHandle(p) ==
    /\ handling[p].stage = "post"
    /\ PersistRouting(p, SavedService(p))
    /\ overtaken' = IF p \in unsaved' THEN overtaken ELSE overtaken \ {p}
    /\ handling' = [handling EXCEPT ![p] = NotHandling]
    /\ initialSync' = IF handling[p].kind # "sync" \/ initialSync.stage # "wait" THEN initialSync
                      ELSE IF p \in unsaved' THEN [initialSync EXCEPT !.stage = "failed"]
                      ELSE [stage |-> "queue", todo |-> Tail(initialSync.todo)]
    /\ UNCHANGED <<places, smsPortals, inbox, chatsSynced, ids, latest, homePortal, drifted,
                   groundless, deliveries, sends>>

\* A resync or a contact refresh of a room.
RefreshRoom(p) ==
    /\ HasRoom(p) /\ "refresh" \notin inbox[p] /\ RouteFault
    /\ inbox' = [inbox EXCEPT ![p] = @ \cup {"refresh"}]
    /\ UNCHANGED <<places, route, handling, syncState, ids, dmHistory, deliveries, sends>>

-----------------------------------------------------------------------------
(* runChatDBInitialSync *)

\* canonicalizeChatDBInitialSyncDMPortalIDs: one portal for a contact's chats.
canonicalID(h) ==
    LET chosen == preferredExistingDMPortalCandidate(SpelledRooms(Card))
    IN IF ~known THEN h ELSE IF chosen # NoPortal THEN chosen ELSE Card[1]

\* mergeChatDBInitialSyncEntries: the latest chat of a portal gives its service.
FirstOfPortal(i) == \A j \in 1..(i - 1) : canonicalID(ChatDB[j][1]) # canonicalID(ChatDB[i][1])
MergedEntries ==
    LET first == SelectSeq([i \in DOMAIN ChatDB |-> i], FirstOfPortal)
    IN [n \in DOMAIN first |-> <<canonicalID(ChatDB[first[n]][1]), ChatDB[first[n]][2]>>]

\* Mutation: chat.db's service replaces a live one.
seedPortalSMSRoutingAlways(p, s) == s

\* seedPortalSMSRoutingIfAbsent
seedPortalSMSRouting(p, s) == IF smsPortals[p] = Absent THEN s ELSE smsPortals[p]

\* The chats are read and the services seeded; oldest first from here.
SeedInitialSync ==
    /\ initialSync.stage = "start" /\ ~chatsSynced
    /\ initialSync' = [stage |-> "queue", todo |-> Reverse(MergedEntries)]
    /\ smsPortals' = [p \in DMPortals |->
           LET mine == {i \in DOMAIN ChatDB : canonicalID(ChatDB[i][1]) = p /\ FirstOfPortal(i)}
           IN IF mine = {} THEN smsPortals[p]
              ELSE seedPortalSMSRouting(p, ChatDB[CHOOSE i \in mine : TRUE][2])]
    /\ UNCHANGED <<places, metadata, work, chatsSynced, ids, dmHistory, dmBounds>>

QueueSyncEntry ==
    /\ initialSync.stage = "queue" /\ initialSync.todo # <<>>
    /\ initialSync' = [initialSync EXCEPT !.stage = "wait"]
    /\ LET p == Head(initialSync.todo)[1] IN inbox' = [inbox EXCEPT ![p] = @ \cup {"sync"}]
    /\ UNCHANGED <<places, route, handling, chatsSynced, ids, dmHistory, dmBounds>>

FinishInitialSync ==
    /\ initialSync.stage = "queue" /\ initialSync.todo = <<>>
    /\ initialSync' = [initialSync EXCEPT !.stage = "done"]
    /\ chatsSynced' = TRUE
    /\ UNCHANGED <<places, route, work, ids, dmHistory, dmBounds>>

\* matchChatDBGUIDsToExistingPortals: rooms that a chat of chat.db belongs to.
MatchedPortals ==
    {p \in DMPortals : \E e \in Range(ChatDB) :
        p = preferredExistingDMPortalCandidate(
                IF known THEN SpelledRooms(Card) ELSE Spellings[e[1]])}

\* refreshChatDBGUIDMetadata, on a start after the initial sync: each matched
\* portal is saved with its GUIDs and the service of this moment; a failing
\* save leaves that portal as it was.
RefreshChatDBGUIDs ==
    /\ initialSync.stage = "start" /\ chatsSynced
    /\ initialSync' = [initialSync EXCEPT !.stage = "done"]
    /\ \E failing \in SUBSET MatchedPortals :
          /\ failing # {} => RouteFault
          /\ failing = {} => UNCHANGED routeFaults
          /\ metadata' = [p \in DMPortals |->
                 IF p \in MatchedPortals \ failing THEN getPortalSMSRouting(p) ELSE metadata[p]]
          /\ unsaved' = unsaved \ (MatchedPortals \ failing)
          /\ overtaken' = overtaken \ (MatchedPortals \ failing)
    /\ UNCHANGED <<places, smsPortals, work, chatsSynced, ids, latest, homePortal, drifted,
                   groundless, deliveries, sends>>

-----------------------------------------------------------------------------
(* HandleMatrixMessage, carrier_route.go *)

\* Mutation: evidence about a portal's earlier target counts.
memoOfPortal(p, t) == IF \E h \in Handles : memo[p][h] = "verified" THEN "verified" ELSE memo[p][t]

\* recentlyVerifiedIMessage, recentlyCheckedUnreachable: by portal and target.
carrierRouteMemo(p, t) == memo[p][t]

\* checkCarrierRoute: an SMS goes out as iMessage when IDS knows its target;
\* the answer is remembered for an hour.
RouteChecked(p, t) ==
    IF carrierRouteMemo(p, t) = "none" THEN (IF t \in registered THEN "verified" ELSE "unreachable")
    ELSE carrierRouteMemo(p, t)

RelaySeen == IF relayMemo # "none" THEN relayMemo ELSE IF hasRelay THEN "yes" ELSE "no"

\* A Matrix message.  It is refused when it would need a relay and there is
\* none; seen tells whether the target was ever found registered.
SendDM(p) ==
    LET s == getPortalSMSRouting(p)
        t == IF s = IMessage THEN resolveSendTarget(p) ELSE s
        answer == RouteChecked(p, t)
        repaired == s # IMessage /\ answer = "verified"
        asSMS == s # IMessage /\ ~repaired
        asked == memo[p][t] = "verified" \/ (memo[p][t] = "none" /\ t \in registered)
    IN /\ HasRoom(p) /\ handling[p] = NotHandling
       /\ sends < MaxSends /\ sends' = sends + 1
       /\ memo' = IF s = IMessage THEN memo ELSE [memo EXCEPT ![p][t] = answer]
       /\ relayMemo' = IF asSMS THEN RelaySeen ELSE relayMemo
       /\ room' = [room EXCEPT ![p] = IF asSMS /\ RelaySeen = "no" THEN @ ELSE "used"]
       /\ groundless' = \/ groundless
                        \/ repaired /\ ~asked
                        \/ s = IMessage /\ known /\ registered # {} /\ t \notin registered
       /\ homePortal' = HomeAfter(p, room'[p])
       /\ UNCHANGED <<known, route, work, syncState, registered, hasRelay, latest, overtaken,
                      unsaved, drifted, deliveries, routeFaults>>

-----------------------------------------------------------------------------

\* An hour passes; a handle leaves or joins IDS; the card arrives.
MemosExpire ==
    /\ RouteFault
    /\ memo' = [p \in DMPortals |-> [h \in Handles |-> "none"]] /\ relayMemo' = "none"
    /\ UNCHANGED <<places, route, work, syncState, registered, hasRelay, dmHistory, deliveries, sends>>

LearnContact ==
    /\ ~known /\ RouteFault
    /\ known' = TRUE
    /\ UNCHANGED <<room, route, work, syncState, ids, dmHistory, deliveries, sends>>

\* A restart: loadSenderGuidsFromDB takes the services from the metadata,
\* unless the initial sync of chat.db is to come (shouldHydratePersistedSMSRouting).
RestartDM ==
    /\ RouteFault
    /\ smsPortals' = [p \in DMPortals |->
           IF chatsSynced /\ HasRoom(p) /\ metadata[p] # IMessage THEN metadata[p] ELSE Absent]
    /\ inbox' = [p \in DMPortals |-> {}] /\ handling' = [p \in DMPortals |-> NotHandling]
    /\ initialSync' = [stage |-> "start", todo |-> <<>>]
    /\ memo' = [p \in DMPortals |-> [h \in Handles |-> "none"]] /\ relayMemo' = "none"
    /\ latest' = [p \in DMPortals |->
           IF chatsSynced /\ HasRoom(p) /\ p \notin overtaken \cup unsaved /\ handling[p] = NotHandling
           THEN latest[p] ELSE Absent]
    /\ unsaved' = {} /\ overtaken' = {}
    /\ UNCHANGED <<places, metadata, chatsSynced, registered, hasRelay, homePortal, drifted,
                   groundless, deliveries, sends>>

DMNext ==
    \/ \E h \in Handles, s \in {IMessage} \cup Handles : s \in {IMessage, h} /\ ReceiveDM(h, s)
    \/ \E p \in DMPortals : \/ \E k \in inbox[p] : TakeEvent(p, k)
                            \/ UpdateRoom(p) \/ PostHandle(p) \/ RefreshRoom(p) \/ SendDM(p)
    \/ SeedInitialSync \/ QueueSyncEntry \/ FinishInitialSync \/ RefreshChatDBGUIDs
    \/ MemosExpire \/ LearnContact \/ RestartDM

DMSpec == DMInit /\ [][DMNext]_dmVars

-----------------------------------------------------------------------------

\* A reply takes the service and destination of the last message of its
\* portal, also after a restart, whatever the initial sync of chat.db, the
\* creation of the room and a failed save did in between; only a GetChatInfo
\* that read an older service may have spoiled the stored one.
ReplyTakesLatestRoute ==
    \A p \in DMPortals :
        /\ latest[p] # Absent => getPortalSMSRouting(p) = latest[p]
        /\ latest[p] # Absent /\ HasRoom(p) /\ handling[p] = NotHandling /\ p \notin overtaken \cup unsaved
           => metadata[p] = latest[p]

\* A send is turned into an iMessage only on evidence about its own target,
\* and an iMessage goes to a handle that IDS knows when the contact has one
\* (carrierRouteMemoKey, pickSendTarget).
SendIsGrounded == ~groundless

\* A send follows the route the conversation last used, and leaves it only on
\* evidence about its own target.
SendsFollowRoute == ReplyTakesLatestRoute /\ SendIsGrounded

\* While the contact's card is known, its messages stay in the room that
\* holds their history, whichever handle they come from and however the room
\* was spelled, as long as no other room of the contact comes into use
\* (chooseContactPortalID).
ContactKeepsRoom == ~drifted

\* No older service is written over a newer one, as the comment on
\* smsRoutePersistMu has it.
NewerRouteKept == overtaken \subseteq {p \in DMPortals : handling[p] # NotHandling}

=============================================================================
