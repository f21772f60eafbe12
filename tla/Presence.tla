------------------------------- MODULE Presence -------------------------------
(* A peer's focus state (StatusKit): updates that arrive under each of the  *)
(* peer's handles, the goroutine each one starts, the search for the peer's *)
(* room, the two dedup tables, and the moon in the room's title, which the  *)
(* live path and the contact refresh both write.  One peer with one room,   *)
(* that of Main; the other handles are linked to it by contacts, by a       *)
(* shared channel or by IDS.                                                *)
EXTENDS Integers, Sequences, FiniteSets

CONSTANTS
    Aliases,         \* the peer's handles
    Main,            \* the handle the room is named after
    OnCard,          \* handles on the peer's contact card
    MaxModeChanges,  \* bound: changes of the peer's focus
    MaxStatusFaults  \* bound: panics, missing ghosts, restarts, expiries

ASSUME PresenceAssumption ==
    /\ Main \in Aliases /\ OnCard \subseteq Aliases /\ MaxModeChanges \in Nat /\ MaxStatusFaults \in Nat

VARIABLES
    focus,       \* the peer's focus
    coming,      \* per handle: updates on their way, in order
    changes,
    seenMode,    \* statusKitPresence and its KV rows, by key: [mem, kv]
    roomMode,    \* statusKitPresenceByPortal: [mem, kv, owner]
    installs,    \* statusKitPresenceByPortalSerial
    stamp,       \* presenceAt: none, fresh, old
    jobs,        \* goroutines of OnStatusUpdate
    linked,      \* handles linked to the room: the KV rows and their cache
    cluster,     \* handles seen sharing the peer's channel (KV)
    titles,      \* title changes in the portal's event queue
    title, custom, \* the room's title and NameIsCustom
    standing,    \* history: the mode of the newest installation that stands
    statusFaults

presenceVars == <<focus, coming, changes, seenMode, roomMode, installs, stamp, jobs, linked, cluster, titles, title, custom, standing, statusFaults>>

Modes == {"available", "dnd"}
NoMode == "none"

\* The two spellings of a handle a dedup row can be kept under.
presenceKey(h) == <<"uri", h>>
strippedKey(h) == <<"raw", h>>
presenceKeys == {presenceKey(h) : h \in Aliases} \cup {strippedKey(h) : h \in Aliases}

PresenceInit ==
    /\ focus = "available" /\ coming = [h \in Aliases |-> <<>>] /\ changes = 0
    /\ seenMode = [k \in presenceKeys |-> [mem |-> NoMode, kv |-> NoMode]]
    /\ roomMode = [mem |-> NoMode, kv |-> NoMode, owner |-> 0]
    /\ installs = 0 /\ stamp = "none" /\ jobs = {}
    /\ linked = {} /\ cluster = {}
    /\ titles = <<>> /\ title = "plain" /\ custom = FALSE
    /\ standing = NoMode /\ statusFaults = 0

StatusFault == statusFaults < MaxStatusFaults /\ statusFaults' = statusFaults + 1

links == <<linked, cluster>>
shown == <<titles, title, custom>>
peerSide == <<focus, coming, changes>>

-----------------------------------------------------------------------------
(* Finding the room *)

\* resolveSiblingHandleLive: the handle itself, or its contact card.
LiveRoom(h) == h = Main \/ {h, Main} \subseteq OnCard

\* lookupAliasPortal: the cache, then the KV row.
LinkedRoom(h) == h \in linked

\* resolveViaCluster: a sibling on the same channel that has the room.
ClusterRoom(h) == h \in cluster /\ \E s \in cluster \ {h} : LinkedRoom(s) \/ LiveRoom(s)

\* rememberAliasPortal for a set of handles; Main finds its room anyway.
rememberAliasPortal(hs) == linked' = linked \cup (hs \ {Main})

\* resolveStatusPortalViaIDS: Apple may say that h is another handle of the
\* one the room is named after.
IDSMayFind(h) == h # Main

\* OnReshareSender: recordReshareObservation, eagerLinkClusterToPortal, and
\* the lookup by IDS for a sender that is still unknown, which may fail.
OnReshareSender(h) ==
    LET grown == cluster \cup {h}
        roomFound == \E s \in grown : LinkedRoom(s) \/ LiveRoom(s)
    IN /\ h \notin cluster
       /\ cluster' = grown
       /\ \/ roomFound /\ rememberAliasPortal(grown)
          \/ ~roomFound /\ (UNCHANGED linked \/ (IDSMayFind(h) /\ rememberAliasPortal({h})))
       /\ UNCHANGED <<peerSide, seenMode, roomMode, installs, stamp, jobs, shown,
                      standing, statusFaults>>

\* batchLinkStatusKitAliases for a handle: local links first, then one IDS
\* lookup, which may find the main handle.  A new mapping drops the dedup row
\* of the handle without its scheme, and the subscription that follows makes
\* StatusKit deliver the state again.
BatchLink(h) ==
    /\ IDSMayFind(h) /\ ~LinkedRoom(h)
    /\ \/ /\ ClusterRoom(h) \/ LiveRoom(h)
          /\ rememberAliasPortal({h})
          /\ UNCHANGED <<seenMode, coming>>
       \/ /\ ~ClusterRoom(h) /\ ~LiveRoom(h)
          /\ rememberAliasPortal({h})
          /\ seenMode' = [seenMode EXCEPT ![strippedKey(h)] = [mem |-> NoMode, kv |-> NoMode]]
          /\ coming' = [coming EXCEPT ![h] = IF @ = <<>> THEN <<focus>> ELSE @]
    /\ UNCHANGED <<focus, changes, roomMode, installs, stamp, jobs, cluster, shown, standing, statusFaults>>

-----------------------------------------------------------------------------
(* OnStatusUpdate *)

\* The peer's devices publish to every handle.
PeerChanges ==
    /\ changes < MaxModeChanges /\ changes' = changes + 1
    /\ focus' = IF focus = "dnd" THEN "available" ELSE "dnd"
    /\ coming' = [h \in Aliases |-> Append(coming[h], focus')]
    /\ UNCHANGED <<seenMode, roomMode, installs, stamp, jobs, links, shown, standing,
                   statusFaults>>

\* The callback: the per-handle dedup, then a goroutine.
OnStatusUpdate(h) ==
    LET k == presenceKey(h)
        m == Head(coming[h])
        last == IF seenMode[k].mem # NoMode THEN seenMode[k].mem ELSE seenMode[k].kv
    IN /\ coming[h] # <<>>
       /\ coming' = [coming EXCEPT ![h] = Tail(@)]
       /\ IF last = m
          THEN seenMode' = [seenMode EXCEPT ![k].mem = m] /\ UNCHANGED jobs
          ELSE /\ seenMode' = [seenMode EXCEPT ![k] = [mem |-> m, kv |-> m]]
               /\ jobs' = jobs \cup {[h |-> h, m |-> m, pc |-> "resolve", owner |-> 0]}
       /\ UNCHANGED <<focus, changes, roomMode, installs, stamp, links, shown, standing,
                      statusFaults>>

Goes(j, to) == jobs' = (jobs \ {j}) \cup {[j EXCEPT !.pc = to]}
Ends(j) == jobs' = jobs \ {j}

\* The room is found: cache, contacts, IDS, cluster; links are remembered.
FindRoom(j) ==
    /\ j.pc = "resolve"
    /\ \/ /\ LiveRoom(j.h) \/ LinkedRoom(j.h) \/ ClusterRoom(j.h)
          /\ IF ~LiveRoom(j.h) /\ ~LinkedRoom(j.h) THEN rememberAliasPortal({j.h}) ELSE UNCHANGED linked
       \/ /\ IDSMayFind(j.h) /\ ~LiveRoom(j.h) /\ ~LinkedRoom(j.h)
          /\ rememberAliasPortal({j.h})
    /\ Goes(j, "install")
    /\ UNCHANGED <<peerSide, seenMode, roomMode, installs, stamp, cluster, shown, standing, statusFaults>>

\* No room, and IDS did not answer or is in its cooldown: the goroutine ends
\* and leaves the handle's dedup as it is.
NoRoomFound(j) ==
    /\ j.pc = "resolve"
    /\ ~LiveRoom(j.h) /\ ~LinkedRoom(j.h) /\ ~ClusterRoom(j.h)
    /\ Ends(j)
    /\ UNCHANGED <<peerSide, seenMode, roomMode, installs, stamp, linked, cluster,
                   shown, standing, statusFaults>>

\* installStatusKitPortalDedup: what a new mode leaves behind.
InstalledRow(m, own) == [mem |-> m, kv |-> m, owner |-> own]

\* touchPresenceAt, then the dedup per room, under its mutex.
Install(j) ==
    LET known == IF roomMode.mem # NoMode THEN roomMode.mem ELSE roomMode.kv
    IN /\ j.pc = "install"
       /\ stamp' = "fresh"
       /\ IF known = j.m
          THEN /\ roomMode' = IF roomMode.mem = NoMode THEN [roomMode EXCEPT !.mem = j.m, !.owner = 0] ELSE roomMode
               /\ Ends(j) /\ UNCHANGED <<installs, standing>>
          ELSE /\ installs' = installs + 1
               /\ roomMode' = InstalledRow(j.m, installs + 1)
               /\ standing' = j.m
               /\ jobs' = (jobs \ {j}) \cup {[j EXCEPT !.pc = "show", !.owner = installs + 1]}
       /\ UNCHANGED <<peerSide, seenMode, links, shown, statusFaults>>

\* Mutation: the value alone decides whether a panic rolls back.
OwnsRowByValue(j) == j.owner # 0 /\ roomMode.mem = j.m

\* rollbackStatusKitPortalDedup: the row still is this goroutine's own.
OwnsRow(j) == j.owner # 0 /\ roomMode.owner = j.owner /\ roomMode.mem = j.m

\* A panic in a call to rustpush: both dedups are rolled back.
StatusPanic(j) ==
    LET k == presenceKey(j.h)
    IN /\ StatusFault
       /\ Ends(j)
       /\ seenMode' = [seenMode EXCEPT ![k] = IF @.mem # j.m THEN @
                          ELSE [mem |-> NoMode, kv |-> IF @.kv = j.m THEN NoMode ELSE @.kv]]
       /\ roomMode' = IF OwnsRow(j)
                      THEN [mem |-> NoMode, owner |-> 0, kv |-> IF roomMode.kv = j.m THEN NoMode ELSE roomMode.kv]
                      ELSE roomMode
       /\ standing' = IF j.owner = installs /\ j.owner # 0 THEN NoMode ELSE standing
       /\ UNCHANGED <<peerSide, installs, stamp, links, shown>>

\* isPortalSilenced: the recorded mode, while its stamp is fresh.
RecordedMode == IF roomMode.mem # NoMode THEN roomMode.mem ELSE roomMode.kv
isPortalSilenced == RecordedMode \notin {NoMode, "available"} /\ stamp # "old"

\* dmFocusName: the moon, or the name handed back to the framework.
dmFocusName == IF isPortalSilenced THEN "moon" ELSE "default"

\* The end of the goroutine: a title change, when there is one to make.
\* Without a ghost it ends before that.
ShowStatus(j) ==
    /\ j.pc = "show"
    /\ Ends(j)
    /\ \/ /\ titles' = IF j.m # "available" \/ custom THEN Append(titles, dmFocusName) ELSE titles
          /\ UNCHANGED statusFaults
       \/ StatusFault /\ UNCHANGED titles
    /\ UNCHANGED <<peerSide, seenMode, roomMode, installs, stamp, links, title, custom, standing>>

-----------------------------------------------------------------------------
(* The title *)

\* The portal's event loop applies a ChatInfoChange.
ApplyTitle ==
    /\ titles # <<>>
    /\ titles' = Tail(titles)
    /\ title' = IF Head(titles) = "moon" THEN "moon" ELSE "plain"
    /\ custom' = (Head(titles) = "moon")
    /\ UNCHANGED <<peerSide, seenMode, roomMode, installs, stamp, jobs, links, standing,
                   statusFaults>>

\* Mutation: the refresh leaves titles the bridge does not own alone.
NeedsTitleOwned == custom /\ dmFocusName # title

\* refreshDMPortalNamesFromContacts: silenced or owned, and not a no-op.
NeedsTitle == (isPortalSilenced \/ custom) /\ dmFocusName # title

\* The contact refresh; one title change at a time is enough to tell apart.
RefreshTitle ==
    /\ NeedsTitle /\ titles = <<>>
    /\ titles' = Append(titles, dmFocusName)
    /\ UNCHANGED <<peerSide, seenMode, roomMode, installs, stamp, jobs, links, title, custom, standing, statusFaults>>

\* presenceMoonTTL passes without a change.
MoonExpires ==
    /\ StatusFault /\ stamp = "fresh" /\ stamp' = "old"
    /\ UNCHANGED <<peerSide, seenMode, roomMode, installs, jobs, links, shown, standing>>

\* The bridge restarts: the maps are empty, the cache is hydrated from KV.
RestartPresence ==
    /\ StatusFault
    /\ seenMode' = [k \in presenceKeys |-> [seenMode[k] EXCEPT !.mem = NoMode]]
    /\ roomMode' = [roomMode EXCEPT !.mem = NoMode, !.owner = 0]
    /\ jobs' = {} /\ titles' = <<>>
    /\ rememberAliasPortal({h \in Aliases : LiveRoom(h)})
    /\ UNCHANGED <<peerSide, installs, stamp, cluster, title, custom, standing>>

PresenceNext ==
    \/ \E h \in Aliases : OnReshareSender(h) \/ BatchLink(h) \/ OnStatusUpdate(h)
    \/ PeerChanges
    \/ \E j \in jobs : FindRoom(j) \/ NoRoomFound(j) \/ Install(j) \/ StatusPanic(j) \/ ShowStatus(j)
    \/ ApplyTitle \/ RefreshTitle \/ MoonExpires \/ RestartPresence

JobsGoOn == \E j \in jobs : FindRoom(j) \/ NoRoomFound(j) \/ Install(j) \/ ShowStatus(j)

\* Goroutines end, the event loop runs, contacts are refreshed, APNs delivers.
PresenceFairness ==
    /\ \A h \in Aliases : WF_presenceVars(OnStatusUpdate(h))
    /\ WF_presenceVars(JobsGoOn)
    /\ WF_presenceVars(ApplyTitle) /\ WF_presenceVars(RefreshTitle)

PresenceSpec == PresenceInit /\ [][PresenceNext]_presenceVars /\ PresenceFairness

-----------------------------------------------------------------------------

\* The title settles on the recorded state: stale title changes in the queue,
\* a lost change, the expiry of a moon and restarts are all made good by the
\* refresh (refreshDMPortalNamesFromContacts).
TitleSettles == <>[]((title = "moon") <=> isPortalSilenced)

\* A panicking goroutine takes back its own installation and never a newer
\* one, in memory and in KV, also across restarts
\* (installStatusKitPortalDedup, rollbackStatusKitPortalDedup).
NewerInstallKept == RecordedMode = standing

=============================================================================
