----------------------------- MODULE GroupRouting -----------------------------
(* Which portal an iMessage group belongs to.  Apple names a group by a GUID,*)
(* but another client of the same user may use a second GUID for the same    *)
(* group, older portals are named by their members, and the caches that tie  *)
(* the three together live in memory.  The user's own handles are left out   *)
(* of every participant set: all comparisons ignore them.                    *)
EXTENDS Integers, FiniteSets

CONSTANTS
    Guids,          \* sender GUIDs, lower case
    GroupOf,        \* the group a GUID stands for
    People,         \* handles of other people
    FirstMembers,   \* the members of a group at the start
    Legacy,         \* member sets whose group has a comma portal from the start
    MaxRoutes,      \* bound: events routed
    MaxChanges      \* bound: membership changes, deleted rooms, restarts

VARIABLES
    members,          \* who is in a group now
    rooms,            \* portals with a Matrix room
    wanted,           \* portals whose room a queued message will create
    gidAliases, imGroupGuids, imGroupParticipants,
    groupPortalIndex, \* comma portals in the member index
    senderGuid,       \* PortalMetadata.SenderGuid
    roster,           \* cloud_chat.participants_json
    saves,            \* goroutines makePortalKey started: metadata and roster
    had,              \* history: member sets a group has had
    heardIn,            \* history: groups whose messages a portal got
    home,             \* history: the portal of a GUID's last message; None after a change
                      \* of the members, and after a restart if there was one before
    doubled,          \* history: GUIDs for which a second room was made
    partial,          \* history: portals created, or their cached members cut short, by
                      \* an event without the full member list
    routes, memberChanges

memory == <<gidAliases, imGroupGuids, imGroupParticipants, groupPortalIndex>>
disk == <<senderGuid, roster>>
routingHistory == <<had, heardIn, home, doubled, partial>>
routingVars == <<members, rooms, wanted, memory, disk, saves, routingHistory, routes, memberChanges>>

Groups == {GroupOf[g] : g \in Guids}
None == <<"none">>
gidID(g) == <<"gid", g>>
comma(s) == <<"members", s>>
GroupPortals == {gidID(g) : g \in Guids} \cup {comma(s) : s \in Legacy}
IsGid(p) == p[1] = "gid"
GroupSets == {s \in SUBSET People : Cardinality(s) >= 2}

ASSUME RoutingAssumption ==
    /\ GroupOf \in [Guids -> Groups] /\ None \notin Guids
    /\ FirstMembers \in [Groups -> GroupSets]
    /\ Legacy \subseteq SUBSET People
    /\ MaxRoutes \in Nat /\ MaxChanges \in Nat

RoutingInit ==
    /\ members = FirstMembers
    /\ rooms = {comma(s) : s \in Legacy} /\ wanted = {}
    /\ gidAliases = [g \in Guids |-> None]
    /\ imGroupGuids = [p \in GroupPortals |-> None]
    /\ imGroupParticipants = [p \in GroupPortals |-> {}]
    /\ groupPortalIndex = {comma(s) : s \in Legacy}
    /\ senderGuid = [p \in GroupPortals |-> None]
    /\ roster = [p \in GroupPortals |-> {}]
    /\ saves = {}
    /\ had = [x \in Groups |-> {members[x]}]
    /\ heardIn = [p \in GroupPortals |-> {}]
    /\ home = [g \in Guids |-> None]
    /\ doubled = {} /\ partial = {} /\ routes = 0 /\ memberChanges = 0

-----------------------------------------------------------------------------
(* makePortalKey *)

\* participantSetsMatch, with the user's own handles left out.
participantSetsMatch(a, b) == a # {} /\ a = b

PortalParts(p) == IF IsGid(p) THEN imGroupParticipants[p] ELSE p[2]

\* A cached match is stale when the message names someone the portal lacks.
guidCacheMatchIsStale(p, parts) ==
    /\ parts # {}
    /\ IsGid(p) => imGroupParticipants[p] # {}
    /\ \E x \in parts : x \notin PortalParts(p)

\* Portals that the GUID cache names for g, stale or not.
CachedFor(g) == {p \in GroupPortals : imGroupGuids[p] = g}
StaleFor(g, parts) == {p \in CachedFor(g) : guidCacheMatchIsStale(p, parts)}
GuidMatches(g, parts) == (CachedFor(g) \ StaleFor(g, parts)) \cap rooms

\* Mutation: a shared member is enough.
ParticipantMatchesLoose(g, parts) ==
    {p \in rooms : IsGid(p) /\ p # gidID(g) /\ imGroupParticipants[p] \cap parts # {}}

ParticipantMatches(g, parts) ==
    {p \in rooms : IsGid(p) /\ p # gidID(g) /\ participantSetsMatch(imGroupParticipants[p], parts)}

IndexMatches(parts) == {p \in rooms \cap groupPortalIndex : participantSetsMatch(p[2], parts)}

\* Mutation: the stored rosters are not searched.
findPortalIDsByParticipantsNot(g, parts) == {}

findPortalIDsByParticipants(g, parts) ==
    {p \in rooms : p # gidID(g) /\ participantSetsMatch(roster[p], parts)}

\* resolveExistingGroupByGid: the first kind of match that finds a room; the
\* maps are walked in no particular order.
resolveExistingGroupByGid(g, parts) ==
    IF GuidMatches(g, parts) # {} THEN GuidMatches(g, parts)
    ELSE IF parts = {} THEN {gidID(g)}
    ELSE IF ParticipantMatches(g, parts) # {} THEN ParticipantMatches(g, parts)
    ELSE IF IndexMatches(parts) # {} THEN IndexMatches(parts)
    ELSE IF findPortalIDsByParticipants(g, parts) # {} THEN findPortalIDsByParticipants(g, parts)
    ELSE {gidID(g)}

\* The alias of g, unless the message shows that it is stale.
LiveAlias(g, parts) ==
    IF gidAliases[g] # None /\ guidCacheMatchIsStale(gidAliases[g], parts) THEN None ELSE gidAliases[g]

\* The stale cache entries, and the metadata they came from, that a search
\* through the GUID cache may drop: those it meets before a live one.
Evictions(g, parts) ==
    IF LiveAlias(g, parts) # None \/ gidID(g) \in rooms THEN {{}}
    ELSE IF GuidMatches(g, parts) = {} THEN {StaleFor(g, parts)} ELSE SUBSET StaleFor(g, parts)

PortalsFor(g, parts) ==
    IF LiveAlias(g, parts) # None THEN {LiveAlias(g, parts)}
    ELSE IF gidID(g) \in rooms THEN {gidID(g)}
    ELSE resolveExistingGroupByGid(g, parts)

\* What makePortalKey leaves in the caches after it chose p, and the
\* goroutine it starts for the portal's metadata and roster.
Cache(g, parts, p) ==
    \E evicted \in Evictions(g, parts) :
       /\ gidAliases' = [gidAliases EXCEPT ![g] = IF p # gidID(g) THEN p ELSE LiveAlias(g, parts)]
       /\ imGroupParticipants' = [imGroupParticipants EXCEPT ![p] = IF parts = {} THEN @ ELSE parts]
       /\ imGroupGuids' = [q \in GroupPortals |->
              IF q = p /\ (~IsGid(p) \/ p = gidID(g)) THEN g
              ELSE IF q \in evicted THEN None ELSE imGroupGuids[q]]
       /\ senderGuid' = [q \in GroupPortals |->
              IF q \in evicted /\ senderGuid[q] = g THEN None ELSE senderGuid[q]]
       /\ saves' = saves \cup {<<p, g, parts>>}
       /\ UNCHANGED groupPortalIndex

\* A message of g that names the members makes a room, though the room of its
\* last message, which no other group used, is there.
Duplicates(g, parts, p) ==
    /\ parts # {} /\ home[g] \in rooms /\ p \notin rooms
    /\ home[g] \notin partial /\ heardIn[home[g]] = {GroupOf[g]}

\* A message of the group under GUID g, as handleMessage routes it: it may
\* come without participants, and it creates the portal's room.
RouteMessage(g, parts) ==
    LET x == GroupOf[g]
    IN /\ routes < MaxRoutes /\ routes' = routes + 1
       /\ parts \in {{}, members[x]}
       /\ \E p \in PortalsFor(g, parts) :
             /\ Cache(g, parts, p)
             /\ wanted' = wanted \cup ({p} \ rooms)
             /\ heardIn' = [heardIn EXCEPT ![p] = @ \cup {x}]
             /\ home' = [home EXCEPT ![g] = IF parts # {} THEN p ELSE IF @ = p THEN p ELSE None]
             /\ doubled' = doubled \cup IF Duplicates(g, parts, p) THEN {g} ELSE {}
             /\ partial' = partial \cup (IF parts = {} THEN {p} \ rooms ELSE {})
       /\ UNCHANGED <<members, rooms, roster, had, memberChanges>>

\* A typing indicator or a receipt may name its sender only; it runs through
\* makePortalKey as well and creates no room.
RouteTyping(g, x) ==
    /\ routes < MaxRoutes /\ routes' = routes + 1
    /\ x \in members[GroupOf[g]]
    /\ \E p \in PortalsFor(g, {x}) :
          /\ Cache(g, {x}, p)
          /\ partial' = partial \cup {p}
    /\ UNCHANGED <<members, rooms, wanted, roster, had, heardIn, home, doubled, memberChanges>>

\* The goroutines: SenderGuid of an existing portal; the roster of a gid
\* portal that has none (upsertChat), and persistGroupParticipantsIfChanged
\* for one that has another.
SavePortal(s) ==
    LET p == s[1]
    IN /\ s \in saves
       /\ saves' = saves \ {s}
       /\ senderGuid' = [senderGuid EXCEPT ![p] = IF p \in rooms THEN s[2] ELSE @]
       /\ roster' = [roster EXCEPT ![p] =
              IF IsGid(p) /\ s[3] # {} /\ (@ = {} \/ Cardinality(s[3]) >= 2) THEN s[3] ELSE @]
       /\ UNCHANGED <<members, rooms, wanted, memory, routingHistory, routes, memberChanges>>

\* The event loop creates the room.
CreateWantedRoom(p) ==
    /\ p \in wanted
    /\ wanted' = wanted \ {p} /\ rooms' = rooms \cup {p}
    /\ UNCHANGED <<members, memory, disk, saves, routingHistory, routes, memberChanges>>

-----------------------------------------------------------------------------

Change == memberChanges < MaxChanges /\ memberChanges' = memberChanges + 1

\* Someone joins or leaves a group.
ChangeMembers(x, s) ==
    /\ Change /\ s \in GroupSets /\ s # members[x]
    /\ members' = [members EXCEPT ![x] = s]
    /\ had' = [had EXCEPT ![x] = @ \cup {s}]
    /\ home' = [g \in Guids |-> IF GroupOf[g] = x THEN None ELSE home[g]]
    /\ UNCHANGED <<rooms, wanted, memory, disk, saves, heardIn, doubled, partial, routes>>

\* A restart: loadSenderGuidsFromDB and ensureGroupPortalIndex rebuild what
\* the portals' rows tell.
RoutingRestart ==
    /\ Change
    /\ gidAliases' = [g \in Guids |-> None]
    /\ imGroupGuids' = [p \in GroupPortals |-> IF p \in rooms THEN senderGuid[p] ELSE None]
    /\ imGroupParticipants' = [p \in GroupPortals |-> {}]
    /\ groupPortalIndex' = {p \in rooms : ~IsGid(p)}
    /\ saves' = {} /\ wanted' = {}
    /\ home' = [g \in Guids |->
           IF saves = {} /\ had[GroupOf[g]] = {members[GroupOf[g]]} THEN home[g] ELSE None]
    /\ UNCHANGED <<members, rooms, disk, had, heardIn, doubled, partial, routes>>

RoutingNext ==
    \/ \E g \in Guids : \/ \E s \in SUBSET People : RouteMessage(g, s)
                        \/ \E x \in People : RouteTyping(g, x)
    \/ \E s \in saves : SavePortal(s)
    \/ \E p \in wanted : CreateWantedRoom(p)
    \/ \E x \in Groups, s \in GroupSets : ChangeMembers(x, s)
    \/ RoutingRestart

RoutingSpec == RoutingInit /\ [][RoutingNext]_routingVars

-----------------------------------------------------------------------------

\* The groups of a room hang together: however they are split in two, one of
\* either side had the same members at some time, unless an event without the
\* member list made or described the room.  No cache, alias or stored roster
\* carries a group into the room of another (guidCacheMatchIsStale,
\* participantSetsMatch).
RoomHoldsOneGroup ==
    \A p \in GroupPortals \ partial : \A part \in (SUBSET heardIn[p]) \ {{}, heardIn[p]} :
        \E x \in part, y \in heardIn[p] \ part : had[x] \cap had[y] # {}

\* A group that has a room gets no second one from a message that names its
\* members: not while its aliases last, whatever its membership does, and not
\* after a restart when it is the same (gidAliases, imGroupGuids, the member
\* index and the stored rosters).
NoSecondRoom == doubled = {}

\* Groups and rooms belong to each other, whatever identifiers the clients of
\* the members send and whatever the caches lost in a restart.
OneRoomPerGroup == RoomHoldsOneGroup /\ NoSecondRoom

=============================================================================
