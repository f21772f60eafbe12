---------------------------- MODULE People_proofs ----------------------------
(* Proofs about what the bridge keeps of people: the focus state in a title *)
(* (Presence), names and photos that were shared (SharedProfiles) or are on *)
(* a card (Contacts), and albums (SharedStreams).  In each, something that  *)
(* was begun earlier comes back later and meets newer state.                *)
EXTENDS Presence, SharedProfiles, Contacts, SharedStreams, FiniteSetTheorems, TLAPS

-----------------------------------------------------------------------------
(* Focus.  An installation belongs to one goroutine; the row of the room   *)
(* belongs to the newest installation or to nobody.                        *)

RoomModes == [mem : Modes \cup {NoMode}, kv : Modes \cup {NoMode}, owner : Nat]
StatusJobs == [h : Aliases, m : Modes, pc : {"resolve", "install", "show"}, owner : Nat]

PresenceTypes ==
    /\ focus \in Modes /\ coming \in [Aliases -> Seq(Modes)]
    /\ roomMode \in RoomModes /\ installs \in Nat
    /\ jobs \subseteq StatusJobs

RowHasOwner ==
    /\ standing = roomMode.kv /\ roomMode.mem \in {NoMode, roomMode.kv}
    /\ roomMode.owner \in {0, installs}
    /\ \A j \in jobs : /\ j.owner <= installs
                       /\ j.owner # 0 => j.pc = "show"
                       /\ j.owner # 0 /\ j.owner = installs
                              => roomMode.owner = installs /\ roomMode.mem = j.m
    /\ \A j, l \in jobs : j.owner # 0 /\ j.owner = l.owner => j = l

\* The modes are told apart from no mode.
LEMMA NoModeIsNone == NoMode \notin Modes
  BY DEF NoMode, Modes

\* A goroutine goes on or ends, or one that owns nothing is added.
LEMMA JobsMoveOn ==
    ASSUME PresenceTypes, RowHasOwner, UNCHANGED <<roomMode, installs, standing>>,
           focus' \in Modes, coming' \in [Aliases -> Seq(Modes)],
           \A j \in jobs' : j \in jobs \/ (j \in StatusJobs /\ j.owner = 0)
    PROVE  PresenceTypes' /\ RowHasOwner'
<1>1. PresenceTypes'
  BY DEF PresenceTypes
<1>3. installs \in Nat
  BY DEF PresenceTypes
<1>4. \A j \in jobs' : /\ j.owner <= installs
                       /\ j.owner # 0 => j.pc = "show"
                       /\ j.owner # 0 /\ j.owner = installs
                              => roomMode.owner = installs /\ roomMode.mem = j.m
  BY <1>3 DEF RowHasOwner
<1>5. \A j, l \in jobs' : j.owner # 0 /\ j.owner = l.owner => j = l
  BY DEF RowHasOwner
<1>6. RowHasOwner'
  BY <1>4, <1>5 DEF RowHasOwner
<1> QED BY <1>1, <1>6

\* The room's dedup, and the installation of a new mode.
LEMMA ModeInstalled ==
    ASSUME PresenceTypes, RowHasOwner, NEW j \in jobs, Install(j)
    PROVE  PresenceTypes' /\ RowHasOwner'
<1> DEFINE known == IF roomMode.mem # NoMode THEN roomMode.mem ELSE roomMode.kv
<1>1. /\ j \in StatusJobs /\ j.m \in Modes /\ j.m # NoMode /\ j.pc = "install" /\ j.owner = 0
      /\ installs \in Nat /\ roomMode \in RoomModes
  BY NoModeIsNone DEF PresenceTypes, RowHasOwner, Install, StatusJobs
<1>2. focus' \in Modes /\ coming' \in [Aliases -> Seq(Modes)]
  BY DEF Install, peerSide, PresenceTypes
<1>3. known = roomMode.kv
  BY DEF RowHasOwner
<1>4. CASE known = j.m
  <2>1. /\ roomMode' = IF roomMode.mem = NoMode THEN [roomMode EXCEPT !.mem = j.m, !.owner = 0] ELSE roomMode
        /\ jobs' = jobs \ {j} /\ UNCHANGED <<installs, standing>>
    BY <1>4 DEF Install, Ends
  <2>2. CASE roomMode.mem # NoMode
    <3>1. jobs' \subseteq jobs /\ UNCHANGED <<roomMode, installs, standing>>
      BY <2>1, <2>2, Zenon
    <3> QED BY <1>2, <3>1, JobsMoveOn
  <2>3. CASE roomMode.mem = NoMode
    <3>1. /\ roomMode' \in RoomModes /\ roomMode'.mem = j.m /\ roomMode'.owner = 0
          /\ roomMode'.kv = roomMode.kv
      BY <1>1, <2>1, <2>3 DEF RoomModes
    <3>2. PresenceTypes'
      BY <1>2, <2>1, <3>1 DEF PresenceTypes
    <3>3. \A l \in jobs : ~(l.owner # 0 /\ l.owner = installs)
      <4>1. \A l \in jobs : l.m # NoMode
        BY NoModeIsNone DEF PresenceTypes, StatusJobs
      <4> QED BY <2>3, <4>1 DEF RowHasOwner
    <3>4. RowHasOwner'
      BY <1>3, <1>4, <2>1, <3>1, <3>3 DEF RowHasOwner
    <3> QED BY <3>2, <3>4
  <2> QED BY <2>2, <2>3
<1>5. CASE known # j.m
  <2> DEFINE new == [j EXCEPT !.pc = "show", !.owner = installs + 1]
  <2>1. /\ installs' = installs + 1 /\ standing' = j.m
        /\ roomMode' = [mem |-> j.m, kv |-> j.m, owner |-> installs + 1]
        /\ jobs' = (jobs \ {j}) \cup {new}
    BY <1>5 DEF Install, InstalledRow
  <2>2. new \in StatusJobs /\ new.m = j.m /\ new.pc = "show" /\ new.owner = installs + 1
    <3>1. installs + 1 \in Nat
      BY <1>1
    <3> QED BY <1>1, <3>1 DEF StatusJobs
  <2> HIDE DEF new
  <2>3. /\ roomMode' \in RoomModes /\ roomMode'.mem = j.m /\ roomMode'.kv = j.m
        /\ roomMode'.owner = installs + 1
    BY <1>1, <2>1 DEF RoomModes
  <2>4. PresenceTypes'
    BY <1>1, <1>2, <2>1, <2>2, <2>3 DEF PresenceTypes
  <2>5. \A l \in jobs : l.owner \in Nat /\ l.owner <= installs
    BY DEF PresenceTypes, RowHasOwner, StatusJobs
  <2>6. \A l \in jobs' : l = new \/ (l \in jobs /\ l.owner < installs + 1)
    BY <1>1, <2>1, <2>5
  <2>7. \A l \in jobs' : /\ l.owner <= installs'
                         /\ l.owner # 0 => l.pc = "show"
                         /\ l.owner # 0 /\ l.owner = installs'
                                => roomMode'.owner = installs' /\ roomMode'.mem = l.m
    BY <1>1, <2>1, <2>2, <2>3, <2>5, <2>6 DEF RowHasOwner
  <2>8. \A k, l \in jobs' : k.owner # 0 /\ k.owner = l.owner => k = l
    BY <1>1, <2>2, <2>5, <2>6 DEF RowHasOwner
  <2>9. RowHasOwner'
    BY <2>1, <2>3, <2>7, <2>8 DEF RowHasOwner
  <2> QED BY <2>4, <2>9
<1> QED BY <1>4, <1>5

\* A goroutine panics and takes back what is its own.
LEMMA ModeRolledBack ==
    ASSUME PresenceTypes, RowHasOwner, NEW j \in jobs, StatusPanic(j)
    PROVE  PresenceTypes' /\ RowHasOwner'
<1>1. /\ j \in StatusJobs /\ j.m \in Modes /\ j.m # NoMode /\ j.owner \in Nat
      /\ installs \in Nat /\ roomMode \in RoomModes
  BY NoModeIsNone DEF PresenceTypes, StatusJobs
<1>2. /\ focus' \in Modes /\ coming' \in [Aliases -> Seq(Modes)]
      /\ jobs' = jobs \ {j} /\ installs' = installs
  BY DEF StatusPanic, Ends, peerSide, PresenceTypes
<1>3. /\ roomMode' = IF OwnsRow(j)
                     THEN [mem |-> NoMode, owner |-> 0, kv |-> IF roomMode.kv = j.m THEN NoMode ELSE roomMode.kv]
                     ELSE roomMode
      /\ standing' = IF j.owner = installs /\ j.owner # 0 THEN NoMode ELSE standing
  BY DEF StatusPanic
<1>4. CASE OwnsRow(j)
  <2>1. j.owner = installs /\ j.owner # 0 /\ roomMode.mem = j.m /\ roomMode.kv = j.m
    BY <1>1, <1>4 DEF OwnsRow, RowHasOwner
  <2>2. roomMode' = [mem |-> NoMode, owner |-> 0, kv |-> NoMode] /\ standing' = NoMode
    BY <1>3, <1>4, <2>1
  <2>3. PresenceTypes'
    BY <1>2, <2>2 DEF PresenceTypes, RoomModes
  <2>4. \A l \in jobs' : l \in jobs /\ ~(l.owner # 0 /\ l.owner = installs)
    BY <1>2, <2>1 DEF RowHasOwner
  <2>5. RowHasOwner'
    BY <1>2, <2>2, <2>4 DEF RowHasOwner
  <2> QED BY <2>3, <2>5
<1>5. CASE ~OwnsRow(j)
  <2>1. ~(j.owner = installs /\ j.owner # 0)
    BY <1>5 DEF OwnsRow, RowHasOwner
  <2>2. roomMode' = roomMode /\ standing' = standing
    BY <1>3, <1>5, <2>1, Zenon
  <2>3. \A l \in jobs' : l \in jobs
    BY <1>2
  <2> QED BY <1>2, <2>2, <2>3, JobsMoveOn
<1> QED BY <1>4, <1>5

\* The goroutines go: FindRoom, NoRoomFound, Install, StatusPanic, ShowStatus.
LEMMA JobSteps ==
    ASSUME PresenceTypes, RowHasOwner, NEW j \in jobs,
           FindRoom(j) \/ NoRoomFound(j) \/ Install(j) \/ StatusPanic(j) \/ ShowStatus(j)
    PROVE  PresenceTypes' /\ RowHasOwner'
<1>t. focus \in Modes /\ coming \in [Aliases -> Seq(Modes)] /\ j \in StatusJobs
  BY DEF PresenceTypes
<1>1. CASE FindRoom(j)
  <2> DEFINE new == [j EXCEPT !.pc = "install"]
  <2>1. /\ jobs' = (jobs \ {j}) \cup {new} /\ j.pc = "resolve"
        /\ UNCHANGED <<focus, coming, roomMode, installs, standing>>
    BY <1>1 DEF FindRoom, Goes, peerSide
  <2>2. j.owner = 0
    BY <2>1 DEF RowHasOwner
  <2>3. new \in StatusJobs /\ new.owner = 0
    BY <1>t, <2>2 DEF StatusJobs
  <2> HIDE DEF new
  <2> QED BY <1>t, <2>1, <2>3, JobsMoveOn
<1>2. CASE NoRoomFound(j)
  <2>1. /\ jobs' = jobs \ {j}
        /\ UNCHANGED <<focus, coming, roomMode, installs, standing>>
    BY <1>2 DEF NoRoomFound, Ends, peerSide
  <2> QED BY <1>t, <2>1, JobsMoveOn
<1>3. CASE ShowStatus(j)
  <2>1. /\ jobs' = jobs \ {j}
        /\ UNCHANGED <<focus, coming, roomMode, installs, standing>>
    BY <1>3 DEF ShowStatus, Ends, peerSide
  <2> QED BY <1>t, <2>1, JobsMoveOn
<1> QED BY <1>1, <1>2, <1>3, ModeInstalled, ModeRolledBack

\* What the bridge holds of the peer's focus is the newest mode that was
\* installed and not taken back (installStatusKitPortalDedup,
\* rollbackStatusKitPortalDedup), for any handles and any number of goroutines.
THEOREM NewestInstallStands == PresenceSpec => []NewerInstallKept
<1> DEFINE Inv == PresenceTypes /\ RowHasOwner
<1>1. PresenceInit => Inv
  <2> SUFFICES ASSUME PresenceInit PROVE Inv
    OBVIOUS
  <2>1. PresenceTypes
    <3>1. <<>> \in Seq(Modes)
      OBVIOUS
    <3> QED BY <3>1 DEF PresenceInit, PresenceTypes, RoomModes, Modes
  <2>2. RowHasOwner
    BY DEF PresenceInit, RowHasOwner
  <2> QED BY <2>1, <2>2
<1>2. Inv /\ [PresenceNext]_presenceVars => Inv'
  <2> SUFFICES ASSUME PresenceTypes, RowHasOwner, [PresenceNext]_presenceVars  PROVE Inv'
    OBVIOUS
  <2>t. focus \in Modes /\ coming \in [Aliases -> Seq(Modes)]
    BY DEF PresenceTypes
  <2>1. ASSUME NEW h \in Aliases, OnReshareSender(h)  PROVE Inv'
    BY <2>1, <2>t, JobsMoveOn DEF OnReshareSender, peerSide
  <2>2. ASSUME NEW h \in Aliases, BatchLink(h)  PROVE Inv'
    <3>1. /\ UNCHANGED <<focus, jobs, roomMode, installs, standing>>
          /\ coming' = coming \/ coming' = [coming EXCEPT ![h] = IF @ = <<>> THEN <<focus>> ELSE @]
      BY <2>2 DEF BatchLink
    <3>2. coming' \in [Aliases -> Seq(Modes)]
      <4>1. (IF coming[h] = <<>> THEN <<focus>> ELSE coming[h]) \in Seq(Modes)
        BY <2>t
      <4> QED BY <2>t, <3>1, <4>1, Zenon
    <3> QED BY <2>t, <3>1, <3>2, JobsMoveOn
  <2>3. ASSUME NEW h \in Aliases, OnStatusUpdate(h)  PROVE Inv'
    <3> DEFINE m == Head(coming[h])
               new == [h |-> h, m |-> m, pc |-> "resolve", owner |-> 0]
    <3>1. /\ UNCHANGED <<focus, roomMode, installs, standing>> /\ coming[h] # <<>>
          /\ coming' = [coming EXCEPT ![h] = Tail(@)]
          /\ jobs' = jobs \/ jobs' = jobs \cup {new}
      BY <2>3 DEF OnStatusUpdate
    <3>2. m \in Modes /\ Tail(coming[h]) \in Seq(Modes)
      BY <2>t, <3>1
    <3>3. coming' \in [Aliases -> Seq(Modes)]
      BY <2>t, <3>1, <3>2
    <3>4. new \in StatusJobs /\ new.owner = 0
      BY <3>2 DEF StatusJobs
    <3> HIDE DEF new
    <3>5. \A j \in jobs' : j \in jobs \/ (j \in StatusJobs /\ j.owner = 0)
      BY <3>1, <3>4
    <3> QED BY <2>t, <3>1, <3>3, <3>5, JobsMoveOn
  <2>4. CASE PeerChanges
    <3>1. UNCHANGED <<jobs, roomMode, installs, standing>> /\ focus' \in Modes
      BY <2>4 DEF PeerChanges, Modes
    <3>2. coming' = [h \in Aliases |-> Append(coming[h], focus')]
      BY <2>4 DEF PeerChanges
    <3>3. coming' \in [Aliases -> Seq(Modes)]
      BY <2>t, <3>1, <3>2
    <3> QED BY <3>1, <3>3, JobsMoveOn
  <2>5. ASSUME NEW j \in jobs,
               FindRoom(j) \/ NoRoomFound(j) \/ Install(j) \/ StatusPanic(j) \/ ShowStatus(j)
        PROVE  Inv'
    BY <2>5, JobSteps
  <2>6. CASE ApplyTitle
    BY <2>6, <2>t, JobsMoveOn DEF ApplyTitle, peerSide
  <2>7. CASE RefreshTitle
    BY <2>7, <2>t, JobsMoveOn DEF RefreshTitle, peerSide
  <2>8. CASE MoonExpires
    BY <2>8, <2>t, JobsMoveOn DEF MoonExpires, peerSide
  <2>9. CASE RestartPresence
    <3>1. /\ UNCHANGED <<focus, coming, installs, standing>> /\ jobs' = {}
          /\ roomMode' = [roomMode EXCEPT !.mem = NoMode, !.owner = 0]
      BY <2>9 DEF RestartPresence, peerSide
    <3>2. /\ roomMode' \in RoomModes /\ roomMode'.mem = NoMode /\ roomMode'.owner = 0
          /\ roomMode'.kv = roomMode.kv
      BY <3>1 DEF PresenceTypes, RoomModes
    <3> QED BY <3>1, <3>2 DEF PresenceTypes, RowHasOwner
  <2>10. CASE UNCHANGED presenceVars
    BY <2>10, <2>t, JobsMoveOn DEF presenceVars
  <2> QED BY <2>1, <2>2, <2>3, <2>4, <2>5, <2>6, <2>7, <2>8, <2>9, <2>10 DEF PresenceNext
<1>3. Inv => NewerInstallKept
  BY DEF RowHasOwner, NewerInstallKept, RecordedMode
<1> QED BY <1>1, <1>2, <1>3, PTL DEF PresenceSpec

-----------------------------------------------------------------------------
(* Shared profiles.  While a pass still owns the row it began with, no     *)
(* share was published since, so what it has fetched is at least as new as *)
(* what was heard last.                                                    *)

Rows == [key : Nat, content : Nat, fresh : BOOLEAN]
PassStates == [pc : {"idle", "call", "return", "publish", "read", "show"}, row : Rows,
               own : BOOLEAN, got : Nat]
ShareStates == [pc : {"none", "publish", "read", "show", "done"}, row : Rows, info : Nat]

ProfileTypes ==
    /\ peer \in [key : Nat \ {0}, content : Nat] /\ heard \in Nat
    /\ profile \in Rows /\ profileRow \in Rows
    /\ share \in [1 .. MaxShares -> ShareStates]
    /\ worker \in [Workers -> PassStates]

SharesAreCurrent ==
    /\ heard <= peer.content
    /\ \A n \in 1 .. MaxShares : share[n].pc = "publish"
            => HasRow(share[n].row) /\ share[n].row.content <= peer.content

PassHolds(w) ==
    /\ worker[w].pc \in {"call", "return", "publish"} => HasRow(worker[w].row)
    /\ worker[w].pc = "publish" => worker[w].got # 0
    /\ worker[w].pc \in {"return", "publish"} /\ worker[w].own /\ worker[w].got # 0
            => worker[w].got >= heard

CacheIsCurrent == ShareSticks /\ (~HasRow(profile) => heard = 0)

ProfileInv ==
    ProfileTypes /\ SharesAreCurrent /\ CacheIsCurrent /\ \A w \in Workers : PassHolds(w)

LEMMA NothingCached ==
    NoRow \in Rows /\ ~HasRow(NoRow) /\ IdleWorker \in PassStates /\ NoShare \in ShareStates
BY DEF NoRow, HasRow, IdleWorker, NoShare, Rows, PassStates, ShareStates

LEMMA ContactActs ==
    ASSUME ProfileInv, ContactEdits \/ ContactShares
    PROVE  ProfileInv'
<1>1. /\ peer' \in [key : Nat \ {0}, content : Nat] /\ peer.content <= peer'.content
      /\ UNCHANGED <<profile, profileRow, worker, heard>>
      /\ UNCHANGED share \/ \E n \in 1 .. MaxShares : ShareArrives(n, peer')
  BY DEF ContactEdits, ContactShares, Edited, ProfileInv, ProfileTypes
<1>2. CASE UNCHANGED share
  BY <1>1, <1>2 DEF ProfileInv, ProfileTypes, SharesAreCurrent, CacheIsCurrent, ShareSticks,
     PassHolds, HasRow, ShareStates, Rows
<1>3. CASE \E n \in 1 .. MaxShares : ShareArrives(n, peer')
  <2>1. PICK n \in 1 .. MaxShares : ShareArrives(n, peer')
    BY <1>3
  <2> DEFINE s == [share[n] EXCEPT !.pc = "publish",
                       !.row = [key |-> peer'.key, content |-> peer'.content, fresh |-> TRUE]]
  <2>2. s \in ShareStates /\ s.row = [key |-> peer'.key, content |-> peer'.content, fresh |-> TRUE]
    BY <1>1 DEF ProfileInv, ProfileTypes, ShareStates, Rows
  <2>3. share' = [share EXCEPT ![n] = s]
    BY <2>1 DEF ShareArrives
  <2> HIDE DEF s
  <2>4. share' \in [1 .. MaxShares -> ShareStates]
    BY <2>2, <2>3 DEF ProfileInv, ProfileTypes
  <2>5. /\ peer.content \in Nat /\ peer'.content \in Nat /\ heard \in Nat
        /\ peer'.key # 0 /\ share \in [1 .. MaxShares -> ShareStates]
        /\ \A k \in 1 .. MaxShares : share[k].row.content \in Nat
    BY <1>1 DEF ProfileInv, ProfileTypes, ShareStates, Rows
  <2>6. SharesAreCurrent'
    <3>1. heard' <= peer'.content
      BY <1>1, <2>5 DEF ProfileInv, SharesAreCurrent
    <3>2. ASSUME NEW k \in 1 .. MaxShares, share'[k].pc = "publish"
          PROVE  HasRow(share'[k].row) /\ share'[k].row.content <= peer'.content
      <4>1. CASE k = n
        BY <2>2, <2>3, <2>5, <4>1 DEF HasRow
      <4>2. CASE k # n
        BY <1>1, <2>3, <2>5, <3>2, <4>2 DEF ProfileInv, SharesAreCurrent
      <4> QED BY <4>1, <4>2
    <3> QED BY <3>1, <3>2 DEF SharesAreCurrent, HasRow
  <2>7. CacheIsCurrent' /\ \A w \in Workers : PassHolds(w)'
    BY <1>1 DEF ProfileInv, CacheIsCurrent, ShareSticks, PassHolds, HasRow
  <2> QED
    BY <1>1, <2>4, <2>6, <2>7 DEF ProfileInv, ProfileTypes
<1> QED BY <1>1, <1>2, <1>3

LEMMA SharesGoOn ==
    ASSUME ProfileInv, NEW n \in 1 .. MaxShares, ShareStep(n)
    PROVE  ProfileInv'
<1>1. CASE PublishShare(n)
  <2>1. PICK saved \in BOOLEAN :
            /\ profileRow' = IF saved THEN share[n].row ELSE profileRow
            /\ profile' = [share[n].row EXCEPT !.fresh = saved]
    BY <1>1 DEF PublishShare
  <2>2. /\ share[n] \in ShareStates /\ share[n].row \in Rows /\ HasRow(share[n].row)
        /\ share[n].row.content <= peer.content
    BY <1>1 DEF PublishShare, ProfileInv, ProfileTypes, SharesAreCurrent, ShareStates
  <2>3. /\ profile' \in Rows /\ HasRow(profile') /\ profile'.content = heard'
        /\ heard' \in Nat /\ heard' <= peer'.content /\ UNCHANGED peer
    BY <1>1, <2>1, <2>2 DEF PublishShare, Rows, HasRow
  <2>4. /\ worker' \in [Workers -> PassStates]
        /\ \A w \in Workers : worker'[w] = [worker[w] EXCEPT !.own = FALSE]
    BY <1>1 DEF PublishShare, ProfileInv, ProfileTypes, PassStates
  <2>5. share' \in [1 .. MaxShares -> ShareStates] /\ SharesAreCurrent'
    BY <1>1, <2>3 DEF PublishShare, ProfileInv, ProfileTypes, SharesAreCurrent, ShareStates
  <2>6. ASSUME NEW w \in Workers  PROVE PassHolds(w)'
    BY <2>4, <2>6 DEF ProfileInv, ProfileTypes, PassHolds, PassStates
  <2> QED
    BY <2>1, <2>2, <2>3, <2>4, <2>5, <2>6
       DEF ProfileInv, ProfileTypes, CacheIsCurrent, ShareSticks, Rows
<1>2. CASE ShareLost(n) \/ ShareReads(n) \/ ShareShows(n)
  <2>1. /\ UNCHANGED <<peer, profile, profileRow, worker, heard>>
        /\ \E x \in ShareStates : x.pc # "publish" /\ share' = [share EXCEPT ![n] = x]
    <3>1. share[n] \in ShareStates /\ profile.content \in Nat
      BY DEF ProfileInv, ProfileTypes, Rows
    <3> DEFINE done == [share[n] EXCEPT !.pc = "done"]
               read == [share[n] EXCEPT !.pc = "show", !.info = profile.content]
    <3>2. /\ done \in ShareStates /\ done.pc = "done"
          /\ read \in ShareStates /\ read.pc = "show"
      BY <3>1 DEF ShareStates
    <3>3. share' = [share EXCEPT ![n] = done] \/ share' = [share EXCEPT ![n] = read]
      BY <1>2 DEF ShareLost, ShareReads, ShareShows
    <3>4. UNCHANGED <<peer, profile, profileRow, worker, heard>>
      BY <1>2 DEF ShareLost, ShareReads, ShareShows
    <3> HIDE DEF done, read
    <3> QED BY <3>2, <3>3, <3>4
  <2> QED
    BY <2>1 DEF ProfileInv, ProfileTypes, SharesAreCurrent, CacheIsCurrent, ShareSticks, PassHolds,
       ShareStates, HasRow
<1> QED BY <1>1, <1>2 DEF ShareStep

\* A pass moves on, and leaves the rows alone.
LEMMA PassMoves ==
    ASSUME ProfileInv, NEW w \in Workers, NEW x \in PassStates,
           worker' = [worker EXCEPT ![w] = x], PassHolds(w)',
           UNCHANGED <<peer, share, profile, profileRow, heard>>
    PROVE  ProfileInv'
<1>1. worker' \in [Workers -> PassStates] /\ \A v \in Workers \ {w} : worker'[v] = worker[v]
  BY DEF ProfileInv, ProfileTypes
<1>2. \A v \in Workers \ {w} : PassHolds(v)'
  BY <1>1 DEF ProfileInv, PassHolds
<1> QED
  BY <1>1, <1>2 DEF ProfileInv, ProfileTypes, SharesAreCurrent, CacheIsCurrent, ShareSticks

LEMMA PassesGoOn ==
    ASSUME ProfileInv, NEW w \in Workers, WorkerStep(w)
    PROVE  ProfileInv'
<1>t. /\ worker[w] \in PassStates /\ worker \in [Workers -> PassStates] /\ PassHolds(w)
      /\ peer.content \in Nat /\ heard <= peer.content /\ heard \in Nat
      /\ profile \in Rows /\ profileRow \in Rows
  BY DEF ProfileInv, ProfileTypes, SharesAreCurrent
<1>i. IdleWorker \in PassStates /\ IdleWorker.pc = "idle"
  BY NothingCached DEF IdleWorker
<1>e. ASSUME worker' = [worker EXCEPT ![w] = IdleWorker],
             UNCHANGED <<peer, share, profile, profileRow, heard>>
      PROVE  ProfileInv'
  BY <1>e, <1>i, <1>t, PassMoves DEF PassHolds
<1>1. CASE StartProfilePass(w)
  <2> DEFINE row == IF HasRow(profile) THEN profile ELSE profileRow
             x == [IdleWorker EXCEPT !.pc = "call", !.row = row, !.own = TRUE]
  <2>1. profile' = row /\ worker' = [worker EXCEPT ![w] = x] /\ HasRow(profileRow)
    BY <1>1 DEF StartProfilePass
  <2>2. row \in Rows /\ HasRow(row) /\ x \in PassStates /\ x.row = row /\ x.pc = "call"
    BY <2>1, <1>t, <1>i DEF PassStates
  <2>3. row.content >= heard
    BY <1>t DEF ProfileInv, CacheIsCurrent, ShareSticks, Rows
  <2> HIDE DEF row, x
  <2>4. UNCHANGED <<peer, share, profileRow, heard>>
    BY <1>1 DEF StartProfilePass
  <2>5. worker' \in [Workers -> PassStates] /\ \A v \in Workers : PassHolds(v)'
    BY <1>t, <2>1, <2>2, <2>4 DEF ProfileInv, PassHolds
  <2> QED
    BY <2>1, <2>2, <2>3, <2>4, <2>5
       DEF ProfileInv, ProfileTypes, SharesAreCurrent, CacheIsCurrent, ShareSticks
<1>2. CASE FetchProfile(w)
  <2>1. UNCHANGED <<peer, share, profile, profileRow, heard>>
    BY <1>2 DEF FetchProfile
  <2>2. PICK g \in {peer.content, 0} :
            worker' = [worker EXCEPT ![w] = IF online /\ sharedProfileRefreshEligible
                                            THEN [worker[w] EXCEPT !.pc = "return", !.got = g]
                                            ELSE IdleWorker]
    BY <1>2 DEF FetchProfile
  <2> DEFINE x == [worker[w] EXCEPT !.pc = "return", !.got = g]
  <2>3. CASE worker' = [worker EXCEPT ![w] = x]
    <3>c. worker[w].pc = "call"
      BY <1>2, Zenon DEF FetchProfile
    <3>g. g \in Nat /\ HasRow(worker[w].row)
      BY <1>t, <3>c DEF PassHolds
    <3>1. x \in PassStates /\ x.row = worker[w].row /\ x.pc = "return" /\ x.got = g
      BY <1>t, <3>g DEF PassStates
    <3> HIDE DEF x
    <3>2. PassHolds(w)'
      BY <1>t, <2>1, <2>2, <2>3, <3>g, <3>1 DEF PassHolds
    <3> QED BY <2>1, <2>3, <3>1, <3>2, PassMoves
  <2> QED BY <2>1, <2>2, <2>3, <1>e
<1>3. CASE FetchReturns(w)
  <2>1. UNCHANGED <<peer, share, profile, profileRow, heard>>
    BY <1>3 DEF FetchReturns
  <2>2. CASE worker' = [worker EXCEPT ![w] = IdleWorker]
    BY <2>1, <2>2, <1>e
  <2> DEFINE x == [worker[w] EXCEPT !.pc = "publish"]
  <2>3. CASE worker' = [worker EXCEPT ![w] = x] /\ worker[w].got # 0
    <3>1. /\ x \in PassStates /\ x.row = worker[w].row /\ x.got = worker[w].got
          /\ x.own = worker[w].own /\ x.pc = "publish" /\ worker[w].pc = "return"
      BY <1>3, <1>t DEF PassStates, FetchReturns
    <3> HIDE DEF x
    <3>2. PassHolds(w)'
      BY <1>t, <2>1, <2>3, <3>1 DEF PassHolds
    <3> QED BY <2>1, <2>3, <3>1, <3>2, PassMoves
  <2> QED BY <1>3, <2>2, <2>3 DEF FetchReturns
<1>4. CASE PublishRefreshed(w)
  <2>1. CASE ~(OwnsSnapshot(w) /\ profile' = Replacement(w))
    BY <1>4, <2>1, <1>e DEF PublishRefreshed
  <2>2. CASE OwnsSnapshot(w) /\ worker' = [worker EXCEPT ![w] = IdleWorker]
             /\ UNCHANGED <<profile, profileRow>>
    BY <1>4, <2>2, <1>e DEF PublishRefreshed
  <2>3. CASE /\ OwnsSnapshot(w) /\ profile' = Replacement(w) /\ profileRow' = Replacement(w)
             /\ worker' = [v \in Workers |->
                    IF v # w THEN [worker[v] EXCEPT !.own = FALSE]
                    ELSE IF worker[w].got # worker[w].row.content
                    THEN [IdleWorker EXCEPT !.pc = "read"] ELSE IdleWorker]
    <3>1. /\ UNCHANGED <<peer, share, heard>> /\ worker[w].pc = "publish" /\ worker[w].own
      BY <1>4, <2>3 DEF PublishRefreshed, OwnsSnapshot
    <3>2. /\ profile' \in Rows /\ profileRow' \in Rows /\ HasRow(profile')
          /\ profile'.content = worker[w].got /\ worker[w].got >= heard
      BY <1>t, <2>3, <3>1 DEF PassHolds, Replacement, Rows, PassStates, HasRow
    <3>3. ASSUME NEW v \in Workers
          PROVE  /\ worker'[v] \in PassStates /\ ~worker'[v].own
                 /\ worker'[v].pc \in {"call", "return", "publish"}
                        => /\ worker'[v].pc = worker[v].pc /\ worker'[v].row = worker[v].row
                           /\ worker'[v].got = worker[v].got
      <4>1. worker[v] \in PassStates
        BY <1>t
      <4> QED BY <2>3, <4>1, <1>i DEF PassStates, IdleWorker
    <3>4. worker' \in [Workers -> PassStates]
      BY <2>3, <3>3
    <3>5. \A v \in Workers : PassHolds(v)'
      BY <3>3 DEF ProfileInv, PassHolds
    <3> QED
      BY <3>1, <3>2, <3>4, <3>5 DEF ProfileInv, ProfileTypes, SharesAreCurrent, CacheIsCurrent,
         ShareSticks
  <2> QED BY <1>4, <2>1, <2>2, <2>3 DEF PublishRefreshed, WorthSaving
<1>5. CASE WorkerReads(w) \/ WorkerShows(w)
  <2>1. UNCHANGED <<peer, share, profile, profileRow, heard>>
    BY <1>5 DEF WorkerReads, WorkerShows
  <2> DEFINE x == [worker[w] EXCEPT !.pc = "show", !.got = profile.content]
  <2>2. x \in PassStates /\ x.pc = "show"
    BY <1>t DEF PassStates, Rows
  <2> HIDE DEF x
  <2>3. worker' = [worker EXCEPT ![w] = x] \/ worker' = [worker EXCEPT ![w] = IdleWorker]
    BY <1>5 DEF WorkerReads, WorkerShows, x
  <2>4. ASSUME worker' = [worker EXCEPT ![w] = x]  PROVE PassHolds(w)'
    BY <1>t, <2>2, <2>4 DEF PassHolds
  <2> QED BY <1>e, <2>1, <2>2, <2>3, <2>4, PassMoves
<1> QED BY <1>1, <1>2, <1>3, <1>4, <1>5 DEF WorkerStep

\* Whatever a refresh that began earlier brings back, the cache never falls
\* behind the share that was published last (publishRefreshedSharedProfile).
THEOREM SharesStick == ProfileSpec => []ShareSticks
<1>1. ProfileInit => ProfileInv
  <2> SUFFICES ASSUME ProfileInit PROVE ProfileInv
    OBVIOUS
  <2>1. ProfileTypes
    BY NothingCached DEF ProfileInit, ProfileTypes
  <2> QED
    BY <2>1, NothingCached DEF ProfileInit, ProfileInv, SharesAreCurrent, CacheIsCurrent,
       ShareSticks, PassHolds, NoShare, IdleWorker
<1>2. ProfileInv /\ [ProfileNext]_profileVars => ProfileInv'
  <2> SUFFICES ASSUME ProfileInv, [ProfileNext]_profileVars PROVE ProfileInv'
    OBVIOUS
  <2>r. ASSUME UNCHANGED <<peer, share, profile, profileRow, worker, heard>>
        PROVE  ProfileInv'
    BY <2>r DEF ProfileInv, ProfileTypes, SharesAreCurrent, CacheIsCurrent, ShareSticks, PassHolds,
       HasRow
  <2>1. CASE UNCHANGED profileVars
    BY <2>1, <2>r DEF profileVars
  <2>2. CASE ContactEdits \/ ContactShares
    BY <2>2, ContactActs
  <2>3. CASE \E n \in 1 .. MaxShares : ShareStep(n)
    BY <2>3, SharesGoOn
  <2>4. CASE \E w \in Workers : WorkerStep(w)
    BY <2>4, PassesGoOn
  <2>5. CASE ProfileAges \/ ProfileConnects
    <3>a. UNCHANGED <<peer, share, profileRow, worker, heard>>
      BY <2>5 DEF ProfileAges, ProfileConnects
    <3>b. /\ profile \in Rows /\ profileRow \in Rows /\ heard \in Nat
          /\ HasRow(profile) => profile.content >= heard
          /\ ~HasRow(profile) => heard = 0
      BY DEF ProfileInv, ProfileTypes, CacheIsCurrent, ShareSticks
    <3>c. profile' \in {[profile EXCEPT !.fresh = FALSE], profile, profileRow}
      BY <2>5, Zenon DEF ProfileAges, ProfileConnects, Loaded
    <3>d. HasRow(profile) => profile' # profileRow \/ HasRow(profileRow)
      BY <2>5, <3>b DEF ProfileAges, ProfileConnects, Loaded, HasRow, Rows
    <3>1. /\ UNCHANGED <<peer, share, profileRow, worker, heard>>
          /\ profile' \in Rows /\ (HasRow(profile') => profile'.content >= heard)
          /\ HasRow(profile) => HasRow(profile')
      <4>1. CASE profile' = [profile EXCEPT !.fresh = FALSE]
        BY <3>a, <3>b, <4>1 DEF Rows, HasRow
      <4>2. CASE profile' = profile
        BY <3>a, <3>b, <4>2
      <4>3. CASE profile' = profileRow
        BY <2>5, <3>a, <3>b, <3>d, <4>3 DEF ProfileAges, ProfileConnects, Loaded, Rows, HasRow
      <4> QED BY <3>c, <4>1, <4>2, <4>3
    <3> QED
      BY <3>1 DEF ProfileInv, ProfileTypes, SharesAreCurrent, CacheIsCurrent, ShareSticks, PassHolds
  <2>6. CASE WaitEnds \/ ProfileDisconnects
    BY <2>6, <2>r, Zenon DEF WaitEnds, ProfileDisconnects
  <2>7. CASE ProfileRestarts
    <3>1. /\ profile' = NoRow /\ heard' = 0 /\ UNCHANGED <<peer, profileRow>>
          /\ worker' = [w \in Workers |-> IdleWorker]
          /\ \A n \in 1 .. MaxShares : share'[n].pc # "publish"
      BY <2>7 DEF ProfileRestarts, NoShare
    <3>2. share' \in [1 .. MaxShares -> ShareStates]
      BY <2>7, NothingCached DEF ProfileRestarts, ProfileInv, ProfileTypes, ShareStates, NoShare
    <3> QED
      BY <3>1, <3>2, NothingCached DEF ProfileInv, ProfileTypes, SharesAreCurrent, CacheIsCurrent,
         ShareSticks, PassHolds, IdleWorker
  <2> QED BY <2>1, <2>2, <2>3, <2>4, <2>5, <2>6, <2>7 DEF ProfileNext
<1>3. ProfileInv => ShareSticks
  BY DEF ProfileInv, CacheIsCurrent
<1> QED BY <1>1, <1>2, <1>3, PTL DEF ProfileSpec

-----------------------------------------------------------------------------
(* Contacts.  The bytes of a photo stand beside the URL they came from in  *)
(* the card that is being fetched, and so in the book it replaces.         *)

Cards == [name : Nat, url : Nat, photo : Nat]
BytesMatch(c) == c \in Cards /\ c.photo \in {0, c.url}

PhotoInv ==
    /\ card \in [name : Nat, url : Nat]
    /\ fetch \in [pc : {"idle", "discover", "books", "photos", "install", "failed"}, fresh : Cards]
    /\ BytesMatch(book) /\ BytesMatch(fetch.fresh)

LEMMA NothingListed ==
    BytesMatch(NoCard) /\ NoFetch.fresh = NoCard /\ Listing.fresh = NoCard
BY DEF NoCard, NoFetch, Listing, BytesMatch, Cards

\* What is fetched may change, and the book only to what was fetched.
LEMMA FetchChanges ==
    ASSUME PhotoInv, UNCHANGED card, BytesMatch(book'), BytesMatch(fetch'.fresh),
           NEW pc \in {"idle", "discover", "books", "photos", "install", "failed"}, NEW c,
           fetch' = [pc |-> pc, fresh |-> c]
    PROVE  PhotoInv'
BY DEF PhotoInv, BytesMatch

LEMMA CarriedOverMatches ==
    ASSUME BytesMatch(book), NEW c, BytesMatch(c)
    PROVE  BytesMatch(carryOverAvatars(c)) /\ carryOverAvatars(c).url = c.url
BY DEF BytesMatch, Cards, carryOverAvatars

LEMMA PhotoComes ==
    ASSUME PhotoInv, NEW answer, DownloadContactPhotos(answer)
    PROVE  PhotoInv'
<1> DEFINE c == carryOverAvatars(fetch.fresh)
           needs == c.url # 0 /\ c.photo = 0
           f == IF needs /\ contactPhotoURLDead(c.url) THEN [c EXCEPT !.url = 0]
                ELSE IF needs /\ ~contactPhotoURLDead(c.url) /\ answer = "ok"
                THEN [c EXCEPT !.photo = c.url] ELSE c
<1>1. BytesMatch(c)
  BY CarriedOverMatches DEF PhotoInv
<1>2. fetch' = [pc |-> "install", fresh |-> f] /\ UNCHANGED <<card, book>>
  BY DEF DownloadContactPhotos
<1> HIDE DEF c
<1>3. BytesMatch(f)
  BY <1>1 DEF BytesMatch, Cards
<1> HIDE DEF f
<1> QED BY <1>2, <1>3, FetchChanges DEF PhotoInv, BytesMatch

\* However downloads fail and photos are carried over, the book never shows
\* the bytes of one URL under another (SyncContacts, carryOverAvatars).
THEOREM PhotosMatch == ContactsSpec => []PhotoMatchesCard
<1>1. ContactsInit => PhotoInv
  BY DEF ContactsInit, PhotoInv, BytesMatch, Cards, NoCard, NoFetch
<1>2. PhotoInv /\ [ContactsNext]_contactVars => PhotoInv'
  <2> SUFFICES ASSUME PhotoInv, [ContactsNext]_contactVars PROVE PhotoInv'
    OBVIOUS
  <2>r. ASSUME UNCHANGED <<card, book, fetch>>  PROVE PhotoInv'
    BY <2>r DEF PhotoInv, BytesMatch
  <2>t. BytesMatch(book) /\ BytesMatch(fetch.fresh) /\ BytesMatch(NoCard)
    BY NothingListed DEF PhotoInv
  <2>1. CASE UNCHANGED contactVars
    BY <2>1, <2>r DEF contactVars
  <2>2. CASE EditCard
    BY <2>2 DEF EditCard, PhotoInv, BytesMatch
  <2>3. CASE SyncStep
    <3>1. ASSUME NEW ok \in BOOLEAN, DiscoverICloud(ok) \/ DiscoverExternal(ok)  PROVE PhotoInv'
      <4>1. PICK pc \in {"books", "failed"} : fetch' = [fetch EXCEPT !.pc = pc]
        BY <3>1 DEF DiscoverICloud, DiscoverExternal, discover
      <4>2. fetch' = [pc |-> pc, fresh |-> fetch.fresh] /\ UNCHANGED <<card, book>>
        BY <3>1, <4>1 DEF DiscoverICloud, DiscoverExternal, discover, PhotoInv
      <4> QED BY <2>t, <4>2, FetchChanges
    <3>2. ASSUME NEW got \in BOOLEAN, FetchICloudCards(got) \/ FetchExternalCards(got)
          PROVE  PhotoInv'
      <4>1. PICK c : /\ fetch' = [pc |-> "photos", fresh |-> c] /\ c \in {parseVCard, NoCard}
                     /\ UNCHANGED <<card, book>>
        BY <3>2 DEF FetchICloudCards, FetchExternalCards, receive
      <4>2. BytesMatch(parseVCard)
        BY DEF parseVCard, BytesMatch, Cards, PhotoInv
      <4> QED BY <2>t, <4>1, <4>2, FetchChanges
    <3>3. CASE \E a \in {"ok", "gone", "denied", "error"} : DownloadContactPhotos(a)
      BY <3>3, PhotoComes
    <3>4. CASE InstallContacts
      BY <2>t, <3>4, NothingListed, FetchChanges DEF InstallContacts, NoFetch
    <3>5. CASE SyncFails
      BY <2>t, <3>5, NothingListed, FetchChanges DEF SyncFails, NoFetch
    <3>6. CASE ConnectContacts \/ PeriodicCloudContactSync \/ RetryCloudContacts
      <4>1. UNCHANGED card /\ book' \in {book, NoCard} /\ fetch' \in {fetch, Listing}
        BY <3>6 DEF ConnectContacts, PeriodicCloudContactSync, RetryCloudContacts
      <4>2. CASE fetch' = Listing
        BY <2>t, <4>1, <4>2, NothingListed, FetchChanges DEF Listing
      <4>3. CASE fetch' = fetch
        BY <2>t, <4>1, <4>3 DEF PhotoInv, BytesMatch
      <4> QED BY <4>1, <4>2, <4>3
    <3> QED BY <2>3, <3>1, <3>2, <3>3, <3>4, <3>5, <3>6 DEF SyncStep
  <2>4. CASE DelegateChanges \/ GhostAppears \/ \E u \in deadURLs : ForgetDead(u)
    BY <2>4, <2>r DEF DelegateChanges, GhostAppears, ForgetDead
  <2>5. CASE \E r \in Refreshers : Reconcile(r)
    BY <2>5, <2>r DEF Reconcile, Scan, Look, TakeInfo, WriteInfo
  <2>6. CASE ContactsRestart
    BY <2>t, <2>6, NothingListed, FetchChanges DEF ContactsRestart, NoFetch
  <2> QED BY <2>1, <2>2, <2>3, <2>4, <2>5, <2>6 DEF ContactsNext
<1>3. PhotoInv => PhotoMatchesCard
  BY DEF PhotoInv, BytesMatch, PhotoMatchesCard
<1> QED BY <1>1, <1>2, <1>3, PTL DEF ContactsSpec

-----------------------------------------------------------------------------
(* Shared albums.  Behind the notices of an album, the one that is due     *)
(* included, stands a mark: every asset that a summary would still find    *)
(* new was added after it.  A download accounts for all that was picked.   *)

AlbumStates == [assets : SUBSET Nat, added : Nat, subscribed : BOOLEAN]
Lists == [album : Albums \cup {"none"}, shown : Seq(Nat)]
CommandStates ==
    [step : {"none", "album", "assets"}, choices : SUBSET Albums, list : Lists, plain : BOOLEAN]
HandlerStates ==
    [pc : {"none", "albums", "fetch", "list", "store"}, choices : SUBSET Albums, list : Lists,
     plain : BOOLEAN]
DownloadStates ==
    [pc : {"none", "fetch", "upload", "said"}, room : Nat, album : Albums \cup {"none"},
     picks : SUBSET Nat, meant : Lists, plain : BOOLEAN, picked : SUBSET Nat, todo : SUBSET Nat,
     failed : Nat, sent : Nat]

WatchTypes ==
    /\ album \in [Albums -> AlbumStates] /\ \A a \in Albums : album[a].assets \subseteq 1 .. album[a].added
    /\ baseline \in [Albums -> SUBSET Nat] /\ notices \in [Albums -> Nat]
    /\ poll = [pc |-> poll.pc, todo |-> poll.todo, notify |-> poll.notify]

Announced(a) == notices[a] + AssetsAtStart + (IF a \in poll.notify THEN 1 ELSE 0)

Marks(a, m) ==
    /\ Announced(a) <= m /\ m <= album[a].added
    /\ baseline[a] # NoBaseline => \A n \in album[a].assets \ baseline[a] : n > m

WatchInv == WatchTypes /\ \A a \in Albums : \E m \in Nat : Marks(a, m)

BrowseTypes ==
    /\ browses \in Nat /\ albumRoom \in [Albums -> Nat] /\ roomsMade \in Nat
    /\ command \in CommandStates /\ listed \in Lists
    /\ handler \in [Handlers -> HandlerStates]
    /\ download \in [Downloads -> DownloadStates]

\* The list that a reply will be taken for is one that was offered, and the one
\* the user saw last if its selection was plain.
CommandInv ==
    command.step = "assets" =>
        /\ command.list \in offered /\ command.list.album \in Albums
        /\ command.plain => command.list = listed /\ \A h \in Handlers : ~ Selects(h)

HandlerInv(h) ==
    /\ Selects(h) => handler[h].list.album \in Albums
    /\ handler[h].pc = "store" => handler[h].list \in offered
    /\ handler[h].plain =>
          /\ Selects(h) /\ \A g \in Handlers : Selects(g) => g = h
          /\ handler[h].pc = "store" => handler[h].list = listed

Accounted(d) ==
    /\ download[d].pc # "none" =>
          /\ \E list \in offered : OfList(d, list)
          /\ download[d].plain => OfList(d, download[d].meant)
    /\ IsFiniteSet(download[d].picked) /\ download[d].todo \subseteq download[d].picked
    /\ Cardinality(download[d].todo) + download[d].failed + download[d].sent
            = Cardinality(download[d].picked)
    /\ download[d].pc = "said" => download[d].todo = {}

BrowseInv ==
    /\ BrowseTypes /\ CommandInv
    /\ \A h \in Handlers : HandlerInv(h)
    /\ \A d \in Downloads : Accounted(d)

AlbumInv == WatchInv /\ BrowseInv

-----------------------------------------------------------------------------
(* The watcher.                                                            *)

\* An album grows by an asset newer than any mark, or loses assets.
LEMMA AlbumEdited ==
    ASSUME WatchInv, NEW a \in Albums, NEW x \in AlbumStates,
           album' = [album EXCEPT ![a] = x], UNCHANGED watching,
           x.assets \subseteq 1 .. x.added, album[a].added <= x.added,
           \A n \in x.assets \ album[a].assets : n > album[a].added
    PROVE  WatchInv'
<1>1. WatchTypes'
  BY DEF WatchInv, WatchTypes, watching
<1>2. ASSUME NEW b \in Albums  PROVE \E m \in Nat : Marks(b, m)'
  <2>1. PICK m \in Nat : Marks(b, m)
    BY DEF WatchInv
  <2>2. album[b] \in AlbumStates /\ album'[b] = IF b = a THEN x ELSE album[b]
    BY DEF WatchInv, WatchTypes
  <2>3. Announced(b)' = Announced(b)
    BY DEF Announced, watching
  <2>4. m <= album'[b].added
    BY <2>1, <2>2 DEF Marks, AlbumStates
  <2>5. ASSUME baseline[b] # NoBaseline, NEW n \in album'[b].assets \ baseline[b]  PROVE n > m
    BY <2>1, <2>2, <2>5 DEF Marks, AlbumStates
  <2> QED BY <2>1, <2>3, <2>4, <2>5 DEF Marks, watching, NoBaseline
<1> QED BY <1>1, <1>2 DEF WatchInv

LEMMA AlbumActs ==
    ASSUME WatchInv, NEW a \in Albums,
           \/ AlbumChanges(a)
           \/ \E n \in AlbumNumbers : SharedDeleteAssets(a, n)
           \/ \E on \in BOOLEAN : Subscribe(a, on)
    PROVE  WatchInv'
<1>t. album[a] \in AlbumStates /\ album[a].assets \subseteq 1 .. album[a].added
  BY DEF WatchInv, WatchTypes
<1>1. CASE UNCHANGED album /\ UNCHANGED watching
  BY <1>1 DEF WatchInv, WatchTypes, Marks, Announced, watching, NoBaseline
<1> DEFINE more == [album[a] EXCEPT !.assets = album[a].assets \cup {album[a].added + 1},
                                    !.added = album[a].added + 1]
<1>2. CASE album' = [album EXCEPT ![a] = more] /\ UNCHANGED watching
  <2>a. /\ album[a].added + 1 \in Nat
        /\ album[a].assets \cup {album[a].added + 1} \in SUBSET Nat
    BY <1>t DEF AlbumStates
  <2>1. /\ more \in AlbumStates /\ more.added = album[a].added + 1
        /\ more.assets = album[a].assets \cup {album[a].added + 1}
    BY <1>t, <2>a DEF AlbumStates
  <2> HIDE DEF more
  <2>2. more.assets \subseteq 1 .. more.added /\ album[a].added <= more.added
        /\ \A n \in more.assets \ album[a].assets : n > album[a].added
    BY <1>t, <2>1 DEF AlbumStates
  <2> QED BY <1>2, <2>1, <2>2, AlbumEdited
<1>3. ASSUME NEW n \in AlbumNumbers, SharedDeleteAssets(a, n)  PROVE WatchInv'
  <2> DEFINE x == [album[a] EXCEPT !.assets = album[a].assets \ {n}]
  <2>1. /\ x \in AlbumStates /\ x.added = album[a].added /\ x.assets = album[a].assets \ {n}
    BY <1>t DEF AlbumStates
  <2>2. album' = [album EXCEPT ![a] = x] /\ UNCHANGED watching
    BY <1>3 DEF SharedDeleteAssets
  <2> HIDE DEF x
  <2>3. album[a].added <= x.added
    BY <1>t, <2>1 DEF AlbumStates
  <2> QED BY <1>t, <2>1, <2>2, <2>3, AlbumEdited
<1>4. ASSUME NEW on \in BOOLEAN, Subscribe(a, on)  PROVE WatchInv'
  <2> DEFINE x == [album[a] EXCEPT !.subscribed = on]
  <2>1. /\ x \in AlbumStates /\ x.added = album[a].added /\ x.assets = album[a].assets
    BY <1>t DEF AlbumStates
  <2>2. album' = [album EXCEPT ![a] = x] /\ UNCHANGED watching
    BY <1>4 DEF Subscribe
  <2> HIDE DEF x
  <2>3. album[a].added <= x.added
    BY <1>t, <2>1 DEF AlbumStates
  <2>4. x.assets \subseteq 1 .. x.added /\ x.assets \ album[a].assets = {}
    BY <1>t, <2>1
  <2> QED BY <2>1, <2>2, <2>3, <2>4, AlbumEdited
<1> QED BY <1>1, <1>2, <1>3, <1>4 DEF AlbumChanges

\* The watcher's own steps leave the mark, or move it to the newest asset.
LEMMA Summarized ==
    ASSUME WatchInv, GetAlbumSummary
    PROVE  WatchInv'
<1>1. CASE poll' = NoPoll /\ UNCHANGED <<album, baseline, notices>>
  <2>1. WatchTypes'
    BY <1>1 DEF WatchInv, WatchTypes, NoPoll
  <2>2. ASSUME NEW b \in Albums  PROVE \E m \in Nat : Marks(b, m)'
    <3>1. PICK m \in Nat : Marks(b, m)
      BY DEF WatchInv
    <3>2. Announced(b)' <= Announced(b) /\ Announced(b) \in Nat /\ Announced(b)' \in Nat
      BY <1>1, SharedStreamsAssumption DEF Announced, NoPoll, WatchInv, WatchTypes
    <3>3. Announced(b)' <= m
      BY <3>1, <3>2 DEF Marks
    <3> QED BY <1>1, <3>1, <3>3 DEF Marks, NoBaseline
  <2> QED BY <2>1, <2>2 DEF WatchInv
<1>2. CASE ~(poll' = NoPoll /\ UNCHANGED <<album, baseline, notices>>)
  <2> DEFINE a == Head(poll.todo)
             due == IF hasNewAssets(a) THEN poll.notify \cup {a} ELSE poll.notify
  <2>1. /\ UNCHANGED <<album, notices>> /\ baseline' = [baseline EXCEPT ![a] = album[a].assets]
        /\ poll' = [poll EXCEPT !.todo = Tail(poll.todo), !.notify = due]
    BY <1>2 DEF GetAlbumSummary
  <2>2. poll' = [pc |-> poll.pc, todo |-> Tail(poll.todo), notify |-> due]
    BY <2>1 DEF WatchInv, WatchTypes
  <2>3. poll'.notify = due /\ poll' = [pc |-> poll'.pc, todo |-> poll'.todo, notify |-> poll'.notify]
    BY <2>2
  <2> HIDE DEF a, due
  <2>4. WatchTypes'
    BY <2>1, <2>3 DEF WatchInv, WatchTypes, AlbumStates
  <2>5. ASSUME NEW b \in Albums  PROVE \E m \in Nat : Marks(b, m)'
    <3>1. PICK m \in Nat : Marks(b, m)
      BY DEF WatchInv
    <3>t. /\ album[b] \in AlbumStates /\ album[b].assets \subseteq 1 .. album[b].added
          /\ notices[b] \in Nat /\ baseline \in [Albums -> SUBSET Nat]
      BY DEF WatchInv, WatchTypes
    <3>2. CASE b # a
      <4>1. b \in due <=> b \in poll.notify
        BY <3>2 DEF due
      <4>2. Announced(b)' = Announced(b)
        BY <2>1, <2>3, <4>1 DEF Announced
      <4>3. baseline'[b] = baseline[b]
        BY <2>1, <3>t, <3>2
      <4> QED BY <2>1, <3>1, <4>2, <4>3 DEF Marks, NoBaseline
    <3>3. CASE b = a /\ hasNewAssets(a)
      <4>1. PICK n \in album[b].assets \ baseline[b] : n > m
        BY <3>1, <3>3 DEF hasNewAssets, Marks
      <4>2. Announced(b)' <= Announced(b) + 1 /\ Announced(b) \in Nat /\ Announced(b)' \in Nat
        <5>1. b \in due
          BY <3>3 DEF due
        <5>2. Announced(b)' = notices[b] + AssetsAtStart + 1
          BY <2>1, <2>3, <5>1 DEF Announced
        <5>3. AssetsAtStart \in Nat
          BY SharedStreamsAssumption
        <5>4. Announced(b) \in {notices[b] + AssetsAtStart, notices[b] + AssetsAtStart + 1}
          BY <3>t, <5>3 DEF Announced
        <5> QED BY <3>t, <5>2, <5>3, <5>4
      <4>3. Announced(b)' <= album[b].added /\ album[b].added \in Nat
        BY <3>1, <3>t, <4>1, <4>2 DEF Marks, AlbumStates
      <4>4. baseline'[b] = album[b].assets
        BY <2>1, <3>t, <3>3
      <4>5. Marks(b, album[b].added)'
        BY <2>1, <4>3, <4>4 DEF Marks
      <4> QED BY <2>1, <4>3, <4>5
    <3>4. CASE b = a /\ ~hasNewAssets(a)
      <4>1. Announced(b)' = Announced(b)
        BY <2>1, <2>3, <3>4 DEF Announced, due
      <4>2. baseline'[b] = album[b].assets
        BY <2>1, <3>t, <3>4
      <4> QED BY <2>1, <3>1, <4>1, <4>2 DEF Marks
    <3> QED BY <3>2, <3>3, <3>4
  <2> QED BY <2>4, <2>5 DEF WatchInv
<1> QED BY <1>1, <1>2

\* A poll begins, or ends with its notice or without; or all is forgotten.
LEMMA PollTurns ==
    ASSUME WatchInv, GetChanges \/ PostNotice \/ StreamsRestart
    PROVE  WatchInv'
<1>t. notices \in [Albums -> Nat] /\ UNCHANGED album
  BY DEF WatchInv, WatchTypes, GetChanges, PostNotice, StreamsRestart
<1>1. poll' = poll \/ /\ poll'.notify = {}
                      /\ poll' = [pc |-> poll'.pc, todo |-> poll'.todo, notify |-> poll'.notify]
  <2>1. CASE PostNotice \/ StreamsRestart
    BY <2>1 DEF PostNotice, StreamsRestart, NoPoll
  <2>2. CASE GetChanges
    <3>1. poll' = poll \/ \E q : poll' = [NoPoll EXCEPT !.pc = "summaries", !.todo = q]
      BY <2>2, Zenon DEF GetChanges
    <3> QED BY <3>1 DEF NoPoll
  <2> QED BY <2>1, <2>2
<1>2. baseline' = baseline \/ baseline' = [a \in Albums |-> NoBaseline]
  BY DEF GetChanges, PostNotice, StreamsRestart
<1>3. /\ notices' \in [Albums -> Nat]
      /\ \A a \in Albums : Announced(a)' <= Announced(a)
  <2>1. CASE UNCHANGED notices
    BY <1>t, <1>1, <2>1, SharedStreamsAssumption DEF Announced
  <2>2. CASE /\ notices' = [a \in Albums |-> notices[a] + IF a \in poll.notify THEN 1 ELSE 0]
             /\ poll' = NoPoll
    BY <1>t, <2>2, SharedStreamsAssumption DEF Announced, NoPoll
  <2> QED BY <2>1, <2>2 DEF GetChanges, PostNotice, StreamsRestart
<1>4. WatchTypes'
  BY <1>t, <1>1, <1>2, <1>3 DEF WatchInv, WatchTypes, NoBaseline
<1>5. ASSUME NEW b \in Albums  PROVE \E m \in Nat : Marks(b, m)'
  <2>1. PICK m \in Nat : Marks(b, m)
    BY DEF WatchInv
  <2>2. Announced(b)' <= m
    <3>1. Announced(b) \in Int /\ Announced(b)' \in Int
      BY <1>t, <1>3, SharedStreamsAssumption DEF Announced
    <3> QED BY <1>3, <2>1, <3>1 DEF Marks
  <2>3. baseline'[b] # NoBaseline => baseline'[b] = baseline[b]
    BY <1>2
  <2> QED BY <1>t, <2>1, <2>2, <2>3 DEF Marks, NoBaseline
<1> QED BY <1>4, <1>5 DEF WatchInv

-----------------------------------------------------------------------------
(* Browsing and the downloads.                                             *)

LEMMA NothingAsked ==
    /\ NoDownload \in DownloadStates /\ NoDownload.pc = "none"
    /\ NoDownload.picked = {} /\ NoDownload.todo = {}
    /\ NoDownload.failed = 0 /\ NoDownload.sent = 0
    /\ IsFiniteSet({}) /\ Cardinality({}) = 0
    /\ NoList \in Lists
    /\ NoCommand \in CommandStates /\ NoCommand.step = "none"
    /\ NoHandler \in HandlerStates /\ NoHandler.pc = "none" /\ ~ NoHandler.plain
BY FS_EmptySet DEF NoDownload, DownloadStates, NoCommand, CommandStates, NoHandler,
                   HandlerStates, NoList, Lists

\* What is known of a download stays known when more lists are offered.
LEMMA AccountsRest ==
    ASSUME BrowseInv, UNCHANGED download, offered \subseteq offered', NEW d \in Downloads
    PROVE  Accounted(d)'
<1>1. Accounted(d)
  BY DEF BrowseInv
<1>2. \A list : OfList(d, list)' <=> OfList(d, list)
  BY DEF OfList, At
<1> QED BY <1>1, <1>2 DEF Accounted

LEMMA BrowseRests ==
    ASSUME BrowseInv, UNCHANGED browsing
    PROVE  BrowseInv'
<1>1. UNCHANGED <<albumRoom, openRooms, roomsMade, handler, command, listed, offered, browses,
                  download>>
  BY DEF browsing, albumRooms, replies
<1>2. BrowseTypes' /\ CommandInv' /\ \A h \in Handlers : HandlerInv(h)'
  BY <1>1 DEF BrowseInv, BrowseTypes, CommandInv, HandlerInv, Selects
<1> QED BY <1>1, <1>2, AccountsRest DEF BrowseInv

\* The command state or a room changes, and neither handlers nor downloads do.
LEMMA CommandChanges ==
    ASSUME BrowseInv, UNCHANGED <<handler, listed, offered, download, browses>>,
           albumRoom' \in [Albums -> Nat], roomsMade' \in Nat,
           command' \in CommandStates, command' = command \/ command'.step # "assets"
    PROVE  BrowseInv'
<1>1. BrowseTypes' /\ CommandInv' /\ \A h \in Handlers : HandlerInv(h)'
  BY DEF BrowseInv, BrowseTypes, CommandInv, HandlerInv, Selects
<1> QED BY <1>1, AccountsRest DEF BrowseInv

\* A handler moves on short of offering a list.
LEMMA HandlerTurns ==
    ASSUME BrowseInv, NEW h \in Handlers, NEW x \in HandlerStates,
           handler' = [handler EXCEPT ![h] = x],
           UNCHANGED <<albumRoom, roomsMade, listed, offered, download>>, browses' \in Nat,
           command' \in CommandStates, command' = command \/ command'.step # "assets",
           x.pc # "store" /\ x.pc # "fetch",
           x.pc = "list" => Selects(h) /\ x.list.album \in Albums,
           x.plain => x.pc = "list" /\ handler[h].plain
    PROVE  BrowseInv'
<1>t. handler \in [Handlers -> HandlerStates] /\ BrowseTypes /\ CommandInv
  BY DEF BrowseInv, BrowseTypes
<1>1. /\ handler' \in [Handlers -> HandlerStates] /\ handler'[h] = x
      /\ \A g \in Handlers \ {h} : handler'[g] = handler[g]
  BY <1>t
<1>2. BrowseTypes'
  BY <1>t, <1>1 DEF BrowseTypes
<1>3. \A g \in Handlers : Selects(g)' => Selects(g)
  BY <1>1 DEF Selects
<1>4. CommandInv'
  BY <1>t, <1>3 DEF CommandInv
<1>5. ASSUME NEW g \in Handlers  PROVE HandlerInv(g)'
  <2>1. CASE g = h
    BY <1>1, <1>3, <2>1 DEF BrowseInv, HandlerInv, Selects
  <2>2. CASE g # h
    BY <1>1, <1>3, <2>2 DEF BrowseInv, HandlerInv, Selects
  <2> QED BY <2>1, <2>2
<1> QED BY <1>2, <1>4, <1>5, AccountsRest DEF BrowseInv

LEMMA DownloadChanges ==
    ASSUME BrowseInv, NEW d \in Downloads, NEW x \in DownloadStates,
           download' = [download EXCEPT ![d] = x], Accounted(d)',
           UNCHANGED <<albumRooms, replies>>
    PROVE  BrowseInv'
<1>u. UNCHANGED <<albumRoom, roomsMade, handler, command, listed, offered, browses>>
  BY DEF albumRooms, replies
<1>1. download' \in [Downloads -> DownloadStates] /\ \A e \in Downloads \ {d} : download'[e] = download[e]
  BY DEF BrowseInv, BrowseTypes
<1>2. \A e \in Downloads \ {d} : Accounted(e)'
  BY <1>u, <1>1 DEF BrowseInv, Accounted, OfList, At
<1>3. BrowseTypes' /\ CommandInv' /\ \A h \in Handlers : HandlerInv(h)'
  BY <1>u, <1>1 DEF BrowseInv, BrowseTypes, CommandInv, HandlerInv, Selects
<1> QED BY <1>1, <1>2, <1>3 DEF BrowseInv

\* A list of assets is a sequence, of 50 at most.
LEMMA ListIsShown ==
    ASSUME WatchInv, NEW a \in Albums, NEW l \in NewestFirst(album[a].assets)
    PROVE  l \in Seq(Nat)
<1>1. album[a] \in AlbumStates /\ album[a].assets \subseteq 1 .. album[a].added
  BY DEF WatchInv, WatchTypes
<1>2. IsFiniteSet(1 .. album[a].added)
  <2>1. album[a].added \in Int /\ 1 \in Int
    BY <1>1 DEF AlbumStates
  <2> QED BY <2>1, FS_Interval
<1>3. Cardinality(album[a].assets) \in Nat
  BY <1>1, <1>2, FS_Subset, FS_CardinalityType
<1>4. ListSize(album[a].assets) \in Nat
  BY <1>3, SharedStreamsAssumption DEF ListSize
<1>5. l \in [1 .. ListSize(album[a].assets) -> Nat]
  BY <1>1 DEF NewestFirst, AlbumStates
<1> QED BY <1>4, <1>5

LEMMA ImageIsFinite ==
    ASSUME NEW S, IsFiniteSet(S), NEW f
    PROVE  IsFiniteSet({f[x] : x \in S})
<1> DEFINE T == {f[x] : x \in S}
           g == [x \in S |-> f[x]]
<1>1. g \in Surjection(S, T)
  BY DEF Surjection
<1> HIDE DEF T, g
<1>2. IsFiniteSet(T)
  BY <1>1, FS_Surjection
<1> QED BY <1>2 DEF T

LEMMA SelectionIsInList ==
    ASSUME NEW input, NEW total \in Nat
    PROVE  parseAssetSelection(input, total) \subseteq 1 .. total
<1>1. ASSUME NEW r, InList(r, total)  PROVE Span(r) \subseteq 1 .. total
  BY <1>1 DEF InList, Span
<1> QED BY <1>1 DEF parseAssetSelection

SameList(x, y) ==
    x.album = y.album /\ x.picks = y.picks /\ x.meant = y.meant /\ x.plain = y.plain
        /\ x.picked = y.picked

\* A download goes on with the list it was made of.
LEMMA ListKept ==
    ASSUME BrowseInv, NEW d \in Downloads, download[d].pc # "none", UNCHANGED replies,
           SameList(download'[d], download[d])
    PROVE  /\ \E list \in offered' : OfList(d, list)'
           /\ (download[d].plain => OfList(d, download[d].meant))'
<1>1. /\ \E list \in offered : OfList(d, list)
      /\ download[d].plain => OfList(d, download[d].meant)
  BY DEF BrowseInv, Accounted
<1>2. \A list : OfList(d, list)' <=> OfList(d, list)
  BY DEF OfList, At, SameList
<1>3. OfList(d, download[d].meant)' <=> OfList(d, download[d].meant)
  BY DEF OfList, At, SameList
<1>4. offered' = offered
  BY DEF replies
<1> QED BY <1>1, <1>2, <1>3, <1>4 DEF SameList

\* One asset is done with, well or badly.
LEMMA PieceDone ==
    ASSUME BrowseInv, NEW d \in Downloads, NEW n \in download[d].todo,
           download[d].pc \notin {"none", "said"},
           \/ download' = [download EXCEPT ![d] = Failed(d, n)]
           \/ \E ok : download' = [download EXCEPT ![d] = Sent(d, n, ok)],
           UNCHANGED <<albumRooms, replies>>
    PROVE  BrowseInv'
<1> DEFINE bad == Failed(d, n)
           good == [download[d] EXCEPT !.pc = "fetch", !.todo = download[d].todo \ {n},
                                       !.sent = download[d].sent + 1]
<1>1. download' = [download EXCEPT ![d] = bad] \/ download' = [download EXCEPT ![d] = good]
  BY DEF Sent
<1>t. download[d] \in DownloadStates /\ download \in [Downloads -> DownloadStates] /\ Accounted(d)
  BY DEF BrowseInv, BrowseTypes
<1>n. /\ download[d].failed + 1 \in Nat /\ download[d].sent + 1 \in Nat
      /\ download[d].todo \ {n} \in SUBSET Nat
  BY <1>t DEF DownloadStates
<1>2. /\ good \in DownloadStates /\ good.pc = "fetch" /\ good.todo = download[d].todo \ {n}
      /\ good.failed = download[d].failed /\ good.sent = download[d].sent + 1
      /\ SameList(good, download[d])
  BY <1>t, <1>n DEF DownloadStates, SameList
<1>3. /\ bad \in DownloadStates /\ bad.pc = "fetch" /\ bad.todo = download[d].todo \ {n}
      /\ bad.failed = download[d].failed + 1 /\ bad.sent = download[d].sent
      /\ SameList(bad, download[d])
  BY <1>t, <1>n DEF DownloadStates, Failed, SameList
<1> HIDE DEF good, bad
<1>4. /\ IsFiniteSet(download[d].todo) /\ Cardinality(download[d].todo) \in Nat
      /\ Cardinality(download[d].todo \ {n}) = Cardinality(download[d].todo) - 1
      /\ Cardinality(download[d].picked) \in Nat
  BY <1>t, FS_Subset, FS_RemoveElement, FS_CardinalityType DEF Accounted
<1>5. ASSUME NEW x \in {good, bad}, download' = [download EXCEPT ![d] = x]  PROVE Accounted(d)'
  <2>1. download'[d] = x
    BY <1>t, <1>5
  <2>2. /\ x.pc = "fetch" /\ IsFiniteSet(x.picked) /\ x.todo \subseteq x.picked
        /\ x.picked = download[d].picked
    BY <1>t, <1>2, <1>3 DEF Accounted, SameList
  <2>4. /\ (\E list \in offered : OfList(d, list))'
        /\ (download[d].plain => OfList(d, download[d].meant))'
    <3>1. SameList(download'[d], download[d])
      BY <1>2, <1>3, <2>1
    <3> QED BY <3>1, ListKept
  <2>3. Cardinality(x.todo) + x.failed + x.sent = Cardinality(x.picked)
    <3>1. download[d].failed \in Nat /\ download[d].sent \in Nat
      BY <1>t DEF DownloadStates
    <3>2. Cardinality(x.todo) = Cardinality(download[d].todo) - 1
      BY <1>2, <1>3, <1>4
    <3>3. x.failed + x.sent = download[d].failed + download[d].sent + 1
      BY <1>2, <1>3, <3>1
    <3>4. x.failed \in Nat /\ x.sent \in Nat
      BY <1>2, <1>3, <1>n, <3>1
    <3> QED BY <1>t, <1>4, <2>2, <3>1, <3>2, <3>3, <3>4 DEF Accounted
  <2> QED BY <2>1, <2>2, <2>3, <2>4 DEF Accounted
<1> QED BY <1>1, <1>2, <1>3, <1>5, DownloadChanges

LEMMA DownloadsGoOn ==
    ASSUME BrowseInv, NEW d \in Downloads, NEW n,
           FileArrives(d, n) \/ DownloadTimesOut(d, n) \/ UploadAndSend(d, n) \/ Summarize(d) \/ Retire(d)
    PROVE  BrowseInv'
<1>t. download[d] \in DownloadStates /\ download \in [Downloads -> DownloadStates] /\ Accounted(d)
  BY DEF BrowseInv, BrowseTypes
<1>r. UNCHANGED <<albumRooms, replies>>
  BY DEF FileArrives, DownloadTimesOut, UploadAndSend, Summarize, Retire
\* Only the stage changes.
<1>s. ASSUME NEW pc \in {"upload", "said"}, pc = "said" => download[d].todo = {},
             download[d].pc # "none",
             download' = [download EXCEPT ![d] = [download[d] EXCEPT !.pc = pc]]
      PROVE  BrowseInv'
  <2> DEFINE x == [download[d] EXCEPT !.pc = pc]
  <2>1. /\ x \in DownloadStates /\ x.pc = pc /\ x.todo = download[d].todo
        /\ x.failed = download[d].failed /\ x.sent = download[d].sent
        /\ SameList(x, download[d])
    BY <1>t DEF DownloadStates, SameList
  <2>2. download' = [download EXCEPT ![d] = x]
    BY <1>s
  <2> HIDE DEF x
  <2>3. download'[d] = x
    BY <1>t, <2>2
  <2>4. Accounted(d)'
    <3>1. /\ (\E list \in offered : OfList(d, list))'
          /\ (download[d].plain => OfList(d, download[d].meant))'
      BY <1>r, <1>s, <2>1, <2>3, ListKept
    <3> QED BY <1>t, <1>s, <2>1, <2>3, <3>1 DEF Accounted, SameList
  <2> QED BY <1>r, <2>1, <2>2, <2>4, DownloadChanges
<1>1. CASE FileArrives(d, n) /\ download' # [download EXCEPT ![d] = Failed(d, n)]
  BY <1>1, <1>s DEF FileArrives, Fetching
<1>2. CASE FileArrives(d, n) /\ download' = [download EXCEPT ![d] = Failed(d, n)]
  BY <1>2, <1>r, PieceDone DEF FileArrives, Fetching
<1>3. CASE DownloadTimesOut(d, n)
  BY <1>3, <1>r, PieceDone DEF DownloadTimesOut, Fetching
<1>4. CASE UploadAndSend(d, n)
  BY <1>4, <1>r, PieceDone DEF UploadAndSend
<1>5. CASE Summarize(d)
  BY <1>5, <1>s DEF Summarize
<1>6. CASE Retire(d)
  <2>1. download' = [download EXCEPT ![d] = NoDownload] /\ download'[d] = NoDownload
    BY <1>6, <1>t DEF Retire
  <2>2. Accounted(d)'
    BY <2>1, NothingAsked DEF Accounted
  <2> QED BY <1>r, <2>1, <2>2, NothingAsked, DownloadChanges
<1> QED BY <1>1, <1>2, <1>3, <1>4, <1>5, <1>6

\* A reply starts a download of what it names in the list it answers.
LEMMA ReplyTaken ==
    ASSUME BrowseInv, NEW input, HandleAssetSelection(input)
    PROVE  BrowseInv'
<1> DEFINE picks == parseAssetSelection(input, Len(command.list.shown))
           l == command.list
<1>t. /\ command \in CommandStates /\ l \in Lists /\ l.album \in Albums /\ l \in offered
      /\ command.plain \in BOOLEAN /\ (command.plain => l = listed)
      /\ listed \in Lists /\ albumRoom \in [Albums -> Nat] /\ roomsMade \in Nat
      /\ download \in [Downloads -> DownloadStates]
  BY DEF BrowseInv, BrowseTypes, CommandInv, HandleAssetSelection, CommandStates
<1>1. command' = NoCommand /\ UNCHANGED <<handler, listed, offered, browses>>
  BY DEF HandleAssetSelection
<1>2. getOrCreateAlbumRoom(l.album) \in Nat
  BY <1>t DEF getOrCreateAlbumRoom
<1>3. /\ picks \subseteq 1 .. Len(l.shown) /\ IsFiniteSet(picks) /\ picks \in SUBSET Nat
      /\ l.shown \in Seq(Nat)
  <2>1. l.shown \in Seq(Nat) /\ Len(l.shown) \in Nat
    BY <1>t DEF Lists
  <2>2. IsFiniteSet(1 .. Len(l.shown))
    BY <2>1, FS_Interval
  <2>3. picks \subseteq 1 .. Len(l.shown)
    BY <2>1, SelectionIsInList
  <2> QED BY <2>1, <2>2, <2>3, FS_Subset
<1> HIDE DEF picks
<1>5. At(l, picks) \in SUBSET Nat /\ IsFiniteSet(At(l, picks))
  <2>1. At(l, picks) = {l.shown[i] : i \in picks}
    <3>1. picks \cap DOMAIN l.shown = picks
      <4>1. DOMAIN l.shown = 1 .. Len(l.shown)
        BY <1>3
      <4> QED BY <1>3, <4>1
    <3> QED BY <3>1 DEF At
  <2>2. IsFiniteSet({l.shown[i] : i \in picks})
    BY <1>3, ImageIsFinite
  <2>3. \A i \in picks : l.shown[i] \in Nat
    BY <1>3
  <2> QED BY <2>1, <2>2, <2>3
<1> HIDE DEF l
<1>6. CASE UNCHANGED <<albumRooms, download>>
  BY <1>t, <1>1, <1>6, NothingAsked, CommandChanges DEF albumRooms
<1>7. CASE /\ albumRoom' = [albumRoom EXCEPT ![l.album] = getOrCreateAlbumRoom(l.album)]
           /\ roomsMade' = IF getOrCreateAlbumRoom(l.album) > roomsMade
                           THEN getOrCreateAlbumRoom(l.album) ELSE roomsMade
           /\ \E d \in Downloads :
                 download' = [download EXCEPT ![d] =
                    [pc |-> "fetch", room |-> getOrCreateAlbumRoom(l.album), album |-> l.album,
                     picks |-> picks, meant |-> listed, plain |-> command.plain,
                     picked |-> At(l, picks), todo |-> At(l, picks), failed |-> 0, sent |-> 0]]
  <2> DEFINE room == getOrCreateAlbumRoom(l.album)
             all == At(l, picks)
             x == [pc |-> "fetch", room |-> room, album |-> l.album, picks |-> picks,
                   meant |-> listed, plain |-> command.plain, picked |-> all,
                   todo |-> all, failed |-> 0, sent |-> 0]
  <2>1. PICK d \in Downloads : download' = [download EXCEPT ![d] = x]
    BY <1>7
  <2>a. all \in SUBSET Nat /\ IsFiniteSet(all) /\ all = At(l, picks) /\ room \in Nat
    BY <1>2, <1>5
  <2> HIDE DEF room, all
  <2>2. /\ x \in DownloadStates /\ x.pc = "fetch" /\ x.failed = 0 /\ x.sent = 0
        /\ x.picked = all /\ x.todo = all /\ x.picks = picks /\ x.album = l.album
        /\ x.meant = listed /\ x.plain = command.plain
    BY <1>t, <1>3, <2>a DEF DownloadStates
  <2> HIDE DEF x
  <2>3. /\ download' \in [Downloads -> DownloadStates] /\ download'[d] = x
        /\ \A e \in Downloads \ {d} : download'[e] = download[e]
    BY <1>t, <2>1, <2>2
  <2>4. Cardinality(all) \in Nat
    BY <2>a, FS_CardinalityType
  <2>5. Accounted(d)'
    <3>2. \E list \in offered' : OfList(d, list)'
      <4>1. (\E list \in offered : OfList(d, list))'
        BY <1>t, <1>1, <2>a, <2>2, <2>3 DEF OfList, At
      <4> QED BY <4>1
    <3>3. (download[d].plain => OfList(d, download[d].meant))'
      BY <1>t, <1>1, <2>a, <2>2, <2>3 DEF OfList, At
    <3> QED BY <2>a, <2>2, <2>3, <2>4, <3>2, <3>3 DEF Accounted
  <2>6. \A e \in Downloads \ {d} : Accounted(e)'
    BY <1>1, <2>3 DEF BrowseInv, Accounted, OfList, At
  <2>7. albumRoom' \in [Albums -> Nat] /\ roomsMade' \in Nat
    BY <1>t, <1>2, <1>7
  <2>8. BrowseTypes' /\ CommandInv' /\ \A h \in Handlers : HandlerInv(h)'
    BY <1>1, <2>3, <2>7, NothingAsked DEF BrowseInv, BrowseTypes, CommandInv, HandlerInv, Selects
  <2> QED BY <2>5, <2>6, <2>8 DEF BrowseInv
<1> QED BY <1>6, <1>7 DEF HandleAssetSelection, picks, l

\* A handler begins a selection.
LEMMA SelectionBegins ==
    ASSUME BrowseInv, NEW h \in Handlers, NEW a \in Albums, HandleAlbumSelection(h, a)
    PROVE  BrowseInv'
<1> DEFINE x == [pc |-> "fetch", choices |-> {}, list |-> [NoList EXCEPT !.album = a],
                 plain |-> \A k \in Handlers : ~ Selects(k)]
<1>t. /\ handler \in [Handlers -> HandlerStates] /\ BrowseTypes /\ handler[h].pc = "none"
      /\ UNCHANGED <<albumRoom, roomsMade, listed, offered, download, browses>>
      /\ command' = NoCommand
  BY DEF BrowseInv, BrowseTypes, HandleAlbumSelection, Free, albumRooms
<1>1. /\ x \in HandlerStates /\ x.pc = "fetch" /\ x.list.album = a
      /\ (x.plain => \A k \in Handlers : ~ Selects(k))
  <2>1. [NoList EXCEPT !.album = a] = [album |-> a, shown |-> <<>>]
    BY DEF NoList
  <2>2. [album |-> a, shown |-> <<>>] \in Lists
    <3>1. <<>> \in Seq(Nat)
      OBVIOUS
    <3> QED BY <3>1 DEF Lists
  <2> QED BY <2>1, <2>2 DEF HandlerStates
<1>2. handler' = [g \in Handlers |-> IF g = h THEN x ELSE [handler[g] EXCEPT !.plain = FALSE]]
  BY DEF HandleAlbumSelection
<1> HIDE DEF x
<1>3. /\ handler'[h] = x
      /\ \A g \in Handlers \ {h} : handler'[g] = [handler[g] EXCEPT !.plain = FALSE]
  BY <1>2
<1>4. ASSUME NEW g \in Handlers \ {h}
      PROVE  /\ handler'[g] \in HandlerStates /\ handler'[g].pc = handler[g].pc
             /\ handler'[g].list = handler[g].list /\ handler'[g].plain = FALSE
  <2>1. handler[g] \in HandlerStates
    BY <1>t
  <2> QED BY <1>3, <2>1 DEF HandlerStates
<1>5. handler' \in [Handlers -> HandlerStates]
  <2>1. \A g \in Handlers : handler'[g] \in HandlerStates
    BY <1>1, <1>3, <1>4
  <2>2. handler' = [g \in Handlers |-> handler'[g]]
    BY <1>2
  <2> QED BY <2>1, <2>2
<1>6. BrowseTypes' /\ CommandInv'
  BY <1>t, <1>5, NothingAsked DEF BrowseTypes, CommandInv
<1>7. HandlerInv(h)'
  BY <1>t, <1>1, <1>3, <1>4 DEF HandlerInv, Selects
<1>8. \A g \in Handlers \ {h} : HandlerInv(g)'
  BY <1>t, <1>4 DEF BrowseInv, HandlerInv, Selects
<1> QED BY <1>t, <1>6, <1>7, <1>8, AccountsRest DEF BrowseInv

\* A handler's list reaches the user, or is lost.
LEMMA ListOffered ==
    ASSUME BrowseInv, NEW h \in Handlers, ShowList(h)
    PROVE  BrowseInv'
<1>t. /\ handler \in [Handlers -> HandlerStates] /\ BrowseTypes /\ handler[h].pc = "list"
      /\ UNCHANGED <<albumRoom, roomsMade, command, download, browses>>
      /\ offered' = offered \cup {handler[h].list} /\ Selects(h) /\ HandlerInv(h)
  BY DEF BrowseInv, BrowseTypes, ShowList, albumRooms, Selects
<1>1. PICK keep \in BOOLEAN :
          /\ handler' = [handler EXCEPT ![h] = [handler[h] EXCEPT !.pc = "store",
                                                     !.plain = keep /\ handler[h].plain]]
          /\ listed' = IF keep THEN handler[h].list ELSE listed
  <2>1. handler[h].plain \in BOOLEAN /\ handler[h] \in HandlerStates
    BY <1>t DEF HandlerStates
  <2>2. CASE listed' = handler[h].list /\ handler' = [handler EXCEPT ![h] = [handler[h] EXCEPT !.pc = "store"]]
    <3>1. [handler[h] EXCEPT !.pc = "store"]
              = [handler[h] EXCEPT !.pc = "store", !.plain = TRUE /\ handler[h].plain]
      BY <2>1 DEF HandlerStates
    <3> QED BY <2>2, <3>1
  <2>3. CASE listed' = listed /\ handler' = [handler EXCEPT ![h] =
                            [handler[h] EXCEPT !.pc = "store", !.plain = FALSE]]
    <3>1. [handler[h] EXCEPT !.pc = "store", !.plain = FALSE]
              = [handler[h] EXCEPT !.pc = "store", !.plain = FALSE /\ handler[h].plain]
      BY <2>1 DEF HandlerStates
    <3> QED BY <2>3, <3>1
  <2> QED BY <2>2, <2>3 DEF ShowList
<1> DEFINE x == [handler[h] EXCEPT !.pc = "store", !.plain = keep /\ handler[h].plain]
<1>2. /\ x \in HandlerStates /\ x.pc = "store" /\ x.list = handler[h].list
      /\ (x.plain => keep /\ handler[h].plain) /\ handler[h].list \in Lists
  BY <1>t DEF HandlerStates
<1>3. handler' = [handler EXCEPT ![h] = x]
  BY <1>1
<1> HIDE DEF x
<1>4. /\ handler' \in [Handlers -> HandlerStates] /\ handler'[h] = x
      /\ \A g \in Handlers \ {h} : handler'[g] = handler[g]
  BY <1>t, <1>2, <1>3
<1>5. BrowseTypes'
  <2>1. listed' \in Lists
    BY <1>t, <1>1, <1>2 DEF BrowseTypes
  <2> QED BY <1>t, <1>4, <2>1 DEF BrowseTypes
<1>6. CommandInv'
  BY <1>t, <1>1 DEF BrowseInv, CommandInv
<1>7. HandlerInv(h)'
  <2>1. \A g \in Handlers : Selects(g)' => Selects(g)
    BY <1>t, <1>4 DEF Selects
  <2>2. CASE x.plain
    BY <1>t, <1>1, <1>2, <1>4, <2>1, <2>2 DEF HandlerInv, Selects
  <2>3. CASE ~ x.plain
    BY <1>t, <1>2, <1>4, <2>3 DEF HandlerInv, Selects
  <2> QED BY <2>2, <2>3
<1>8. ASSUME NEW g \in Handlers \ {h}  PROVE HandlerInv(g)'
  <2>1. ~ handler[g].plain
    BY <1>t DEF BrowseInv, HandlerInv
  <2> QED BY <1>t, <1>4, <2>1 DEF BrowseInv, HandlerInv, Selects
<1> QED BY <1>t, <1>5, <1>6, <1>7, <1>8, AccountsRest DEF BrowseInv

\* The list waits for the user's reply.
LEMMA ListStored ==
    ASSUME BrowseInv, NEW h \in Handlers, StoreList(h)
    PROVE  BrowseInv'
<1>t. /\ handler \in [Handlers -> HandlerStates] /\ BrowseTypes /\ handler[h].pc = "store"
      /\ UNCHANGED <<albumRoom, roomsMade, listed, offered, download, browses>>
      /\ Selects(h) /\ HandlerInv(h) /\ handler[h] \in HandlerStates
      /\ handler' = [handler EXCEPT ![h] = NoHandler]
  BY DEF BrowseInv, BrowseTypes, StoreList, Returns, albumRooms, Selects
<1>1. /\ handler' \in [Handlers -> HandlerStates] /\ handler'[h] = NoHandler
      /\ \A g \in Handlers \ {h} : handler'[g] = handler[g]
  BY <1>t, NothingAsked
<1>2. command' = [step |-> "assets", choices |-> {}, list |-> handler[h].list,
                  plain |-> handler[h].plain]
  BY DEF StoreList, NoCommand
<1>3. /\ command' \in CommandStates /\ command'.list = handler[h].list
      /\ command'.plain = handler[h].plain
  BY <1>t, <1>2 DEF CommandStates, HandlerStates
<1>4. BrowseTypes'
  BY <1>t, <1>1, <1>3 DEF BrowseTypes
<1>5. CommandInv'
  <2>1. handler[h].plain => \A g \in Handlers : ~ Selects(g)'
    BY <1>t, <1>1, NothingAsked DEF HandlerInv, Selects
  <2> QED BY <1>t, <1>3, <2>1 DEF HandlerInv, CommandInv
<1>6. HandlerInv(h)'
  BY <1>1, NothingAsked DEF HandlerInv, Selects
<1>7. ASSUME NEW g \in Handlers \ {h}  PROVE HandlerInv(g)'
  <2>1. ~ handler[g].plain
    BY <1>t DEF BrowseInv, HandlerInv
  <2> QED BY <1>t, <1>1, <2>1 DEF BrowseInv, HandlerInv, Selects
<1> QED BY <1>t, <1>4, <1>5, <1>6, <1>7, AccountsRest DEF BrowseInv

LEMMA BrowserSteps ==
    ASSUME AlbumInv,
           \/ Cancel \/ \E a \in Albums : DeleteRoom(a)
           \/ \E h \in Handlers, a \in Albums : HandleAlbumSelection(h, a)
           \/ \E h \in Handlers : \/ SharedAlbums(h) \/ StoreAlbums(h)
                                 \/ GetAlbumAssets(h) \/ ShowList(h) \/ StoreList(h)
    PROVE  BrowseInv'
<1>t. /\ BrowseInv /\ command \in CommandStates /\ albumRoom \in [Albums -> Nat]
      /\ browses \in Nat /\ roomsMade \in Nat /\ handler \in [Handlers -> HandlerStates]
  BY DEF AlbumInv, BrowseInv, BrowseTypes
<1>1. CASE Cancel
  BY <1>1, <1>t, NothingAsked, CommandChanges DEF Cancel, albumRooms
<1>2. ASSUME NEW a \in Albums, DeleteRoom(a)  PROVE BrowseInv'
  BY <1>2, <1>t, CommandChanges DEF DeleteRoom, replies
<1>3. ASSUME NEW h \in Handlers, SharedAlbums(h)  PROVE BrowseInv'
  <2> DEFINE x == [pc |-> "albums", choices |-> {a \in Albums : album[a].subscribed},
                   list |-> NoList, plain |-> FALSE]
  <2>1. x \in HandlerStates /\ x.pc = "albums" /\ ~ x.plain
    BY NothingAsked DEF HandlerStates
  <2>2. handler' = [handler EXCEPT ![h] = x]
    BY <1>3 DEF SharedAlbums
  <2>3. /\ UNCHANGED <<albumRoom, roomsMade, listed, offered, download, command>>
        /\ browses' \in Nat
    <3>1. browses' = browses + 1 /\ UNCHANGED <<albumRooms, command, listed, offered, download>>
      BY <1>3 DEF SharedAlbums
    <3> QED BY <1>t, <3>1 DEF albumRooms
  <2> HIDE DEF x
  <2> QED BY <1>t, <2>1, <2>2, <2>3, HandlerTurns
<1>4. ASSUME NEW h \in Handlers, StoreAlbums(h)  PROVE BrowseInv'
  <2>1. command' = [step |-> "album", choices |-> handler[h].choices, list |-> NoList, plain |-> FALSE]
    BY <1>4 DEF StoreAlbums, NoCommand
  <2>2. command' \in CommandStates /\ command'.step # "assets"
    BY <1>t, <2>1, NothingAsked DEF CommandStates, HandlerStates
  <2>3. /\ UNCHANGED <<albumRoom, roomsMade, listed, offered, download, browses>>
        /\ handler' = [handler EXCEPT ![h] = NoHandler]
    BY <1>4 DEF StoreAlbums, Returns, albumRooms
  <2> QED BY <1>t, <2>2, <2>3, NothingAsked, HandlerTurns
<1>5. ASSUME NEW h \in Handlers, GetAlbumAssets(h)  PROVE BrowseInv'
  <2>1. /\ UNCHANGED <<albumRoom, roomsMade, listed, offered, download, browses, command>>
        /\ Selects(h) /\ handler[h].list.album \in Albums /\ handler[h] \in HandlerStates
    BY <1>t, <1>5 DEF GetAlbumAssets, albumRooms, Selects, BrowseInv, HandlerInv
  <2>2. CASE handler' = [handler EXCEPT ![h] = NoHandler]
    BY <1>t, <2>1, <2>2, NothingAsked, HandlerTurns
  <2>3. CASE \E l \in NewestFirst(album[handler[h].list.album].assets) :
                handler' = [handler EXCEPT ![h] = [handler[h] EXCEPT !.pc = "list",
                                   !.list = [album |-> handler[h].list.album, shown |-> l]]]
    <3> DEFINE a == handler[h].list.album
    <3>1. PICK l \in NewestFirst(album[a].assets) :
                handler' = [handler EXCEPT ![h] = [handler[h] EXCEPT !.pc = "list",
                                   !.list = [album |-> a, shown |-> l]]]
      BY <2>3
    <3>2. l \in Seq(Nat) /\ a \in Albums
      BY <2>1, ListIsShown DEF AlbumInv
    <3> DEFINE x == [handler[h] EXCEPT !.pc = "list", !.list = [album |-> a, shown |-> l]]
    <3>3. [album |-> a, shown |-> l] \in Lists
      BY <3>2 DEF Lists
    <3>4. /\ x \in HandlerStates /\ x.pc = "list" /\ x.list.album = a
          /\ x.plain = handler[h].plain
      BY <2>1, <3>3 DEF HandlerStates
    <3>5. handler' = [handler EXCEPT ![h] = x]
      BY <3>1
    <3> HIDE DEF x
    <3> QED BY <1>t, <2>1, <3>2, <3>4, <3>5, HandlerTurns
  <2> QED BY <1>5, <2>2, <2>3 DEF GetAlbumAssets, Returns
<1> QED BY <1>t, <1>1, <1>2, <1>3, <1>4, <1>5, SelectionBegins, ListOffered, ListStored

LEMMA AlbumSteps ==
    ASSUME AlbumInv, StreamsNext
    PROVE  AlbumInv'
<1>w. ASSUME UNCHANGED <<album, baseline, poll, notices>>  PROVE WatchInv'
  BY <1>w DEF AlbumInv, WatchInv, WatchTypes, Marks, Announced, NoBaseline
<1>1. CASE \E a \in Albums : AlbumChanges(a) \/ (\E n \in AlbumNumbers : SharedDeleteAssets(a, n))
                                \/ (\E on \in BOOLEAN : Subscribe(a, on))
  <2>1. UNCHANGED browsing
    BY <1>1 DEF AlbumChanges, SharedDeleteAssets, Subscribe
  <2> QED BY <1>1, <2>1, AlbumActs, BrowseRests DEF AlbumInv
<1>2. CASE GetChanges \/ GetAlbumSummary \/ PostNotice
  <2>1. UNCHANGED browsing
    BY <1>2 DEF GetChanges, GetAlbumSummary, PostNotice
  <2> QED BY <1>2, <2>1, Summarized, PollTurns, BrowseRests DEF AlbumInv
<1>3. CASE \/ Cancel \/ \E a \in Albums : DeleteRoom(a)
           \/ \E h \in Handlers, a \in Albums : HandleAlbumSelection(h, a)
           \/ \E h \in Handlers : \/ SharedAlbums(h) \/ StoreAlbums(h)
                                 \/ GetAlbumAssets(h) \/ ShowList(h) \/ StoreList(h)
  <2>1. UNCHANGED <<album, baseline, poll, notices>>
    BY <1>3 DEF Cancel, DeleteRoom, HandleAlbumSelection, SharedAlbums, StoreAlbums,
                GetAlbumAssets, ShowList, StoreList, watching
  <2> QED BY <1>3, <1>w, <2>1, BrowserSteps DEF AlbumInv
<1>4. ASSUME NEW input \in Inputs, HandleAssetSelection(input)  PROVE AlbumInv'
  <2>1. UNCHANGED <<album, baseline, poll, notices>>
    BY <1>4 DEF HandleAssetSelection, watching
  <2> QED BY <1>4, <1>w, <2>1, ReplyTaken DEF AlbumInv
<1>5. ASSUME NEW d \in Downloads, NEW n,
             FileArrives(d, n) \/ DownloadTimesOut(d, n) \/ UploadAndSend(d, n) \/ Summarize(d) \/ Retire(d)
      PROVE  AlbumInv'
  <2>1. UNCHANGED <<album, baseline, poll, notices>>
    BY <1>5 DEF FileArrives, DownloadTimesOut, UploadAndSend, Summarize, Retire, watching
  <2> QED BY <1>5, <1>w, <2>1, DownloadsGoOn DEF AlbumInv
<1>6. CASE StreamsRestart
  <2>1. /\ command' = NoCommand /\ albumRoom' = [a \in Albums |-> 0]
        /\ handler' = [h \in Handlers |-> NoHandler]
        /\ download' = [d \in Downloads |-> NoDownload]
        /\ UNCHANGED <<browses, roomsMade, listed, offered>>
    BY <1>6 DEF StreamsRestart
  <2>2. BrowseTypes'
    BY <2>1, NothingAsked DEF AlbumInv, BrowseInv, BrowseTypes
  <2>3. ASSUME NEW d \in Downloads  PROVE Accounted(d)'
    <3>1. download'[d] = NoDownload
      BY <2>1
    <3> QED BY <3>1, NothingAsked, SMT DEF Accounted
  <2>4. BrowseInv'
    BY <2>1, <2>2, <2>3, NothingAsked DEF BrowseInv, CommandInv, HandlerInv, Selects
  <2> QED BY <1>6, <2>4, PollTurns DEF AlbumInv
<1> QED BY <1>1, <1>2, <1>3, <1>4, <1>5, <1>6 DEF StreamsNext, DownloadStep

\* Notices name an album no more often than assets were added to it, downloads
\* are of what was listed, and summaries add up (pollSharedStreams,
\* handleAssetSelection, downloadSharedAlbumAssets).
THEOREM AlbumsAreToldTruly ==
    StreamsSpec => [](NoticeIsNews /\ DownloadsWhatWasShown /\ SummaryIsTrue)
<1>1. StreamsInit => AlbumInv
  <2> SUFFICES ASSUME StreamsInit PROVE AlbumInv
    OBVIOUS
  <2>1. AssetsAtStart \in Nat
    BY SharedStreamsAssumption
  <2>2. WatchTypes
    BY <2>1 DEF StreamsInit, WatchTypes, AlbumStates, NoBaseline, NoPoll
  <2>3. \A a \in Albums : Marks(a, AssetsAtStart)
    BY <2>1 DEF StreamsInit, Marks, Announced, NoPoll
  <2>4. BrowseTypes
    BY NothingAsked DEF StreamsInit, BrowseTypes
  <2>5. ASSUME NEW d \in Downloads  PROVE Accounted(d)
    <3>1. download[d] = NoDownload
      BY DEF StreamsInit
    <3> QED BY <3>1, NothingAsked, SMT DEF Accounted
  <2> QED
    BY <2>1, <2>2, <2>3, <2>4, <2>5, NothingAsked
       DEF AlbumInv, WatchInv, BrowseInv, StreamsInit, CommandInv, HandlerInv, Selects
<1>2. AlbumInv /\ [StreamsNext]_albumVars => AlbumInv'
  <2>1. ASSUME AlbumInv, UNCHANGED albumVars  PROVE AlbumInv'
    <3>1. UNCHANGED watching /\ UNCHANGED browsing /\ UNCHANGED album
      BY <2>1 DEF albumVars, watching, browsing, albumRooms, replies
    <3>2. WatchInv'
      BY <2>1, <3>1 DEF AlbumInv, WatchInv, WatchTypes, Marks, Announced, NoBaseline, watching
    <3> QED BY <2>1, <3>1, <3>2, BrowseRests DEF AlbumInv
  <2> QED BY <2>1, AlbumSteps
<1>3. AlbumInv => NoticeIsNews /\ DownloadsWhatWasShown /\ SummaryIsTrue
  <2> SUFFICES ASSUME AlbumInv PROVE NoticeIsNews /\ DownloadsWhatWasShown /\ SummaryIsTrue
    OBVIOUS
  <2>1. ASSUME NEW a \in Albums  PROVE notices[a] + AssetsAtStart <= album[a].added
    <3>1. PICK m \in Nat : Marks(a, m)
      BY DEF AlbumInv, WatchInv
    <3>2. notices[a] \in Nat /\ album[a].added \in Nat /\ AssetsAtStart \in Nat
      BY SharedStreamsAssumption DEF AlbumInv, WatchInv, WatchTypes, AlbumStates
    <3> QED BY <3>1, <3>2 DEF Marks, Announced
  <2>2. ASSUME NEW d \in Downloads, download[d].pc = "said"
        PROVE  Cardinality(download[d].picked) - download[d].failed = download[d].sent
    <3>a. Accounted(d) /\ download[d] \in DownloadStates
      BY DEF AlbumInv, BrowseInv, BrowseTypes
    <3>1. Accounted(d) /\ download[d].failed \in Nat /\ download[d].sent \in Nat
      BY <3>a DEF DownloadStates
    <3>2. download[d].todo = {} /\ Cardinality({}) = 0
      BY <2>2, <3>1, NothingAsked DEF Accounted
    <3>3. 0 + download[d].failed + download[d].sent = Cardinality(download[d].picked)
      BY <3>1, <3>2 DEF Accounted
    <3> QED BY <3>1, <3>3
  <2>3. DownloadsWhatWasShown
    BY DEF AlbumInv, BrowseInv, Accounted, DownloadsWhatWasShown
  <2> QED BY <2>1, <2>2, <2>3 DEF NoticeIsNews, SummaryIsTrue
<1> QED BY <1>1, <1>2, <1>3, PTL DEF StreamsSpec

=============================================================================
