---- MODULE SharedProfiles ----
(***************************************************************************)
(* Name and photo sharing (shared_profile.go): one contact's profile, as   *)
(* CloudKit has it, as the bridge has cached and stored it, and as the     *)
(* contact's Matrix ghost shows it.                                        *)
(*                                                                         *)
(* Shares pushed by the contact are each handled in a goroutine; passes in *)
(* the background, which may overlap, fetch the stored record again.  Rows *)
(* are immutable and compared by pointer, so a pass knows whether the row  *)
(* it began with is still the cached one: that is the flag `own` of a pass *)
(* and `mine` of a backoff.  A profile's content is the number of edits    *)
(* behind it, and time is the freshness, backoff and cooldown that end.    *)
(***************************************************************************)
EXTENDS Integers

CONSTANTS
    Workers,          \* passes that may overlap: on connect, periodic
    MaxEdits,         \* bound: edits by the contact
    MaxShares,        \* bound: shares that reach the bridge
    DelaySteps,       \* backoff doublings from 6 h to 24 h: 2
    MaxProfileFaults  \* bound: failed saves and calls, disconnects, restarts

ASSUME SharedProfilesAssumption ==
    /\ MaxEdits \in Nat /\ MaxShares \in Nat /\ DelaySteps \in Nat
    /\ MaxProfileFaults \in Nat

VARIABLES
    peer,     \* the contact's CloudKit record: key and content
    share,    \* handleSharedProfile goroutines
    profile,  \* sharedProfiles: the cached row
    profileRow, \* shared_profiles: the stored row
    retry,    \* sharedProfileRetries
    cooldown, \* sharedProfileCooldownUntil lies ahead
    worker,   \* refreshAllSharedProfilesForConnection
    online,   \* stopChan is open
    ghost,    \* the content the ghost shows
    heard,    \* history: content of the share published last
    mishaps   \* failures so far

profileVars == <<peer, share, profile, profileRow, retry, cooldown, worker, online,
                 ghost, heard, mishaps>>

NoRow == [key |-> 0, content |-> 0, fresh |-> FALSE]
HasRow(r) == r.key # 0
Same(r, s) == r.key = s.key /\ r.content = s.content

NoRetry == [mine |-> FALSE, step |-> 0, waiting |-> FALSE]
IdleWorker == [pc |-> "idle", row |-> NoRow, own |-> FALSE, got |-> 0]
NoShare == [pc |-> "none", row |-> NoRow, info |-> 0]

ProfileInit ==
    /\ peer = [key |-> 1, content |-> 1]
    /\ share = [n \in 1 .. MaxShares |-> NoShare]
    /\ profile = NoRow /\ profileRow = NoRow
    /\ retry = NoRetry /\ cooldown = FALSE
    /\ worker = [w \in Workers |-> IdleWorker]
    /\ online = TRUE /\ ghost = 0 /\ heard = 0 /\ mishaps = 0

Mishap == mishaps < MaxProfileFaults /\ mishaps' = mishaps + 1
Fine == UNCHANGED mishaps

-----------------------------------------------------------------------------
(* The contact edits the profile: its record gets new content, under the   *)
(* same key or a new one, and a share may reach the bridge.                *)

Edited(key) == [key |-> key, content |-> peer.content + 1]

ShareArrives(n, p) ==
    /\ share[n].pc = "none" /\ online
    /\ \A k \in 1 .. n - 1 : share[k].pc # "none"
    /\ share' = [share EXCEPT ![n] = [@ EXCEPT !.pc = "publish",
                    !.row = [key |-> p.key, content |-> p.content, fresh |-> TRUE]]]

ContactEdits ==
    /\ peer.content <= MaxEdits
    /\ \E key \in {peer.key, peer.key + 1} : peer' = Edited(key)
    /\ (UNCHANGED share \/ \E n \in 1 .. MaxShares : ShareArrives(n, peer'))
    /\ UNCHANGED <<profile, profileRow, retry, cooldown, worker, online, ghost, heard,
                   mishaps>>

\* A message carries the share again: ShareProfile is repeated.
ContactShares ==
    /\ \E n \in 1 .. MaxShares : ShareArrives(n, peer)
    /\ UNCHANGED <<peer, profile, profileRow, retry, cooldown, worker, online, ghost,
                   heard, mishaps>>

-----------------------------------------------------------------------------
(* A row installed in the cache makes every pointer held elsewhere one of  *)
(* an older version.                                                       *)

\* publishSharedProfile: saved and cached; when the save fails, cached as
\* stale, so that a stored row is refreshed and saved again.
PublishShare(n) ==
    /\ share[n].pc = "publish"
    /\ \E saved \in BOOLEAN :
         /\ IF saved THEN Fine ELSE Mishap
         /\ profileRow' = IF saved THEN share[n].row ELSE profileRow
         /\ profile' = [share[n].row EXCEPT !.fresh = saved]
    /\ retry' = NoRetry
    /\ worker' = [w \in Workers |-> [worker[w] EXCEPT !.own = FALSE]]
    /\ share' = [share EXCEPT ![n].pc = "read"]
    /\ heard' = share[n].row.content
    /\ UNCHANGED <<peer, cooldown, online, ghost>>

\* The inline download came empty and FetchProfile fails too: the share is
\* dropped.
ShareLost(n) ==
    /\ share[n].pc = "publish"
    /\ Mishap
    /\ share' = [share EXCEPT ![n].pc = "done"]
    /\ UNCHANGED <<peer, profile, profileRow, retry, cooldown, worker, online, ghost,
                   heard>>

\* refreshGhostFromSharedProfile: GetUserInfo reads the cache, UpdateInfo
\* writes what was read.
ShareReads(n) ==
    /\ share[n].pc = "read"
    /\ share' = [share EXCEPT ![n] = [@ EXCEPT !.pc = "show", !.info = profile.content]]
    /\ UNCHANGED <<peer, profile, profileRow, retry, cooldown, worker, online, ghost,
                   heard, mishaps>>

ShareShows(n) ==
    /\ share[n].pc = "show"
    /\ ghost' = share[n].info
    /\ share' = [share EXCEPT ![n].pc = "done"]
    /\ UNCHANGED <<peer, profile, profileRow, retry, cooldown, worker, online, heard,
                   mishaps>>

-----------------------------------------------------------------------------
(* The refresh.                                                            *)

sharedProfileRefreshEligible == ~cooldown /\ ~(retry.mine /\ retry.waiting)

\* A pass over the stored rows: the canonical row is the cached one, or the
\* stored one when nothing is cached.
StartProfilePass(w) ==
    /\ worker[w].pc = "idle" /\ online /\ HasRow(profileRow)
    /\ LET row == IF HasRow(profile) THEN profile ELSE profileRow IN
       /\ profile' = row
       /\ ~row.fresh /\ sharedProfileRefreshEligible
       /\ worker' = [worker EXCEPT ![w] = [IdleWorker EXCEPT !.pc = "call", !.row = row,
                        !.own = TRUE]]
    /\ UNCHANGED <<peer, share, profileRow, retry, cooldown, online, ghost, heard,
                   mishaps>>

\* The eligibility is checked again after pacing, and stop before the call.
FetchProfile(w) ==
    /\ worker[w].pc = "call"
    /\ worker' = [worker EXCEPT ![w] =
          IF online /\ sharedProfileRefreshEligible
          THEN [@ EXCEPT !.pc = "return",
                         !.got = IF worker[w].row.key = peer.key
                                 THEN peer.content ELSE 0]
          ELSE IdleWorker]
    /\ UNCHANGED <<peer, share, profile, profileRow, retry, cooldown, online, ghost,
                   heard, mishaps>>

\* recordSharedProfileFetchResult, a missing record: a failure of the
\* current version waits, twice as long as the last time.
Backoff(w) ==
    retry' = IF ~worker[w].own THEN retry
             ELSE [mine |-> TRUE, waiting |-> TRUE,
                   step |-> IF retry.mine
                            THEN IF retry.step < DelaySteps THEN retry.step + 1
                                 ELSE DelaySteps
                            ELSE 0]

ForgetRetry(w) == retry' = IF worker[w].own THEN NoRetry ELSE retry

\* The call is back: bookkeeping, then nothing more if the connection was
\* stopped meanwhile.
FetchReturns(w) ==
    /\ worker[w].pc = "return"
    /\ \/ /\ worker[w].got # 0
          /\ ForgetRetry(w)
          /\ worker' = [worker EXCEPT ![w] = IF online THEN [@ EXCEPT !.pc = "publish"]
                                             ELSE IdleWorker]
          /\ Fine /\ UNCHANGED cooldown
       \/ /\ worker[w].got = 0
          /\ Backoff(w)
          /\ worker' = [worker EXCEPT ![w] = IdleWorker]
          /\ Fine /\ UNCHANGED cooldown
       \/ /\ Mishap
          /\ worker' = [worker EXCEPT ![w] = IdleWorker]
          /\ \/ Backoff(w) /\ UNCHANGED cooldown         \* a panic reads as missing
             \/ ForgetRetry(w) /\ UNCHANGED cooldown     \* any other error
             \/ cooldown' = TRUE /\ UNCHANGED retry      \* TooManyRequests
    /\ UNCHANGED <<peer, share, profile, profileRow, online, ghost, heard>>

\* Mutation: the row is known by its keys.
OwnsSnapshotByKeys(w) == profile.key = worker[w].row.key

OwnsSnapshot(w) == worker[w].own

\* Mutation: an unchanged record is not saved again.
WorthSavingChanged(w) == worker[w].got # worker[w].row.content

WorthSaving(w) == TRUE

\* publishRefreshedSharedProfile: only over the row the pass began with, and
\* only when saved.
Replacement(w) == [key |-> worker[w].row.key, content |-> worker[w].got, fresh |-> TRUE]

PublishRefreshed(w) ==
    /\ worker[w].pc = "publish"
    /\ \/ /\ OwnsSnapshot(w)
          /\ profileRow' = IF WorthSaving(w) THEN Replacement(w) ELSE profileRow
          /\ profile' = Replacement(w)
          /\ retry' = [retry EXCEPT !.mine = FALSE]
          /\ worker' = [v \in Workers |->
                IF v # w THEN [worker[v] EXCEPT !.own = FALSE]
                ELSE IF worker[w].got # worker[w].row.content
                THEN [IdleWorker EXCEPT !.pc = "read"] ELSE IdleWorker]
          /\ Fine
       \/ /\ OwnsSnapshot(w) /\ Mishap
          /\ worker' = [worker EXCEPT ![w] = IdleWorker]
          /\ UNCHANGED <<profile, profileRow, retry>>
       \/ /\ ~OwnsSnapshot(w) /\ Fine
          /\ worker' = [worker EXCEPT ![w] = IdleWorker]
          /\ UNCHANGED <<profile, profileRow, retry>>
    /\ UNCHANGED <<peer, share, cooldown, online, ghost, heard>>

WorkerReads(w) ==
    /\ worker[w].pc = "read"
    /\ worker' = [worker EXCEPT ![w] = [@ EXCEPT !.pc = "show", !.got = profile.content]]
    /\ UNCHANGED <<peer, share, profile, profileRow, retry, cooldown, online, ghost,
                   heard, mishaps>>

WorkerShows(w) ==
    /\ worker[w].pc = "show"
    /\ ghost' = worker[w].got
    /\ worker' = [worker EXCEPT ![w] = IdleWorker]
    /\ UNCHANGED <<peer, share, profile, profileRow, retry, cooldown, online, heard,
                   mishaps>>

-----------------------------------------------------------------------------
(* Time, the connection and restarts.                                      *)

\* sharedProfileFreshnessWindow, sharedProfileRetry.after and
\* sharedProfileCooldownUntil pass.
ProfileAges ==
    /\ profile.fresh
    /\ profile' = [profile EXCEPT !.fresh = FALSE]
    /\ UNCHANGED <<peer, share, profileRow, retry, cooldown, worker, online, ghost,
                   heard, mishaps>>

WaitEnds ==
    /\ retry.waiting \/ cooldown
    /\ retry' = [retry EXCEPT !.waiting = FALSE] /\ cooldown' = FALSE
    /\ UNCHANGED <<peer, share, profile, profileRow, worker, online, ghost, heard,
                   mishaps>>

ProfileDisconnects ==
    /\ online /\ Mishap
    /\ online' = FALSE
    /\ UNCHANGED <<peer, share, profile, profileRow, retry, cooldown, worker, ghost,
                   heard>>

\* Connect: loadSharedProfilesIntoCache keeps what is cached, and
\* applyCachedSharedProfilesToGhosts shows it.
Loaded == IF HasRow(profile) THEN profile ELSE profileRow

ProfileConnects ==
    /\ ~online
    /\ online' = TRUE
    /\ profile' = Loaded
    /\ ghost' = IF HasRow(Loaded) THEN Loaded.content ELSE ghost
    /\ UNCHANGED <<peer, share, profileRow, retry, cooldown, worker, heard, mishaps>>

\* A stop and a start of the process.
ProfileRestarts ==
    /\ Mishap
    /\ profile' = NoRow /\ retry' = NoRetry /\ cooldown' = FALSE
    /\ worker' = [w \in Workers |-> IdleWorker]
    /\ share' = [n \in 1 .. MaxShares |-> IF share[n].pc = "none" THEN share[n]
                                          ELSE [NoShare EXCEPT !.pc = "done"]]
    /\ online' = FALSE /\ heard' = 0
    /\ UNCHANGED <<peer, profileRow, ghost>>

WorkerStep(w) ==
    \/ StartProfilePass(w) \/ FetchProfile(w) \/ FetchReturns(w) \/ PublishRefreshed(w)
    \/ WorkerReads(w) \/ WorkerShows(w)

ShareStep(n) == PublishShare(n) \/ ShareLost(n) \/ ShareReads(n) \/ ShareShows(n)

ProfileNext ==
    \/ ContactEdits \/ ContactShares
    \/ \E n \in 1 .. MaxShares : ShareStep(n)
    \/ \E w \in Workers : WorkerStep(w)
    \/ ProfileAges \/ WaitEnds \/ ProfileDisconnects \/ ProfileConnects
    \/ ProfileRestarts

\* Goroutines run, timers fire, the periodic pass comes round, and a lost
\* connection is made again.
ProfileFairness ==
    /\ \A n \in 1 .. MaxShares : WF_profileVars(ShareStep(n))
    /\ \A w \in Workers : WF_profileVars(WorkerStep(w))
    /\ WF_profileVars(ProfileAges) /\ WF_profileVars(WaitEnds)
    /\ WF_profileVars(ProfileConnects)

ProfileSpec == ProfileInit /\ [][ProfileNext]_profileVars /\ ProfileFairness

-----------------------------------------------------------------------------
(* A background result never takes the place of a share that came after    *)
(* its fetch began: what is cached is at least as new as the share         *)
(* published last, even when that share has the same keys.                 *)
ShareSticks == HasRow(profile) => profile.content >= heard

(* Once the contact, the shares and the failures have come to an end, a    *)
(* profile whose key is still valid is cached as CloudKit has it, and the  *)
(* stored row, where there is one, is the cached one: a failed save is     *)
(* made good, and no backoff or cooldown lasts.                            *)
ProfileSettles ==
    <>[](HasRow(profileRow) /\ HasRow(profile) /\ profile.key = peer.key =>
            profile.content = peer.content /\ Same(profile, profileRow))

(* A contact's profile follows the shares and the edits of the contact.    *)
ProfileFollowsShare == []ShareSticks /\ ProfileSettles
====
