------------------------------- MODULE KeyPull -------------------------------
(* Peers' presence keys (StatusKit): the pass that drains them from         *)
(* CloudKit page by page, its gate and its persisted rows, keys that arrive *)
(* over APNs, and the subscription that follows both.  An invitation holds  *)
(* a peer's key and is decoded with the channel record of that peer, which  *)
(* CloudKit may list on a later page.  Time is counted in ticks of the pull *)
(* loop since the last attempt.                                             *)
EXTENDS Integers, Sequences, FiniteSets

CONSTANTS
    Zone,         \* pages of the zone: records of channels and invitations
    Present,      \* pages there from the start; later ones are added in turn
    Shares,       \* peers whose key arrives over APNs
    PassPages,    \* pages a pass of the loop can walk before its deadline
    ResumeFloor, FreshFloor, SuccessFloor,  \* floors of nextAllowedAt
    FailureBackoffBase, PassMaxBackoff,
    MaxPullFaults \* bound: failed calls and statements, deadlines, crashes

ASSUME KeyPullAssumption ==
    /\ Present \in 0..Len(Zone) /\ PassPages \in Nat \ {0} /\ MaxPullFaults \in Nat
    /\ ResumeFloor <= FreshFloor /\ FreshFloor <= SuccessFloor
    /\ FailureBackoffBase <= PassMaxBackoff /\ PassMaxBackoff <= SuccessFloor

VARIABLES
    published,  \* pages in the zone
    channels,   \* the persisted map of channel records (rustpush)
    keys,       \* the peers whose key is known (rustpush, persisted)
    subscribed, \* the peers whose channel is subscribed
    tokenRow,   \* statusKitCloudTokenRow
    zoneRow,    \* statusKitCloudZoneRow is set
    meta,       \* statusKitCloudPassMetaRow
    age,        \* ticks since meta's last attempt
    settled,    \* the forward backfill is over and its window has passed
    firstCallDone, cooling,
    pass,       \* the pass in flight
    gen, timers,\* schedulePresenceSubscribe: generation and armed timers
    undecoded,  \* history: invitations that could not be decoded when seen
    unheard,    \* history: keys whose subscription an error skipped
    pullFaults

pullVars == <<published, channels, keys, subscribed, tokenRow, zoneRow, meta, age, settled, firstCallDone,
              cooling, pass, gen, timers, undecoded, unheard, pullFaults>>

NoToken == -1

FreshMeta == [attempted |-> FALSE, errs |-> 0, established |-> FALSE, lastPulled |-> FALSE,
              drainComplete |-> FALSE, repullDone |-> FALSE]

NoPass == [pc |-> "idle", bounded |-> FALSE, token |-> NoToken, zone |-> FALSE, pages |-> 0,
           inserted |-> {}, old |-> FreshMeta, repull |-> FALSE, drained |-> FALSE]

PullInit ==
    /\ published = Present
    /\ channels = {} /\ keys = {} /\ subscribed = {}
    /\ tokenRow = NoToken /\ zoneRow = FALSE /\ meta = FreshMeta /\ age = 0
    /\ settled = FALSE /\ firstCallDone = FALSE /\ cooling = FALSE
    /\ pass = NoPass /\ gen = 0 /\ timers = {}
    /\ undecoded = {} /\ unheard = {} /\ pullFaults = 0

PullFault == pullFaults < MaxPullFaults /\ pullFaults' = pullFaults + 1

Smaller(a, b) == IF a < b THEN a ELSE b

-----------------------------------------------------------------------------
(* The gate and the start of a pass *)

\* nextAllowedAt, in ticks after the last attempt.
nextAllowedAt(m) ==
    IF m.errs > 0 THEN Smaller(FailureBackoffBase * 2 ^ (m.errs - 1), PassMaxBackoff)
    ELSE IF ~m.drainComplete THEN ResumeFloor
    ELSE IF ~m.established \/ m.lastPulled THEN FreshFloor
    ELSE SuccessFloor

\* Mutation: only a zone without a token is walked again.
NeedsRecoveryTokenless(t, m) == t = NoToken /\ ~m.established /\ m.drainComplete /\ ~m.repullDone

\* A walk that was finished without a single key: walk the zone once more.
NeedsRecovery(t, m) == t # NoToken /\ ~m.established /\ m.drainComplete /\ ~m.repullDone

\* syncCloudStatusKitPeersForce up to the first page: gate, rows, recovery.
\* A row that cannot be read counts as absent.
StartPass(bounded, force) ==
    /\ pass.pc = "idle" /\ settled
    /\ firstCallDone' = TRUE
    /\ \E m \in {meta, FreshMeta}, t \in {tokenRow, NoToken} :
        LET repull == NeedsRecovery(t, m)
        IN /\ ~firstCallDone \/ force \/ ~m.attempted \/ age >= nextAllowedAt(m)
           /\ IF m = meta /\ t = tokenRow THEN UNCHANGED pullFaults ELSE PullFault
           /\ pass' = [NoPass EXCEPT !.pc = "page", !.bounded = bounded, !.zone = zoneRow, !.old = m,
                                     !.repull = repull, !.token = IF repull THEN NoToken ELSE t]
           /\ tokenRow' = IF repull THEN NoToken ELSE tokenRow
    /\ UNCHANGED <<published, channels, keys, subscribed, zoneRow, meta, settled, gen, timers, undecoded, unheard>>

\* runStatusKitPullLoop: a tick offers a pass, under a deadline.
PullTick == StartPass(TRUE, FALSE) /\ UNCHANGED <<age, cooling>>

\* A tick passes; the gate may have stopped its pass.
TimePasses ==
    /\ age' = Smaller(age + 1, SuccessFloor)
    /\ age' # age \/ cooling
    /\ cooling' = FALSE
    /\ UNCHANGED <<published, channels, keys, subscribed, tokenRow, zoneRow, meta, settled, firstCallDone, pass, gen,
                   timers, undecoded, unheard, pullFaults>>

\* After the forward backfill, and at the end of a CloudKit sync: no deadline.
SyncTriggersPass == StartPass(FALSE, FALSE) /\ UNCHANGED <<age, cooling>>

\* onPresenceDecryptFailed: past the gate, once per cooldown.
onPresenceDecryptFailed ==
    /\ ~cooling
    /\ StartPass(FALSE, TRUE)
    /\ cooling' = TRUE
    /\ UNCHANGED age

\* The last forward backfill flushes the buffer and the window passes.
Settle ==
    /\ ~settled /\ settled' = TRUE
    /\ UNCHANGED <<published, channels, keys, subscribed, tokenRow, zoneRow, meta, age, firstCallDone, cooling, pass,
                   gen, timers, undecoded, unheard, pullFaults>>

-----------------------------------------------------------------------------
(* The pages *)

\* cloud_sync_statuskit_peers: with no channel known a token is ignored; an
\* empty page of a zone not cached yet counts as no zone at all.
CloudSyncStatuskitPeers(zone, t) ==
    LET at == IF t = NoToken \/ channels = {} THEN 0 ELSE t
    IN IF at < published
       THEN [resolved |-> TRUE, next |-> at + 1, chans |-> Zone[at + 1].chans, invs |-> Zone[at + 1].invs]
       ELSE [resolved |-> zone, next |-> IF zone THEN at ELSE NoToken, chans |-> {}, invs |-> {}]

\* One page: decode and insert, persist zone and token, go on or stop.
PullPage ==
    LET page == CloudSyncStatuskitPeers(pass.zone, pass.token)
        decoded == page.invs \cap (channels \cup page.chans)
        done == \/ page.next = NoToken
                \/ page.chans \cup page.invs = {}
                \/ pass.pages > 0 /\ page.next = pass.token
    IN /\ pass.pc = "page"
       /\ channels' = channels \cup page.chans
       /\ keys' = keys \cup decoded
       /\ undecoded' = (undecoded \cup page.invs) \ decoded
       /\ zoneRow' = page.resolved
       /\ \/ /\ tokenRow' = IF page.next # NoToken \/ ~page.resolved THEN page.next ELSE tokenRow
             /\ UNCHANGED pullFaults
          \/ /\ page.next # tokenRow
             /\ PullFault /\ UNCHANGED tokenRow
       /\ pass' = [pass EXCEPT !.pc = IF done THEN "end" ELSE "pause", !.zone = page.resolved,
                               !.token = page.next, !.pages = Smaller(@ + 1, PassPages), !.drained = done,
                               !.inserted = @ \cup (decoded \ keys)]
       /\ UNCHANGED <<published, subscribed, meta, age, settled, firstCallDone, cooling, gen, timers, unheard>>

\* The row the deferred function writes when the pass ends.
RecordedMeta(failed) ==
    [attempted |-> TRUE,
     errs |-> IF failed THEN Smaller(pass.old.errs + 1, 7) ELSE 0,
     established |-> pass.old.established \/ (~failed /\ pass.inserted # {}),
     lastPulled |-> IF failed THEN pass.old.lastPulled ELSE pass.inserted # {},
     drainComplete |-> ~failed /\ pass.drained,
     repullDone |-> pass.old.repullDone \/ (pass.repull /\ ~failed)]

\* Without a cached zone the error of every candidate makes an empty page.
DiscoveryFails ==
    /\ pass.pc = "page" /\ ~pass.zone
    /\ PullFault
    /\ tokenRow' = IF pass.token # NoToken THEN NoToken ELSE tokenRow
    /\ pass' = [pass EXCEPT !.pc = "end", !.drained = TRUE]
    /\ UNCHANGED <<published, channels, keys, subscribed, zoneRow, meta, age, settled, firstCallDone, cooling, gen,
                   timers, undecoded, unheard>>

\* The call fails; on the way out the row is written and nothing subscribed.
PageFails ==
    /\ pass.pc = "page" /\ pass.zone
    /\ PullFault
    /\ pass' = NoPass
    /\ meta' = RecordedMeta(TRUE) /\ age' = 0
    /\ unheard' = unheard \cup pass.inserted
    /\ UNCHANGED <<published, channels, keys, subscribed, tokenRow, zoneRow, settled, firstCallDone, cooling, gen,
                   timers, undecoded>>

\* The pause between pages.
NextPage ==
    /\ pass.pc = "pause"
    /\ pass.bounded => pass.pages < PassPages
    /\ pass' = [pass EXCEPT !.pc = "page"]
    /\ UNCHANGED <<published, channels, keys, subscribed, tokenRow, zoneRow, meta, age, settled, firstCallDone,
                   cooling, gen, timers, undecoded, unheard, pullFaults>>

\* The deadline passes in the pause.  The row is written under the same
\* context, so the write fails too.
PassTimesOut ==
    /\ pass.pc = "pause" /\ pass.bounded
    /\ IF pass.pages = PassPages THEN UNCHANGED pullFaults ELSE PullFault
    /\ pass' = NoPass
    /\ unheard' = unheard \cup pass.inserted
    /\ UNCHANGED <<published, channels, keys, subscribed, tokenRow, zoneRow, meta, age, settled, firstCallDone,
                   cooling, gen, timers, undecoded>>

\* subscribeToContactPresence, under its lock: every known key, or an error.
SubscribeToContactPresence ==
    \/ subscribed' = keys /\ UNCHANGED <<unheard, pullFaults>>
    \/ PullFault /\ unheard' = unheard \cup keys /\ UNCHANGED subscribed

\* The zone is drained: subscribe when keys came, write the row.
FinishPass ==
    /\ pass.pc = "end"
    /\ pass' = NoPass
    /\ IF pass.inserted # {} THEN SubscribeToContactPresence ELSE UNCHANGED <<subscribed, unheard, pullFaults>>
    /\ meta' = RecordedMeta(FALSE) /\ age' = 0
    /\ UNCHANGED <<published, channels, keys, tokenRow, zoneRow, settled, firstCallDone, cooling, gen, timers,
                   undecoded>>

-----------------------------------------------------------------------------
(* Keys over APNs, later records, restarts *)

\* Mutation: the timer carries the generation before its own.
schedulePresenceSubscribeStale ==
    /\ gen' = gen + 1
    /\ timers' = timers \cup {gen}

\* schedulePresenceSubscribe: arm a timer of a new generation.
schedulePresenceSubscribe ==
    /\ gen' = gen + 1
    /\ timers' = timers \cup {gen + 1}

\* A peer shares its key; OnKeysReceived.
OnKeysReceived(k) ==
    /\ k \in Shares \ keys
    /\ keys' = keys \cup {k}
    /\ schedulePresenceSubscribe
    /\ UNCHANGED <<published, channels, subscribed, tokenRow, zoneRow, meta, age, settled, firstCallDone, cooling,
                   pass, undecoded, unheard, pullFaults>>

\* A timer fires: only the newest generation subscribes.
TimerFires(g) ==
    /\ g \in timers
    /\ timers' = timers \ {g}
    /\ IF g = gen THEN SubscribeToContactPresence ELSE UNCHANGED <<subscribed, unheard, pullFaults>>
    /\ UNCHANGED <<published, channels, keys, tokenRow, zoneRow, meta, age, settled, firstCallDone, cooling, pass,
                   gen, undecoded>>

\* Another device of the user uploads records.
RecordsAdded ==
    /\ published < Len(Zone)
    /\ published' = published + 1
    /\ UNCHANGED <<channels, keys, subscribed, tokenRow, zoneRow, meta, age, settled, firstCallDone, cooling, pass,
                   gen, timers, undecoded, unheard, pullFaults>>

\* The bridge restarts; StatusKit's start subscribes what is known.
RestartPull ==
    /\ PullFault
    /\ pass' = NoPass /\ timers' = {} /\ settled' = FALSE /\ firstCallDone' = FALSE /\ cooling' = FALSE
    /\ subscribed' = keys
    /\ UNCHANGED <<published, channels, keys, tokenRow, zoneRow, meta, age, gen, undecoded, unheard>>

PullNext ==
    \/ PullTick \/ TimePasses \/ SyncTriggersPass \/ onPresenceDecryptFailed \/ Settle
    \/ PullPage \/ DiscoveryFails \/ PageFails \/ NextPage \/ PassTimesOut \/ FinishPass
    \/ \E k \in Shares : OnKeysReceived(k)
    \/ \E g \in timers : TimerFires(g)
    \/ RecordsAdded \/ RestartPull

PassGoesOn == NextPage \/ PassTimesOut

SubscribeTimer == \E g \in timers : TimerFires(g)

\* The loop ticks, a pass goes on, timers fire, backfills end.
PullFairness ==
    /\ WF_pullVars(PullTick) /\ WF_pullVars(TimePasses) /\ WF_pullVars(Settle)
    /\ WF_pullVars(PullPage) /\ WF_pullVars(PassGoesOn) /\ WF_pullVars(FinishPass)
    /\ WF_pullVars(SubscribeTimer)

PullSpec == PullInit /\ [][PullNext]_pullVars /\ PullFairness

-----------------------------------------------------------------------------

PublishedKeys == UNION {Zone[i].invs : i \in 1..published}

\* Every key in CloudKit arrives, whatever calls fail, deadlines pass or
\* restarts happen in between.  The exception the recovery guard makes: an
\* invitation listed before its channel stays undecoded when another key made
\* the account established or the one recovery walk is spent.
KeysArrive ==
    <>[](\A k \in PublishedKeys : \/ k \in keys
                                  \/ k \in undecoded /\ (meta.established \/ meta.repullDone))

\* Every known key is subscribed in the end, also when keys come in bursts or
\* while a subscription runs, unless an error skipped its subscription.
KeysHeard == <>[](keys \subseteq subscribed \cup unheard)

\* A presence key that a contact published in CloudKit ends up as a subscription.
KeysSettle == KeysArrive /\ KeysHeard

\* Once the recovery walk has begun, later passes resume it instead of
\* starting again, so it ends.
RecoveryEnds == <>[](~NeedsRecovery(tokenRow, meta))

=============================================================================
