------------------------------ MODULE Session ------------------------------
(***************************************************************************)
(* The Apple session: how a login makes it, how clients of the bridge load *)
(* it, keep it up to date and hand over to each other, and how it survives *)
(* crashes, lost signing keys and the reset of the bridge's database.  A   *)
(* session is kept twice, in the row of the login and in the backup file   *)
(* session.json; its signing keys are kept in a third place, the keystore. *)
(* A device is a number: the identity a login registered with Apple.       *)
(***************************************************************************)
EXTENDS Integers, FiniteSets

CONSTANTS
    MaxDevices,           \* bound: devices registered with Apple
    MaxClients,           \* bound: clients of one run of the bridge
    MaxBoots,             \* bound: starts of the bridge
    MaxLogins,            \* bound: logins begun
    MaxSaves,             \* bound: calls of persistState at a time
    MaxSessionFaults,     \* bound: failed writes and calls, lost keystores
    maxTwoFactorAttempts,
    Nameless,             \* devices of which Apple gave no login ID
    AnonymousClient       \* whether rustpush builds a client without users

ASSUME SessionAssumption ==
    /\ {MaxDevices, MaxClients, MaxBoots, MaxLogins, MaxSaves, maxTwoFactorAttempts} \subseteq Nat \ {0}
    /\ MaxSessionFaults \in Nat
    /\ AnonymousClient \in BOOLEAN

VARIABLES
    host,     \* the platform, and of config.yaml whether CloudKit backfill is
              \* on and a user is admin
    keys,     \* devices whose signing keys the keystore holds
    issued,   \* the number of devices registered so far
    clique,   \* trustedpeers.plist shows that the trust circle was joined
    legacy,   \* identity.plist of the first version is there
    hasRow,   \* the database has a user_login row
    row,      \* its metadata
    backup,   \* session.json; NoSession when there is none
    running,  \* the bridge runs
    meta,     \* UserLogin.Metadata, shared by all clients of the login
    owner,    \* UserLogin.Client, 0 when nil
    clients,  \* the clients of this run
    persists, \* calls of persistState
    loader,   \* LoadUserLogin or the end of the bridge, under way
    login,    \* the login process
    owed,     \* history: a reset owes the login, and no start followed
    uncleared,\* history: a row of lost keys could not be cleared
    boots, logins, sessionFaults

durable == <<host, keys, issued, clique, legacy, hasRow, row, backup>>
volatile == <<running, meta, owner, clients, persists, loader, login>>
sessionVars == <<durable, volatile, owed, uncleared, boots, logins, sessionFaults>>

-----------------------------------------------------------------------------
(* Sessions *)

Unset == 0         \* an empty string
Anonymous == -1    \* what rustpush serialises when it was given nothing
LegacyDevice == 1

\* The parts of UserLoginMetadata and PersistedSessionState that restoring
\* needs; aps is 1 when there is a push state.
NoSession == [users |-> Unset, identity |-> Unset, aps |-> Unset, hardwareKey |-> FALSE, account |-> FALSE]

LegacySession == [NoSession EXCEPT !.identity = LegacyDevice]

Blank(s) == s.users = Unset /\ s.identity = Unset /\ s.aps = Unset

\* (users) ValidateKeystore: no users, nothing to find missing.
ValidateKeystore(users) == users \in {Unset, Anonymous} \cup keys

\* All parts are there and their keys too.
Usable(s) == s.users \in keys /\ s.identity > 0 /\ s.aps > 0

SessionFault == sessionFaults < MaxSessionFaults /\ sessionFaults' = sessionFaults + 1

\* saveSessionState: the file is replaced as a whole or stays as it was.
saveSessionState(s) ==
    \/ backup' = s /\ UNCHANGED sessionFaults
    \/ SessionFault /\ UNCHANGED backup

\* loadSessionState reads s.  The file of the first version is turned into a
\* new one and removed, also when the new one could not be written.
loadSessionState(s) ==
    \/ backup # NoSession /\ s = backup /\ UNCHANGED <<backup, legacy, sessionFaults>>
    \/ backup = NoSession /\ ~legacy /\ s = NoSession /\ UNCHANGED <<backup, legacy, sessionFaults>>
    \/ backup = NoSession /\ legacy /\ s = LegacySession /\ legacy' = FALSE /\ saveSessionState(s)

Readable == {backup, NoSession, LegacySession}

\* What both check-restore and the restore itself ask of a session.
Complete(s) ==
    /\ s.users # Unset /\ s.identity # Unset /\ s.aps # Unset
    /\ host.darwin \/ s.hardwareKey
    /\ ValidateKeystore(s.users)

\* Mutation: check-restore forgets the trust circle.
CheckSessionRestoreNoClique(requireKeychain) == Complete(backup) /\ (requireKeychain => backup.account)

\* check-restore, which the reset asks before it deletes the database.
CheckSessionRestore(requireKeychain) == Complete(backup) /\ (requireKeychain => backup.account /\ clique)

\* LoginId of the first user; of no users there is none.
HasLoginID(users) == users > 0 /\ users \notin Nameless

\* The conditions of tryAutoRestore on the session it read; the last two are
\* not asked by check-restore.
Restorable(s) == Complete(s) /\ (host.cloudkit => clique) /\ HasLoginID(s.users) /\ host.admin

-----------------------------------------------------------------------------
(* Clients and their saves *)

Epochs == 1 .. MaxClients
Threads == {"state", "update"}

NoClient == [pc |-> "none", users |-> Unset, identity |-> Unset, aps |-> Unset]
NoSave == [pc |-> "idle", last |-> FALSE, state |-> NoSession]
NoLogin == [pc |-> "none", external |-> FALSE, attempts |-> 0, device |-> 0, aps |-> 0, account |-> FALSE]

\* A call of persistState has taken its snapshot of the client, and may stall
\* in connection.State() before it goes on.
Snapshot(c, last) ==
    [pc |-> "have", last |-> last,
     state |-> [NoSession EXCEPT !.users = c.users, !.identity = c.identity, !.aps = c.aps]]

MaySave == Cardinality({x \in Epochs \X Threads : persists[x[1]][x[2]].pc \notin {"idle", "over"}}) < MaxSaves

FreshEpochs == {e \in Epochs : clients[e].pc = "none" /\ \A f \in 1 .. e - 1 : clients[f].pc # "none"}

\* NewWrappedIdsUsers, NewWrappedIdsngmIdentity and Connect on what is stored;
\* of nothing they make something new.
OrNew(v, new) == IF v = Unset THEN new ELSE v

\* A new installation, one of the first version, one that is logged in, or one
\* whose database was deleted.  CloudKit may have been turned on after the login,
\* and the trust circle not been joined.
SessionInit ==
    /\ host \in [darwin : BOOLEAN, cloudkit : BOOLEAN, admin : BOOLEAN]
    /\ legacy \in BOOLEAN /\ hasRow \in BOOLEAN
    /\ LET saved == [users |-> 1, identity |-> 1, aps |-> 1, hardwareKey |-> ~host.darwin, account |-> TRUE]
       IN /\ backup \in {NoSession, saved}
          /\ row = IF hasRow THEN saved ELSE NoSession
    /\ hasRow => backup = row
    /\ legacy => backup = NoSession
    /\ issued = IF legacy \/ backup # NoSession THEN 1 ELSE 0
    /\ keys = IF backup # NoSession THEN {1} ELSE {}
    /\ clique \in BOOLEAN /\ (clique => backup # NoSession /\ host.cloudkit)
    /\ running = FALSE /\ meta = NoSession /\ owner = 0
    /\ clients = [e \in Epochs |-> NoClient]
    /\ persists = [e \in Epochs |-> [t \in Threads |-> NoSave]]
    /\ loader = "idle" /\ login = NoLogin
    /\ owed = FALSE /\ uncleared = FALSE /\ boots = 0 /\ logins = 0 /\ sessionFaults = 0

\* The process ends: what was in memory is gone.
Forget ==
    /\ running' = FALSE /\ meta' = NoSession /\ owner' = 0
    /\ clients' = [e \in Epochs |-> NoClient]
    /\ persists' = [e \in Epochs |-> [t \in Threads |-> NoSave]]
    /\ loader' = "idle" /\ login' = NoLogin

-----------------------------------------------------------------------------
(* Start, reset and the keystore between two runs *)

\* Start: tryAutoRestore makes a row from the backup when there is none, and
\* bridgev2 loads the row.
Start ==
    /\ ~running /\ boots < MaxBoots
    /\ boots' = boots + 1
    /\ running' = TRUE
    /\ \/ /\ hasRow
          /\ UNCHANGED <<hasRow, row, backup, legacy, sessionFaults, owed>>
       \/ /\ ~hasRow
          /\ \E s \in Readable :
                /\ loadSessionState(s)
                /\ hasRow' = Restorable(s)
                /\ row' = IF Restorable(s) THEN s ELSE NoSession
                /\ owed' = (owed /\ ~Restorable(s))
       \/ /\ ~hasRow /\ SessionFault       \* the database, or NewLogin, failed
          /\ owed' = FALSE
          /\ UNCHANGED <<hasRow, row, backup, legacy>>
    /\ meta' = row'
    /\ loader' = IF hasRow' THEN "load" ELSE "idle"
    /\ UNCHANGED <<host, keys, issued, clique, owner, clients, persists, login, uncleared, logins>>

\* reset-bridge.sh without the full wipe, the bridge being stopped: the
\* database and config.yaml go once the backup has been found good, and the
\* setup that follows asks again how to backfill and writes a new config.yaml.
\* Of that setup, and of the login ID, check-restore knows nothing.
Reset ==
    /\ ~running /\ hasRow
    /\ backup # NoSession /\ CheckSessionRestore(host.cloudkit)
    /\ hasRow' = FALSE /\ row' = NoSession
    /\ \E cloudkit, admin \in BOOLEAN :
          /\ host' = [host EXCEPT !.cloudkit = cloudkit, !.admin = admin]
          /\ owed' = ((cloudkit => host.cloudkit) /\ admin /\ HasLoginID(backup.users))
    /\ UNCHANGED <<keys, issued, clique, legacy, backup, volatile, uncleared, boots, logins, sessionFaults>>

\* The keystore is lost, or cannot be parsed and counts as empty.
KeysLost ==
    /\ ~running /\ keys # {} /\ SessionFault
    /\ keys' = {} /\ owed' = FALSE
    /\ UNCHANGED <<host, issued, clique, legacy, hasRow, row, backup, volatile, uncleared, boots, logins>>

Crash ==
    /\ running /\ Forget
    /\ UNCHANGED <<durable, owed, uncleared, boots, logins, sessionFaults>>

-----------------------------------------------------------------------------
(* LoadUserLogin and Connect *)

\* Mutation: the backup is overwritten whatever the row holds.
EagerSaveUnguarded == saveSessionState(meta)

\* LoadUserLogin saves the row's session, but no blank one over the backup.
EagerSave == IF Blank(meta) THEN UNCHANGED <<backup, sessionFaults>> ELSE saveSessionState(meta)

\* LoadUserLogin after the old client is gone: a new client takes over.  Only a
\* login on a Mac has no hardware key, so a configuration can be made of each.
LoadUserLogin ==
    /\ loader = "load" /\ loader' = "idle"
    /\ EagerSave
    /\ \E e \in FreshEpochs :
          /\ clients' = [clients EXCEPT ![e] =
                  [pc |-> "connect", users |-> OrNew(meta.users, Anonymous),
                   identity |-> OrNew(meta.identity, Anonymous), aps |-> OrNew(meta.aps, 1)]]
          /\ owner' = e
    /\ UNCHANGED <<host, keys, issued, clique, legacy, hasRow, row, running, meta, persists, login, owed, uncleared, boots, logins>>

Cleared(m) == [m EXCEPT !.users = Unset, !.identity = Unset, !.aps = Unset]

\* Connect on lost keys: clear the row and ask for a new login.
ConnectKeysLost(e) ==
    /\ clients[e].pc = "connect" /\ ~ValidateKeystore(clients[e].users)
    /\ clients' = [clients EXCEPT ![e].pc = "bad"]
    /\ meta' = Cleared(meta)
    /\ \/ row' = meta' /\ UNCHANGED <<uncleared, sessionFaults>>
       \/ SessionFault /\ uncleared' = TRUE /\ UNCHANGED row
    /\ UNCHANGED <<host, keys, issued, clique, legacy, hasRow, backup, running, owner, persists, loader, login, owed, boots, logins>>

\* Connect up to persistState; NewClient may refuse.
Connect(e) ==
    /\ clients[e].pc = "connect" /\ ValidateKeystore(clients[e].users)
    /\ \/ /\ clients[e].users # Anonymous \/ AnonymousClient
          /\ MaySave
          /\ clients' = [clients EXCEPT ![e].pc = "joined"]
          /\ persists' = [persists EXCEPT ![e]["state"] = Snapshot(clients[e], FALSE)]
          /\ UNCHANGED sessionFaults
       \/ /\ clients[e].users = Anonymous
          /\ clients' = [clients EXCEPT ![e].pc = "bad"]
          /\ UNCHANGED <<persists, sessionFaults>>
       \/ /\ SessionFault
          /\ clients' = [clients EXCEPT ![e].pc = "bad"]
          /\ UNCHANGED persists
    /\ UNCHANGED <<durable, running, meta, owner, loader, login, owed, uncleared, boots, logins>>

\* UpdateUsers: rustpush has newer IDS keys of the same device; a goroutine
\* saves them.
UpdateUsers(e) ==
    /\ clients[e].pc \in {"joined", "up"} /\ owner = e
    /\ persists[e]["update"].pc = "idle" /\ MaySave
    /\ persists' = [persists EXCEPT ![e]["update"] = Snapshot(clients[e], FALSE)]
    /\ UNCHANGED <<durable, running, meta, owner, clients, loader, login, owed, uncleared, boots, logins, sessionFaults>>

\* periodicStateSave: the ticker, or the final save once stopChan is closed.
StateSaveTick(e) ==
    /\ persists[e]["state"].pc = "idle" /\ clients[e].pc \in {"up", "stopping", "gone"} /\ owner = e /\ MaySave
    /\ persists' = [persists EXCEPT ![e]["state"] = Snapshot(clients[e], clients[e].pc # "up")]
    /\ UNCHANGED <<durable, running, meta, owner, clients, loader, login, owed, uncleared, boots, logins, sessionFaults>>

-----------------------------------------------------------------------------
(* persistState, in the steps between which others can run *)

\* A save returns: Connect goes on and starts the periodic saver, the final
\* save closes stateSaveDone.
SaveReturns(e, t) ==
    /\ persists' = [persists EXCEPT ![e][t] = [NoSave EXCEPT !.pc = IF persists[e][t].last THEN "over" ELSE "idle"]]
    /\ clients' = [clients EXCEPT ![e].pc = IF t = "state" /\ @ = "joined" THEN "up" ELSE @]

\* The check that the login still has this client.
OwnerCheck(e) == owner = e

PersistOwner(e, t) ==
    /\ persists[e][t].pc = "have"
    /\ IF OwnerCheck(e)
       THEN persists' = [persists EXCEPT ![e][t].pc = "own"] /\ UNCHANGED clients
       ELSE SaveReturns(e, t)
    /\ UNCHANGED <<durable, running, meta, owner, loader, login, owed, uncleared, boots, logins, sessionFaults>>

\* The assignments to Metadata and UserLogin.Save.
PersistRow(e, t) ==
    LET s == persists[e][t].state
    IN /\ persists[e][t].pc = "own"
       /\ meta' = [meta EXCEPT !.users = s.users, !.identity = s.identity, !.aps = s.aps]
       /\ \/ /\ row' = meta'
             /\ persists' = [persists EXCEPT ![e][t] = [@ EXCEPT !.pc = "file", !.state = meta']]
             /\ UNCHANGED <<clients, sessionFaults>>
          \/ SessionFault /\ SaveReturns(e, t) /\ UNCHANGED row
       /\ UNCHANGED <<host, keys, issued, clique, legacy, hasRow, backup, running, owner, loader, login, owed, uncleared,
                      boots, logins>>

\* saveSessionState of the metadata as they were when the row was saved, or as
\* another client has changed them since.
PersistFile(e, t) ==
    /\ persists[e][t].pc = "file"
    /\ \E s \in {persists[e][t].state, meta} : saveSessionState(s)
    /\ SaveReturns(e, t)
    /\ UNCHANGED <<host, keys, issued, clique, legacy, hasRow, row, running, meta, owner, loader, login, owed, uncleared,
                   boots, logins>>

persistState(e, t) == PersistOwner(e, t) \/ PersistRow(e, t) \/ PersistFile(e, t)

-----------------------------------------------------------------------------
(* The end of a client *)

\* runReceiveWedgeWatchdog reports a silent connection and bridgev2 loads the
\* login again (next = "stop"), or the bridge is told to stop (next = "exit"):
\* Disconnect closes stopChan.
BeginDisconnect(next) ==
    /\ running /\ loader = "idle" /\ owner # 0 /\ clients[owner].pc = "up"
    /\ next = "stop" => FreshEpochs # {}
    /\ loader' = next
    /\ clients' = [clients EXCEPT ![owner].pc = "stopping"]
    /\ UNCHANGED <<durable, running, meta, owner, persists, login, owed, uncleared, boots, logins, sessionFaults>>

runReceiveWedgeWatchdog == BeginDisconnect("stop")

Shutdown ==
    \/ BeginDisconnect("exit")
    \/ /\ running /\ loader = "idle" /\ (owner # 0 => clients[owner].pc = "bad")
       /\ Forget
       /\ UNCHANGED <<durable, owed, uncleared, boots, logins, sessionFaults>>

\* Disconnect goes on, after the final save or after 15 seconds without it;
\* the connection is closed and the client destroyed.
FinishDisconnect ==
    \/ /\ loader = "stop"
       /\ loader' = "load"
       /\ clients' = [clients EXCEPT ![owner].pc = "gone"]
       /\ UNCHANGED <<durable, running, meta, owner, persists, login, owed, uncleared, boots, logins, sessionFaults>>
    \/ /\ loader = "exit" /\ Forget
       /\ UNCHANGED <<durable, owed, uncleared, boots, logins, sessionFaults>>

-----------------------------------------------------------------------------
(* The login.  A step that returns an error ends it, as every front end does *)
(* with an error; the session it had reached is dropped.                     *)

\* loadCachedSession finds s: the row first, then the backup; validate drops
\* what the keystore does not know, as a whole.
loadCachedSession(s) ==
    \/ hasRow /\ ~Blank(meta) /\ s = meta /\ UNCHANGED <<backup, legacy, sessionFaults>>
    \/ (~hasRow \/ Blank(meta)) /\ loadSessionState(s)

Validated(s) == IF ValidateKeystore(s.users) THEN s ELSE NoSession

Cacheable == Readable \cup {meta}

LoginStays == UNCHANGED <<host, keys, issued, clique, hasRow, row, running, meta, owner, clients, persists, loader, owed,
                          uncleared, boots>>

\* The connection of the login reuses the APS state of a known session.
OpenConnection(s, next) == login' = [next EXCEPT !.pc = "password", !.aps = OrNew(Validated(s).aps, 1)]

\* CreateLogin and AppleIDLogin.Start, macOS only.  A login starts once the
\* client of the row, if there is one, has been connected or refused.
StartAppleIDLogin ==
    /\ logins < MaxLogins /\ logins' = logins + 1
    /\ running /\ login.pc = "none" /\ loader = "idle" /\ (owner # 0 => clients[owner].pc \in {"up", "bad"})
    /\ host.darwin
    /\ \E s \in Cacheable : loadCachedSession(s) /\ OpenConnection(s, NoLogin)
    /\ LoginStays

\* CreateLogin, ExternalKeyLogin.Start, and SubmitUserInput with a usable
\* hardware key of a Mac.
SubmitHardwareKey ==
    /\ logins < MaxLogins /\ logins' = logins + 1
    /\ running /\ login.pc = "none" /\ loader = "idle" /\ (owner # 0 => clients[owner].pc \in {"up", "bad"})
    /\ \E s \in Cacheable : loadCachedSession(s) /\ OpenConnection(s, [NoLogin EXCEPT !.external = TRUE])
    /\ LoginStays

\* Mutation: a session of which the row knows nothing is not looked for in the
\* backup.
FinishSessionRowOnly(s) == s = (IF hasRow THEN meta ELSE NoSession) /\ UNCHANGED <<backup, legacy, sessionFaults>>

FinishSession(s) == loadCachedSession(s)

\* LoginSession::finish: a known identity is registered again, else a new one.
finish(known) == IF known.identity > 0 THEN known.identity ELSE issued + 1

EndLogin == login' = NoLogin /\ UNCHANGED <<backup, legacy, sessionFaults>> /\ LoginStays /\ UNCHANGED logins

\* finishLogin: the device of a known session is used again; finish may fail.
finishLogin ==
    \/ \E s \in Cacheable :
          LET device == finish(Validated(s))
          IN /\ FinishSession(s)
             /\ device <= MaxDevices
             /\ issued' = IF device > issued THEN device ELSE issued
             /\ keys' = keys \cup {device}
             /\ login' = [login EXCEPT !.device = device, !.attempts = 0,
                                       !.pc = IF host.cloudkit THEN "passcode" ELSE "handle"]
             /\ UNCHANGED <<host, clique, hasRow, row, running, meta, owner, clients, persists, loader, owed, uncleared,
                            boots, logins>>
    \/ EndLogin

AskCode(attempts) ==
    /\ login' = [login EXCEPT !.pc = "code", !.attempts = attempts]
    /\ UNCHANGED <<backup, legacy, sessionFaults>> /\ LoginStays /\ UNCHANGED logins

\* What Apple makes of Apple ID and password, and of a code.
login_start == {"refused", "needs2FA", "loggedIn"}
submit_2fa == {"accepted", "no token", "re-login failed", "wrong code", "not verified"}

\* SubmitUserInput with Apple ID and password.
SubmitPassword ==
    /\ login.pc = "password"
    /\ \E answer \in login_start :
          \/ answer = "refused" /\ EndLogin
          \/ answer = "needs2FA" /\ AskCode(0)
          \/ answer = "loggedIn" /\ finishLogin

\* twoFactorPrompt.submit: a wrong code is counted, what could not be verified
\* is asked for again, and once the code is accepted a failure is final.
SubmitCode ==
    /\ login.pc = "code"
    /\ \E answer \in submit_2fa :
          \/ answer = "accepted" /\ finishLogin
          \/ answer \in {"no token", "re-login failed"} /\ EndLogin
          \/ answer = "wrong code" /\ IF login.attempts + 1 >= maxTwoFactorAttempts THEN EndLogin
                                      ELSE AskCode(login.attempts + 1)
          \/ answer = "not verified" /\ AskCode(login.attempts)

\* fetchDevicesAndPrompt, handleDeviceSelection and handlePasscodeAndContinue:
\* whichever device is chosen, its passcode joins the trust circle or ends the
\* login.  The result of finish always has the TokenProvider this takes.
SubmitPasscode ==
    /\ login.pc = "passcode"
    /\ \/ clique' = TRUE /\ login' = [login EXCEPT !.pc = "handle"]
       \/ UNCHANGED clique /\ login' = NoLogin
    /\ UNCHANGED <<host, keys, issued, legacy, hasRow, row, backup, running, meta, owner, clients, persists, loader, owed,
                   uncleared, boots, logins, sessionFaults>>

LoginSession(account) ==
    [users |-> login.device, identity |-> login.device, aps |-> login.aps, hardwareKey |-> login.external, account |-> account]

\* completeLoginWithMeta: the backup first.  Of the account data the delegate
\* may be missing.
CompleteLoginBackup ==
    /\ login.pc = "handle"
    /\ \E account \in BOOLEAN :
          /\ login' = [login EXCEPT !.pc = "insert", !.account = account]
          /\ saveSessionState(LoginSession(account))
    /\ UNCHANGED legacy /\ LoginStays /\ UNCHANGED logins

\* completeLoginWithMeta: the row and the client, which then connects.
CompleteLoginRow ==
    /\ login.pc = "insert"
    /\ login' = NoLogin
    /\ \/ /\ hasRow' = TRUE /\ row' = LoginSession(login.account) /\ meta' = row'
          /\ \E e \in FreshEpochs :
                /\ clients' = [clients EXCEPT ![e] =
                        [pc |-> "connect", users |-> login.device, identity |-> login.device, aps |-> login.aps]]
                /\ owner' = e
          /\ UNCHANGED sessionFaults
       \/ SessionFault /\ UNCHANGED <<hasRow, row, meta, clients, owner>>
    /\ UNCHANGED <<host, keys, issued, clique, legacy, backup, running, persists, loader, owed, uncleared, boots, logins>>

-----------------------------------------------------------------------------

SessionNext ==
    \/ Start \/ Reset \/ KeysLost \/ Crash
    \/ LoadUserLogin \/ runReceiveWedgeWatchdog \/ Shutdown \/ FinishDisconnect
    \/ \E e \in Epochs :
          \/ ConnectKeysLost(e) \/ Connect(e) \/ UpdateUsers(e) \/ StateSaveTick(e)
          \/ \E t \in Threads : persistState(e, t)
    \/ StartAppleIDLogin \/ SubmitHardwareKey \/ SubmitPassword \/ SubmitCode
    \/ SubmitPasscode \/ CompleteLoginBackup \/ CompleteLoginRow

SessionSpec == SessionInit /\ [][SessionNext]_sessionVars

-----------------------------------------------------------------------------
(* Properties *)

\* The eager save of a start, late saves of replaced clients and interrupted
\* logins never put a session whose keys are gone over a backup that works,
\* unless the row of the lost keys could not be cleared (LoadUserLogin, "Guard
\* against overwriting a good backup with empty state").
BackupKept == [][backup' # backup /\ Usable(backup) /\ ~uncleared => Usable(backup)']_sessionVars

\* No new device appears at Apple while a session that works is saved, in the
\* row or in the backup (PersistedSessionState, "prevent Apple from treating
\* re-login as a 'new device'").
DeviceReused == [][issued' # issued => ~Usable(backup) /\ ~Usable(meta)]_sessionVars

\* After a reset that check-restore allowed, the next start has the login back
\* (reset-bridge.sh, "the saved Apple session must already be independently
\* restorable"; tryAutoRestore), if the setup in between named an admin and did
\* not turn CloudKit on, the session has a login ID, and no call fails.
ResetRestores == running => ~owed

=============================================================================
