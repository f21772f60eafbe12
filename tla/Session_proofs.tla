---------------------------- MODULE Session_proofs ----------------------------
(***************************************************************************)
(* Proofs about Session, for any number of devices, clients, logins, saves *)
(* and faults.                                                             *)
(*                                                                         *)
(* Saves of several clients overlap and write what they saw some time ago, *)
(* yet no save ever holds a session without keys.  The reason is that keys *)
(* are lost only between two runs: a run that starts with a row of lost    *)
(* keys is not settled until Connect has noticed and cleared the row, and  *)
(* until then nothing but that one client exists.  From then on every      *)
(* session in memory is blank or has its keys, and stays so until the end  *)
(* of the run.                                                             *)
(***************************************************************************)
EXTENDS Session, TLAPS

Sessions == [users : Int, identity : Int, aps : Int, hardwareKey : BOOLEAN, account : BOOLEAN]
Clients == [pc : {"none", "connect", "joined", "up", "stopping", "gone", "bad"},
            users : Int, identity : Int, aps : Int]
Saves == [pc : {"idle", "over", "have", "own", "file"}, last : BOOLEAN, state : Sessions]
Logins == [pc : {"none", "password", "code", "passcode", "handle", "insert"}, external : BOOLEAN,
           attempts : Nat, device : Int, aps : Int, account : BOOLEAN]

Hosts == [darwin : BOOLEAN, cloudkit : BOOLEAN, admin : BOOLEAN]

SessionType ==
    /\ host \in Hosts
    /\ keys \subseteq Nat \ {0} /\ issued \in Nat
    /\ clique \in BOOLEAN /\ legacy \in BOOLEAN /\ hasRow \in BOOLEAN
    /\ row \in Sessions /\ backup \in Sessions /\ meta \in Sessions
    /\ running \in BOOLEAN /\ owner \in Epochs \cup {0}
    /\ clients \in [Epochs -> Clients] /\ persists \in [Epochs -> [Threads -> Saves]]
    /\ loader \in {"idle", "load", "stop", "exit"} /\ login \in Logins
    /\ owed \in BOOLEAN /\ uncleared \in BOOLEAN

Whole(s) == s.users > 0 /\ s.identity > 0 /\ s.aps > 0

\* A session is stored as a whole or not at all; the first version's has an identity alone.
WholeInv ==
    /\ \A s \in {row, meta} : Blank(s) \/ Whole(s)
    /\ Blank(backup) \/ Whole(backup) \/ backup = LegacySession
    /\ ~hasRow => row = NoSession /\ meta = NoSession

\* A bridge that does not run keeps nothing in memory.
StoppedInv ==
    ~running => /\ meta = NoSession /\ owner = 0 /\ loader = "idle" /\ login.pc = "none"
                /\ \A e \in Epochs : clients[e].pc = "none"
                /\ \A e \in Epochs : \A t \in Threads : persists[e][t].pc = "idle"

\* Connect has seen whether the keys of the row are there.
Settled == Blank(meta) \/ Usable(meta)

SettledInv ==
    Settled =>
        /\ \A e \in Epochs :
              clients[e].pc \in {"connect", "joined", "up", "stopping", "gone"} =>
                  \/ clients[e].pc = "connect" /\ clients[e].users = Anonymous
                  \/ Usable(clients[e]) /\ Usable(meta)
        /\ \A e \in Epochs : \A t \in Threads :
              persists[e][t].pc \in {"have", "own", "file"} => Usable(persists[e][t].state) /\ Usable(meta)
        /\ loader \in {"stop", "exit"} => owner # 0 /\ Usable(clients[owner]) /\ Usable(meta)

\* Until then there is the row, and the one client that was made of it.
UnsettledInv ==
    ~Settled =>
        /\ running /\ row = meta /\ login.pc = "none"
        /\ \A e \in Epochs : \A t \in Threads : persists[e][t].pc = "idle"
        /\ \A e \in Epochs : clients[e].pc = "none" \/ (e = owner /\ clients[e].pc = "connect")
        /\ \/ loader = "load" /\ owner = 0
           \/ loader = "idle" /\ owner # 0 /\ clients[owner].pc = "connect" /\ clients[owner].users = meta.users

\* A login has an APS state, and the keys of its device once it is registered.
LoginInv ==
    /\ login.pc # "none" => login.aps > 0
    /\ login.pc \in {"passcode", "handle", "insert"} => login.device \in keys

\* A row of lost keys was cleared, or there is no backup that works either.
RowInv == ~uncleared /\ (Usable(backup) \/ (running /\ Settled)) => Blank(row) \/ Usable(row)

KeptInv == SessionType /\ WholeInv /\ StoppedInv /\ SettledInv /\ UnsettledInv /\ LoginInv /\ RowInv

\* A reset is owed a start that finds what check-restore has found.
OwedInv == host \in Hosts /\ (owed => ~running /\ ~hasRow /\ backup # NoSession /\ Restorable(backup))

-----------------------------------------------------------------------------
(* Sessions.                                                               *)

LEMMA Epoch == Epochs \subseteq Int /\ 1 \in Epochs /\ 0 \notin Epochs /\ MaxClients \in Nat
BY SessionAssumption DEF Epochs

LEMMA Nothing ==
    /\ NoSession \in Sessions /\ Blank(NoSession)
    /\ LegacySession \in Sessions /\ LegacySession.users = Unset /\ LegacySession.identity = 1 /\ LegacySession.aps = 0
<1>1. NoSession \in Sessions /\ Blank(NoSession) /\ NoSession.users = Unset /\ NoSession.aps = Unset
  BY DEF NoSession, Sessions, Blank, Unset
<1> QED
  BY <1>1 DEF LegacySession, LegacyDevice, Sessions, Unset

LEMMA Nobody ==
    /\ NoSave \in Saves /\ NoSave.pc = "idle" /\ NoClient \in Clients /\ NoClient.pc = "none"
    /\ NoLogin \in Logins /\ NoLogin.pc = "none"
<1>1. NoSave \in Saves /\ NoSave.pc = "idle"
  BY Nothing DEF NoSave, Saves
<1>2. NoClient \in Clients /\ NoClient.pc = "none"
  BY DEF NoClient, Clients, Unset
<1>3. NoLogin \in Logins /\ NoLogin.pc = "none"
  BY DEF NoLogin, Logins
<1> QED
  BY <1>1, <1>2, <1>3

\* What was not made without users has keys or is refused.
LEMMA WholeUsable ==
    ASSUME SessionType, NEW s \in Sessions, Whole(s)
    PROVE  /\ ~Blank(s) /\ (Usable(s) <=> s.users \in keys) /\ (Usable(s) <=> ValidateKeystore(s.users))
BY DEF Whole, Blank, Usable, ValidateKeystore, Unset, Anonymous, Sessions, SessionType

LEMMA UsableWhole ==
    ASSUME SessionType, NEW s, Usable(s)
    PROVE  Whole(s) /\ ~Blank(s)
<1>1. s.users \in Nat \ {0}
  BY DEF Usable, SessionType
<1> QED
  BY <1>1 DEF Usable, Whole, Blank, Unset

LEMMA InitKept == SessionInit => KeptInv /\ OwedInv
<1> SUFFICES ASSUME SessionInit PROVE KeptInv /\ OwedInv
  OBVIOUS
<1>1. PICK saved : /\ saved = [users |-> 1, identity |-> 1, aps |-> 1, hardwareKey |-> ~host.darwin, account |-> TRUE]
                   /\ backup \in {NoSession, saved} /\ row = IF hasRow THEN saved ELSE NoSession
  BY DEF SessionInit
<1>2. host \in Hosts
  BY DEF SessionInit, Hosts
<1>3. saved \in Sessions /\ Whole(saved) /\ saved # NoSession /\ ~Blank(saved)
  BY <1>1, <1>2 DEF Sessions, Whole, NoSession, Unset, Blank, Hosts
<1>4. /\ backup = saved \/ (backup = NoSession /\ ~hasRow)
      /\ keys = IF backup = saved THEN {1} ELSE {}
  BY <1>1, <1>3 DEF SessionInit
<1>5. /\ meta = NoSession /\ owner = 0 /\ loader = "idle" /\ running = FALSE
      /\ clients = [e \in Epochs |-> NoClient] /\ login = NoLogin
      /\ persists = [e \in Epochs |-> [t \in Threads |-> NoSave]] /\ owed = FALSE /\ uncleared = FALSE
  BY DEF SessionInit
<1>6. SessionType
  <2>1. keys \subseteq Nat \ {0} /\ issued \in Nat /\ clique \in BOOLEAN /\ legacy \in BOOLEAN /\ hasRow \in BOOLEAN
    BY <1>4 DEF SessionInit
  <2>2. row \in Sessions /\ backup \in Sessions /\ meta \in Sessions
    BY <1>1, <1>3, <1>4, <1>5, Nothing
  <2>3. clients \in [Epochs -> Clients] /\ persists \in [Epochs -> [Threads -> Saves]] /\ login \in Logins
    BY <1>5, Nothing, Nobody
  <2> QED
    BY <1>2, <1>5, <2>1, <2>2, <2>3 DEF SessionType
<1>7. Settled
  BY <1>5, Nothing DEF Settled, Usable
<1>8. WholeInv
  BY <1>1, <1>3, <1>4, <1>5, Nothing DEF WholeInv, SessionInit
<1>9. StoppedInv /\ SettledInv /\ LoginInv
  BY <1>5, Nothing, Nobody DEF StoppedInv, SettledInv, LoginInv
<1>10. RowInv
  <2>1. CASE hasRow
    <3>1. row = saved /\ keys = {1}
      BY <1>1, <1>4, <2>1
    <3> QED
      BY <1>1, <3>1 DEF RowInv, Usable
  <2>2. CASE ~hasRow
    BY <1>1, <2>2, Nothing DEF RowInv
  <2> QED
    BY <2>1, <2>2 DEF SessionInit
<1> QED
  BY <1>2, <1>5, <1>6, <1>7, <1>8, <1>9, <1>10 DEF KeptInv, UnsettledInv, OwedInv

-----------------------------------------------------------------------------
(* The end of a run, and what happens between two runs.                    *)

LEMMA ForgetKeeps ==
    ASSUME KeptInv, running, Forget, UNCHANGED <<durable, uncleared, owed>>
    PROVE  KeptInv'
<1>1. UNCHANGED <<host, keys, issued, clique, legacy, hasRow, row, backup, uncleared, owed>>
  BY DEF durable
<1>2. /\ meta' = NoSession /\ owner' = 0 /\ loader' = "idle" /\ ~running' /\ running' \in BOOLEAN
      /\ clients' = [e \in Epochs |-> NoClient] /\ login' = NoLogin
      /\ persists' = [e \in Epochs |-> [t \in Threads |-> NoSave]]
  BY DEF Forget
<1>3. SessionType'
  BY <1>1, <1>2, Nothing, Nobody DEF KeptInv, SessionType
<1>4. Settled' /\ SettledInv' /\ StoppedInv' /\ LoginInv'
  BY <1>2, Nothing, Nobody DEF Settled, SettledInv, StoppedInv, LoginInv
<1>5. WholeInv'
  BY <1>1, <1>2, Nothing DEF KeptInv, WholeInv
<1>6. RowInv'
  BY <1>1, <1>2 DEF KeptInv, RowInv, Usable
<1> QED
  BY <1>3, <1>4, <1>5, <1>6 DEF KeptInv, UnsettledInv

\* loadSessionState changes the backup only when there is none.
LEMMA Loads ==
    ASSUME KeptInv, NEW s, loadSessionState(s)
    PROVE  /\ s \in Sessions /\ backup' \in Sessions /\ legacy' \in BOOLEAN
           /\ s = backup \/ (backup = NoSession /\ s = LegacySession)
           /\ backup' = backup \/ (backup = NoSession /\ backup' = LegacySession)
BY Nothing DEF loadSessionState, saveSessionState, KeptInv, SessionType

\* A session that restores works: without users there is no client to save it.
LEMMA RestoredWorks ==
    ASSUME KeptInv, NEW s, s = backup \/ s = LegacySession, Restorable(s)
    PROVE  s \in Sessions /\ Whole(s) /\ Usable(s)
<1>1. s.users # Unset /\ ValidateKeystore(s.users)
  BY DEF Restorable, Complete
<1>2. s = backup /\ s \in Sessions
  BY <1>1, Nothing DEF KeptInv, SessionType
<1>3. Whole(s)
  BY <1>1, <1>2, Nothing DEF KeptInv, WholeInv, Blank
<1> QED
  BY <1>1, <1>2, <1>3, WholeUsable DEF KeptInv

\* The row a start finds or makes.
LEMMA StartRow ==
    ASSUME KeptInv, Start
    PROVE  /\ row' \in Sessions /\ backup' \in Sessions /\ hasRow' \in BOOLEAN /\ legacy' \in BOOLEAN /\ owed' \in BOOLEAN
           /\ Blank(row') \/ Whole(row')
           /\ ~hasRow' => row' = NoSession
           /\ row' = row \/ row' = NoSession \/ Usable(row')
           /\ backup' = backup \/ (backup = NoSession /\ backup' = LegacySession)
<1>1. SessionType /\ WholeInv
  BY DEF KeptInv
<1>2. CASE hasRow /\ UNCHANGED <<hasRow, row, backup, legacy, sessionFaults, owed>>
  BY <1>1, <1>2 DEF SessionType, WholeInv
<1>3. CASE ~hasRow /\ owed' = FALSE /\ UNCHANGED <<hasRow, row, backup, legacy>>
  BY <1>1, <1>3 DEF SessionType, WholeInv
<1>4. CASE \E s \in Readable : /\ loadSessionState(s) /\ hasRow' = Restorable(s)
                             /\ row' = (IF Restorable(s) THEN s ELSE NoSession)
                             /\ owed' = (owed /\ ~Restorable(s))
  <2>1. PICK s : /\ loadSessionState(s) /\ hasRow' = Restorable(s)
                 /\ row' = (IF Restorable(s) THEN s ELSE NoSession) /\ owed' = (owed /\ ~Restorable(s))
    BY <1>4
  <2>2. hasRow' \in BOOLEAN /\ owed' \in BOOLEAN
    BY <2>1 DEF Restorable
  <2>3. CASE Restorable(s)
    <3>1. row' = s /\ hasRow'
      BY <2>1, <2>3
    <3> QED
      BY <2>1, <2>2, <2>3, <3>1, Loads, RestoredWorks
  <2>4. CASE ~Restorable(s)
    <3>1. row' = NoSession
      BY <2>1, <2>4
    <3> QED
      BY <2>1, <2>2, <2>4, <3>1, Loads, Nothing
  <2> QED
    BY <2>3, <2>4
<1> QED
  BY <1>2, <1>3, <1>4 DEF Start

LEMMA StartKeeps == KeptInv /\ Start => KeptInv'
<1> SUFFICES ASSUME KeptInv, Start PROVE KeptInv'
  OBVIOUS
<1>1. ~running /\ running' = TRUE /\ UNCHANGED <<host, keys, issued, clique, owner, clients, persists, login, uncleared>>
  BY DEF Start
<1>2. meta' = row' /\ loader' = IF hasRow' THEN "load" ELSE "idle"
  BY DEF Start
<1>3. /\ owner = 0 /\ login.pc = "none" /\ \A e \in Epochs : clients[e].pc = "none"
      /\ \A e \in Epochs : \A t \in Threads : persists[e][t].pc = "idle"
  BY <1>1 DEF KeptInv, StoppedInv
<1>4. SessionType'
  BY <1>1, <1>2, StartRow DEF KeptInv, SessionType
<1>5. WholeInv'
  <2>1. Blank(backup') \/ Whole(backup') \/ backup' = LegacySession
    BY StartRow DEF KeptInv, WholeInv
  <2> QED
    BY <1>2, <2>1, StartRow DEF WholeInv, Blank, Whole
<1>6. SettledInv' /\ StoppedInv' /\ LoginInv'
  BY <1>1, <1>2, <1>3 DEF SettledInv, StoppedInv, LoginInv
<1>7. UnsettledInv'
  <2> SUFFICES ASSUME ~Settled' PROVE UnsettledInv'
    BY DEF UnsettledInv
  <2>1. hasRow'
    BY <1>2, StartRow, Nothing DEF Settled, Blank
  <2> QED
    BY <1>1, <1>2, <1>3, <2>1 DEF UnsettledInv
<1>8. RowInv'
  <2> SUFFICES ASSUME ~uncleared', Usable(backup)' \/ Settled' PROVE Blank(row)' \/ Usable(row)'
    BY DEF RowInv
  <2>1. CASE Settled'
    BY <1>2, <2>1 DEF Settled, Blank, Usable
  <2>2. CASE Usable(backup)'
    <3>1. backup' = backup /\ Usable(backup)
      BY <1>1, <2>2, StartRow, Nothing DEF Usable, KeptInv, SessionType, Unset
    <3>2. Blank(row) \/ Usable(row)
      BY <1>1, <3>1 DEF KeptInv, RowInv
    <3> QED
      BY <1>1, <3>2, StartRow, Nothing DEF Blank, Usable
  <2> QED
    BY <2>1, <2>2
<1> QED
  BY <1>4, <1>5, <1>6, <1>7, <1>8 DEF KeptInv

\* A new config.yaml is on the same machine.
LEMMA NewConfig ==
    ASSUME host \in Hosts, Reset
    PROVE  /\ host' \in Hosts /\ host'.darwin = host.darwin
           /\ owed' = ((host'.cloudkit => host.cloudkit) /\ host'.admin /\ HasLoginID(backup.users))
           /\ owed' \in BOOLEAN
<1>1. PICK cloudkit \in BOOLEAN, admin \in BOOLEAN :
          /\ host' = [host EXCEPT !.cloudkit = cloudkit, !.admin = admin]
          /\ owed' = ((cloudkit => host.cloudkit) /\ admin /\ HasLoginID(backup.users))
  BY DEF Reset
<1>2. /\ host' \in Hosts /\ host'.darwin = host.darwin
      /\ host'.cloudkit = cloudkit /\ host'.admin = admin
  BY <1>1 DEF Hosts
<1> QED
  BY <1>1, <1>2

LEMMA ResetKeeps == KeptInv /\ Reset => KeptInv'
<1> SUFFICES ASSUME KeptInv, Reset PROVE KeptInv'
  OBVIOUS
<1>1. /\ ~running /\ hasRow' = FALSE /\ row' = NoSession
      /\ UNCHANGED <<keys, issued, clique, legacy, backup, running, meta, owner, clients, persists, loader, login,
                     uncleared>>
  BY DEF Reset, volatile
<1>h. host' \in Hosts /\ owed' \in BOOLEAN
  BY NewConfig DEF KeptInv, SessionType
<1>2. meta = NoSession
  BY <1>1 DEF KeptInv, StoppedInv
<1>3. SessionType'
  BY <1>1, <1>h, Nothing DEF KeptInv, SessionType
<1>4. WholeInv'
  BY <1>1, <1>2, Nothing DEF KeptInv, WholeInv
<1>5. StoppedInv' /\ LoginInv'
  BY <1>1 DEF KeptInv, StoppedInv, LoginInv
<1>6. Settled' /\ SettledInv' /\ RowInv'
  BY <1>1, <1>2, <1>5, Nothing DEF Settled, SettledInv, StoppedInv, RowInv
<1> QED
  BY <1>3, <1>4, <1>5, <1>6 DEF KeptInv, UnsettledInv

LEMMA KeysLostKeeps == KeptInv /\ KeysLost => KeptInv'
<1> SUFFICES ASSUME KeptInv, KeysLost PROVE KeptInv'
  OBVIOUS
<1>1. /\ ~running /\ keys' = {} /\ owed' = FALSE
      /\ UNCHANGED <<host, issued, clique, legacy, hasRow, row, backup, running, meta, owner, clients, persists, loader,
                     login, uncleared>>
  BY DEF KeysLost, volatile
<1>2. SessionType' /\ WholeInv' /\ StoppedInv'
  BY <1>1 DEF KeptInv, SessionType, WholeInv, StoppedInv
<1>3. Settled' /\ SettledInv' /\ LoginInv'
  BY <1>1, <1>2, Nothing DEF Settled, SettledInv, StoppedInv, LoginInv
<1>4. RowInv'
  BY <1>1 DEF RowInv, Usable
<1> QED
  BY <1>2, <1>3, <1>4 DEF KeptInv, UnsettledInv

-----------------------------------------------------------------------------
(* Clients.                                                                *)

\* LoadUserLogin makes the client of what the row holds, and saves no blank
\* session over the backup.
LEMMA LoadKeeps == KeptInv /\ LoadUserLogin => KeptInv'
<1> SUFFICES ASSUME KeptInv, LoadUserLogin PROVE KeptInv'
  OBVIOUS
<1>1. SessionType /\ WholeInv /\ running
  BY DEF KeptInv, StoppedInv, LoadUserLogin
<1>2. PICK e \in FreshEpochs :
          /\ clients' = [clients EXCEPT ![e] =
                  [pc |-> "connect", users |-> OrNew(meta.users, Anonymous),
                   identity |-> OrNew(meta.identity, Anonymous), aps |-> OrNew(meta.aps, 1)]]
          /\ owner' = e
  BY DEF LoadUserLogin
<1>3. e \in Epochs /\ e # 0 /\ loader = "load" /\ loader' = "idle"
  BY Epoch DEF FreshEpochs, LoadUserLogin
<1>4. UNCHANGED <<host, keys, issued, clique, legacy, hasRow, row, running, meta, persists, login, owed, uncleared>>
  BY DEF LoadUserLogin
<1>5. backup' = backup \/ (~Blank(meta) /\ backup' = meta)
  BY DEF LoadUserLogin, EagerSave, saveSessionState
<1> DEFINE client == [pc |-> "connect", users |-> OrNew(meta.users, Anonymous),
                      identity |-> OrNew(meta.identity, Anonymous), aps |-> OrNew(meta.aps, 1)]
<1>6. client \in Clients /\ client.pc = "connect"
  BY <1>1 DEF Clients, OrNew, Anonymous, SessionType, Sessions
<1>7. /\ Blank(meta) => client.users = Anonymous
      /\ Whole(meta) => client.users = meta.users /\ client.identity = meta.identity /\ client.aps = meta.aps
  BY DEF Blank, Whole, OrNew, Unset
<1> HIDE DEF client
<1>8. clients'[e] = client /\ \A f \in Epochs : f # e => clients'[f] = clients[f]
  BY <1>1, <1>2, <1>3 DEF client, SessionType
<1>9. SessionType'
  <2>1. clients' \in [Epochs -> Clients]
    BY <1>1, <1>2, <1>3, <1>6 DEF client, SessionType
  <2> QED
    BY <1>1, <1>2, <1>3, <1>4, <1>5, <2>1 DEF SessionType
<1>10. WholeInv'
  BY <1>1, <1>4, <1>5 DEF WholeInv, Blank, Whole
<1>11. StoppedInv' /\ LoginInv' /\ (Settled' <=> Settled)
  BY <1>1, <1>4 DEF KeptInv, StoppedInv, LoginInv, Settled, Blank, Usable
<1>12. SettledInv'
  <2> SUFFICES ASSUME Settled PROVE SettledInv'
    BY <1>11 DEF SettledInv
  <2>1. Usable(meta) => Usable(client)
    BY <1>1, <1>7, UsableWhole DEF Usable
  <2>2. client.users = Anonymous \/ (Usable(client) /\ Usable(meta))
    BY <1>7, <2>1 DEF Settled
  <2>3. \A f \in Epochs :
            clients'[f].pc \in {"connect", "joined", "up", "stopping", "gone"} =>
                \/ clients'[f].pc = "connect" /\ clients'[f].users = Anonymous
                \/ Usable(clients'[f]) /\ Usable(meta)
    BY <1>6, <1>8, <2>2 DEF KeptInv, SettledInv
  <2> QED
    BY <1>3, <1>4, <2>3 DEF KeptInv, SettledInv, Usable
<1>13. UnsettledInv'
  <2> SUFFICES ASSUME ~Settled PROVE UnsettledInv'
    BY <1>11 DEF UnsettledInv
  <2>1. \A f \in Epochs : clients[f].pc = "none"
    BY <1>3, Epoch DEF KeptInv, UnsettledInv
  <2>2. Whole(meta)
    BY <1>1 DEF Settled, WholeInv
  <2> QED
    BY <1>2, <1>3, <1>4, <1>6, <1>7, <1>8, <2>1, <2>2 DEF KeptInv, UnsettledInv
<1>14. RowInv'
  <2>1. Usable(backup)' => Usable(backup) \/ Settled
    BY <1>4, <1>5 DEF Usable, Settled
  <2> QED
    BY <1>1, <1>4, <1>11, <2>1 DEF KeptInv, RowInv, Blank, Usable
<1> QED
  BY <1>9, <1>10, <1>11, <1>12, <1>13, <1>14 DEF KeptInv

LEMMA ClearedBlank == ASSUME NEW m \in Sessions PROVE Cleared(m) \in Sessions /\ Blank(Cleared(m))
<1>0. Unset \in Int
  BY DEF Unset
<1>1. Cleared(m) \in Sessions
  BY <1>0 DEF Cleared, Sessions
<1>2. Cleared(m).users = Unset /\ Cleared(m).identity = Unset /\ Cleared(m).aps = Unset
  BY DEF Cleared, Sessions
<1> QED
  BY <1>1, <1>2 DEF Blank

\* A client that finds its keys gone is that of a run not yet settled.
LEMMA RefusedUnsettled ==
    ASSUME KeptInv, NEW e \in Epochs, clients[e].pc = "connect"
    PROVE  /\ ~ValidateKeystore(clients[e].users) <=> ~Settled
           /\ Settled => clients[e].users = Anonymous \/ (Usable(clients[e]) /\ Usable(meta))
<1>1. CASE Settled
  <2>1. clients[e].users = Anonymous \/ (Usable(clients[e]) /\ Usable(meta))
    BY <1>1 DEF KeptInv, SettledInv
  <2> QED
    BY <1>1, <2>1 DEF ValidateKeystore, Usable
<1>2. CASE ~Settled
  <2>1. clients[e].users = meta.users
    BY <1>2, Epoch DEF KeptInv, UnsettledInv
  <2>2. Whole(meta) /\ meta \in Sessions /\ ~Usable(meta)
    BY <1>2 DEF KeptInv, WholeInv, SessionType, Settled
  <2> QED
    BY <1>2, <2>1, <2>2, WholeUsable DEF KeptInv
<1> QED
  BY <1>1, <1>2

LEMMA LostKeeps == ASSUME KeptInv, NEW e \in Epochs, ConnectKeysLost(e) PROVE KeptInv'
<1>1. ~Settled /\ SessionType /\ WholeInv
  BY RefusedUnsettled DEF ConnectKeysLost, KeptInv
<1>2. UNCHANGED <<host, keys, issued, clique, legacy, hasRow, backup, running, owner, persists, loader, login, owed>>
  BY DEF ConnectKeysLost
<1>3. /\ clients[e].pc = "connect" /\ clients' = [clients EXCEPT ![e].pc = "bad"] /\ meta' = Cleared(meta)
      /\ (row' = meta' /\ UNCHANGED uncleared) \/ (uncleared' = TRUE /\ UNCHANGED row)
  BY DEF ConnectKeysLost
<1>4. /\ running /\ login.pc = "none" /\ loader = "idle" /\ e = owner
      /\ \A f \in Epochs : \A t \in Threads : persists[f][t].pc = "idle"
      /\ \A f \in Epochs : f # e => clients[f].pc = "none"
  BY <1>1, <1>3, Epoch DEF KeptInv, UnsettledInv
<1>5. meta' \in Sessions /\ Blank(meta')
  BY <1>1, <1>3, ClearedBlank DEF SessionType
<1>6. clients' \in [Epochs -> Clients] /\ clients'[e].pc = "bad" /\ \A f \in Epochs : f # e => clients'[f].pc = "none"
  <2>1. clients \in [Epochs -> Clients] /\ e \in Epochs
    BY <1>1 DEF SessionType
  <2>2. [clients[e] EXCEPT !.pc = "bad"] \in Clients
    BY <2>1 DEF Clients
  <2> HIDE DEF Clients
  <2>3. clients' \in [Epochs -> Clients] /\ clients'[e].pc = "bad"
    BY <1>3, <2>1, <2>2
  <2>4. \A f \in Epochs : f # e => clients'[f].pc = "none"
    BY <1>3, <1>4, <2>1
  <2> QED
    BY <2>3, <2>4
<1>7. SessionType'
  <2>1. row' \in Sessions /\ uncleared' \in BOOLEAN
    BY <1>1, <1>3, <1>5 DEF SessionType
  <2>2. clients' \in [Epochs -> Clients] /\ meta' \in Sessions
    BY <1>5, <1>6
  <2> HIDE DEF Sessions
  <2> QED
    BY <1>1, <1>2, <2>1, <2>2 DEF SessionType
<1>8. hasRow
  BY <1>1, Nothing DEF WholeInv, Settled
<1>9. WholeInv'
  BY <1>1, <1>2, <1>3, <1>5, <1>8 DEF WholeInv
<1>10. Settled' /\ StoppedInv' /\ LoginInv'
  BY <1>2, <1>4, <1>5 DEF Settled, Blank, StoppedInv, LoginInv
<1>11. SettledInv'
  BY <1>2, <1>4, <1>6 DEF SettledInv
<1>12. RowInv'
  BY <1>3, <1>5 DEF RowInv, Blank
<1> QED
  BY <1>7, <1>9, <1>10, <1>11, <1>12 DEF KeptInv, UnsettledInv

\* In a settled run a step of the clients has to leave every client and every
\* save with a session that has its keys.
LEMMA ClientsKeep ==
    ASSUME KeptInv, Settled, running, UNCHANGED <<durable, running, meta, login, uncleared, owed>>,
           clients' \in [Epochs -> Clients], persists' \in [Epochs -> [Threads -> Saves]],
           owner' \in Epochs \cup {0}, loader' \in {"idle", "load", "stop", "exit"}, SettledInv'
    PROVE  KeptInv'
<1>1. UNCHANGED <<host, keys, issued, clique, legacy, hasRow, row, backup>>
  BY DEF durable
<1>2. SessionType' /\ WholeInv' /\ StoppedInv' /\ LoginInv'
  BY <1>1 DEF KeptInv, SessionType, WholeInv, StoppedInv, LoginInv
<1>3. Settled' /\ UnsettledInv'
  BY <1>1 DEF Settled, Blank, Usable, UnsettledInv
<1>4. RowInv'
  BY <1>1 DEF KeptInv, RowInv, Usable, Blank
<1> QED
  BY <1>2, <1>3, <1>4 DEF KeptInv

\* A save that begins, of a client that has its keys.
LEMMA SaveBegins ==
    ASSUME KeptInv, Settled, running, UNCHANGED <<durable, running, meta, login, uncleared, owed, owner, loader>>,
           NEW e \in Epochs, NEW t \in Threads, NEW last \in BOOLEAN, Usable(clients[e]), Usable(meta),
           persists' = [persists EXCEPT ![e][t] = Snapshot(clients[e], last)],
           clients' = clients \/ clients' = [clients EXCEPT ![e].pc = "joined"]
    PROVE  KeptInv'
<1>1. SessionType /\ UNCHANGED keys
  BY DEF KeptInv, durable
<1>2. Snapshot(clients[e], last) \in Saves /\ Usable(Snapshot(clients[e], last).state)
  <2> DEFINE state == [NoSession EXCEPT !.users = clients[e].users, !.identity = clients[e].identity, !.aps = clients[e].aps]
  <2>1. state \in Sessions /\ Usable(state)
    BY <1>1, Nothing DEF SessionType, Clients, Sessions, Usable
  <2> QED
    BY <2>1 DEF Snapshot, Saves
<1>3. persists' \in [Epochs -> [Threads -> Saves]] /\ persists'[e][t] = Snapshot(clients[e], last)
      /\ \A f \in Epochs : \A u \in Threads : f # e \/ u # t => persists'[f][u] = persists[f][u]
  BY <1>1, <1>2 DEF SessionType
<1>4. clients' \in [Epochs -> Clients]
      /\ \A f \in Epochs : /\ clients'[f].users = clients[f].users /\ clients'[f].identity = clients[f].identity
                           /\ clients'[f].aps = clients[f].aps /\ (f # e => clients'[f] = clients[f])
  BY <1>1 DEF SessionType, Clients
<1>5. SettledInv'
  <2>1. \A f \in Epochs : Usable(clients[f]) => Usable(clients'[f])
    BY <1>4 DEF Usable
  <2>2. \A f \in Epochs :
            clients'[f].pc \in {"connect", "joined", "up", "stopping", "gone"} =>
                \/ clients'[f].pc = "connect" /\ clients'[f].users = Anonymous
                \/ Usable(clients'[f]) /\ Usable(meta)
    BY <1>4, <2>1 DEF KeptInv, SettledInv
  <2>3. \A f \in Epochs : \A u \in Threads :
            persists'[f][u].pc \in {"have", "own", "file"} => Usable(persists'[f][u].state) /\ Usable(meta)
    BY <1>2, <1>3 DEF KeptInv, SettledInv
  <2>4. loader \in {"stop", "exit"} => owner # 0 /\ Usable(clients'[owner]) /\ Usable(meta)
    BY <1>1, <2>1 DEF KeptInv, SettledInv, SessionType
  <2> QED
    BY <1>1, <2>2, <2>3, <2>4 DEF SettledInv, Usable
<1> QED
  BY <1>1, <1>3, <1>4, <1>5, ClientsKeep DEF SessionType

\* Connect, where rustpush refuses a client without users.
LEMMA ConnectKeeps == ASSUME ~AnonymousClient, KeptInv, NEW e \in Epochs, Connect(e) PROVE KeptInv'
<1>1. clients[e].pc = "connect" /\ ValidateKeystore(clients[e].users) /\ SessionType /\ running
  BY DEF Connect, KeptInv, StoppedInv
<1>2. Settled /\ (clients[e].users = Anonymous \/ (Usable(clients[e]) /\ Usable(meta)))
  BY <1>1, RefusedUnsettled
<1>3. UNCHANGED <<durable, running, meta, login, uncleared, owed, owner, loader>>
  BY DEF Connect
<1>4. CASE /\ clients[e].users # Anonymous /\ clients' = [clients EXCEPT ![e].pc = "joined"]
           /\ persists' = [persists EXCEPT ![e]["state"] = Snapshot(clients[e], FALSE)]
  <2>1. Usable(clients[e]) /\ Usable(meta) /\ "state" \in Threads /\ FALSE \in BOOLEAN
    BY <1>2, <1>4 DEF Threads
  <2> QED
    BY <1>1, <1>2, <1>3, <1>4, <2>1, SaveBegins
<1>5. CASE clients' = [clients EXCEPT ![e].pc = "bad"] /\ UNCHANGED persists
  <2>1. /\ clients' \in [Epochs -> Clients]
        /\ \A f \in Epochs : /\ clients'[f].users = clients[f].users /\ clients'[f].identity = clients[f].identity
                             /\ clients'[f].aps = clients[f].aps
                             /\ clients'[f].pc = IF f = e THEN "bad" ELSE clients[f].pc
    BY <1>1, <1>5 DEF SessionType, Clients
  <2>2. \A f \in Epochs : Usable(clients[f]) => Usable(clients'[f])
    BY <2>1 DEF Usable
  <2>3. SettledInv'
    <3>1. \A f \in Epochs :
              clients'[f].pc \in {"connect", "joined", "up", "stopping", "gone"} =>
                  \/ clients'[f].pc = "connect" /\ clients'[f].users = Anonymous
                  \/ Usable(clients'[f]) /\ Usable(meta)
      BY <1>2, <2>1, <2>2 DEF KeptInv, SettledInv
    <3>2. loader \in {"stop", "exit"} => owner # 0 /\ Usable(clients'[owner]) /\ Usable(meta)
      BY <1>1, <1>2, <2>2 DEF KeptInv, SettledInv, SessionType
    <3> QED
      BY <1>2, <1>3, <1>5, <3>1, <3>2 DEF KeptInv, SettledInv, Usable, durable
  <2> QED
    BY <1>1, <1>2, <1>3, <1>5, <2>1, <2>3, ClientsKeep DEF SessionType
<1> QED
  BY <1>4, <1>5 DEF Connect

LEMMA RunsOn ==
    ASSUME KeptInv, NEW e \in Epochs, clients[e].pc \in {"joined", "up", "stopping", "gone"}
    PROVE  Settled /\ running /\ Usable(clients[e]) /\ Usable(meta)
<1>1. running
  BY DEF KeptInv, StoppedInv
<1>2. Settled
  BY DEF KeptInv, UnsettledInv
<1> QED
  BY <1>1, <1>2 DEF KeptInv, SettledInv

LEMMA TickKeeps ==
    ASSUME KeptInv, NEW e \in Epochs, UpdateUsers(e) \/ StateSaveTick(e)
    PROVE  KeptInv'
<1>1. UNCHANGED <<durable, running, meta, login, uncleared, owed, owner, loader, clients>>
  BY DEF UpdateUsers, StateSaveTick
<1>2. Settled /\ running /\ Usable(clients[e]) /\ Usable(meta)
  BY RunsOn DEF UpdateUsers, StateSaveTick
<1>3. CASE UpdateUsers(e)
  <2>1. persists' = [persists EXCEPT ![e]["update"] = Snapshot(clients[e], FALSE)] /\ "update" \in Threads
    BY <1>3 DEF UpdateUsers, Threads
  <2> QED
    BY <1>1, <1>2, <2>1, SaveBegins
<1>4. CASE StateSaveTick(e)
  <2>1. /\ persists' = [persists EXCEPT ![e]["state"] = Snapshot(clients[e], clients[e].pc # "up")]
        /\ "state" \in Threads /\ (clients[e].pc # "up") \in BOOLEAN
    BY <1>4 DEF StateSaveTick, Threads
  <2> QED
    BY <1>1, <1>2, <2>1, SaveBegins
<1> QED
  BY <1>3, <1>4

-----------------------------------------------------------------------------
(* persistState.                                                           *)

\* Whatever a step of persistState does to its own save, every save and every
\* client keeps a session with its keys.
LEMMA Returns ==
    ASSUME SessionType, NEW e \in Epochs, NEW t \in Threads, SaveReturns(e, t)
    PROVE  /\ persists' \in [Epochs -> [Threads -> Saves]] /\ persists'[e][t].pc \in {"idle", "over"}
           /\ \A f \in Epochs : \A u \in Threads : f # e \/ u # t => persists'[f][u] = persists[f][u]
           /\ clients' \in [Epochs -> Clients]
           /\ \A f \in Epochs : /\ clients'[f].users = clients[f].users /\ clients'[f].identity = clients[f].identity
                                /\ clients'[f].aps = clients[f].aps
                                /\ clients'[f].pc = clients[f].pc \/ (clients[f].pc = "joined" /\ clients'[f].pc = "up")
<1> DEFINE save == [NoSave EXCEPT !.pc = IF persists[e][t].last THEN "over" ELSE "idle"]
<1>1. save \in Saves /\ save.pc \in {"idle", "over"}
  BY Nobody DEF Saves
<1>2. persists' = [persists EXCEPT ![e][t] = save]
  BY DEF SaveReturns
<1> HIDE DEF save
<1>3. /\ persists' \in [Epochs -> [Threads -> Saves]] /\ persists'[e][t].pc \in {"idle", "over"}
      /\ \A f \in Epochs : \A u \in Threads : f # e \/ u # t => persists'[f][u] = persists[f][u]
  BY <1>1, <1>2 DEF SessionType
<1>4. clients' = [clients EXCEPT ![e].pc = IF t = "state" /\ clients[e].pc = "joined" THEN "up" ELSE clients[e].pc]
  BY DEF SaveReturns
<1>5. CASE t = "state" /\ clients[e].pc = "joined"
  BY <1>3, <1>4, <1>5 DEF SessionType, Clients
<1>6. CASE ~(t = "state" /\ clients[e].pc = "joined")
  BY <1>3, <1>4, <1>6 DEF SessionType, Clients
<1> QED
  BY <1>5, <1>6

\* The sessions of all clients and saves have their keys, given those of one save.
LEMMA SavesStay ==
    ASSUME KeptInv, Settled, UNCHANGED <<keys, owner, loader>>, NEW e \in Epochs, NEW t \in Threads,
           Usable(meta), Usable(meta)', Settled',
           persists'[e][t].pc \in {"have", "own", "file"} => Usable(persists'[e][t].state),
           \A f \in Epochs : \A u \in Threads : f # e \/ u # t => persists'[f][u] = persists[f][u],
           \A f \in Epochs : /\ clients'[f].users = clients[f].users /\ clients'[f].identity = clients[f].identity
                             /\ clients'[f].aps = clients[f].aps
                             /\ clients'[f].pc = clients[f].pc \/ (clients[f].pc = "joined" /\ clients'[f].pc = "up")
    PROVE  SettledInv'
<1>1. \A f \in Epochs : Usable(clients[f]) => Usable(clients'[f])
  BY DEF Usable
<1>2. \A f \in Epochs :
          clients'[f].pc \in {"connect", "joined", "up", "stopping", "gone"} =>
              \/ clients'[f].pc = "connect" /\ clients'[f].users = Anonymous
              \/ Usable(clients'[f])
  BY <1>1 DEF KeptInv, SettledInv
<1>3. \A f \in Epochs : \A u \in Threads :
          persists'[f][u].pc \in {"have", "own", "file"} => Usable(persists'[f][u].state)
  BY DEF KeptInv, SettledInv
<1>4. loader \in {"stop", "exit"} => owner # 0 /\ Usable(clients'[owner])
  BY <1>1 DEF KeptInv, SettledInv, SessionType
<1> QED
  BY <1>2, <1>3, <1>4 DEF SettledInv, Usable

LEMMA SaveRuns ==
    ASSUME KeptInv, NEW e \in Epochs, NEW t \in Threads, persists[e][t].pc \in {"have", "own", "file"}
    PROVE  Settled /\ running /\ Usable(persists[e][t].state) /\ Usable(meta) /\ persists[e][t] \in Saves
<1>1. running /\ Settled
  BY DEF KeptInv, StoppedInv, UnsettledInv
<1> QED
  BY <1>1 DEF KeptInv, SettledInv, SessionType

LEMMA OwnerKeeps == ASSUME KeptInv, NEW e \in Epochs, NEW t \in Threads, PersistOwner(e, t) PROVE KeptInv'
<1>1. UNCHANGED <<durable, running, meta, login, uncleared, owed, owner, loader>> /\ SessionType
  BY DEF PersistOwner, KeptInv
<1>2. Settled /\ running /\ Usable(persists[e][t].state) /\ Usable(meta) /\ persists[e][t] \in Saves
  BY SaveRuns DEF PersistOwner
<1>3. Settled' /\ Usable(meta)' /\ UNCHANGED keys
  BY <1>1, <1>2 DEF Settled, Usable, durable
<1>4. CASE persists' = [persists EXCEPT ![e][t].pc = "own"] /\ UNCHANGED clients
  <2>1. /\ persists' \in [Epochs -> [Threads -> Saves]] /\ persists'[e][t].state = persists[e][t].state
        /\ \A f \in Epochs : \A u \in Threads : f # e \/ u # t => persists'[f][u] = persists[f][u]
    <3>1. [persists[e][t] EXCEPT !.pc = "own"] \in Saves /\ [persists[e][t] EXCEPT !.pc = "own"].state = persists[e][t].state
      BY <1>2 DEF Saves
    <3> QED
      BY <1>1, <1>4, <3>1 DEF SessionType
  <2>2. SettledInv'
    BY <1>1, <1>2, <1>3, <1>4, <2>1, SavesStay DEF Usable
  <2> QED
    BY <1>1, <1>2, <1>4, <2>1, <2>2, ClientsKeep DEF SessionType
<1>5. CASE SaveReturns(e, t)
  <2>1. SettledInv'
    BY <1>1, <1>2, <1>3, <1>5, Returns, SavesStay
  <2> QED
    BY <1>1, <1>2, <1>5, <2>1, Returns, ClientsKeep DEF SessionType
<1> QED
  BY <1>4, <1>5 DEF PersistOwner

\* What a settled run writes has its keys; so everything stored keeps its form.
LEMMA StoresKeep ==
    ASSUME KeptInv, Settled, running, hasRow',
           UNCHANGED <<host, keys, issued, clique, running, uncleared>>,
           row' = row \/ (row' \in Sessions /\ Usable(row')),
           meta' = meta \/ (meta' \in Sessions /\ Usable(meta')),
           backup' = backup \/ (backup' \in Sessions /\ Usable(backup'))
    PROVE  /\ row' \in Sessions /\ meta' \in Sessions /\ backup' \in Sessions
           /\ WholeInv' /\ Settled' /\ StoppedInv' /\ UnsettledInv' /\ RowInv'
<1>1. SessionType /\ WholeInv /\ RowInv
  BY DEF KeptInv
<1>2. row' \in Sessions /\ meta' \in Sessions /\ backup' \in Sessions
  BY <1>1 DEF SessionType
<1>3. WholeInv'
  BY <1>1, UsableWhole DEF WholeInv
<1>4. Settled'
  BY DEF Settled, Blank, Usable
<1>5. StoppedInv' /\ UnsettledInv'
  BY <1>4 DEF StoppedInv, UnsettledInv
<1>6. RowInv'
  BY <1>1 DEF RowInv, Blank, Usable
<1> QED
  BY <1>2, <1>3, <1>4, <1>5, <1>6

\* The row exists while there is a session in memory.
LEMMA HasRow == ASSUME KeptInv, Usable(meta) PROVE hasRow
BY UsableWhole, Nothing DEF KeptInv, WholeInv

LEMMA RowKeeps == ASSUME KeptInv, NEW e \in Epochs, NEW t \in Threads, PersistRow(e, t) PROVE KeptInv'
<1>1. SessionType /\ UNCHANGED <<host, keys, issued, clique, legacy, hasRow, backup, running, owner, loader, login, owed,
                                 uncleared>>
  BY DEF PersistRow, KeptInv
<1>2. Settled /\ running /\ Usable(persists[e][t].state) /\ Usable(meta) /\ persists[e][t] \in Saves /\ hasRow
  BY SaveRuns, HasRow DEF PersistRow
<1> DEFINE s == persists[e][t].state
           new == [meta EXCEPT !.users = s.users, !.identity = s.identity, !.aps = s.aps]
<1>3. meta' = new
  BY DEF PersistRow
<1>4. new \in Sessions /\ Usable(new)
  <2>1. s \in Sessions /\ meta \in Sessions
    BY <1>1, <1>2 DEF Saves, SessionType
  <2> HIDE DEF s
  <2>2. Usable(s)
    BY <1>2 DEF s
  <2> QED
    BY <2>1, <2>2 DEF Sessions, Usable
<1> HIDE DEF s, new
<1>5. row' = row \/ row' = new
  BY <1>3 DEF PersistRow
<1>6. /\ row' \in Sessions /\ meta' \in Sessions /\ backup' \in Sessions
      /\ WholeInv' /\ Settled' /\ StoppedInv' /\ UnsettledInv' /\ RowInv'
  BY <1>1, <1>2, <1>3, <1>4, <1>5, StoresKeep
<1>7. Usable(meta)'
  BY <1>1, <1>3, <1>4 DEF Usable
<1>8. LoginInv'
  BY <1>1 DEF KeptInv, LoginInv
<1>9. CASE persists' = [persists EXCEPT ![e][t] = [@ EXCEPT !.pc = "file", !.state = meta']] /\ UNCHANGED clients
  <2>1. [persists[e][t] EXCEPT !.pc = "file", !.state = new] \in Saves
        /\ [persists[e][t] EXCEPT !.pc = "file", !.state = new].state = new
    BY <1>2, <1>4 DEF Saves
  <2>2. /\ persists' \in [Epochs -> [Threads -> Saves]] /\ persists'[e][t].state = new
        /\ \A f \in Epochs : \A u \in Threads : f # e \/ u # t => persists'[f][u] = persists[f][u]
    BY <1>1, <1>3, <1>9, <2>1 DEF SessionType
  <2>3. SettledInv'
    BY <1>1, <1>2, <1>4, <1>6, <1>7, <1>9, <2>2, SavesStay
  <2>4. SessionType'
    BY <1>1, <1>6, <1>9, <2>2 DEF SessionType
  <2> QED
    BY <1>6, <1>8, <2>3, <2>4 DEF KeptInv
<1>10. CASE SaveReturns(e, t)
  <2>1. SettledInv'
    BY <1>1, <1>2, <1>6, <1>7, <1>10, Returns, SavesStay
  <2>2. SessionType'
    BY <1>1, <1>6, <1>10, Returns DEF SessionType
  <2> QED
    BY <1>6, <1>8, <2>1, <2>2 DEF KeptInv
<1> QED
  BY <1>9, <1>10 DEF PersistRow

LEMMA FileKeeps == ASSUME KeptInv, NEW e \in Epochs, NEW t \in Threads, PersistFile(e, t) PROVE KeptInv'
<1>1. SessionType /\ UNCHANGED <<host, keys, issued, clique, legacy, hasRow, row, running, meta, owner, loader, login, owed,
                                 uncleared>> /\ SaveReturns(e, t)
  BY DEF PersistFile, KeptInv
<1>2. Settled /\ running /\ Usable(persists[e][t].state) /\ Usable(meta) /\ persists[e][t] \in Saves /\ hasRow
  BY SaveRuns, HasRow DEF PersistFile
<1>3. backup' = backup \/ (backup' \in Sessions /\ Usable(backup'))
  <2>1. backup' \in {backup, persists[e][t].state, meta}
    BY DEF PersistFile, saveSessionState
  <2> QED
    BY <1>1, <1>2, <2>1 DEF SessionType, Saves
<1>4. /\ row' \in Sessions /\ meta' \in Sessions /\ backup' \in Sessions
      /\ WholeInv' /\ Settled' /\ StoppedInv' /\ UnsettledInv' /\ RowInv'
  BY <1>1, <1>2, <1>3, StoresKeep
<1>5. Usable(meta)' /\ LoginInv'
  BY <1>1, <1>2 DEF Usable, KeptInv, LoginInv
<1>6. SettledInv'
  BY <1>1, <1>2, <1>4, <1>5, Returns, SavesStay
<1>7. SessionType'
  BY <1>1, <1>4, Returns DEF SessionType
<1> QED
  BY <1>4, <1>5, <1>6, <1>7 DEF KeptInv

-----------------------------------------------------------------------------
(* The end of a client.                                                    *)

LEMMA BeginKeeps == ASSUME KeptInv, NEW next \in {"stop", "exit"}, BeginDisconnect(next) PROVE KeptInv'
<1>1. /\ SessionType /\ running /\ owner # 0 /\ owner \in Epochs /\ clients[owner].pc = "up"
      /\ clients' = [clients EXCEPT ![owner].pc = "stopping"] /\ loader' = next
      /\ UNCHANGED <<durable, running, meta, owner, persists, login, owed, uncleared>>
  BY DEF BeginDisconnect, KeptInv, SessionType
<1>2. Settled /\ Usable(clients[owner]) /\ Usable(meta)
  BY <1>1, RunsOn
<1>3. /\ clients' \in [Epochs -> Clients]
      /\ \A f \in Epochs : /\ clients'[f].users = clients[f].users /\ clients'[f].identity = clients[f].identity
                           /\ clients'[f].aps = clients[f].aps
                           /\ clients'[f].pc = IF f = owner THEN "stopping" ELSE clients[f].pc
  BY <1>1 DEF SessionType, Clients
<1>4. \A f \in Epochs : Usable(clients[f]) => Usable(clients'[f])
  BY <1>3 DEF Usable
<1>5. SettledInv'
  <2>1. \A f \in Epochs :
            clients'[f].pc \in {"connect", "joined", "up", "stopping", "gone"} =>
                \/ clients'[f].pc = "connect" /\ clients'[f].users = Anonymous
                \/ Usable(clients'[f]) /\ Usable(meta)
    BY <1>2, <1>3, <1>4 DEF KeptInv, SettledInv
  <2> QED
    BY <1>1, <1>2, <1>4, <2>1 DEF KeptInv, SettledInv, Usable, durable
<1> QED
  BY <1>1, <1>2, <1>3, <1>5, ClientsKeep DEF SessionType

LEMMA FinishKeeps == KeptInv /\ FinishDisconnect => KeptInv'
<1> SUFFICES ASSUME KeptInv, FinishDisconnect PROVE KeptInv'
  OBVIOUS
<1>1. running /\ SessionType
  BY DEF FinishDisconnect, KeptInv, StoppedInv
<1>2. CASE loader = "exit" /\ Forget /\ UNCHANGED <<durable, owed, uncleared, boots, logins, sessionFaults>>
  BY <1>1, <1>2, ForgetKeeps
<1>3. CASE /\ loader = "stop" /\ loader' = "load" /\ clients' = [clients EXCEPT ![owner].pc = "gone"]
           /\ UNCHANGED <<durable, running, meta, owner, persists, login, owed, uncleared, boots, logins, sessionFaults>>
  <2>1. Settled /\ owner # 0 /\ owner \in Epochs /\ Usable(clients[owner]) /\ Usable(meta)
    BY <1>1, <1>3 DEF KeptInv, UnsettledInv, SettledInv, SessionType
  <2>2. /\ clients' \in [Epochs -> Clients]
        /\ \A f \in Epochs : /\ clients'[f].users = clients[f].users /\ clients'[f].identity = clients[f].identity
                             /\ clients'[f].aps = clients[f].aps
                             /\ clients'[f].pc = IF f = owner THEN "gone" ELSE clients[f].pc
    BY <1>1, <1>3, <2>1 DEF SessionType, Clients
  <2>3. \A f \in Epochs : Usable(clients[f]) => Usable(clients'[f])
    BY <2>2 DEF Usable
  <2>4. SettledInv'
    <3>1. \A f \in Epochs :
              clients'[f].pc \in {"connect", "joined", "up", "stopping", "gone"} =>
                  \/ clients'[f].pc = "connect" /\ clients'[f].users = Anonymous
                  \/ Usable(clients'[f]) /\ Usable(meta)
      BY <2>1, <2>2, <2>3 DEF KeptInv, SettledInv
    <3> QED
      BY <1>3, <2>1, <2>3, <3>1 DEF KeptInv, SettledInv, Usable, durable
  <2> QED
    BY <1>1, <1>3, <2>1, <2>2, <2>4, ClientsKeep DEF SessionType
<1> QED
  BY <1>2, <1>3 DEF FinishDisconnect

LEMMA ShutdownKeeps == KeptInv /\ (Crash \/ Shutdown \/ runReceiveWedgeWatchdog) => KeptInv'
<1> SUFFICES ASSUME KeptInv, Crash \/ Shutdown \/ runReceiveWedgeWatchdog PROVE KeptInv'
  OBVIOUS
<1>1. CASE running /\ Forget /\ UNCHANGED <<durable, owed, uncleared, boots, logins, sessionFaults>>
  BY <1>1, ForgetKeeps
<1>2. CASE BeginDisconnect("stop") \/ BeginDisconnect("exit")
  BY <1>2, BeginKeeps
<1> QED
  BY <1>1, <1>2 DEF Crash, Shutdown, runReceiveWedgeWatchdog

-----------------------------------------------------------------------------
(* The login.                                                              *)

\* A login runs in a settled run.
LEMMA LoginRuns == ASSUME KeptInv, login.pc # "none" PROVE running /\ Settled
BY DEF KeptInv, StoppedInv, UnsettledInv

\* A login may begin once the client of the row has been connected or refused.
LEMMA LoginMayBegin ==
    ASSUME KeptInv, running, loader = "idle", owner # 0 => clients[owner].pc \in {"up", "bad"}
    PROVE  Settled
<1> SUFFICES ASSUME ~Settled PROVE FALSE
  OBVIOUS
<1> QED
  BY DEF KeptInv, UnsettledInv

\* Steps of the login that touch neither the row nor the clients.
LEMMA LoginKeeps ==
    ASSUME KeptInv, running, Settled,
           UNCHANGED <<host, issued, hasRow, row, running, meta, owner, clients, persists, loader, owed, uncleared, keys>>,
           clique' \in BOOLEAN, legacy' \in BOOLEAN, login' \in Logins, LoginInv', backup' \in Sessions,
           backup' = backup \/ (backup = NoSession /\ backup' = LegacySession) \/ Usable(backup')
    PROVE  KeptInv'
<1>1. SessionType'
  BY DEF KeptInv, SessionType
<1>2. WholeInv'
  BY UsableWhole DEF KeptInv, WholeInv
<1>3. Settled' /\ StoppedInv' /\ UnsettledInv'
  BY DEF Settled, Blank, Usable, StoppedInv, UnsettledInv
<1>4. SettledInv'
  BY DEF KeptInv, SettledInv, Usable
<1>5. RowInv'
  BY DEF KeptInv, RowInv, Usable, Blank
<1> QED
  BY <1>1, <1>2, <1>3, <1>4, <1>5 DEF KeptInv

\* The session a login finds.
LEMMA Caches ==
    ASSUME KeptInv, NEW s, loadCachedSession(s)
    PROVE  /\ s \in Sessions /\ backup' \in Sessions /\ legacy' \in BOOLEAN
           /\ Blank(s) \/ Whole(s) \/ s = LegacySession
           /\ backup' = backup \/ (backup = NoSession /\ backup' = LegacySession)
           /\ \/ s = meta
              \/ (~hasRow \/ Blank(meta)) /\ (s = backup \/ (backup = NoSession /\ s = LegacySession))
<1>1. CASE s = meta /\ UNCHANGED <<backup, legacy, sessionFaults>>
  BY <1>1 DEF KeptInv, SessionType, WholeInv
<1>2. CASE (~hasRow \/ Blank(meta)) /\ loadSessionState(s)
  BY <1>2, Loads DEF KeptInv, WholeInv
<1> QED
  BY <1>1, <1>2 DEF loadCachedSession

\* What is known of it counts as a whole or not at all.
LEMMA Validates ==
    ASSUME NEW s \in Sessions, Blank(s) \/ Whole(s) \/ s = LegacySession
    PROVE  /\ Validated(s) \in Sessions /\ OrNew(Validated(s).aps, 1) \in Nat \ {0}
           /\ Validated(s).identity \in Nat
<1>1. s.aps \in Nat /\ s.identity \in Nat
  BY Nothing DEF Blank, Whole, Unset, Sessions
<1>2. NoSession \in Sessions /\ NoSession.aps = 0 /\ NoSession.identity = 0
  BY Nothing DEF NoSession, Unset
<1>3. Validated(s) \in Sessions /\ Validated(s).aps \in Nat /\ Validated(s).identity \in Nat
  BY <1>1, <1>2 DEF Validated
<1> QED
  BY <1>3 DEF OrNew, Unset

LEMMA OpenKeeps ==
    ASSUME KeptInv, running, Settled, LoginStays, NEW s, loadCachedSession(s), NEW next \in Logins,
           OpenConnection(s, next)
    PROVE  KeptInv'
<1> DEFINE aps == OrNew(Validated(s).aps, 1)
<1>1. aps \in Nat \ {0} /\ aps \in Int
  BY Caches, Validates
<1> HIDE DEF aps
<1>2. login' = [next EXCEPT !.pc = "password", !.aps = aps]
  BY DEF OpenConnection, aps
<1>3. login' \in Logins
  BY <1>1, <1>2 DEF Logins
<1>4. login'.pc = "password" /\ login'.aps = aps
  BY <1>2 DEF Logins
<1>5. LoginInv'
  BY <1>1, <1>4 DEF LoginInv
<1> QED
  BY <1>3, <1>5, Caches, LoginKeeps DEF LoginStays, KeptInv, SessionType

LEMMA BeginLoginKeeps == KeptInv /\ (StartAppleIDLogin \/ SubmitHardwareKey) => KeptInv'
<1> SUFFICES ASSUME KeptInv, StartAppleIDLogin \/ SubmitHardwareKey PROVE KeptInv'
  OBVIOUS
<1>1. running /\ Settled /\ LoginStays
  BY LoginMayBegin DEF StartAppleIDLogin, SubmitHardwareKey
<1>2. NoLogin \in Logins /\ [NoLogin EXCEPT !.external = TRUE] \in Logins
  BY Nobody DEF Logins
<1>3. PICK s : loadCachedSession(s) /\ \E next \in Logins : OpenConnection(s, next)
  BY <1>2 DEF StartAppleIDLogin, SubmitHardwareKey
<1> QED
  BY <1>1, <1>3, OpenKeeps

LEMMA EndKeeps == ASSUME KeptInv, login.pc # "none", EndLogin PROVE KeptInv'
<1>1. login' = NoLogin /\ LoginInv'
  BY Nobody DEF EndLogin, LoginInv
<1> QED
  BY <1>1, Nobody, LoginRuns, LoginKeeps DEF EndLogin, LoginStays, KeptInv, SessionType

\* A device is registered: the keys grow.
LEMMA RegisterKeeps ==
    ASSUME KeptInv, login.pc # "none", finishLogin
    PROVE  KeptInv'
<1>1. CASE EndLogin
  BY <1>1, EndKeeps
<1>2. ASSUME NEW s, NEW device, device = finish(Validated(s)), FinishSession(s),
             issued' = (IF device > issued THEN device ELSE issued), keys' = keys \cup {device},
             login' = [login EXCEPT !.device = device, !.attempts = 0,
                                    !.pc = IF host.cloudkit THEN "passcode" ELSE "handle"],
             UNCHANGED <<host, clique, hasRow, row, running, meta, owner, clients, persists, loader, owed, uncleared>>
      PROVE  KeptInv'
  <2>1. SessionType /\ running /\ Settled /\ login.aps > 0
    BY LoginRuns DEF KeptInv, LoginInv
  <2>2. /\ s \in Sessions /\ backup' \in Sessions /\ legacy' \in BOOLEAN
        /\ Validated(s).identity \in Nat
        /\ backup' = backup \/ (backup = NoSession /\ backup' = LegacySession)
    BY <1>2, Caches, Validates DEF FinishSession
  <2>3. device \in Nat \ {0} /\ issued' \in Nat
    BY <1>2, <2>1, <2>2 DEF finish, SessionType
  <2>4. login' \in Logins /\ login'.device = device /\ login'.aps = login.aps
    <3> DEFINE stage == IF host.cloudkit THEN "passcode" ELSE "handle"
    <3>1. stage \in {"passcode", "handle"}
      OBVIOUS
    <3>2. login' = [login EXCEPT !.device = device, !.attempts = 0, !.pc = stage] /\ login \in Logins
      BY <1>2, <2>1 DEF SessionType
    <3> HIDE DEF stage
    <3>3. login' \in Logins
      <4>1. ASSUME NEW l \in Logins, NEW d \in Int, NEW x \in {"passcode", "handle"}
            PROVE  [l EXCEPT !.device = d, !.attempts = 0, !.pc = x] \in Logins
        BY DEF Logins
      <4>2. device \in Int
        BY <2>3
      <4> QED
        BY <3>1, <3>2, <4>1, <4>2
    <3> QED
      BY <3>2, <3>3 DEF Logins
  <2>5. SessionType'
    BY <1>2, <2>1, <2>2, <2>3, <2>4 DEF SessionType
  <2>6. WholeInv'
    BY <1>2, <2>2 DEF KeptInv, WholeInv
  <2>7. \A x : Usable(x) => x.users \in keys'
    BY <1>2 DEF Usable
  <2>8. Settled' /\ StoppedInv' /\ UnsettledInv'
    BY <1>2, <2>1, <2>7 DEF Settled, Blank, Usable, StoppedInv, UnsettledInv
  <2>9. SettledInv'
    BY <1>2, <2>1, <2>7 DEF KeptInv, SettledInv, Usable
  <2>10. LoginInv'
    BY <1>2, <2>1, <2>4 DEF LoginInv
  <2>11. RowInv'
    BY <1>2, <2>1, <2>7 DEF KeptInv, RowInv, Usable, Blank
  <2> QED
    BY <2>5, <2>6, <2>8, <2>9, <2>10, <2>11 DEF KeptInv
<1> QED
  BY <1>1, <1>2 DEF finishLogin

LEMMA AskKeeps == ASSUME KeptInv, login.pc # "none", NEW n \in Nat, AskCode(n) PROVE KeptInv'
<1>1. login \in Logins /\ login.aps > 0
  BY DEF KeptInv, SessionType, LoginInv
<1>2. login' = [login EXCEPT !.pc = "code", !.attempts = n]
  BY DEF AskCode
<1>3. login' \in Logins /\ login'.pc = "code" /\ login'.aps = login.aps
  BY <1>1, <1>2 DEF Logins
<1>4. LoginInv'
  BY <1>1, <1>3 DEF LoginInv
<1> QED
  BY <1>3, <1>4, LoginRuns, LoginKeeps DEF AskCode, LoginStays, KeptInv, SessionType

LEMMA PasswordKeeps == KeptInv /\ (SubmitPassword \/ SubmitCode) => KeptInv'
<1> SUFFICES ASSUME KeptInv, SubmitPassword \/ SubmitCode PROVE KeptInv'
  OBVIOUS
<1>1. login.pc # "none" /\ login.attempts \in Nat
  BY DEF SubmitPassword, SubmitCode, KeptInv, SessionType, Logins
<1>2. EndLogin \/ finishLogin \/ AskCode(0) \/ AskCode(login.attempts) \/ AskCode(login.attempts + 1)
  BY DEF SubmitPassword, SubmitCode
<1> QED
  BY <1>1, <1>2, EndKeeps, RegisterKeeps, AskKeeps

LEMMA PasscodeKeeps == KeptInv /\ SubmitPasscode => KeptInv'
<1> SUFFICES ASSUME KeptInv, SubmitPasscode PROVE KeptInv'
  OBVIOUS
<1>1. login.pc # "none" /\ login \in Logins /\ login.aps > 0 /\ login.device \in keys /\ clique \in BOOLEAN
  BY DEF SubmitPasscode, KeptInv, SessionType, LoginInv
<1>2. login' = NoLogin \/ login' = [login EXCEPT !.pc = "handle"]
  BY DEF SubmitPasscode
<1>3. login' \in Logins /\ LoginInv'
  <2>1. CASE login' = NoLogin
    BY <2>1, Nobody DEF LoginInv
  <2>2. CASE login' = [login EXCEPT !.pc = "handle"]
    <3>1. login' \in Logins /\ login'.aps = login.aps /\ login'.device = login.device
      BY <1>1, <2>2 DEF Logins
    <3> QED
      BY <1>1, <3>1 DEF LoginInv, SubmitPasscode
  <2> QED
    BY <1>2, <2>1, <2>2
<1> QED
  BY <1>1, <1>3, LoginRuns, LoginKeeps DEF SubmitPasscode, KeptInv, SessionType

\* The session a login saves has its keys.
LEMMA LoginSessionWorks ==
    ASSUME KeptInv, login.pc \in {"handle", "insert"}, NEW account \in BOOLEAN
    PROVE  LoginSession(account) \in Sessions /\ Usable(LoginSession(account))
<1>1. login \in Logins /\ login.aps > 0 /\ login.device \in keys /\ keys \subseteq Nat \ {0}
  BY DEF KeptInv, SessionType, LoginInv
<1> QED
  BY <1>1 DEF LoginSession, Sessions, Usable, Logins

LEMMA BackupKeeps == KeptInv /\ CompleteLoginBackup => KeptInv'
<1> SUFFICES ASSUME KeptInv, CompleteLoginBackup PROVE KeptInv'
  OBVIOUS
<1>1. login.pc = "handle" /\ login \in Logins /\ login.aps > 0 /\ login.device \in keys
  BY DEF CompleteLoginBackup, KeptInv, SessionType, LoginInv
<1>2. PICK account \in BOOLEAN : /\ login' = [login EXCEPT !.pc = "insert", !.account = account]
                                 /\ saveSessionState(LoginSession(account))
  BY DEF CompleteLoginBackup
<1>3. login' \in Logins /\ login'.aps = login.aps /\ login'.device = login.device
  BY <1>1, <1>2 DEF Logins
<1>4. LoginInv'
  BY <1>1, <1>3 DEF LoginInv, CompleteLoginBackup, LoginStays
<1>5. backup' \in Sessions /\ (backup' = backup \/ Usable(backup'))
  BY <1>1, <1>2, LoginSessionWorks DEF saveSessionState, KeptInv, SessionType
<1> QED
  BY <1>1, <1>3, <1>4, <1>5, LoginRuns, LoginKeeps DEF CompleteLoginBackup, LoginStays, KeptInv, SessionType

\* The row and the client of the new session take over, whoever held them.
LEMMA LoginRowKeeps == KeptInv /\ CompleteLoginRow => KeptInv'
<1> SUFFICES ASSUME KeptInv, CompleteLoginRow PROVE KeptInv'
  OBVIOUS
<1>1. /\ login.pc = "insert" /\ login' = NoLogin /\ SessionType /\ running /\ Settled
      /\ login \in Logins /\ login.aps > 0 /\ login.device \in keys
      /\ UNCHANGED <<host, keys, issued, clique, legacy, backup, running, persists, loader, owed, uncleared>>
  BY LoginRuns DEF CompleteLoginRow, KeptInv, SessionType, LoginInv
<1>2. login' \in Logins /\ LoginInv'
  BY <1>1, Nobody DEF LoginInv
<1>3. CASE UNCHANGED <<hasRow, row, meta, clients, owner>>
  BY <1>1, <1>2, <1>3, LoginKeeps DEF KeptInv, SessionType
<1>4. CASE /\ hasRow' = TRUE /\ row' = LoginSession(login.account) /\ meta' = row'
           /\ \E e \in FreshEpochs :
                 /\ clients' = [clients EXCEPT ![e] =
                         [pc |-> "connect", users |-> login.device, identity |-> login.device, aps |-> login.aps]]
                 /\ owner' = e
  <2>1. PICK e \in FreshEpochs :
            /\ clients' = [clients EXCEPT ![e] =
                    [pc |-> "connect", users |-> login.device, identity |-> login.device, aps |-> login.aps]]
            /\ owner' = e
    BY <1>4
  <2> DEFINE client == [pc |-> "connect", users |-> login.device, identity |-> login.device, aps |-> login.aps]
  <2>2. client \in Clients /\ Usable(client)
    BY <1>1 DEF Clients, Usable, Logins, SessionType
  <2> HIDE DEF client
  <2>3. e \in Epochs /\ e # 0
    BY Epoch DEF FreshEpochs
  <2>4. /\ clients' \in [Epochs -> Clients] /\ clients'[e] = client
        /\ \A f \in Epochs : f # e => clients'[f] = clients[f]
    BY <1>1, <2>1, <2>2, <2>3 DEF client, SessionType
  <2>5. row' \in Sessions /\ Usable(row') /\ meta' = row'
    BY <1>1, <1>4, LoginSessionWorks DEF Logins
  <2>6. /\ row' \in Sessions /\ meta' \in Sessions /\ backup' \in Sessions
        /\ WholeInv' /\ Settled' /\ StoppedInv' /\ UnsettledInv' /\ RowInv'
    BY <1>1, <1>4, <2>5, StoresKeep
  <2>7. SessionType'
    BY <1>1, <1>2, <1>4, <2>1, <2>3, <2>4, <2>6 DEF SessionType
  <2>8. SettledInv'
    <3>1. Usable(meta)' /\ Usable(clients'[owner'])
      BY <1>1, <2>1, <2>2, <2>3, <2>4, <2>5 DEF Usable
    <3>2. \A f \in Epochs :
              clients'[f].pc \in {"connect", "joined", "up", "stopping", "gone"} =>
                  \/ clients'[f].pc = "connect" /\ clients'[f].users = Anonymous
                  \/ Usable(clients'[f])
      BY <1>1, <2>2, <2>4 DEF KeptInv, SettledInv
    <3>3. \A f \in Epochs : \A u \in Threads :
              persists'[f][u].pc \in {"have", "own", "file"} => Usable(persists'[f][u].state)
      BY <1>1 DEF KeptInv, SettledInv
    <3> QED
      BY <1>1, <2>1, <2>3, <3>1, <3>2, <3>3 DEF SettledInv, Usable
  <2> QED
    BY <1>2, <2>6, <2>7, <2>8 DEF KeptInv
<1> QED
  BY <1>3, <1>4 DEF CompleteLoginRow

-----------------------------------------------------------------------------

LEMMA StepKept == ~AnonymousClient /\ KeptInv /\ [SessionNext]_sessionVars => KeptInv'
<1> SUFFICES ASSUME ~AnonymousClient, KeptInv, [SessionNext]_sessionVars PROVE KeptInv'
  OBVIOUS
<1>1. CASE Start \/ Reset \/ KeysLost
  BY <1>1, StartKeeps, ResetKeeps, KeysLostKeeps
<1>2. CASE Crash \/ Shutdown \/ runReceiveWedgeWatchdog \/ FinishDisconnect
  BY <1>2, ShutdownKeeps, FinishKeeps
<1>3. CASE LoadUserLogin
  BY <1>3, LoadKeeps
<1>4. ASSUME NEW e \in Epochs, ConnectKeysLost(e) \/ Connect(e) \/ UpdateUsers(e) \/ StateSaveTick(e)
      PROVE  KeptInv'
  BY <1>4, LostKeeps, ConnectKeeps, TickKeeps
<1>5. ASSUME NEW e \in Epochs, NEW t \in Threads, persistState(e, t)
      PROVE  KeptInv'
  BY <1>5, OwnerKeeps, RowKeeps, FileKeeps DEF persistState
<1>6. CASE StartAppleIDLogin \/ SubmitHardwareKey \/ SubmitPassword \/ SubmitCode
  BY <1>6, BeginLoginKeeps, PasswordKeeps
<1>7. CASE SubmitPasscode \/ CompleteLoginBackup \/ CompleteLoginRow
  BY <1>7, PasscodeKeeps, BackupKeeps, LoginRowKeeps
<1>8. CASE UNCHANGED sessionVars
  BY <1>8 DEF sessionVars, durable, volatile, KeptInv, SessionType, WholeInv, StoppedInv, SettledInv, UnsettledInv,
              LoginInv, RowInv, Settled, Blank, Whole, Usable
<1> QED
  BY <1>1, <1>2, <1>3, <1>4, <1>5, <1>6, <1>7, <1>8 DEF SessionNext

\* Only four steps write the backup once there is one that works.
LEMMA BackupWriters ==
    ASSUME ~AnonymousClient, KeptInv, SessionNext, backup' # backup, Usable(backup)
    PROVE  \/ LoadUserLogin
           \/ \E e \in Epochs : \E t \in Threads : PersistFile(e, t)
           \/ CompleteLoginBackup
<1>1. backup # NoSession
  BY UsableWhole, Nothing DEF KeptInv
<1>2. \A s : loadSessionState(s) => backup' = backup
  BY <1>1 DEF loadSessionState
<1>3. ~Start /\ ~Reset /\ ~KeysLost
  BY <1>2 DEF Start, Reset, KeysLost
<1>4. ~Crash /\ ~Shutdown /\ ~FinishDisconnect /\ ~runReceiveWedgeWatchdog
  BY DEF Crash, Shutdown, FinishDisconnect, runReceiveWedgeWatchdog, BeginDisconnect, durable
<1>5. \A e \in Epochs : ~ConnectKeysLost(e) /\ ~Connect(e) /\ ~UpdateUsers(e) /\ ~StateSaveTick(e)
  BY DEF ConnectKeysLost, Connect, UpdateUsers, StateSaveTick, durable
<1>6. \A e \in Epochs : \A t \in Threads : ~PersistOwner(e, t) /\ ~PersistRow(e, t)
  BY DEF PersistOwner, PersistRow, durable
<1>7. \A s : loadCachedSession(s) => backup' = backup
  BY <1>2 DEF loadCachedSession
<1>8. ~StartAppleIDLogin /\ ~SubmitHardwareKey /\ ~EndLogin /\ ~finishLogin /\ \A n : ~AskCode(n)
  BY <1>7 DEF StartAppleIDLogin, SubmitHardwareKey, EndLogin, finishLogin, FinishSession, AskCode
<1>9. ~SubmitPassword /\ ~SubmitCode /\ ~SubmitPasscode /\ ~CompleteLoginRow
  BY <1>8 DEF SubmitPassword, SubmitCode, SubmitPasscode, CompleteLoginRow
<1> QED
  BY <1>3, <1>4, <1>5, <1>6, <1>8, <1>9 DEF SessionNext, persistState

\* No eager save, late save of a replaced client or interrupted login puts a
\* session whose keys are gone over a backup that works, unless the row of the
\* lost keys could not be cleared (LoadUserLogin, persistState,
\* completeLoginWithMeta); rustpush must refuse a client without users.
THEOREM BackupIsKept == ~AnonymousClient => (SessionSpec => BackupKept)
<1> SUFFICES ASSUME ~AnonymousClient PROVE SessionSpec => BackupKept
  OBVIOUS
<1>1. KeptInv /\ [SessionNext]_sessionVars => KeptInv'
  BY StepKept
<1>2. KeptInv /\ [SessionNext]_sessionVars
          => [backup' # backup /\ Usable(backup) /\ ~uncleared => Usable(backup)']_sessionVars
  <2> SUFFICES ASSUME KeptInv, SessionNext, backup' # backup, Usable(backup), ~uncleared PROVE Usable(backup)'
    OBVIOUS
  <2>1. CASE LoadUserLogin
    <3>1. ~Blank(meta) /\ backup' = meta /\ UNCHANGED keys
      BY <2>1 DEF LoadUserLogin, EagerSave, saveSessionState
    <3>2. Settled
      BY DEF KeptInv, RowInv, UnsettledInv, Settled
    <3> QED
      BY <3>1, <3>2 DEF Settled, Usable
  <2>2. ASSUME NEW e \in Epochs, NEW t \in Threads, PersistFile(e, t) PROVE Usable(backup)'
    <3>1. backup' \in {persists[e][t].state, meta} /\ UNCHANGED keys
      BY <2>2 DEF PersistFile, saveSessionState
    <3>2. Usable(persists[e][t].state) /\ Usable(meta)
      BY <2>2, SaveRuns DEF PersistFile
    <3> QED
      BY <3>1, <3>2 DEF Usable
  <2>3. CASE CompleteLoginBackup
    <3>1. PICK account \in BOOLEAN : backup' = LoginSession(account)
      BY <2>3 DEF CompleteLoginBackup, saveSessionState
    <3>2. Usable(LoginSession(account)) /\ UNCHANGED keys
      BY <2>3, LoginSessionWorks DEF CompleteLoginBackup, LoginStays
    <3> QED
      BY <3>1, <3>2 DEF Usable
  <2> QED
    BY <2>1, <2>2, <2>3, BackupWriters
<1>3. SessionInit => KeptInv
  BY InitKept
<1> QED
  BY <1>1, <1>2, <1>3, PTL DEF SessionSpec, BackupKept

\* Only a login registers devices.
LEMMA Registers ==
    ASSUME SessionNext, issued' # issued
    PROVE  finishLogin /\ login.pc \in {"password", "code"}
<1>1. ~Start /\ ~Reset /\ ~KeysLost /\ ~LoadUserLogin
  BY DEF Start, Reset, KeysLost, LoadUserLogin
<1>2. ~Crash /\ ~Shutdown /\ ~FinishDisconnect /\ ~runReceiveWedgeWatchdog
  BY DEF Crash, Shutdown, FinishDisconnect, runReceiveWedgeWatchdog, BeginDisconnect, durable
<1>3. \A e \in Epochs : ~ConnectKeysLost(e) /\ ~Connect(e) /\ ~UpdateUsers(e) /\ ~StateSaveTick(e)
  BY DEF ConnectKeysLost, Connect, UpdateUsers, StateSaveTick, durable
<1>4. \A e \in Epochs : \A t \in Threads : ~persistState(e, t)
  BY DEF persistState, PersistOwner, PersistRow, PersistFile, durable
<1>5. ~LoginStays
  BY DEF LoginStays
<1>6. ~StartAppleIDLogin /\ ~SubmitHardwareKey /\ ~EndLogin /\ ~CompleteLoginBackup /\ \A n : ~AskCode(n)
  BY <1>5 DEF StartAppleIDLogin, SubmitHardwareKey, EndLogin, CompleteLoginBackup, AskCode
<1>7. ~SubmitPasscode /\ ~CompleteLoginRow
  BY DEF SubmitPasscode, CompleteLoginRow
<1>8. SubmitPassword \/ SubmitCode
  BY <1>1, <1>2, <1>3, <1>4, <1>6, <1>7 DEF SessionNext
<1> QED
  BY <1>6, <1>8 DEF SubmitPassword, SubmitCode

\* Every session there is, is of a device that was registered.
IssuedInv ==
    /\ row.identity <= issued /\ meta.identity <= issued /\ backup.identity <= issued
    /\ legacy => 1 <= issued
    /\ \A e \in Epochs : clients[e].identity <= issued
    /\ \A e \in Epochs : \A t \in Threads : persists[e][t].state.identity <= issued
    /\ login.device <= issued

LEMMA InitIssued == SessionInit => IssuedInv
<1> SUFFICES ASSUME SessionInit PROVE IssuedInv
  OBVIOUS
<1>1. NoSession.identity = 0 /\ NoSave.state.identity = 0 /\ NoClient.identity = 0 /\ NoLogin.device = 0
  BY DEF NoSession, NoSave, NoClient, NoLogin, Unset
<1>2. PICK saved : saved.identity = 1 /\ backup \in {NoSession, saved} /\ row = IF hasRow THEN saved ELSE NoSession
  BY DEF SessionInit
<1>3. /\ issued \in {0, 1} /\ (legacy \/ backup # NoSession => issued = 1) /\ (hasRow => backup = row)
      /\ legacy \in BOOLEAN /\ meta = NoSession /\ login = NoLogin
      /\ clients = [e \in Epochs |-> NoClient] /\ persists = [e \in Epochs |-> [t \in Threads |-> NoSave]]
  BY DEF SessionInit
<1>4. hasRow => backup # NoSession
  BY <1>1, <1>2, <1>3
<1> QED
  BY <1>1, <1>2, <1>3, <1>4 DEF IssuedInv

LEMMA LoadedIssued ==
    ASSUME KeptInv, IssuedInv, NEW s, loadSessionState(s)
    PROVE  s.identity <= issued /\ backup'.identity <= issued /\ (legacy' => legacy)
<1>1. issued \in Nat /\ NoSession.identity = 0 /\ LegacySession.identity = 1
  BY Nothing DEF KeptInv, SessionType, NoSession, Unset
<1>2. s \in {backup, NoSession} \/ (legacy /\ s = LegacySession)
  BY DEF loadSessionState
<1>3. backup' = backup \/ (legacy /\ backup' = LegacySession)
  BY DEF loadSessionState, saveSessionState
<1>4. legacy' => legacy
  BY DEF loadSessionState
<1> QED
  BY <1>1, <1>2, <1>3, <1>4 DEF IssuedInv

LEMMA CachedIssued ==
    ASSUME KeptInv, IssuedInv, NEW s, loadCachedSession(s)
    PROVE  s.identity <= issued /\ backup'.identity <= issued /\ (legacy' => legacy)
<1>1. CASE s = meta /\ UNCHANGED <<backup, legacy, sessionFaults>>
  BY <1>1 DEF IssuedInv
<1>2. CASE loadSessionState(s)
  BY <1>2, LoadedIssued
<1> QED
  BY <1>1, <1>2 DEF loadCachedSession

LEMMA ForgetIssued ==
    ASSUME KeptInv, IssuedInv, Forget, UNCHANGED durable
    PROVE  IssuedInv'
<1>1. NoSession.identity = 0 /\ NoSave.state.identity = 0 /\ NoClient.identity = 0 /\ NoLogin.device = 0 /\ issued \in Nat
  BY DEF NoSession, NoSave, NoClient, NoLogin, Unset, KeptInv, SessionType
<1> QED
  BY <1>1 DEF IssuedInv, Forget, durable

LEMMA RunIssued ==
    KeptInv /\ IssuedInv /\ (Start \/ Reset \/ KeysLost \/ Crash \/ Shutdown \/ runReceiveWedgeWatchdog \/ FinishDisconnect)
        => IssuedInv'
<1> SUFFICES ASSUME KeptInv, IssuedInv,
                    Start \/ Reset \/ KeysLost \/ Crash \/ Shutdown \/ runReceiveWedgeWatchdog \/ FinishDisconnect
             PROVE  IssuedInv'
  OBVIOUS
<1>1. NoSession.identity = 0 /\ issued \in Nat /\ SessionType
  BY DEF NoSession, Unset, KeptInv, SessionType
<1>2. CASE Start
  <2>1. row'.identity <= issued /\ backup'.identity <= issued /\ (legacy' => legacy)
    <3>1. CASE UNCHANGED <<row, backup, legacy>>
      BY <3>1 DEF IssuedInv
    <3>2. CASE \E s \in Readable : loadSessionState(s) /\ row' = IF Restorable(s) THEN s ELSE NoSession
      BY <1>1, <3>2, LoadedIssued
    <3> QED
      BY <1>2, <3>1, <3>2 DEF Start
  <2> QED
    BY <1>2, <2>1 DEF IssuedInv, Start
<1>3. CASE Reset \/ KeysLost
  <2>1. /\ row' = NoSession \/ row' = row
        /\ UNCHANGED <<issued, legacy, backup, meta, clients, persists, login>>
    BY <1>3 DEF Reset, KeysLost, volatile
  <2> QED
    BY <1>1, <2>1 DEF IssuedInv
<1>4. CASE Forget /\ UNCHANGED durable
  BY <1>4, ForgetIssued
<1>5. CASE /\ UNCHANGED <<durable, meta, persists, login>>
           /\ \E pc \in {"stopping", "gone"} : clients' = [clients EXCEPT ![owner].pc = pc]
  <2>1. \A e \in Epochs : clients'[e].identity = clients[e].identity
    BY <1>1, <1>5 DEF SessionType, Clients
  <2> QED
    BY <1>5, <2>1 DEF IssuedInv, durable
<1> QED
  BY <1>2, <1>3, <1>4, <1>5 DEF Crash, Shutdown, runReceiveWedgeWatchdog, FinishDisconnect, BeginDisconnect

LEMMA LoadIssued == KeptInv /\ IssuedInv /\ LoadUserLogin => IssuedInv'
<1> SUFFICES ASSUME KeptInv, IssuedInv, LoadUserLogin PROVE IssuedInv'
  OBVIOUS
<1>1. issued \in Nat /\ SessionType
  BY DEF KeptInv, SessionType
<1>2. OrNew(meta.identity, Anonymous) <= issued
  BY <1>1 DEF OrNew, Anonymous, IssuedInv, SessionType, Sessions
<1>3. \A f \in Epochs : clients'[f].identity = clients[f].identity \/ clients'[f].identity = OrNew(meta.identity, Anonymous)
  BY <1>1 DEF LoadUserLogin, SessionType
<1>4. backup' = backup \/ backup' = meta
  BY DEF LoadUserLogin, EagerSave, saveSessionState
<1> QED
  BY <1>2, <1>3, <1>4 DEF IssuedInv, LoadUserLogin

LEMMA ClientIssued ==
    ASSUME KeptInv, IssuedInv, NEW e \in Epochs, ConnectKeysLost(e) \/ Connect(e) \/ UpdateUsers(e) \/ StateSaveTick(e)
    PROVE  IssuedInv'
<1>1. issued \in Nat /\ SessionType
  BY DEF KeptInv, SessionType
<1>2. CASE ConnectKeysLost(e)
  <2>1. meta'.identity = 0 /\ (row' = meta' \/ row' = row)
    BY <1>1, <1>2 DEF ConnectKeysLost, Cleared, SessionType, Sessions, Unset
  <2>2. \A f \in Epochs : clients'[f].identity = clients[f].identity
    BY <1>1, <1>2 DEF ConnectKeysLost, SessionType, Clients, Hosts
  <2> QED
    BY <1>1, <1>2, <2>1, <2>2 DEF IssuedInv, ConnectKeysLost
<1>3. CASE Connect(e) \/ UpdateUsers(e) \/ StateSaveTick(e)
  <2>0. clients' = clients \/ \E pc \in {"joined", "bad"} : clients' = [clients EXCEPT ![e].pc = pc]
    BY <1>3 DEF Connect, UpdateUsers, StateSaveTick
  <2>a. clients \in [Epochs -> Clients]
    BY <1>1 DEF SessionType
  <2>1. \A f \in Epochs : clients'[f].identity = clients[f].identity
    BY <2>a, <2>0 DEF Clients
  <2>2. \A last : Snapshot(clients[e], last).state.identity = clients[e].identity
    BY DEF Snapshot, NoSession
  <2>3. UNCHANGED <<durable, meta, login>>
    BY <1>3 DEF Connect, UpdateUsers, StateSaveTick
  <2>4. \/ UNCHANGED persists
        \/ \E t \in Threads : \E last \in BOOLEAN : persists' = [persists EXCEPT ![e][t] = Snapshot(clients[e], last)]
    BY <1>3 DEF Connect, UpdateUsers, StateSaveTick, Threads
  <2>5. \A f \in Epochs : \A u \in Threads :
            persists'[f][u].state.identity \in {persists[f][u].state.identity, clients[e].identity}
    BY <1>1, <2>2, <2>4 DEF SessionType
  <2> QED
    BY <2>1, <2>3, <2>5 DEF IssuedInv, durable
<1> QED
  BY <1>2, <1>3

LEMMA SaveIssued ==
    ASSUME KeptInv, IssuedInv, NEW e \in Epochs, NEW t \in Threads, persistState(e, t)
    PROVE  IssuedInv'
<1>1. issued \in Nat /\ SessionType /\ NoSave.state.identity = 0 /\ UNCHANGED <<issued, legacy, login>>
  BY DEF KeptInv, SessionType, NoSave, NoSession, Unset, persistState, PersistOwner, PersistRow, PersistFile, durable
<1> DEFINE s == persists[e][t].state
<1>2. meta'.identity \in {meta.identity, s.identity} /\ row'.identity \in {row.identity, meta'.identity}
  BY <1>1 DEF persistState, PersistOwner, PersistRow, PersistFile, durable, SessionType, Sessions
<1>3. backup' \in {backup, meta, s}
  BY DEF persistState, PersistOwner, PersistRow, PersistFile, durable, saveSessionState
<1>4. CASE SaveReturns(e, t)
  <2>1. /\ \A f \in Epochs : clients'[f].identity = clients[f].identity
        /\ \A f \in Epochs : \A u \in Threads : f # e \/ u # t => persists'[f][u] = persists[f][u]
    BY <1>1, <1>4, Returns
  <2>2. persists'[e][t].state.identity = 0
    BY <1>1, <1>4 DEF SaveReturns, SessionType, NoSave
  <2> QED
    BY <1>1, <1>2, <1>3, <2>1, <2>2 DEF IssuedInv
<1>5. CASE UNCHANGED clients /\ \E n \in Saves : /\ persists' = [persists EXCEPT ![e][t] = n]
                                                 /\ n.state.identity \in {s.identity, meta'.identity}
  <2>1. /\ \A f \in Epochs : \A u \in Threads : f # e \/ u # t => persists'[f][u] = persists[f][u]
        /\ persists'[e][t].state.identity \in {s.identity, meta'.identity}
    BY <1>1, <1>5 DEF SessionType
  <2> QED
    BY <1>1, <1>2, <1>3, <1>5, <2>1 DEF IssuedInv
<1>6. CASE UNCHANGED clients /\ persists' = [persists EXCEPT ![e][t].pc = "own"]
  <2>1. [persists[e][t] EXCEPT !.pc = "own"] \in Saves /\ [persists[e][t] EXCEPT !.pc = "own"].state = s
    BY <1>1 DEF SessionType, Saves, Hosts
  <2> QED
    BY <1>5, <1>6, <2>1
<1>7. CASE UNCHANGED clients /\ persists' = [persists EXCEPT ![e][t] = [@ EXCEPT !.pc = "file", !.state = meta']] /\ meta' \in Sessions
  <2>1. persists[e][t] \in Saves
    BY <1>1 DEF SessionType
  <2>2. ASSUME NEW m \in Sessions, NEW n, n = [persists[e][t] EXCEPT !.pc = "file", !.state = m]
        PROVE  n \in Saves /\ n.state = m
    BY <2>1, <2>2 DEF Saves
  <2>3. PICK n : n = [persists[e][t] EXCEPT !.pc = "file", !.state = meta']
    OBVIOUS
  <2>4. n \in Saves /\ n.state = meta'
    BY <1>7, <2>2, <2>3
  <2>5. persists' = [persists EXCEPT ![e][t] = n]
    BY <1>1, <1>7, <2>3 DEF SessionType
  <2> QED
    BY <1>5, <1>7, <2>4, <2>5
<1>8. meta' \in Sessions
  <2>1. KeptInv'
    BY OwnerKeeps, RowKeeps, FileKeeps DEF persistState
  <2> QED
    BY <2>1 DEF KeptInv, SessionType
<1> QED
  BY <1>4, <1>6, <1>7, <1>8 DEF persistState, PersistOwner, PersistRow, PersistFile

\* A step of the login that registers no device.
LEMMA LoginStaysIssued ==
    ASSUME KeptInv, IssuedInv, LoginStays, backup'.identity <= issued, legacy' => legacy, login'.device <= issued
    PROVE  IssuedInv'
BY DEF IssuedInv, LoginStays

LEMMA LoginIssued ==
    KeptInv /\ IssuedInv
    /\ (StartAppleIDLogin \/ SubmitHardwareKey \/ SubmitPassword \/ SubmitCode \/ SubmitPasscode \/ CompleteLoginBackup
        \/ CompleteLoginRow)
        => IssuedInv'
<1> SUFFICES ASSUME KeptInv, IssuedInv,
                    \/ StartAppleIDLogin \/ SubmitHardwareKey \/ SubmitPassword \/ SubmitCode \/ SubmitPasscode
                    \/ CompleteLoginBackup \/ CompleteLoginRow
             PROVE  IssuedInv'
  OBVIOUS
<1>1. issued \in Nat /\ SessionType /\ NoLogin.device = 0 /\ login.device <= issued /\ login \in Logins
  BY DEF KeptInv, SessionType, NoLogin, IssuedInv
<1>2. CASE StartAppleIDLogin \/ SubmitHardwareKey
  <2>1. PICK s : loadCachedSession(s) /\ (OpenConnection(s, NoLogin) \/ OpenConnection(s, [NoLogin EXCEPT !.external = TRUE]))
    BY <1>2 DEF StartAppleIDLogin, SubmitHardwareKey
  <2>2. login'.device = 0
    BY <2>1 DEF OpenConnection, NoLogin
  <2> QED
    BY <1>1, <1>2, <2>1, <2>2, CachedIssued, LoginStaysIssued DEF StartAppleIDLogin, SubmitHardwareKey
<1>3. CASE EndLogin
  BY <1>1, <1>3, LoginStaysIssued DEF EndLogin, IssuedInv
<1>4. ASSUME NEW n, AskCode(n) PROVE IssuedInv'
  <2>1. login'.device = login.device
    BY <1>1, <1>4 DEF AskCode, Logins
  <2> QED
    BY <1>1, <1>4, <2>1, LoginStaysIssued DEF AskCode, IssuedInv
<1>5. CASE finishLogin
  <2>1. ASSUME NEW s, NEW device, device = finish(Validated(s)), FinishSession(s),
               issued' = (IF device > issued THEN device ELSE issued),
               login' = [login EXCEPT !.device = device, !.attempts = 0,
                                      !.pc = IF host.cloudkit THEN "passcode" ELSE "handle"],
               UNCHANGED <<row, meta, clients, persists>>
        PROVE  IssuedInv'
    <3>1. Validated(s).identity \in Nat /\ backup'.identity <= issued /\ (legacy' => legacy) /\ backup' \in Sessions
      BY <2>1, Caches, CachedIssued, Validates DEF FinishSession
    <3>2. device \in Nat /\ issued' \in Nat /\ issued <= issued' /\ device <= issued'
      BY <1>1, <2>1, <3>1 DEF finish
    <3>3. login'.device = device
      BY <1>1, <2>1 DEF Logins
    <3>4. \A n \in Int : n <= issued => n <= issued'
      BY <1>1, <3>2
    <3>5. row.identity \in Int /\ meta.identity \in Int /\ backup'.identity \in Int
      BY <1>1, <3>1 DEF SessionType, Sessions
    <3>6. \A e \in Epochs : clients[e].identity \in Int /\ \A t \in Threads : persists[e][t].state.identity \in Int
      BY <1>1 DEF SessionType, Sessions, Clients, Saves
    <3>7. row'.identity <= issued' /\ meta'.identity <= issued' /\ backup'.identity <= issued' /\ login'.device <= issued'
      BY <2>1, <3>1, <3>2, <3>3, <3>4, <3>5 DEF IssuedInv
    <3>8. legacy' => 1 <= issued'
      BY <3>1, <3>4 DEF IssuedInv
    <3>9. \A e \in Epochs : clients'[e].identity <= issued' /\ \A t \in Threads : persists'[e][t].state.identity <= issued'
      BY <2>1, <3>4, <3>6 DEF IssuedInv
    <3> QED
      BY <3>7, <3>8, <3>9 DEF IssuedInv
  <2> QED
    BY <1>3, <1>5, <2>1 DEF finishLogin
<1>6. CASE SubmitPassword \/ SubmitCode
  <2>1. EndLogin \/ finishLogin \/ \E n : AskCode(n)
    BY <1>6 DEF SubmitPassword, SubmitCode
  <2> QED
    BY <1>3, <1>4, <1>5, <2>1
<1>7. CASE SubmitPasscode
  <2>1. login'.device <= issued
    BY <1>1, <1>7 DEF SubmitPasscode, Logins
  <2> QED
    BY <1>7, <2>1 DEF SubmitPasscode, IssuedInv
<1>8. \A account : LoginSession(account).identity = login.device
  BY DEF LoginSession
<1>9. CASE CompleteLoginBackup
  <2>1. PICK account \in BOOLEAN : /\ login' = [login EXCEPT !.pc = "insert", !.account = account]
                                 /\ saveSessionState(LoginSession(account))
    BY <1>9 DEF CompleteLoginBackup
  <2>2. login'.device = login.device
    BY <1>1, <2>1 DEF Logins
  <2>3. backup'.identity \in {backup.identity, login.device}
    BY <1>8, <2>1 DEF saveSessionState
  <2>4. backup.identity <= issued /\ LoginStays /\ legacy' = legacy
    BY <1>9 DEF CompleteLoginBackup, IssuedInv
  <2>5. backup'.identity <= issued
    BY <1>1, <2>3, <2>4
  <2> QED
    BY <1>1, <2>2, <2>4, <2>5, LoginStaysIssued
<1>10. CASE CompleteLoginRow
  <2>1. row'.identity \in {row.identity, login.device} /\ meta'.identity \in {meta.identity, login.device}
    BY <1>8, <1>10 DEF CompleteLoginRow
  <2>2. \A f \in Epochs : clients'[f].identity \in {clients[f].identity, login.device}
    BY <1>1, <1>10 DEF CompleteLoginRow, SessionType
  <2> QED
    BY <1>1, <1>10, <2>1, <2>2 DEF IssuedInv, CompleteLoginRow
<1> QED
  BY <1>2, <1>6, <1>7, <1>9, <1>10

LEMMA StepIssued == KeptInv /\ IssuedInv /\ [SessionNext]_sessionVars => IssuedInv'
<1> SUFFICES ASSUME KeptInv, IssuedInv, [SessionNext]_sessionVars PROVE IssuedInv'
  OBVIOUS
<1>1. CASE UNCHANGED sessionVars
  BY <1>1 DEF sessionVars, durable, volatile, IssuedInv
<1> QED
  BY <1>1, RunIssued, LoadIssued, ClientIssued, SaveIssued, LoginIssued DEF SessionNext

\* No new device is registered while a session that works is saved, in the row
\* or in the backup (finishLogin, loadCachedSession, LoginSession::finish).
THEOREM DeviceIsReused == ~AnonymousClient => (SessionSpec => DeviceReused)
<1> SUFFICES ASSUME ~AnonymousClient PROVE SessionSpec => DeviceReused
  OBVIOUS
<1>1. KeptInv /\ IssuedInv /\ [SessionNext]_sessionVars => KeptInv' /\ IssuedInv'
  BY StepKept, StepIssued
<1>2. KeptInv /\ IssuedInv /\ [SessionNext]_sessionVars
          => [issued' # issued => ~Usable(backup) /\ ~Usable(meta)]_sessionVars
  <2> SUFFICES ASSUME KeptInv, IssuedInv, SessionNext, issued' # issued PROVE ~Usable(backup) /\ ~Usable(meta)
    OBVIOUS
  <2>1. finishLogin /\ login.pc # "none" /\ issued \in Nat
    BY Registers DEF KeptInv, SessionType
  <2>2. PICK s : /\ FinishSession(s)
                 /\ issued' = IF finish(Validated(s)) > issued THEN finish(Validated(s)) ELSE issued
    BY <2>1 DEF finishLogin, EndLogin, LoginStays
  <2>3. loadCachedSession(s) /\ s \in Sessions
    BY <2>2, Caches DEF FinishSession
  <2>4. s.identity <= issued
    BY <2>1, <2>3, CachedIssued
  <2>5. ~Usable(s)
    <3> SUFFICES ASSUME Usable(s) PROVE FALSE
      OBVIOUS
    <3>1. Validated(s) = s /\ s.identity > 0
      BY DEF Validated, ValidateKeystore, Usable
    <3>2. issued' = issued
      BY <2>1, <2>2, <2>3, <2>4, <3>1 DEF finish, Sessions
    <3> QED
      BY <3>2
  <2>6. CASE s = meta /\ hasRow /\ ~Blank(meta)
    BY <2>1, <2>5, <2>6, LoginRuns DEF Settled
  <2>7. CASE (~hasRow \/ Blank(meta)) /\ loadSessionState(s)
    <3>1. ~Usable(meta)
      BY <2>7, UsableWhole, HasRow DEF KeptInv
    <3>2. s = backup \/ backup = NoSession
      BY <2>7, Loads
    <3>3. ~Usable(backup)
      BY <2>5, <3>2, Nothing, UsableWhole DEF KeptInv
    <3> QED
      BY <3>1, <3>3
  <2> QED
    BY <2>3, <2>6, <2>7 DEF loadCachedSession
<1>3. SessionInit => KeptInv /\ IssuedInv
  BY InitKept, InitIssued
<1> QED
  BY <1>1, <1>2, <1>3, PTL DEF SessionSpec, DeviceReused
\* ResetRestores: what check-restore accepts is what the start accepts, and
\* nothing in between takes it away but the loss of the keystore.
LEMMA InitOwed == SessionInit => StoppedInv /\ OwedInv
BY InitKept DEF KeptInv

LEMMA StepOwed == StoppedInv /\ OwedInv /\ [SessionNext]_sessionVars => StoppedInv' /\ OwedInv'
<1> SUFFICES ASSUME StoppedInv, OwedInv, [SessionNext]_sessionVars PROVE StoppedInv' /\ OwedInv'
  OBVIOUS
<1>1. CASE Start
  <2>1. running' /\ ~running /\ UNCHANGED <<host, keys, clique>>
    BY <1>1 DEF Start
  <2>2. ~owed'
    <3>1. CASE hasRow
      BY <1>1, <3>1 DEF Start, OwedInv
    <3>2. CASE ~hasRow
      BY <1>1, <3>2 DEF Start, OwedInv, loadSessionState
    <3> QED
      BY <3>1, <3>2
  <2> QED
    BY <2>1, <2>2 DEF StoppedInv, OwedInv
<1>2. CASE Reset
  <2>1. host \in Hosts
    BY DEF OwedInv
  <2>2. /\ ~running /\ backup # NoSession /\ CheckSessionRestore(host.cloudkit) /\ hasRow' = FALSE
        /\ UNCHANGED <<keys, clique, backup, running, meta, owner, clients, persists, loader, login>>
    BY <1>2 DEF Reset, volatile
  <2>3. StoppedInv'
    BY <2>2 DEF StoppedInv
  <2>a. host' \in Hosts
    BY <1>2, <2>1, NewConfig
  <2>4. CASE ~owed'
    BY <2>3, <2>4, <2>a DEF OwedInv
  <2>5. CASE owed'
    <3>1. /\ host' \in Hosts /\ host'.darwin = host.darwin /\ (host'.cloudkit => host.cloudkit)
          /\ host'.admin /\ HasLoginID(backup.users)
      BY <1>2, <2>1, <2>5, NewConfig
    <3>2. Complete(backup)' /\ (host'.cloudkit => clique')
      BY <2>2, <3>1 DEF CheckSessionRestore, Complete, ValidateKeystore
    <3>3. Restorable(backup)'
      BY <2>2, <3>1, <3>2 DEF Restorable, HasLoginID
    <3> QED
      BY <2>2, <2>3, <3>1, <3>3 DEF OwedInv
  <2>6. owed' \in BOOLEAN
    BY <1>2 DEF Reset
  <2> QED
    BY <2>4, <2>5, <2>6, Zenon
<1>3. CASE KeysLost
  BY <1>3 DEF KeysLost, volatile, StoppedInv, OwedInv
<1>4. CASE Forget /\ running /\ UNCHANGED <<durable, owed>>
  <2>1. StoppedInv'
    BY <1>4, Nobody DEF Forget, StoppedInv
  <2> QED
    BY <1>4, <2>1 DEF OwedInv, durable
<1>5. CASE running /\ UNCHANGED <<running, owed, host>>
  BY <1>5 DEF StoppedInv, OwedInv
<1>6. CASE UNCHANGED sessionVars
  BY <1>6 DEF sessionVars, durable, volatile, StoppedInv, OwedInv, Restorable, Complete, ValidateKeystore, HasLoginID
<1>7. CASE LoadUserLogin
  BY <1>5, <1>7 DEF LoadUserLogin, StoppedInv
<1>8. CASE Crash \/ Shutdown \/ runReceiveWedgeWatchdog \/ FinishDisconnect
  BY <1>4, <1>5, <1>8 DEF Crash, Shutdown, runReceiveWedgeWatchdog, BeginDisconnect, FinishDisconnect, StoppedInv, durable
<1>9. ASSUME NEW e \in Epochs, ConnectKeysLost(e) \/ Connect(e) \/ UpdateUsers(e) \/ StateSaveTick(e)
      PROVE  StoppedInv' /\ OwedInv'
  BY <1>5, <1>9 DEF ConnectKeysLost, Connect, UpdateUsers, StateSaveTick, StoppedInv, durable
<1>10. ASSUME NEW e \in Epochs, NEW t \in Threads, persistState(e, t)
       PROVE  StoppedInv' /\ OwedInv'
  BY <1>5, <1>10 DEF persistState, PersistOwner, PersistRow, PersistFile, StoppedInv, durable
<1>11. CASE StartAppleIDLogin \/ SubmitHardwareKey
  BY <1>5, <1>11 DEF StartAppleIDLogin, SubmitHardwareKey, LoginStays
<1>12. CASE SubmitPassword \/ SubmitCode
  <2>1. running
    BY <1>12 DEF SubmitPassword, SubmitCode, StoppedInv
  <2>2. LoginStays \/ UNCHANGED <<running, owed, host>>
    BY <1>12 DEF SubmitPassword, SubmitCode, EndLogin, AskCode, finishLogin
  <2> QED
    BY <1>5, <2>1, <2>2 DEF LoginStays
<1>13. CASE SubmitPasscode \/ CompleteLoginBackup \/ CompleteLoginRow
  BY <1>5, <1>13 DEF SubmitPasscode, CompleteLoginBackup, CompleteLoginRow, LoginStays, StoppedInv
<1> QED
  BY <1>1, <1>2, <1>3, <1>6, <1>7, <1>8, <1>9, <1>10, <1>11, <1>12, <1>13 DEF SessionNext

\* The start after a reset that check-restore allowed has the login back
\* (reset-bridge.sh, CheckSessionRestore, tryAutoRestore), if the setup did not
\* turn CloudKit on and named an admin and the session has a login ID; also when
\* rustpush made clients without users.
THEOREM ResetIsRestored == SessionSpec => []ResetRestores
<1>1. OwedInv => ResetRestores
  BY DEF OwedInv, ResetRestores
<1> QED
  BY <1>1, InitOwed, StepOwed, PTL DEF SessionSpec

=============================================================================
