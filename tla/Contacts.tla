---- MODULE Contacts ----
(***************************************************************************)
(* The address book behind the ghosts' names and photos: the CardDAV       *)
(* clients of cloud_contacts.go (iCloud) and external_carddav.go, the loop *)
(* of client.go that keeps one of them in sync, and the reconcile of       *)
(* sync_controller.go that brings the ghosts up to date after each sync.   *)
(*                                                                         *)
(* One contact stands for the address book.  Its card has a name and a     *)
(* photo URL, both numbered by edit; a photo is named by the URL it was    *)
(* downloaded from.  Requests, XML and vCards are abstracted to whether    *)
(* the card was received.                                                  *)
(***************************************************************************)
EXTENDS Naturals

CONSTANTS
    Refreshers,       \* reconciles that may overlap
    MaxCardEdits,     \* bound: edits of the card
    MaxContactFaults  \* bound: failed requests, lapses of the delegate, restarts

ASSUME ContactsAssumption == MaxCardEdits \in Nat /\ MaxContactFaults \in Nat

VARIABLES
    card,      \* the server's card
    setup,     \* configuration: the kind of server and the photo's host
    delegate,  \* a contacts URL and a DSID are to be had
    source,    \* c.contacts: "none", "nil" (a typed nil) or "client"
    book,      \* the client's byPhone and byEmail: the card or NoCard
    deadURLs,  \* deadContactPhotoURLs
    loop,      \* the contact loop: "connect", "retry", "periodic", "off"
    fetch,     \* SyncContacts under way
    refresher, \* refreshGhostNamesFromContacts goroutines
    face,      \* the ghost: name and photo
    panicked,  \* the process has died of a nil dereference
    faults

contactVars == <<card, setup, delegate, source, book, deadURLs, loop, fetch, refresher,
                 face, panicked, faults>>

NoCard == [name |-> 0, url |-> 0, photo |-> 0]
NoFetch == [pc |-> "idle", fresh |-> NoCard]
NoReconcile == [pc |-> "idle", named |-> FALSE, info |-> NoCard]

\* A ghost shows nothing yet, no name, its identifier or its contact's name.
NoFace == [shows |-> "absent", name |-> 0, photo |-> 0]
Nameless == [shows |-> "nothing", name |-> 0, photo |-> 0]

ContactsInit ==
    /\ card = [name |-> 1, url |-> 1]
    /\ setup \in [kind : {"icloud", "carddav"}, apple : BOOLEAN]
    /\ delegate \in BOOLEAN
    /\ source = "none" /\ book = NoCard /\ deadURLs = {}
    /\ loop = "connect" /\ fetch = NoFetch
    /\ refresher = [r \in Refreshers |-> NoReconcile]
    /\ face = NoFace /\ panicked = FALSE /\ faults = 0

ContactFault == faults < MaxContactFaults /\ faults' = faults + 1
NoFault == UNCHANGED faults

-----------------------------------------------------------------------------
(* The user edits the card: the name, or the photo and so its URL.         *)
EditCard ==
    /\ card.name + card.url < MaxCardEdits + 2
    /\ \/ card' = [card EXCEPT !.name = @ + 1]
       \/ card' = [card EXCEPT !.url = @ + 1]
    /\ UNCHANGED <<setup, delegate, source, book, deadURLs, loop, fetch, refresher, face,
                   panicked, faults>>

(* The MobileMe delegate, or the address of the server, is lost or found.  *)
DelegateChanges ==
    /\ delegate' = ~delegate
    /\ IF delegate THEN ContactFault ELSE NoFault
    /\ UNCHANGED <<card, setup, source, book, deadURLs, loop, fetch, refresher, face,
                   panicked>>

-----------------------------------------------------------------------------
(* SyncContacts: discovery and the fetch of the address books, the photos, *)
(* and the exchange of the cache.                                          *)

Listing == [pc |-> "discover", fresh |-> NoCard]

\* Principal, home and list of address books.  A request that fails ends the
\* sync with an error, which leaves the cache as it is.
discover(ok) ==
    /\ fetch.pc = "discover"
    /\ fetch' = [fetch EXCEPT !.pc = IF ok THEN "books" ELSE "failed"]
    /\ IF ok THEN NoFault ELSE ContactFault
    /\ UNCHANGED <<card, setup, delegate, source, book, deadURLs, loop, refresher, face,
                   panicked>>

DiscoverICloud(ok) == setup.kind = "icloud" /\ discover(ok)
DiscoverExternal(ok) == setup.kind = "carddav" /\ discover(ok)

parseVCard == [name |-> card.name, url |-> card.url, photo |-> 0]

\* An address book that cannot be read is skipped: the sync goes on, and
\* succeeds, without its contacts.
receive(got) ==
    /\ fetch.pc = "books"
    /\ fetch' = [pc |-> "photos", fresh |-> IF got THEN parseVCard ELSE NoCard]
    /\ IF got THEN NoFault ELSE ContactFault
    /\ UNCHANGED <<card, setup, delegate, source, book, deadURLs, loop, refresher, face,
                   panicked>>

FetchICloudCards(got) == setup.kind = "icloud" /\ receive(got)
FetchExternalCards(got) == setup.kind = "carddav" /\ receive(got)

\* Mutation: a photo is carried over whatever its URL.
carryOverAvatarsAlways(c) ==
    IF setup.kind = "icloud" /\ c.url # 0 /\ book.photo # 0
    THEN [c EXCEPT !.photo = book.photo] ELSE c

\* iCloud only: the photo of an unchanged URL is not downloaded again.
carryOverAvatars(c) ==
    IF setup.kind = "icloud" /\ c.url # 0 /\ book.photo # 0 /\ book.url = c.url
    THEN [c EXCEPT !.photo = book.photo] ELSE c

contactPhotoURLDead(url) == url \in deadURLs

\* "gone" is 404 or 410, "denied" is 401 or 403, "error" is anything else.
photoFailurePermanentForHost(answer) ==
    answer = "gone" \/ (answer = "denied" /\ ~setup.apple)

\* downloadContactPhotos: a dead URL is cleared for this sync, the others are
\* fetched.
DownloadContactPhotos(answer) ==
    LET c == carryOverAvatars(fetch.fresh)
        needs == c.url # 0 /\ c.photo = 0
        dead == needs /\ contactPhotoURLDead(c.url)
        asks == needs /\ ~dead
    IN
    /\ fetch.pc = "photos"
    /\ answer # "ok" => asks
    /\ IF answer = "ok" THEN NoFault ELSE ContactFault
    /\ deadURLs' = IF asks /\ photoFailurePermanentForHost(answer)
                   THEN deadURLs \cup {c.url} ELSE deadURLs
    /\ fetch' = [pc |-> "install",
                 fresh |-> IF dead THEN [c EXCEPT !.url = 0]
                           ELSE IF asks /\ answer = "ok" THEN [c EXCEPT !.photo = c.url]
                           ELSE c]
    /\ UNCHANGED <<card, setup, delegate, source, book, loop, refresher, face, panicked>>

\* deadContactPhotoURLTTL has passed.
ForgetDead(url) ==
    /\ url \in deadURLs
    /\ deadURLs' = deadURLs \ {url}
    /\ UNCHANGED <<card, setup, delegate, source, book, loop, fetch, refresher, face,
                   panicked, faults>>

\* setContactsReady starts a reconcile after every successful sync.
StartReconcile ==
    \E r \in Refreshers :
        /\ refresher[r].pc = "idle"
        /\ refresher' = [refresher EXCEPT ![r] = [NoReconcile EXCEPT !.pc = "scan"]]

InstallContacts ==
    /\ fetch.pc = "install"
    /\ book' = fetch.fresh /\ fetch' = NoFetch
    /\ StartReconcile
    /\ loop' = "periodic"
    /\ UNCHANGED <<card, setup, delegate, source, deadURLs, face, panicked, faults>>

\* The first sync of Connect and a periodic one leave the periodic loop
\* running; one of the retry loop's leaves that loop retrying.
SyncFails ==
    /\ fetch.pc = "failed"
    /\ fetch' = NoFetch
    /\ loop' = IF loop = "connect" THEN "periodic" ELSE loop
    /\ UNCHANGED <<card, setup, delegate, source, book, deadURLs, refresher, face,
                   panicked, faults>>

-----------------------------------------------------------------------------
(* The loop.  iCloud's client is made anew by every retry.  Connect holds  *)
(* the result in a variable of the client's type; retryCloudContacts       *)
(* assigns it to the interface c.contacts, which is then not nil whatever  *)
(* the pointer is, and calls SyncContacts on it.                           *)

newExternalCardDAVClient == delegate
newCloudContactsClient == IF delegate THEN "client" ELSE "nil"

ConnectContacts ==
    /\ loop = "connect" /\ fetch.pc = "idle"
    /\ \/ /\ setup.kind = "carddav" /\ newExternalCardDAVClient
          /\ source' = "client" /\ fetch' = Listing
          /\ UNCHANGED loop
       \/ /\ setup.kind = "carddav" /\ ~newExternalCardDAVClient
          /\ loop' = "off" /\ UNCHANGED <<source, fetch>>
       \/ /\ setup.kind = "icloud" /\ newCloudContactsClient = "client"
          /\ source' = "client" /\ fetch' = Listing
          /\ UNCHANGED loop
       \/ /\ setup.kind = "icloud" /\ newCloudContactsClient = "nil"
          /\ loop' = "retry" /\ UNCHANGED <<source, fetch>>
    /\ UNCHANGED <<card, setup, delegate, book, deadURLs, refresher, face, panicked, faults>>

PeriodicCloudContactSync ==
    /\ loop = "periodic" /\ fetch.pc = "idle" /\ ~panicked
    /\ fetch' = Listing
    /\ UNCHANGED <<card, setup, delegate, source, book, deadURLs, loop, refresher, face,
                   panicked, faults>>

\* The typed nil is dereferenced in discoverPrincipal.
RetryCloudContacts ==
    /\ loop = "retry" /\ fetch.pc = "idle" /\ ~panicked
    /\ source' = newCloudContactsClient
    /\ book' = NoCard
    /\ IF source' = "nil"
       THEN panicked' = TRUE /\ UNCHANGED fetch
       ELSE fetch' = Listing /\ UNCHANGED panicked
    /\ UNCHANGED <<card, setup, delegate, deadURLs, loop, refresher, face, faults>>

\* The process starts again: after a panic, or for another reason.
ContactsRestart ==
    /\ IF panicked THEN NoFault ELSE ContactFault
    /\ panicked' = FALSE
    /\ source' = "none" /\ book' = NoCard /\ deadURLs' = {}
    /\ loop' = "connect" /\ fetch' = NoFetch
    /\ refresher' = [r \in Refreshers |-> NoReconcile]
    /\ UNCHANGED <<card, setup, delegate, face>>

-----------------------------------------------------------------------------
(* Ghosts.  GetUserInfo takes the contact over the identifier; a photo     *)
(* that is not here yet is asked for when the profile is written.          *)

GetContactInfo == IF source = "client" THEN book ELSE NoCard
HasContact(c) == c.name # 0

GetUserInfo == GetContactInfo

\* UpdateInfo of the bridge framework: a photo that is not to be had leaves
\* the old one.
UpdateInfo(info) ==
    LET photo == IF info.photo # 0 THEN info.photo
                 ELSE IF info.url # 0 THEN GetContactInfo.photo ELSE 0
    IN [shows |-> IF HasContact(info) THEN "contact" ELSE "identifier",
        name |-> info.name,
        photo |-> IF photo # 0 THEN photo ELSE face.photo]

\* A message or the backfill brings the ghost into being; the end of the
\* forward backfill reconciles it again.
GhostAppears ==
    /\ face = NoFace /\ ~panicked
    /\ \/ face' = UpdateInfo(GetUserInfo)
       \/ face' = Nameless
    /\ UNCHANGED <<card, setup, delegate, source, book, deadURLs, loop, fetch, refresher,
                   panicked, faults>>

Scan(r) ==
    /\ refresher[r].pc = "scan" /\ ~panicked
    /\ refresher' = [refresher EXCEPT ![r] =
            IF face = NoFace \/ source = "none" THEN NoReconcile
            ELSE [@ EXCEPT !.pc = "look", !.named = face.shows # "nothing"]]
    /\ UNCHANGED <<card, setup, delegate, source, book, deadURLs, loop, fetch, face,
                   panicked, faults>>

\* Mutation: a ghost that has a name is left alone.
NeedsReconcileUnnamed(r) == ~refresher[r].named

NeedsReconcile(r) == HasContact(GetContactInfo) \/ ~refresher[r].named

Look(r) ==
    /\ refresher[r].pc = "look" /\ ~panicked
    /\ refresher' = [refresher EXCEPT ![r] =
            IF NeedsReconcile(r) THEN [@ EXCEPT !.pc = "info"] ELSE NoReconcile]
    /\ UNCHANGED <<card, setup, delegate, source, book, deadURLs, loop, fetch, face,
                   panicked, faults>>

\* The profile is made before the pause that paces the writes.
TakeInfo(r) ==
    /\ refresher[r].pc = "info" /\ ~panicked
    /\ refresher' = [refresher EXCEPT ![r] = [@ EXCEPT !.pc = "write", !.info = GetUserInfo]]
    /\ UNCHANGED <<card, setup, delegate, source, book, deadURLs, loop, fetch, face,
                   panicked, faults>>

WriteInfo(r) ==
    /\ refresher[r].pc = "write" /\ ~panicked
    /\ face' = UpdateInfo(refresher[r].info)
    /\ refresher' = [refresher EXCEPT ![r] = NoReconcile]
    /\ UNCHANGED <<card, setup, delegate, source, book, deadURLs, loop, fetch, panicked,
                   faults>>

-----------------------------------------------------------------------------
Reconcile(r) == Scan(r) \/ Look(r) \/ TakeInfo(r) \/ WriteInfo(r)

SyncStep ==
    /\ ~panicked
    /\ \/ \E ok \in BOOLEAN : DiscoverICloud(ok) \/ DiscoverExternal(ok)
       \/ \E got \in BOOLEAN : FetchICloudCards(got) \/ FetchExternalCards(got)
       \/ \E a \in {"ok", "gone", "denied", "error"} : DownloadContactPhotos(a)
       \/ InstallContacts
       \/ SyncFails
       \/ ConnectContacts
       \/ PeriodicCloudContactSync
       \/ RetryCloudContacts

ContactsNext ==
    \/ EditCard \/ DelegateChanges
    \/ SyncStep
    \/ \E u \in deadURLs : ForgetDead(u)
    \/ GhostAppears
    \/ \E r \in Refreshers : Reconcile(r)
    \/ ContactsRestart

\* Timers fire, requests are answered or time out (30 s, 60 s for photos), a
\* delegate is fetched again, a supervisor restarts a process that died.
ContactsFairness ==
    /\ WF_contactVars(SyncStep)
    /\ \A u \in 1 .. MaxCardEdits + 1 : WF_contactVars(ForgetDead(u))
    /\ \A r \in Refreshers : WF_contactVars(Reconcile(r))
    /\ WF_contactVars(~delegate /\ DelegateChanges)
    /\ WF_contactVars(panicked /\ ContactsRestart)
    /\ WF_contactVars(GhostAppears)

ContactsSpec == ContactsInit /\ [][ContactsNext]_contactVars /\ ContactsFairness

-----------------------------------------------------------------------------
\* A cached photo is the one the cached card names: a contact who changes
\* photo is downloaded again, whatever was carried over from the last sync.
PhotoMatchesCard == book.photo \in {0, book.url}

\* However syncs fail, photos are refused and reconciles overlap, a ghost whose
\* contact can be had ends up with the name and the photo of the card: no
\* restart, throttling storm or stale write leaves it blank for good.
FaceSettles ==
    <>[](source = "client" => face.name = card.name /\ face.photo = card.url)

\* The ghost of a contact follows the card.
FaceFollowsCard == []PhotoMatchesCard /\ FaceSettles

\* A periodic retry while contacts are still unavailable (periodicCloudContactSync,
\* retryCloudContacts) leaves the bridge running.
RetrySurvives == ~panicked

=============================================================================
