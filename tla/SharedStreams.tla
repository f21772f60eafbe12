---- MODULE SharedStreams ----
(***************************************************************************)
(* Shared albums (sharedstreams.go): the watcher that announces new        *)
(* content, the two-step command that picks an album and then assets, and  *)
(* the downloads into a room of the album's own.                           *)
(*                                                                         *)
(* An asset is the number of its addition to its album, so a newer asset   *)
(* has a larger number.  Media conversion is abstracted to whether there   *)
(* is something to upload and whether the upload succeeded.                *)
(***************************************************************************)
EXTENDS Naturals, Sequences, FiniteSets

CONSTANTS
    Albums,          \* shared albums
    AssetsAtStart,   \* assets of each album at the start
    Inputs,          \* replies to the list of assets: sequences of ranges
    ListMax,         \* assets a list shows: 50
    Downloads,       \* downloads that may run at once
    Handlers,        \* commands and replies that may be handled at once
    MaxAlbumEdits,   \* bound: additions, removals and metadata changes
    MaxBrowses,      \* bound: uses of shared-albums
    MaxAlbumFaults   \* bound: failed calls and restarts

ASSUME SharedStreamsAssumption ==
    /\ AssetsAtStart \in Nat /\ ListMax \in Nat \ {0}
    /\ MaxAlbumEdits \in Nat /\ MaxBrowses \in Nat /\ MaxAlbumFaults \in Nat

VARIABLES
    album,      \* iCloud: assets, number added so far, subscribed or not
    unreported, \* albums with a change that GetChanges has not reported
    baseline,   \* sharedStreamAssetCache
    poll,       \* pollSharedStreams under way
    notices,    \* notices that named the album
    albumRoom,  \* sharedAlbumRooms: the album's room, or 0
    openRooms,  \* rooms that exist
    roomsMade,  \* rooms made so far
    handler,    \* fnSharedAlbums and handleAlbumSelection under way
    command,    \* the command state of the user
    listed,     \* the list of assets the user saw last
    offered,    \* all the lists of assets that replies were made of
    download,   \* downloadSharedAlbumAssets goroutines
    browses, albumEdits, albumFaults

albumVars == <<album, unreported, baseline, poll, notices, albumRoom, openRooms, roomsMade,
               handler, command, listed, offered, download, browses, albumEdits, albumFaults>>

NoBaseline == {0}   \* no asset has the number 0
NoPoll == [pc |-> "idle", todo |-> <<>>, notify |-> {}]
NoList == [album |-> "none", shown |-> <<>>]
NoCommand == [step |-> "none", choices |-> {}, list |-> NoList, plain |-> FALSE]
NoHandler == [pc |-> "none", choices |-> {}, list |-> NoList, plain |-> FALSE]
\* meant is the list the user had seen last when the reply was given.
NoDownload == [pc |-> "none", room |-> 0, album |-> "none", picks |-> {}, meant |-> NoList,
               plain |-> FALSE, picked |-> {}, todo |-> {}, failed |-> 0, sent |-> 0]

StreamsInit ==
    /\ album = [a \in Albums |-> [assets |-> 1 .. AssetsAtStart, added |-> AssetsAtStart,
                                  subscribed |-> TRUE]]
    /\ unreported = {} /\ poll = NoPoll
    /\ baseline = [a \in Albums |-> NoBaseline]
    /\ notices = [a \in Albums |-> 0]
    /\ albumRoom = [a \in Albums |-> 0] /\ openRooms = {} /\ roomsMade = 0
    /\ handler = [h \in Handlers |-> NoHandler]
    /\ command = NoCommand /\ listed = NoList /\ offered = {}
    /\ download = [d \in Downloads |-> NoDownload]
    /\ browses = 0 /\ albumEdits = 0 /\ albumFaults = 0

AlbumFault == albumFaults < MaxAlbumFaults /\ albumFaults' = albumFaults + 1
NoAlbumFault == UNCHANGED albumFaults

watching == <<baseline, poll, notices>>
albumRooms == <<albumRoom, openRooms, roomsMade>>
replies == <<handler, command, listed, offered, browses>>
browsing == <<albumRooms, replies, download>>

-----------------------------------------------------------------------------
(* The album changes: by somebody else, or by shared-delete-assets.        *)

AlbumChanges(a) ==
    /\ albumEdits < MaxAlbumEdits /\ albumEdits' = albumEdits + 1
    /\ album[a].subscribed
    /\ \/ album' = [album EXCEPT ![a] = [album[a] EXCEPT !.assets = @ \cup {album[a].added + 1},
                                                         !.added = @ + 1]]
       \/ UNCHANGED album
    /\ unreported' = unreported \cup {a}
    /\ UNCHANGED <<watching, browsing, albumFaults>>

SharedDeleteAssets(a, n) ==
    /\ albumEdits < MaxAlbumEdits /\ albumEdits' = albumEdits + 1
    /\ n \in album[a].assets
    /\ album' = [album EXCEPT ![a] = [album[a] EXCEPT !.assets = @ \ {n}]]
    /\ unreported' = unreported \cup {a}
    /\ UNCHANGED <<watching, browsing, albumFaults>>

\* shared-subscribe, shared-subscribe-token and shared-unsubscribe.
Subscribe(a, on) ==
    /\ albumEdits < MaxAlbumEdits /\ albumEdits' = albumEdits + 1
    /\ album[a].subscribed # on
    /\ album' = [album EXCEPT ![a] = [@ EXCEPT !.subscribed = on]]
    /\ UNCHANGED <<unreported, watching, browsing, albumFaults>>

-----------------------------------------------------------------------------
(* The watcher: the changed albums are asked for their assets one by one.  *)
(* An album is due for a notice if it has an asset its last summary had    *)
(* not; the first summary of a session only sets the baseline.             *)

\* Apple lists the changed albums in any order.
Orders(s) == {q \in [1 .. Cardinality(s) -> s] : \A a \in s : \E i \in DOMAIN q : q[i] = a}

GetChanges ==
    /\ poll.pc = "idle" /\ unreported # {}
    /\ \/ NoAlbumFault /\ unreported' = {}
          /\ \E q \in Orders(unreported) :
                poll' = [NoPoll EXCEPT !.pc = "summaries", !.todo = q]
       \/ AlbumFault /\ UNCHANGED <<poll, unreported>>
    /\ UNCHANGED <<album, baseline, notices, browsing, albumEdits>>

\* Mutation: an album without a baseline counts as empty.
hasNewAssetsUnbased(a) == album[a].assets \ baseline[a] # {}

hasNewAssets(a) == baseline[a] # NoBaseline /\ album[a].assets \ baseline[a] # {}

\* recordSharedStreamAssets; an error of one summary ends the poll, and with it
\* the notices of the albums before.
GetAlbumSummary ==
    LET a == Head(poll.todo) IN
    /\ poll.pc = "summaries" /\ poll.todo # <<>>
    /\ \/ /\ NoAlbumFault
          /\ baseline' = [baseline EXCEPT ![a] = album[a].assets]
          /\ poll' = [poll EXCEPT !.todo = Tail(@),
                         !.notify = IF hasNewAssets(a) THEN @ \cup {a} ELSE @]
       \/ AlbumFault /\ poll' = NoPoll /\ UNCHANGED baseline
    /\ UNCHANGED <<album, unreported, notices, browsing, albumEdits>>

\* One notice names all the albums; without a management room there is none.
PostNotice ==
    /\ poll.pc = "summaries" /\ poll.todo = <<>>
    /\ poll' = NoPoll
    /\ \/ /\ NoAlbumFault
          /\ notices' = [a \in Albums |-> notices[a] + IF a \in poll.notify THEN 1 ELSE 0]
       \/ poll.notify # {} /\ AlbumFault /\ UNCHANGED notices
    /\ UNCHANGED <<album, unreported, baseline, browsing, albumEdits>>

-----------------------------------------------------------------------------
(* Browsing.  The user picks an album, sees its newest assets, and picks   *)
(* from the list; a reply goes to whatever the command state is then.      *)
(* Each command and each reply is handled by a goroutine of its own, which *)
(* waits for iCloud and for its own reply to be sent.                      *)

Free(h) == handler[h].pc = "none"
Returns(h) == handler' = [handler EXCEPT ![h] = NoHandler]

\* The albums are read and named in a reply.
SharedAlbums(h) ==
    /\ Free(h) /\ browses < MaxBrowses /\ browses' = browses + 1
    /\ \E a \in Albums : album[a].subscribed
    /\ handler' = [handler EXCEPT ![h] =
                      [pc |-> "albums", choices |-> {a \in Albums : album[a].subscribed},
                       list |-> NoList, plain |-> FALSE]]
    /\ UNCHANGED <<album, unreported, watching, albumRooms, command, listed, offered, download,
                   albumEdits, albumFaults>>

StoreAlbums(h) ==
    /\ handler[h].pc = "albums" /\ Returns(h)
    /\ command' = [NoCommand EXCEPT !.step = "album", !.choices = handler[h].choices]
    /\ UNCHANGED <<album, unreported, watching, albumRooms, listed, offered, download, browses,
                   albumEdits, albumFaults>>

ListSize(s) == IF Cardinality(s) > ListMax THEN ListMax ELSE Cardinality(s)

\* The newest of s from the newest on.
NewestFirst(s) ==
    {l \in [1 .. ListSize(s) -> s] :
        /\ \A i, j \in DOMAIN l : i < j => l[i] > l[j]
        /\ \A i \in DOMAIN l : \A x \in s : x > l[i] => \E j \in DOMAIN l : l[j] = x}

Selects(h) == handler[h].pc \in {"fetch", "list", "store"}

\* A number picks from the albums that were named, one that was left since
\* too.  plain says that no other selection is under way at any time of it, and
\* that its list is sent.
HandleAlbumSelection(h, a) ==
    /\ Free(h) /\ command.step = "album" /\ a \in command.choices
    /\ command' = NoCommand
    /\ handler' = [g \in Handlers |->
          IF g = h THEN [pc |-> "fetch", choices |-> {}, list |-> [NoList EXCEPT !.album = a],
                         plain |-> \A k \in Handlers : ~ Selects(k)]
          ELSE [handler[g] EXCEPT !.plain = FALSE]]
    /\ UNCHANGED <<album, unreported, watching, albumRooms, listed, offered, download, browses,
                   albumEdits, albumFaults>>

\* An album without assets, or an error, is told to the user, and no more.
GetAlbumAssets(h) ==
    LET a == handler[h].list.album IN
    /\ handler[h].pc = "fetch"
    /\ \/ /\ NoAlbumFault /\ album[a].assets # {}
          /\ \E l \in NewestFirst(album[a].assets) :
                handler' = [handler EXCEPT ![h] =
                   [handler[h] EXCEPT !.pc = "list", !.list = [album |-> a, shown |-> l]]]
       \/ album[a].assets = {} /\ NoAlbumFault /\ Returns(h)
       \/ AlbumFault /\ Returns(h)
    /\ UNCHANGED <<album, unreported, watching, albumRooms, command, listed, offered, download,
                   browses, albumEdits>>

\* A reply that cannot be sent is not noticed.
ShowList(h) ==
    /\ handler[h].pc = "list"
    /\ offered' = offered \cup {handler[h].list}
    /\ \/ /\ NoAlbumFault /\ listed' = handler[h].list
          /\ handler' = [handler EXCEPT ![h] = [handler[h] EXCEPT !.pc = "store"]]
       \/ /\ AlbumFault /\ UNCHANGED listed
          /\ handler' = [handler EXCEPT ![h] =
                            [handler[h] EXCEPT !.pc = "store", !.plain = FALSE]]
    /\ UNCHANGED <<album, unreported, watching, albumRooms, command, download, browses, albumEdits>>

StoreList(h) ==
    /\ handler[h].pc = "store" /\ Returns(h)
    /\ command' = [NoCommand EXCEPT !.step = "assets", !.list = handler[h].list,
                                    !.plain = handler[h].plain]
    /\ UNCHANGED <<album, unreported, watching, albumRooms, listed, offered, download, browses,
                   albumEdits, albumFaults>>

Cancel ==
    /\ command.step # "none" /\ command' = NoCommand
    /\ UNCHANGED <<album, unreported, watching, albumRooms, handler, listed, offered, download,
                   browses, albumEdits, albumFaults>>

\* A reply is a sequence of ranges; the ends of a range may be swapped, a
\* number outside the list refuses the whole reply.
InList(r, total) == r[1] \in 1 .. total /\ r[2] \in 1 .. total
Span(r) == IF r[1] > r[2] THEN r[2] .. r[1] ELSE r[1] .. r[2]

parseAssetSelection(input, total) ==
    IF \A i \in DOMAIN input : InList(input[i], total)
    THEN UNION {Span(input[i]) : i \in DOMAIN input} ELSE {}

At(list, picks) == {list.shown[i] : i \in picks \cap DOMAIN list.shown}

getOrCreateAlbumRoom(a) == IF albumRoom[a] # 0 THEN albumRoom[a] ELSE roomsMade + 1

HandleAssetSelection(input) ==
    LET picks == parseAssetSelection(input, Len(command.list.shown))
        a == command.list.album
        room == getOrCreateAlbumRoom(a)
        picked == At(command.list, picks)
    IN
    /\ command.step = "assets" /\ command' = NoCommand
    /\ \/ picks = {} /\ NoAlbumFault /\ UNCHANGED <<albumRooms, download>>
       \/ picks # {} /\ albumRoom[a] = 0 /\ AlbumFault /\ UNCHANGED <<albumRooms, download>>
       \/ /\ picks # {} /\ NoAlbumFault
          /\ albumRoom' = [albumRoom EXCEPT ![a] = room]
          /\ openRooms' = openRooms \cup {room}
          /\ roomsMade' = IF room > roomsMade THEN room ELSE roomsMade
          /\ \E d \in Downloads :
                /\ download[d].pc = "none"
                /\ download' = [download EXCEPT ![d] =
                      [pc |-> "fetch", room |-> room, album |-> a, picks |-> picks,
                       meant |-> listed, plain |-> command.plain, picked |-> picked,
                       todo |-> picked, failed |-> 0, sent |-> 0]]
    /\ UNCHANGED <<album, unreported, watching, handler, listed, offered, browses, albumEdits>>

-----------------------------------------------------------------------------
(* One download, asset by asset: the file, its conversion and upload, the  *)
(* message in the room, and a summary at the end.                          *)

Fetching(d) == download[d].pc = "fetch" /\ download[d].todo # {}
Failed(d, n) == [download[d] EXCEPT !.pc = "fetch", !.todo = @ \ {n}, !.failed = @ + 1]

FileArrives(d, n) ==
    /\ Fetching(d) /\ n \in download[d].todo
    /\ \/ NoAlbumFault /\ download' = [download EXCEPT ![d] = [@ EXCEPT !.pc = "upload"]]
       \/ AlbumFault /\ download' = [download EXCEPT ![d] = Failed(d, n)]
    /\ UNCHANGED <<album, unreported, watching, albumRooms, replies, albumEdits>>

\* Mutation: no limit on the wait for a file.
DownloadTimesOutNever(d, n) == FALSE

\* safeSharedAlbumDownload gives up after 90 s.
DownloadTimesOut(d, n) ==
    /\ Fetching(d) /\ n \in download[d].todo
    /\ download' = [download EXCEPT ![d] = Failed(d, n)]
    /\ UNCHANGED <<album, unreported, watching, albumRooms, replies, albumEdits, albumFaults>>

\* Mutation: a message that could not be sent counts as downloaded.
SentUncounted(d, n, ok) ==
    [download[d] EXCEPT !.pc = "fetch", !.todo = @ \ {n}, !.sent = IF ok THEN @ + 1 ELSE @]

Sent(d, n, ok) ==
    IF ok THEN [download[d] EXCEPT !.pc = "fetch", !.todo = @ \ {n}, !.sent = @ + 1]
    ELSE Failed(d, n)

\* processSharedAlbumAsset and the message: a room that is gone refuses it.
UploadAndSend(d, n) ==
    /\ download[d].pc = "upload" /\ n \in download[d].todo
    /\ \/ /\ NoAlbumFault
          /\ download' = [download EXCEPT ![d] = Sent(d, n, download[d].room \in openRooms)]
       \/ AlbumFault /\ download' = [download EXCEPT ![d] = Failed(d, n)]
    /\ UNCHANGED <<album, unreported, watching, albumRooms, replies, albumEdits>>

Summarize(d) ==
    /\ download[d].pc = "fetch" /\ download[d].todo = {}
    /\ download' = [download EXCEPT ![d] = [@ EXCEPT !.pc = "said"]]
    /\ UNCHANGED <<album, unreported, watching, albumRooms, replies, albumEdits, albumFaults>>

Retire(d) ==
    /\ download[d].pc = "said"
    /\ download' = [download EXCEPT ![d] = NoDownload]
    /\ UNCHANGED <<album, unreported, watching, albumRooms, replies, albumEdits, albumFaults>>

\* delete-room forgets the room before it is deleted; if that fails the room
\* stays, and is no album room any more.
DeleteRoom(a) ==
    /\ albumRoom[a] # 0
    /\ albumRoom' = [albumRoom EXCEPT ![a] = 0]
    /\ \/ NoAlbumFault /\ openRooms' = openRooms \ {albumRoom[a]}
       \/ AlbumFault /\ UNCHANGED openRooms
    /\ UNCHANGED <<album, unreported, watching, roomsMade, replies, download, albumEdits>>

\* Everything but iCloud, the rooms and what the user reads in them is kept in
\* memory.
StreamsRestart ==
    /\ AlbumFault
    /\ baseline' = [a \in Albums |-> NoBaseline] /\ poll' = NoPoll
    /\ albumRoom' = [a \in Albums |-> 0]
    /\ handler' = [h \in Handlers |-> NoHandler] /\ command' = NoCommand
    /\ download' = [d \in Downloads |-> NoDownload]
    /\ UNCHANGED <<album, unreported, notices, openRooms, roomsMade, listed, offered, browses,
                   albumEdits>>

-----------------------------------------------------------------------------
AlbumNumbers == 1 .. AssetsAtStart + MaxAlbumEdits

DownloadStep(d) ==
    \/ \E n \in AlbumNumbers : DownloadTimesOut(d, n) \/ UploadAndSend(d, n)
    \/ Summarize(d) \/ Retire(d)

StreamsNext ==
    \/ \E a \in Albums : AlbumChanges(a) \/ DeleteRoom(a)
    \/ \E h \in Handlers, a \in Albums : HandleAlbumSelection(h, a)
    \/ \E h \in Handlers :
          \/ SharedAlbums(h) \/ StoreAlbums(h)
          \/ GetAlbumAssets(h) \/ ShowList(h) \/ StoreList(h)
    \/ \E a \in Albums, n \in AlbumNumbers : SharedDeleteAssets(a, n)
    \/ \E a \in Albums, on \in BOOLEAN : Subscribe(a, on)
    \/ GetChanges \/ GetAlbumSummary \/ PostNotice
    \/ Cancel
    \/ \E input \in Inputs : HandleAssetSelection(input)
    \/ \E d \in Downloads, n \in AlbumNumbers : FileArrives(d, n)
    \/ \E d \in Downloads : DownloadStep(d)
    \/ StreamsRestart

\* Goroutines run; a file need never arrive.
StreamsFairness == \A d \in Downloads : WF_albumVars(DownloadStep(d))

StreamsSpec == StreamsInit /\ [][StreamsNext]_albumVars /\ StreamsFairness

-----------------------------------------------------------------------------
\* A notice is news: an album is announced at most once for each asset that
\* was added to it, whatever metadata changes, removals and restarts GetChanges
\* reports in between.
NoticeIsNews == \A a \in Albums : notices[a] + AssetsAtStart <= album[a].added

OfList(d, list) ==
    download[d].album = list.album /\ download[d].picked = At(list, download[d].picks)

\* What is downloaded are the assets at the places the user named in one list
\* that a reply was made of, and of the album whose list it is; it is the list
\* the user saw last, even if the album has changed since, unless its reply was
\* lost or two selections of albums overlapped.
DownloadsWhatWasShown ==
    \A d \in Downloads : download[d].pc # "none" =>
        /\ \E list \in offered : OfList(d, list)
        /\ download[d].plain => OfList(d, download[d].meant)

\* The summary of a download counts the messages that reached the room.
SummaryIsTrue ==
    \A d \in Downloads : download[d].pc = "said"
        => Cardinality(download[d].picked) - download[d].failed = download[d].sent

\* What the user is told about albums and downloads is true, and a download
\* ends, though a file may never arrive and the room may go.
DownloadsEndTruthfully ==
    /\ [](NoticeIsNews /\ DownloadsWhatWasShown /\ SummaryIsTrue)
    /\ <>[](\A d \in Downloads : download[d].pc = "none")

=============================================================================
