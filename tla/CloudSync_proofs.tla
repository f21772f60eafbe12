--------------------------- MODULE CloudSync_proofs ---------------------------
(***************************************************************************)
(* Proofs about what is fetched from CloudKit, or asked for again after a  *)
(* failure: the zones (CloudSync), the attachments of their records        *)
(* (CloudMedia) and those of live messages (AttachmentRetry).              *)
(***************************************************************************)
EXTENDS CloudSync, CloudMedia, AttachmentRetry, TLAPS

-----------------------------------------------------------------------------
(* The zones.  NothingSkipped is about the saved tokens, but a token is    *)
(* saved from the position of the walk, which is ahead of it when a save   *)
(* has failed: the invariant says of the position what NothingSkipped says *)
(* of the token.  An upgrade makes the stored rows old at once, and the    *)
(* tokens are reset only when the next bootstrap starts; until then the    *)
(* invariant is that this bootstrap is still to come.                      *)

AllAtts == Before("atts", Len(Feed["atts"]))

Walk == [zone : Zones \cup {"done"}, at : Nat, errs : Nat, boot : BOOLEAN, got : BOOLEAN,
         atts : SUBSET AllAtts, known : SUBSET AllAtts]

SyncType ==
    /\ arrived \in [Zones -> Nat] /\ \A z \in Zones : arrived[z] <= Len(Feed[z])
    /\ tokens \in [Zones -> Nat] /\ \A z \in Zones : tokens[z] <= arrived[z]
    /\ saved \in [all : Nat, chats : Nat] /\ software \in [all : Nat \ {0}, chats : Nat \ {0}]
    /\ saved.all <= software.all /\ saved.chats <= software.chats
    /\ walk = NoWalk \/ walk \in Walk
    /\ walk.zone \in Zones => walk.at <= arrived[walk.zone]
    /\ control \in {"boot", "portals", "wait", "ended"}
    /\ passesLeft \in Int /\ passesLeft <= Delays
    /\ failedBefore \in BOOLEAN /\ portalsPending \in BOOLEAN
    /\ interrupted \in BOOLEAN

\* A pass belongs to the bootstrap or to the delayed passes; the gate is closed
\* until the bootstrap is over.
StageInv ==
    /\ walk # NoWalk => control = IF walk.boot THEN "boot" ELSE "wait"
    /\ control = "boot" => ~gateOpen

\* The first n pages of messages have been taken in, and with the logic of now;
\* the chats too.
MsgsTaken(n)    == \A m \in Before("msgs", n) : IsStored(m) \/ m \in passedOver
MsgsCurrent(n)  == \A m \in Before("msgs", n) : IsStored(m) => records[m].ver = software.all
ChatsCurrent(n) == \A c \in Before("chats", n) : IsStored(c) => records[c].ver = software.chats

TakenInv == MsgsTaken(tokens["msgs"]) /\ (walk.zone = "msgs" => MsgsTaken(walk.at))

\* A bootstrap is due that will drop the tokens.
ResetDue == control = "boot" /\ walk = NoWalk /\ rooms # {}

\* A message that named no chat was let in for the sake of its chat's row.
BareInv == \A m \in DOMAIN ChatOf \cap Bare : IsStored(m) => IsStored(ChatOf[m])

RereadInv ==
    ~interrupted =>
        /\ MsgsCurrent(tokens["msgs"]) \/ (ResetDue /\ saved.all < software.all)
        /\ ChatsCurrent(tokens["chats"]) \/ (ResetDue /\ saved.chats < software.chats)
        /\ walk.zone = "msgs" => MsgsCurrent(walk.at)
        /\ walk.zone = "chats" => ChatsCurrent(walk.at)

\* What a pass calls known it has read.
AttsInv ==
    /\ AttachmentsKnown
    /\ walk.zone = "atts" => Before("atts", walk.at) \subseteq walk.atts /\ walk.known = {}
    /\ walk # NoWalk => walk.known \subseteq walk.atts

\* A stored message without a room is owed one, and somebody remembers.
RoomsInv ==
    \/ control \in {"boot", "portals", "ended"} \/ portalsPending \/ failedBefore
    \/ walk # NoWalk /\ walk.got
    \/ \A m \in DOMAIN ChatOf : IsStored(m) => ChatOf[m] \in rooms

SyncInv == SyncType /\ StageInv /\ TakenInv /\ BareInv /\ RereadInv /\ AttsInv /\ RoomsInv

-----------------------------------------------------------------------------
(* Pages.                                                                  *)

LEMMA NoPages == \A z : Before(z, 0) = {}
BY DEF Before

LEMMA NextPage ==
    ASSUME NEW z, NEW n \in Nat
    PROVE  Before(z, n + 1) = Before(z, n) \cup Feed[z][n + 1]
<1>1. 1..(n + 1) = (1..n) \cup {n + 1}
  OBVIOUS
<1> QED
  BY <1>1 DEF Before

LEMMA PagesGrow ==
    ASSUME NEW z, NEW n \in Nat, NEW k \in Nat, n <= k
    PROVE  Before(z, n) \subseteq Before(z, k)
BY DEF Before

LEMMA RecordsKnown ==
    ASSUME NEW z \in {"chats", "msgs"}, NEW n \in Nat, n <= Len(Feed[z])
    PROVE  Before(z, n) \subseteq Everything
<1>1. Len(Feed[z]) \in Nat
  BY CloudSyncAssumption DEF Zones
<1> QED
  BY <1>1, PagesGrow DEF Everything

\* The page that ReadPage reads, once it has arrived, is among the records.
LEMMA PageKnown ==
    ASSUME SyncType, NEW z \in Zones, NEW n \in Nat, n < arrived[z]
    PROVE  Feed[z][n + 1] \subseteq Before(z, Len(Feed[z]))
<1>1. n + 1 \in 1..Len(Feed[z])
  BY CloudSyncAssumption DEF SyncType
<1> QED
  BY <1>1 DEF Before

LEMMA InitSync == CloudSyncInit => SyncInv
<1> SUFFICES ASSUME CloudSyncInit PROVE SyncInv
  OBVIOUS
<1>0. walk.zone = "none" /\ walk.zone \notin Zones
  BY DEF CloudSyncInit, NoWalk, Zones
<1>1. SyncType
  <2>1. tokens \in [Zones -> Nat] /\ \A z \in Zones : tokens[z] = 0
    BY DEF CloudSyncInit
  <2>2. saved \in [all : Nat, chats : Nat] /\ software \in [all : Nat \ {0}, chats : Nat \ {0}]
        /\ saved.all <= software.all /\ saved.chats <= software.chats
    BY DEF CloudSyncInit
  <2>3. arrived \in [Zones -> Nat] /\ \A z \in Zones : arrived[z] <= Len(Feed[z])
    BY CloudSyncAssumption DEF CloudSyncInit
  <2>4. \A z \in Zones : tokens[z] <= arrived[z]
    BY <2>1, <2>3
  <2>5. passesLeft \in Int /\ passesLeft <= Delays
    BY CloudSyncAssumption DEF CloudSyncInit
  <2>6. walk = NoWalk /\ control \in {"boot", "portals", "wait", "ended"}
        /\ failedBefore \in BOOLEAN /\ portalsPending \in BOOLEAN /\ interrupted \in BOOLEAN
    BY DEF CloudSyncInit
  <2> QED
    BY <1>0, <2>1, <2>2, <2>3, <2>4, <2>5, <2>6 DEF SyncType
<1>2. walk.zone = "none" /\ walk = NoWalk
  BY DEF CloudSyncInit, NoWalk
<1>3. StageInv /\ RoomsInv
  BY <1>2 DEF StageInv, RoomsInv, CloudSyncInit
<1>4. TakenInv
  BY <1>2, NoPages DEF TakenInv, MsgsTaken, CloudSyncInit, Zones
<1>9. BareInv
  BY CloudSyncAssumption DEF BareInv, CloudSyncInit, IsStored, Everything
<1>5. RereadInv
  BY <1>2, NoPages DEF RereadInv, MsgsCurrent, ChatsCurrent, CloudSyncInit, Zones
<1>6. AttsInv
  <2>1. \A m \in DOMAIN ChatOf : ~IsStored(m)
    BY CloudSyncAssumption DEF CloudSyncInit, IsStored, Everything
  <2> QED
    BY <1>2, <2>1 DEF AttsInv, AttachmentsKnown
<1> QED
  BY <1>1, <1>3, <1>4, <1>5, <1>6, <1>9 DEF SyncInv

-----------------------------------------------------------------------------
(* ReadPage.                                                               *)

More == walk.at < arrived[walk.zone]
Page == IF More THEN Feed[walk.zone][walk.at + 1] ELSE {}
Position == IF More THEN walk.at + 1 ELSE walk.at
Finished == walk.at + 1 >= arrived[walk.zone]

LEMMA WalkIsWalk ==
    ASSUME SyncType, walk.zone \in Zones \cup {"done"}
    PROVE  walk \in Walk /\ walk # NoWalk /\ walk.at \in Nat
BY SMTT(30) DEF SyncType, NoWalk, Zones, Walk

LEMMA ReadWalk ==
    ASSUME SyncType, ReadPage
    PROVE  /\ walk.zone \in Zones /\ walk' \in Walk /\ walk'.boot = walk.boot
           /\ walk'.got = (walk.got \/ (walk.zone # "atts" /\ Page # {}))
           /\ walk'.atts = IF walk.zone = "atts" THEN walk.atts \cup Page ELSE walk.atts
           /\ walk'.known = IF Finished /\ walk.zone = "atts" THEN AttsArrived ELSE walk.known
           /\ ~Finished => walk'.zone = walk.zone /\ walk'.at = Position
           /\ Finished /\ walk.zone = "msgs" => walk'.zone = "done"
           /\ Finished /\ walk.zone # "msgs" =>
                  walk'.zone = NextZone(walk.zone) /\ walk'.at = tokens[NextZone(walk.zone)]
<1>0. walk.zone \in Zones
  BY DEF ReadPage
<1>1. walk \in Walk /\ arrived[walk.zone] \in Nat
  BY <1>0, WalkIsWalk DEF SyncType
<1>2. Page \subseteq Before(walk.zone, Len(Feed[walk.zone]))
  BY <1>0, <1>1, PageKnown DEF Page, More, Walk
<1> DEFINE atts == IF walk.zone = "atts" THEN walk.atts \cup Page ELSE walk.atts
           got  == walk.got \/ (walk.zone # "atts" /\ Page # {})
           read == [walk EXCEPT !.at = IF More THEN @ + 1 ELSE @, !.errs = 0, !.atts = atts, !.got = got]
<1>3. atts \in SUBSET AllAtts /\ got \in BOOLEAN
  BY <1>1, <1>2 DEF AllAtts, Walk
<1> HIDE DEF atts, got
<1>4. /\ read \in Walk /\ read.zone = walk.zone /\ read.at = Position /\ read.boot = walk.boot
      /\ read.got = got /\ read.atts = atts /\ read.known = walk.known
  <2>1. read = [walk EXCEPT !.at = Position, !.errs = 0, !.atts = atts, !.got = got]
    BY <1>1 DEF Walk, Position
  <2>2. Position \in Nat
    BY <1>1 DEF Position, Walk
  <2> HIDE DEF read
  <2> QED
    BY <1>1, <1>3, <2>1, <2>2 DEF Walk
<1> USE DEF atts, got
<1>5. Position \in Nat
  BY <1>1 DEF Position, Walk
<1>6. AttsArrived \in SUBSET AllAtts
  BY CloudSyncAssumption, SMTT(30) DEF AttsArrived, AllAtts, Before, SyncType, Zones
<1>7. walk' = CASE ~Finished -> read
                [] Finished /\ walk.zone = "atts" -> [Leaves(read) EXCEPT !.known = AttsArrived]
                [] OTHER -> Leaves(read)
  BY DEF ReadPage, Finished, Page, More
<1> HIDE DEF read, atts, got
<1>8. CASE ~Finished
  <2>1. walk' = read
    BY <1>7, <1>8
  <2> QED
    BY <1>0, <1>4, <1>8, <2>1 DEF atts, got
<1>9. CASE Finished /\ walk.zone = "msgs"
  <2>1. walk' = [read EXCEPT !.zone = "done"]
    BY <1>4, <1>7, <1>9 DEF Leaves
  <2> QED
    BY <1>0, <1>4, <1>9, <2>1 DEF Walk, atts, got
<1>10. CASE Finished /\ walk.zone # "msgs"
  <2>0. NextZone(walk.zone) \in Zones /\ tokens[NextZone(walk.zone)] \in Nat
    BY <1>0 DEF NextZone, Zones, SyncType
  <2>1. Leaves(read) = [read EXCEPT !.zone = NextZone(walk.zone), !.at = tokens[NextZone(walk.zone)], !.errs = 0]
    BY <1>4, <1>10 DEF Leaves
  <2> DEFINE left == Leaves(read)
  <2>2. /\ left \in Walk /\ left.zone = NextZone(walk.zone) /\ left.at = tokens[NextZone(walk.zone)]
        /\ left.boot = walk.boot /\ left.got = got /\ left.atts = atts /\ left.known = walk.known
    <3> HIDE DEF left
    <3>1. left = [read EXCEPT !.zone = NextZone(walk.zone), !.at = tokens[NextZone(walk.zone)], !.errs = 0]
      BY <2>1 DEF left
    <3> QED
      BY <1>4, <2>0, <3>1 DEF Walk
  <2> HIDE DEF left
  <2>3. CASE walk.zone = "atts"
    <3>1. walk' = [left EXCEPT !.known = AttsArrived]
      BY <1>7, <1>10, <2>3 DEF left
    <3>2. /\ walk' \in Walk /\ walk'.zone = left.zone /\ walk'.at = left.at /\ walk'.boot = left.boot
          /\ walk'.got = left.got /\ walk'.atts = left.atts /\ walk'.known = AttsArrived
      BY <1>6, <2>2, <3>1 DEF Walk
    <3> QED
      BY <1>0, <1>10, <2>2, <2>3, <3>2 DEF atts, got
  <2>4. CASE walk.zone # "atts"
    <3>1. walk' = left
      BY <1>7, <1>10, <2>4 DEF left
    <3> QED
      BY <1>0, <1>10, <2>2, <2>4, <3>1 DEF atts, got
  <2> QED
    BY <2>3, <2>4
<1> QED
  BY <1>8, <1>9, <1>10

\* The pages up to the new position are those up to the old one and the page read.
LEMMA ReadPosition ==
    ASSUME SyncType, walk.zone \in Zones
    PROVE  /\ Before(walk.zone, Position) = Before(walk.zone, walk.at) \cup Page
           /\ Page \subseteq Before(walk.zone, Len(Feed[walk.zone]))
           /\ Position \in Nat /\ Position <= arrived[walk.zone]
<1>1. walk.at \in Nat /\ arrived[walk.zone] \in Nat /\ walk.at <= arrived[walk.zone]
  BY WalkIsWalk DEF SyncType
<1>2. CASE More
  <2>1. Page = Feed[walk.zone][walk.at + 1] /\ Position = walk.at + 1
    BY <1>2 DEF Page, Position
  <2>2. Page \subseteq Before(walk.zone, Len(Feed[walk.zone]))
    BY <1>1, <1>2, <2>1, PageKnown DEF More
  <2> QED
    BY <1>1, <1>2, <2>1, <2>2, NextPage DEF More
<1>3. CASE ~More
  BY <1>1, <1>3 DEF Page, Position
<1> QED
  BY <1>2, <1>3

LEMMA ReadTokens ==
    ASSUME SyncType, ReadPage
    PROVE  /\ tokens' \in [Zones -> Nat]
           /\ \A y \in Zones : y # walk.zone => tokens'[y] = tokens[y]
           /\ tokens'[walk.zone] = tokens[walk.zone] \/ tokens'[walk.zone] = Position
           /\ \A z \in Zones : tokens'[z] <= arrived[z]
<1>1. walk.zone \in Zones
  BY DEF ReadPage
<1>2. Position \in Nat /\ Position <= arrived[walk.zone]
  BY <1>1, ReadPosition
<1>3. tokens' = [tokens EXCEPT ![walk.zone] = Position] \/ tokens' = tokens
  <2>1. CASE More
    BY <2>1 DEF ReadPage, Position, More
  <2>2. CASE ~More
    <3>1. tokens \in [Zones -> Nat]
      BY DEF SyncType
    <3> QED
      BY <1>1, <2>2, <3>1 DEF ReadPage, More
  <2> QED
    BY <2>1, <2>2
<1> QED
  BY <1>1, <1>2, <1>3 DEF SyncType

\* What becomes of a record when its page, or another, is taken in.
LEMMA ReadRecords ==
    ASSUME SyncType, ReadPage
    PROVE  /\ DOMAIN records' = Everything
           /\ \A r \in Everything :
                  /\ IsStored(r) => IsStored(r)'
                  /\ r \in IngestedOf(walk.zone, Page) => IsStored(r)'
                  /\ r \notin IngestedOf(walk.zone, Page) => records'[r] = records[r]
                  /\ r \in IngestedOf(walk.zone, Page) =>
                         records'[r] = IF walk.zone = "chats" THEN [ver |-> software.chats] ELSE MessageRow(r)
<1>1. records' = Ingest(walk.zone, Page)
  BY DEF ReadPage, Page, More
<1>2. software.all # 0 /\ software.chats # 0
  BY DEF SyncType
<1>3. \A r : [ver |-> software.chats] # NotStored /\ MessageRow(r) # NotStored
  BY <1>2 DEF NotStored, MessageRow
<1> QED
  BY <1>1, <1>3 DEF Ingest, IsStored

LEMMA ReadKeepsType == ASSUME SyncInv, ReadPage PROVE SyncType' /\ StageInv'
<1>1. SyncType /\ StageInv
  BY DEF SyncInv
<1>2. walk' \in Walk /\ walk'.boot = walk.boot /\ walk # NoWalk
  BY <1>1, ReadWalk, WalkIsWalk DEF ReadPage
<1>3. tokens' \in [Zones -> Nat]
  BY <1>1, ReadTokens
<1>4. UNCHANGED <<arrived, saved, software, control, passesLeft, failedBefore, portalsPending, gateOpen, interrupted>>
  BY DEF ReadPage, controller
<1>5. ASSUME walk'.zone \in Zones PROVE walk'.at <= arrived[walk'.zone]
  <2>1. CASE ~Finished
    BY <1>1, <2>1, ReadWalk, ReadPosition
  <2>2. CASE Finished
    BY <1>1, <1>5, <2>2, ReadWalk DEF SyncType, NextZone, Zones
  <2> QED
    BY <2>1, <2>2
<1>6. \A z \in Zones : tokens'[z] <= arrived[z]
  BY <1>1, ReadTokens
<1> QED
  BY <1>1, <1>2, <1>3, <1>4, <1>5, <1>6 DEF SyncType, StageInv

\* What was taken in before a page is still so after it, and so is the page.
LEMMA ReadKeepsTaken == ASSUME SyncInv, ReadPage PROVE TakenInv'
<1>1. SyncType /\ TakenInv /\ walk.zone \in Zones
  BY DEF SyncInv, ReadPage
<1>2. passedOver \subseteq passedOver'
  BY DEF ReadPage
<1>3. ASSUME NEW n \in Nat, n <= Len(Feed["msgs"]), MsgsTaken(n) PROVE MsgsTaken(n)'
  <2>1. Before("msgs", n) \subseteq Everything
    BY <1>3, RecordsKnown
  <2> QED
    BY <1>1, <1>2, <1>3, <2>1, ReadRecords DEF MsgsTaken
<1>4. ASSUME walk.zone = "msgs", NEW n, n = Position PROVE MsgsTaken(n)'
  <2>1. Position \in Nat /\ Position <= Len(Feed["msgs"]) /\ walk.at \in Nat /\ walk.at <= Len(Feed["msgs"])
    BY <1>1, <1>4, ReadPosition, WalkIsWalk, CloudSyncAssumption DEF SyncType
  <2>2. \A m \in Before("msgs", walk.at) : IsStored(m)' \/ m \in passedOver'
    BY <1>1, <1>3, <1>4, <2>1 DEF TakenInv, MsgsTaken
  <2>3. \A m \in Page : IsStored(m)' \/ m \in passedOver'
    <3>1. Page \ IngestedOf("msgs", Page) \subseteq passedOver'
      BY <1>4 DEF ReadPage, Page, More
    <3>2. Page \subseteq Everything
      BY <1>1, <1>4, ReadPosition DEF Everything
    <3> QED
      BY <1>1, <1>4, <3>1, <3>2, ReadRecords
  <2>4. Before("msgs", Position) = Before("msgs", walk.at) \cup Page
    BY <1>1, <1>4, ReadPosition
  <2> QED
    BY <1>4, <2>2, <2>3, <2>4 DEF MsgsTaken
<1>5. tokens["msgs"] \in Nat /\ tokens["msgs"] <= Len(Feed["msgs"])
  BY <1>1, CloudSyncAssumption DEF SyncType, Zones
<1>6. MsgsTaken(tokens["msgs"])'
  <2>1. tokens'["msgs"] = tokens["msgs"] \/ (walk.zone = "msgs" /\ tokens'["msgs"] = Position)
    BY <1>1, ReadTokens DEF Zones
  <2>2. CASE tokens'["msgs"] = tokens["msgs"]
    BY <1>1, <1>3, <1>5, <2>2 DEF TakenInv, MsgsTaken
  <2>3. CASE walk.zone = "msgs" /\ tokens'["msgs"] = Position
    BY <1>4, <2>3 DEF MsgsTaken
  <2> QED
    BY <2>1, <2>2, <2>3
<1>7. ASSUME walk'.zone = "msgs" PROVE MsgsTaken(walk.at)'
  <2>1. CASE walk.zone = "msgs"
    <3>1. walk'.at = Position
      BY <1>1, <1>7, <2>1, ReadWalk
    <3> QED
      BY <1>4, <2>1, <3>1 DEF MsgsTaken
  <2>2. CASE walk.zone # "msgs"
    <3>1. walk'.at = tokens["msgs"]
      BY <1>1, <1>7, <2>2, ReadWalk DEF NextZone
    <3> QED
      BY <1>1, <1>3, <1>5, <3>1 DEF TakenInv, MsgsTaken
  <2> QED
    BY <2>1, <2>2
<1> QED
  BY <1>6, <1>7 DEF TakenInv

LEMMA MessagesApart ==
    /\ \A m \in DOMAIN ChatOf : m \in Everything /\ \A n \in Nat : n <= Len(Feed["chats"]) => m \notin Before("chats", n)
    /\ \A n \in Nat : n <= Len(Feed["msgs"]) => Before("msgs", n) \subseteq DOMAIN ChatOf
<1>1. \A z \in Zones : \A n \in Nat : n <= Len(Feed[z]) => Before(z, n) \subseteq Before(z, Len(Feed[z]))
  BY PagesGrow, CloudSyncAssumption
<1> QED
  BY <1>1, CloudSyncAssumption DEF Everything, Zones

\* A page touches records of its own kind.
LEMMA ReadTouches ==
    ASSUME SyncType, ReadPage
    PROVE  /\ \A m \in DOMAIN ChatOf :
                  \/ (IsStored(m)' <=> IsStored(m)) /\ records'[m] = records[m]
                  \/ walk.zone = "msgs" /\ m \in Page /\ IsIngested(m) /\ records'[m] = MessageRow(m)
           /\ \A n \in Nat : n <= Len(Feed["chats"]) =>
                  \A c \in Before("chats", n) :
                      \/ (IsStored(c)' <=> IsStored(c)) /\ records'[c] = records[c]
                      \/ walk.zone = "chats" /\ records'[c] = [ver |-> software.chats]
<1>1. walk.zone \in Zones
  BY DEF ReadPage
<1>2. Page \subseteq Before(walk.zone, Len(Feed[walk.zone]))
  BY <1>1, ReadPosition
<1>3. Len(Feed["chats"]) \in Nat /\ Len(Feed["msgs"]) \in Nat
  BY CloudSyncAssumption DEF Zones
<1>4. ASSUME NEW r \in Everything, r \notin IngestedOf(walk.zone, Page)
      PROVE  (IsStored(r)' <=> IsStored(r)) /\ records'[r] = records[r]
  BY <1>4, ReadRecords DEF IsStored
<1>5. ASSUME NEW m \in DOMAIN ChatOf, m \in IngestedOf(walk.zone, Page)
      PROVE  walk.zone = "msgs" /\ m \in Page /\ IsIngested(m) /\ records'[m] = MessageRow(m)
  <2>1. walk.zone = "msgs" /\ m \in Page /\ IsIngested(m)
    BY <1>1, <1>2, <1>3, <1>5, MessagesApart DEF IngestedOf, Zones
  <2> QED
    BY <1>5, <2>1, ReadRecords, MessagesApart
<1>6. ASSUME NEW n \in Nat, n <= Len(Feed["chats"]), NEW c \in Before("chats", n), c \in IngestedOf(walk.zone, Page)
      PROVE  walk.zone = "chats" /\ records'[c] = [ver |-> software.chats]
  <2>1. c \in Everything /\ c \notin DOMAIN ChatOf
    BY <1>6, MessagesApart, RecordsKnown
  <2>2. walk.zone = "chats"
    BY <1>1, <1>2, <1>3, <1>6, <2>1, MessagesApart DEF IngestedOf, Zones
  <2> QED
    BY <1>6, <2>1, <2>2, ReadRecords
<1>7. \A m \in DOMAIN ChatOf : m \in Everything
  BY MessagesApart
<1>8. \A n \in Nat : n <= Len(Feed["chats"]) => Before("chats", n) \subseteq Everything
  BY RecordsKnown
<1>9. \A m \in DOMAIN ChatOf :
          \/ (IsStored(m)' <=> IsStored(m)) /\ records'[m] = records[m]
          \/ walk.zone = "msgs" /\ m \in Page /\ IsIngested(m) /\ records'[m] = MessageRow(m)
  BY <1>4, <1>5, <1>7
<1>10. ASSUME NEW n \in Nat, n <= Len(Feed["chats"]), NEW c \in Before("chats", n)
       PROVE  \/ (IsStored(c)' <=> IsStored(c)) /\ records'[c] = records[c]
              \/ walk.zone = "chats" /\ records'[c] = [ver |-> software.chats]
  BY <1>4, <1>6, <1>8, <1>10
<1> QED
  BY <1>9, <1>10

LEMMA ReadKeepsBare == ASSUME SyncInv, ReadPage PROVE BareInv'
<1>1. SyncType /\ BareInv
  BY DEF SyncInv
<1>2. \A r \in Everything : IsStored(r) => IsStored(r)'
  BY <1>1, ReadRecords
<1>3. ASSUME NEW m \in DOMAIN ChatOf \cap Bare, IsStored(m)' PROVE IsStored(ChatOf[m])
  BY <1>1, <1>3, ReadTouches DEF BareInv, IsIngested
<1> QED
  BY <1>2, <1>3 DEF BareInv, IsStored

LEMMA ReadKeepsReread == ASSUME SyncInv, ReadPage PROVE RereadInv'
<1> SUFFICES ASSUME ~interrupted' PROVE RereadInv'
  BY DEF RereadInv
<1>1. SyncType /\ BareInv /\ walk.zone \in Zones /\ walk # NoWalk
  BY WalkIsWalk DEF SyncInv, ReadPage
<1>2. UNCHANGED <<software, interrupted>>
  BY DEF ReadPage
<1>3. /\ MsgsCurrent(tokens["msgs"]) /\ ChatsCurrent(tokens["chats"])
      /\ walk.zone = "msgs" => MsgsCurrent(walk.at)
      /\ walk.zone = "chats" => ChatsCurrent(walk.at)
  BY <1>1, <1>2 DEF SyncInv, RereadInv, ResetDue
<1>4. /\ walk.at \in Nat /\ Position \in Nat
      /\ walk.at <= Len(Feed[walk.zone]) /\ Position <= Len(Feed[walk.zone])
  <2>1. walk.at \in Nat /\ Position \in Nat /\ walk.at <= arrived[walk.zone] /\ Position <= arrived[walk.zone]
    BY <1>1, ReadPosition, WalkIsWalk DEF SyncType
  <2>2. arrived[walk.zone] \in Nat /\ arrived[walk.zone] <= Len(Feed[walk.zone]) /\ Len(Feed[walk.zone]) \in Nat
    BY <1>1, CloudSyncAssumption DEF SyncType
  <2> QED
    BY <2>1, <2>2
<1>5. \A z \in Zones : tokens[z] \in Nat /\ tokens[z] <= Len(Feed[z])
  BY <1>1, CloudSyncAssumption DEF SyncType
<1>6. ASSUME NEW n \in Nat, n <= Len(Feed["msgs"]), MsgsCurrent(n) PROVE MsgsCurrent(n)'
  <2>1. Before("msgs", n) \subseteq DOMAIN ChatOf
    BY <1>6, MessagesApart
  <2>2. \A m \in DOMAIN ChatOf : MessageRow(m).ver = software.all
    BY DEF MessageRow
  <2> QED
    BY <1>1, <1>2, <1>6, <2>1, <2>2, ReadTouches DEF MsgsCurrent
<1>7. ASSUME NEW n \in Nat, n <= Len(Feed["chats"]), ChatsCurrent(n) PROVE ChatsCurrent(n)'
  BY <1>1, <1>2, <1>7, ReadTouches DEF ChatsCurrent
<1>8. ASSUME walk.zone = "msgs", NEW n, n = Position PROVE MsgsCurrent(n)'
  <2>1. \A m \in Before("msgs", walk.at) : IsStored(m)' => records'[m].ver = software'.all
    BY <1>3, <1>4, <1>6, <1>8 DEF MsgsCurrent
  <2>2. ASSUME NEW m \in Page, IsStored(m)' PROVE records'[m].ver = software'.all
    <3>1. m \in DOMAIN ChatOf /\ m \in Everything
      BY <1>1, <1>8, ReadPosition, CloudSyncAssumption, MessagesApart
    <3>2. CASE IsIngested(m)
      <4>1. records'[m] = MessageRow(m)
        BY <1>1, <1>8, <3>1, <3>2, ReadRecords DEF IngestedOf
      <4> QED
        BY <1>2, <4>1 DEF MessageRow
    <3>3. CASE ~IsIngested(m)
      <4>1. ~IsStored(m)
        BY <1>1, <3>1, <3>3 DEF IsIngested, BareInv
      <4> QED
        BY <1>1, <2>2, <3>1, <3>3, <4>1, ReadTouches
    <3> QED
      BY <3>2, <3>3
  <2> QED
    BY <1>1, <1>8, <2>1, <2>2, ReadPosition DEF MsgsCurrent
<1>9. ASSUME walk.zone = "chats", NEW n, n = Position PROVE ChatsCurrent(n)'
  <2>1. \A c \in Before("chats", walk.at) : IsStored(c)' => records'[c].ver = software'.chats
    BY <1>3, <1>4, <1>7, <1>9 DEF ChatsCurrent
  <2>2. ASSUME NEW c \in Page PROVE records'[c].ver = software'.chats
    <3>1. c \in Everything /\ c \in IngestedOf(walk.zone, Page)
      BY <1>1, <1>9, ReadPosition DEF IngestedOf, Everything
    <3> QED
      BY <1>1, <1>2, <1>9, <3>1, ReadRecords
  <2> QED
    BY <1>1, <1>9, <2>1, <2>2, ReadPosition DEF ChatsCurrent
<1>10. MsgsCurrent(tokens["msgs"])'
  <2>1. tokens'["msgs"] = tokens["msgs"] \/ (walk.zone = "msgs" /\ tokens'["msgs"] = Position)
    BY <1>1, ReadTokens DEF Zones
  <2>2. CASE tokens'["msgs"] = tokens["msgs"]
    BY <1>3, <1>5, <1>6, <2>2 DEF Zones, MsgsCurrent
  <2>3. CASE walk.zone = "msgs" /\ tokens'["msgs"] = Position
    BY <1>8, <2>3 DEF MsgsCurrent
  <2> QED
    BY <2>1, <2>2, <2>3
<1>11. ChatsCurrent(tokens["chats"])'
  <2>1. tokens'["chats"] = tokens["chats"] \/ (walk.zone = "chats" /\ tokens'["chats"] = Position)
    BY <1>1, ReadTokens DEF Zones
  <2>2. CASE tokens'["chats"] = tokens["chats"]
    BY <1>3, <1>5, <1>7, <2>2 DEF Zones, ChatsCurrent
  <2>3. CASE walk.zone = "chats" /\ tokens'["chats"] = Position
    BY <1>9, <2>3 DEF ChatsCurrent
  <2> QED
    BY <2>1, <2>2, <2>3
<1>12. ASSUME walk'.zone = "msgs" PROVE MsgsCurrent(walk.at)'
  <2>1. (walk.zone = "msgs" /\ walk'.at = Position) \/ walk'.at = tokens["msgs"]
    BY <1>1, <1>12, ReadWalk DEF NextZone
  <2> QED
    BY <1>3, <1>5, <1>6, <1>8, <2>1 DEF MsgsCurrent, Zones
<1>13. ASSUME walk'.zone = "chats" PROVE ChatsCurrent(walk.at)'
  <2>1. (walk.zone = "chats" /\ walk'.at = Position) \/ walk'.at = tokens["chats"]
    BY <1>1, <1>13, ReadWalk DEF NextZone
  <2> QED
    BY <1>3, <1>5, <1>7, <1>9, <2>1 DEF ChatsCurrent, Zones
<1> QED
  BY <1>10, <1>11, <1>12, <1>13 DEF RereadInv

LEMMA ReadKeepsAtts == ASSUME SyncInv, ReadPage PROVE AttsInv'
<1>1. SyncType /\ AttsInv /\ walk.zone \in Zones /\ walk # NoWalk
  BY WalkIsWalk DEF SyncInv, ReadPage
<1>2. AttachmentsKnown'
  <2>1. ASSUME NEW m \in DOMAIN ChatOf, IsStored(m)' PROVE records'[m].due \subseteq records'[m].atts
    <3>1. CASE (IsStored(m)' <=> IsStored(m)) /\ records'[m] = records[m]
      BY <1>1, <2>1, <3>1 DEF AttsInv, AttachmentsKnown
    <3>2. CASE records'[m] = MessageRow(m)
      BY <1>1, <3>2 DEF MessageRow, AttsInv
    <3> QED
      BY <1>1, <3>1, <3>2, ReadTouches
  <2> QED
    BY <2>1 DEF AttachmentsKnown
<1>3. walk.zone = "atts" => Before("atts", Position) \subseteq walk'.atts
  BY <1>1, ReadWalk, ReadPosition DEF AttsInv
<1>4. walk'.zone = "atts" => Before("atts", walk'.at) \subseteq walk'.atts /\ walk'.known = {}
  BY <1>1, <1>3, ReadWalk DEF NextZone, AttsInv
<1>5. walk'.known \subseteq walk'.atts
  <2>1. CASE Finished /\ walk.zone = "atts"
    <3>1. arrived["atts"] <= Position /\ arrived["atts"] \in Nat /\ Position \in Nat
      BY <1>1, <2>1, ReadPosition, WalkIsWalk DEF Finished, Position, More, SyncType
    <3>2. AttsArrived \subseteq Before("atts", Position)
      BY <3>1, PagesGrow DEF AttsArrived
    <3> QED
      BY <1>1, <1>3, <2>1, <3>2, ReadWalk
  <2>2. CASE ~(Finished /\ walk.zone = "atts")
    BY <1>1, <2>2, ReadWalk DEF AttsInv
  <2> QED
    BY <2>1, <2>2
<1> QED
  BY <1>2, <1>4, <1>5 DEF AttsInv

LEMMA ReadKeepsRooms == ASSUME SyncInv, ReadPage PROVE RoomsInv'
<1>1. SyncType /\ RoomsInv /\ walk.zone \in Zones
  BY DEF SyncInv, ReadPage
<1>2. UNCHANGED <<control, portalsPending, failedBefore, rooms>>
  BY DEF ReadPage, controller
<1>3. walk' # NoWalk
  BY <1>1, ReadWalk DEF Walk, NoWalk, Zones
<1>4. CASE IngestedOf(walk.zone, Page) = {}
  <2>1. \A m \in DOMAIN ChatOf : IsStored(m)' <=> IsStored(m)
    BY <1>1, <1>4, ReadRecords, MessagesApart DEF IsStored
  <2> QED
    BY <1>1, <1>2, <1>3, <2>1, ReadWalk DEF RoomsInv
<1>5. CASE IngestedOf(walk.zone, Page) # {}
  <2>1. walk.zone # "atts" /\ Page # {}
    BY <1>1, <1>5 DEF IngestedOf, Zones
  <2> QED
    BY <1>1, <1>3, <2>1, ReadWalk DEF RoomsInv
<1> QED
  BY <1>4, <1>5

LEMMA ReadKeeps == SyncInv /\ ReadPage => SyncInv'
BY ReadKeepsType, ReadKeepsTaken, ReadKeepsBare, ReadKeepsReread, ReadKeepsAtts, ReadKeepsRooms DEF SyncInv

-----------------------------------------------------------------------------
(* The other steps.                                                        *)

\* What is stored, and how far the tokens are, stays: what was said of them stays too.
LEMMA StoresStay ==
    ASSUME UNCHANGED <<stores, passedOver>>
    PROVE  /\ \A r : IsStored(r)' <=> IsStored(r)
           /\ MsgsTaken(tokens["msgs"]) => MsgsTaken(tokens["msgs"])'
           /\ BareInv => BareInv'
           /\ AttachmentsKnown => AttachmentsKnown'
           /\ UNCHANGED software /\ MsgsCurrent(tokens["msgs"]) => MsgsCurrent(tokens["msgs"])'
           /\ UNCHANGED software /\ ChatsCurrent(tokens["chats"]) => ChatsCurrent(tokens["chats"])'
BY DEF stores, IsStored, MsgsTaken, BareInv, AttachmentsKnown, MsgsCurrent, ChatsCurrent

\* A walk that ends leaves what is known of the store; the tokens need no reset.
LEMMA WalkEnds ==
    ASSUME SyncInv, walk # NoWalk, walk' = NoWalk, UNCHANGED <<tokens, records, software, passedOver, interrupted>>
    PROVE  TakenInv' /\ BareInv' /\ RereadInv' /\ AttsInv'
<1>1. walk'.zone = "none"
  BY DEF NoWalk
<1>2. ~interrupted => MsgsCurrent(tokens["msgs"]) /\ ChatsCurrent(tokens["chats"])
  BY DEF SyncInv, RereadInv, ResetDue
<1>3. \A r : IsStored(r)' <=> IsStored(r)
  BY DEF IsStored
<1>4. TakenInv'
  BY <1>1, <1>3 DEF SyncInv, TakenInv, MsgsTaken
<1>5. BareInv'
  BY <1>3 DEF SyncInv, BareInv
<1>6. RereadInv'
  BY <1>1, <1>2, <1>3 DEF RereadInv, MsgsCurrent, ChatsCurrent
<1>7. AttsInv'
  BY <1>1, <1>3 DEF SyncInv, AttsInv, AttachmentsKnown
<1> QED
  BY <1>4, <1>5, <1>6, <1>7

\* A zone is left after too many errors: the next one starts at its token.
LEMMA ErrorKeeps == SyncInv /\ PageError => SyncInv'
<1> SUFFICES ASSUME SyncInv, PageError PROVE SyncInv'
  OBVIOUS
<1>1. SyncType /\ walk.zone \in Zones /\ walk \in Walk /\ walk # NoWalk
  BY WalkIsWalk DEF SyncInv, PageError
<1>2. UNCHANGED <<arrived, tokens, saved, records, software, control, passesLeft, failedBefore, portalsPending,
                  gateOpen, rooms, passedOver, interrupted>>
  BY DEF PageError, stores, controller, history
<1>3. /\ walk' \in Walk /\ walk'.boot = walk.boot /\ walk'.got = walk.got /\ walk'.known = walk.known
      /\ walk'.atts = walk.atts \/ (walk.zone = "atts" /\ walk'.zone = "chats")
      /\ \/ walk'.zone = walk.zone /\ walk'.at = walk.at
         \/ walk'.zone = "done"
         \/ walk'.zone \in {"chats", "msgs"} /\ walk'.at = tokens[walk'.zone]
  <2> DEFINE gone == Leaves(walk)
  <2>1. /\ gone \in Walk /\ gone.boot = walk.boot /\ gone.got = walk.got /\ gone.known = walk.known
        /\ gone.atts = walk.atts /\ (walk.zone = "atts" => gone.zone = "chats")
        /\ \/ gone.zone = "done"
           \/ gone.zone \in {"chats", "msgs"} /\ gone.at = tokens[gone.zone]
    <3>1. CASE walk.zone = "msgs"
      <4>1. gone = [walk EXCEPT !.zone = "done"]
        BY <3>1 DEF Leaves
      <4> HIDE DEF gone
      <4> QED
        BY <1>1, <3>1, <4>1 DEF Walk
    <3>2. CASE walk.zone # "msgs"
      <4>1. gone = [walk EXCEPT !.zone = NextZone(walk.zone), !.at = tokens[NextZone(walk.zone)], !.errs = 0]
        BY <3>2 DEF Leaves
      <4>2. /\ NextZone(walk.zone) \in {"chats", "msgs"} /\ tokens[NextZone(walk.zone)] \in Nat
            /\ walk.zone = "atts" => NextZone(walk.zone) = "chats"
        BY <1>1 DEF NextZone, Zones, SyncType
      <4> HIDE DEF gone
      <4> QED
        BY <1>1, <4>1, <4>2 DEF Walk, Zones
    <3> QED
      BY <3>1, <3>2
  <2>2. AttsArrived \in SUBSET AllAtts
    BY <1>1, CloudSyncAssumption, SMTT(30) DEF AttsArrived, AllAtts, Before, SyncType, Zones
  <2>3. \/ walk' = [walk EXCEPT !.errs = walk.errs + 1]
        \/ walk' = gone
        \/ walk.zone = "atts" /\ walk' = [gone EXCEPT !.atts = AttsArrived]
    BY DEF PageError
  <2> HIDE DEF gone
  <2>4. CASE walk' = [walk EXCEPT !.errs = walk.errs + 1]
    BY <1>1, <2>4 DEF Walk
  <2>5. CASE walk' = gone
    BY <2>1, <2>5
  <2>6. CASE walk.zone = "atts" /\ walk' = [gone EXCEPT !.atts = AttsArrived]
    BY <2>1, <2>2, <2>6 DEF Walk
  <2> QED
    BY <2>3, <2>4, <2>5, <2>6
<1>4. walk' # NoWalk
  BY <1>3 DEF Walk, NoWalk, Zones
<1>5. SyncType' /\ StageInv'
  BY <1>1, <1>2, <1>3, <1>4 DEF SyncInv, SyncType, StageInv, Zones
<1>6. \A r : IsStored(r)' <=> IsStored(r)
  BY <1>2 DEF IsStored
<1>7. TakenInv'
  BY <1>2, <1>3, <1>6 DEF SyncInv, TakenInv, MsgsTaken
<1>8. BareInv'
  BY <1>6 DEF SyncInv, BareInv
<1>9. RereadInv'
  <2>1. ~interrupted => MsgsCurrent(tokens["msgs"]) /\ ChatsCurrent(tokens["chats"])
    BY <1>1 DEF SyncInv, RereadInv, ResetDue
  <2> QED
    BY <1>2, <1>3, <1>6, <2>1 DEF SyncInv, RereadInv, MsgsCurrent, ChatsCurrent
<1>10. AttsInv'
  BY <1>1, <1>2, <1>3, <1>6 DEF SyncInv, AttsInv, AttachmentsKnown
<1>11. RoomsInv'
  BY <1>1, <1>2, <1>3, <1>4, <1>6 DEF SyncInv, RoomsInv
<1> QED
  BY <1>5, <1>7, <1>8, <1>9, <1>10, <1>11 DEF SyncInv

LEMMA IngestErrorKeeps == SyncInv /\ IngestError => SyncInv'
<1> SUFFICES ASSUME SyncInv, IngestError PROVE SyncInv'
  OBVIOUS
<1>1. walk # NoWalk /\ walk' = NoWalk /\ walk'.zone = "none"
  BY DEF IngestError, NoWalk
<1>2. TakenInv' /\ BareInv' /\ RereadInv' /\ AttsInv'
  BY <1>1, WalkEnds DEF IngestError, stores, history
<1>3. walk \in Walk
  BY <1>1 DEF SyncInv, SyncType
<1>4. SyncType'
  BY <1>1, <1>3 DEF SyncInv, SyncType, IngestError, stores, history, AfterBootFailure, Zones, Walk
<1>5. StageInv'
  BY <1>1 DEF SyncInv, StageInv, IngestError, AfterBootFailure
<1>6. RoomsInv'
  BY DEF RoomsInv, IngestError, AfterBootFailure
<1> QED
  BY <1>2, <1>4, <1>5, <1>6 DEF SyncInv

LEMMA BootstrapKeeps == SyncInv /\ FinishBootstrap => SyncInv'
<1> SUFFICES ASSUME SyncInv, FinishBootstrap PROVE SyncInv'
  OBVIOUS
<1>1. walk # NoWalk /\ walk' = NoWalk /\ walk'.zone = "none"
  BY DEF FinishBootstrap, NoWalk
<1>2. TakenInv' /\ BareInv' /\ RereadInv' /\ AttsInv'
  BY <1>1, WalkEnds DEF FinishBootstrap, history
<1>3. saved' \in [all : Nat, chats : Nat] /\ saved'.all <= software.all /\ saved'.chats <= software.chats
  BY DEF SyncInv, SyncType, FinishBootstrap, SavedVersions
<1>4. SyncType'
  BY <1>1, <1>3 DEF SyncInv, SyncType, FinishBootstrap, history, Zones
<1>5. StageInv' /\ RoomsInv'
  BY <1>1 DEF StageInv, RoomsInv, FinishBootstrap
<1> QED
  BY <1>2, <1>4, <1>5 DEF SyncInv

\* A delayed pass that leaves out the making of rooms has stored nothing, and
\* nothing was owed before.
LEMMA NoRoomOwed ==
    ASSUME SyncInv, FinishDelayed, passesLeft' = passesLeft - 1
    PROVE  \A m \in DOMAIN ChatOf : IsStored(m) => ChatOf[m] \in rooms
<1>1. walk # NoWalk /\ control = "wait" /\ passesLeft \in Int
  BY DEF SyncInv, SyncType, StageInv, FinishDelayed, NoWalk
<1>2. ~shouldRunDelayed(walk.got)
  BY <1>1 DEF FinishDelayed
<1> QED
  BY <1>1, <1>2 DEF SyncInv, RoomsInv, shouldRunDelayed

LEMMA DelayedKeeps == SyncInv /\ FinishDelayed => SyncInv'
<1> SUFFICES ASSUME SyncInv, FinishDelayed PROVE SyncInv'
  OBVIOUS
<1>1. walk # NoWalk /\ walk' = NoWalk /\ walk'.zone = "none"
  BY DEF FinishDelayed, NoWalk
<1>2. TakenInv' /\ BareInv' /\ RereadInv' /\ AttsInv'
  BY <1>1, WalkEnds DEF FinishDelayed, history
<1>3. saved' \in [all : Nat, chats : Nat] /\ saved'.all <= software.all /\ saved'.chats <= software.chats
  BY DEF SyncInv, SyncType, FinishDelayed, SavedVersions
<1>4. /\ control' \in {"portals", "wait", "ended"} /\ failedBefore' \in BOOLEAN
      /\ passesLeft' \in Int /\ passesLeft' <= Delays
  <2>1. Delays \in Nat /\ passesLeft \in Int /\ passesLeft <= Delays /\ failedBefore \in BOOLEAN
    BY CloudSyncAssumption DEF SyncInv, SyncType
  <2>2. CASE shouldRunDelayed(walk.got)
    BY <2>1, <2>2 DEF FinishDelayed
  <2>3. CASE ~shouldRunDelayed(walk.got)
    <3>1. passesLeft' = passesLeft - 1 /\ control' \in {"ended", "wait"} /\ failedBefore' = failedBefore
      BY <2>3 DEF FinishDelayed
    <3> QED
      BY <2>1, <3>1
  <2> QED
    BY <2>2, <2>3
<1>5. SyncType'
  BY <1>1, <1>3, <1>4 DEF SyncInv, SyncType, FinishDelayed, history, Zones
<1>6. StageInv'
  BY <1>1, <1>4 DEF StageInv
<1>7. RoomsInv'
  <2>1. CASE control' = "portals"
    BY <2>1 DEF RoomsInv
  <2>2. CASE control' # "portals"
    <3>1. \A m \in DOMAIN ChatOf : IsStored(m) => ChatOf[m] \in rooms
      BY <2>2, NoRoomOwed DEF FinishDelayed
    <3>2. UNCHANGED <<records, rooms>>
      BY DEF FinishDelayed
    <3> QED
      BY <3>1, <3>2 DEF RoomsInv, IsStored
  <2> QED
    BY <2>1, <2>2
<1> QED
  BY <1>2, <1>5, <1>6, <1>7 DEF SyncInv

\* Every stored message has its room now, or the scan has failed and the
\* controller remembers.
LEMMA PortalsKeep == SyncInv /\ CreatePortals => SyncInv'
<1> SUFFICES ASSUME SyncInv, CreatePortals PROVE SyncInv'
  OBVIOUS
<1>1. walk = NoWalk /\ walk' = NoWalk /\ walk'.zone = "none"
  BY DEF SyncInv, SyncType, StageInv, CreatePortals, Walk, NoWalk
<1>2. UNCHANGED <<stores, passedOver, software, arrived, interrupted, failedBefore>>
  BY DEF CreatePortals, history
<1>3. ~interrupted => MsgsCurrent(tokens["msgs"]) /\ ChatsCurrent(tokens["chats"])
  BY DEF SyncInv, RereadInv, ResetDue, CreatePortals
<1>4. TakenInv' /\ BareInv'
  BY <1>1, <1>2, StoresStay DEF SyncInv, TakenInv
<1>5. RereadInv'
  BY <1>1, <1>2, <1>3, StoresStay DEF RereadInv
<1>6. AttsInv'
  BY <1>1, <1>2, StoresStay DEF SyncInv, AttsInv
<1>7. control' \in {"wait", "ended"} /\ portalsPending' \in BOOLEAN /\ passesLeft' \in Int /\ passesLeft' <= Delays
  <2>1. Delays \in Nat /\ passesLeft \in Int /\ passesLeft <= Delays
    BY CloudSyncAssumption DEF SyncInv, SyncType
  <2>2. passesLeft' = passesLeft \/ passesLeft' = passesLeft - 1
    BY DEF CreatePortals
  <2>3. passesLeft' \in Int /\ passesLeft' <= Delays
    BY <2>1, <2>2
  <2> QED
    BY <2>3 DEF CreatePortals
<1>8. SyncType' /\ StageInv'
  BY <1>1, <1>2, <1>7 DEF SyncInv, SyncType, StageInv, stores, Zones
<1>9. RoomsInv'
  <2>1. CASE portalsPending'
    BY <2>1 DEF RoomsInv
  <2>2. CASE ~portalsPending'
    <3>1. rooms' = rooms \cup {ChatOf[m] : m \in {m \in DOMAIN ChatOf : IsStored(m)}}
      BY <2>2 DEF CreatePortals
    <3> QED
      BY <1>2, <3>1, StoresStay DEF RoomsInv
  <2> QED
    BY <2>1, <2>2
<1> QED
  BY <1>4, <1>5, <1>6, <1>8, <1>9 DEF SyncInv

LEMMA PropagatesKeeps == SyncInv /\ Propagates => SyncInv'
<1> SUFFICES ASSUME SyncInv, Propagates PROVE SyncInv'
  OBVIOUS
<1>1. UNCHANGED <<tokens, saved, records, software, walk, control, passesLeft, failedBefore, portalsPending,
                  gateOpen, rooms, passedOver, interrupted>>
  BY DEF Propagates, stores, controller, history
<1>2. /\ arrived' \in [Zones -> Nat] /\ \A z \in Zones : arrived'[z] <= Len(Feed[z]) /\ arrived[z] <= arrived'[z]
  <2>1. PICK z \in Zones : arrived[z] < Len(Feed[z]) /\ arrived' = [arrived EXCEPT ![z] = @ + 1]
    BY DEF Propagates
  <2>2. arrived \in [Zones -> Nat] /\ \A y \in Zones : arrived[y] <= Len(Feed[y]) /\ Len(Feed[y]) \in Nat
    BY CloudSyncAssumption DEF SyncInv, SyncType
  <2> QED
    BY <2>1, <2>2
<1>3. \A z \in Zones : tokens'[z] <= arrived'[z]
  BY <1>1, <1>2 DEF SyncInv, SyncType
<1>4. walk'.zone \in Zones => walk'.at <= arrived'[walk'.zone]
  <2>1. walk.zone \in Zones => walk.at \in Nat
    BY WalkIsWalk DEF SyncInv
  <2> QED
    BY <1>1, <1>2, <2>1 DEF SyncInv, SyncType
<1>5. SyncType'
  BY <1>1, <1>2, <1>3, <1>4 DEF SyncInv, SyncType
<1>6. \A r : IsStored(r)' <=> IsStored(r)
  BY <1>1 DEF IsStored
<1>7. TakenInv' /\ BareInv'
  BY <1>1, <1>6 DEF SyncInv, TakenInv, MsgsTaken, BareInv
<1>8. RereadInv'
  BY <1>1, <1>6 DEF SyncInv, RereadInv, ResetDue, MsgsCurrent, ChatsCurrent
<1>9. AttsInv' /\ RoomsInv' /\ StageInv'
  BY <1>1, <1>6 DEF SyncInv, AttsInv, AttachmentsKnown, RoomsInv, StageInv
<1> QED
  BY <1>5, <1>7, <1>8, <1>9 DEF SyncInv

\* Panics are recovered once the gate is open: no bootstrap is under way then.
LEMMA PanicKeeps == SyncInv /\ ControllerPanics => SyncInv'
<1> SUFFICES ASSUME SyncInv, ControllerPanics PROVE SyncInv'
  OBVIOUS
<1>1. walk' = NoWalk /\ walk'.zone = "none" /\ control' = "ended"
  BY DEF ControllerPanics, NoWalk
<1>2. UNCHANGED <<stores, passedOver, software, arrived, interrupted, passesLeft, failedBefore, portalsPending>>
  BY DEF ControllerPanics, history
<1>3. ~interrupted => MsgsCurrent(tokens["msgs"]) /\ ChatsCurrent(tokens["chats"])
  BY DEF SyncInv, StageInv, RereadInv, ResetDue, ControllerPanics
<1>4. TakenInv' /\ BareInv'
  BY <1>1, <1>2, StoresStay DEF SyncInv, TakenInv
<1>5. RereadInv'
  BY <1>1, <1>2, <1>3, StoresStay DEF RereadInv
<1>6. AttsInv'
  BY <1>1, <1>2, StoresStay DEF SyncInv, AttsInv
<1>7. SyncType' /\ StageInv' /\ RoomsInv'
  BY <1>1, <1>2 DEF SyncInv, SyncType, StageInv, RoomsInv, stores, Zones
<1> QED
  BY <1>4, <1>5, <1>6, <1>7 DEF SyncInv

\* A pass starts: of the tokens that stay, nothing was to be read again.
LEMMA StartTokens ==
    ASSUME SyncInv, StartSync
    PROVE  /\ tokens' \in [Zones -> Nat] /\ \A z \in Zones : tokens'[z] = 0 \/ tokens'[z] = tokens[z]
           /\ tokens'["atts"] = 0
           /\ ResetDue /\ saved.all < software.all => tokens'["msgs"] = 0 /\ tokens'["chats"] = 0
           /\ ResetDue /\ saved.chats < software.chats => tokens'["chats"] = 0
<1>1. tokens \in [Zones -> Nat] /\ saved.all <= software.all /\ saved.all \in Nat /\ software.all \in Nat
  BY DEF SyncInv, SyncType
<1> DEFINE base == IF control = "boot" THEN BootTokens ELSE tokens
<1>2. tokens' = [base EXCEPT !["atts"] = 0]
  BY DEF StartSync, AttachmentStart
<1>3. /\ base \in [Zones -> Nat] /\ \A z \in Zones : base[z] = 0 \/ base[z] = tokens[z]
      /\ ResetDue /\ saved.all < software.all => base["msgs"] = 0 /\ base["chats"] = 0
      /\ ResetDue /\ saved.chats < software.chats => base["chats"] = 0
  <2>1. CASE ~ResetDue
    <3>1. base = tokens
      BY <2>1 DEF ResetDue, BootTokens, StartSync
    <3> HIDE DEF base
    <3> QED
      BY <1>1, <2>1, <3>1
  <2>2. CASE ResetDue /\ saved.all < software.all
    <3>1. base = [z \in Zones |-> 0]
      BY <1>1, <2>2 DEF ResetDue, BootTokens, UpgradedTokens
    <3> HIDE DEF base
    <3> QED
      BY <3>1 DEF Zones
  <2>3. CASE ResetDue /\ saved.all = software.all /\ saved.chats < software.chats
    <3>1. base = [tokens EXCEPT !["chats"] = 0]
      BY <1>1, <2>3 DEF ResetDue, BootTokens
    <3> HIDE DEF base
    <3> QED
      BY <1>1, <2>3, <3>1 DEF Zones
  <2>4. CASE ResetDue /\ saved.all = software.all /\ ~(saved.chats < software.chats)
    <3>1. base = tokens
      BY <1>1, <2>4 DEF ResetDue, BootTokens
    <3> HIDE DEF base
    <3> QED
      BY <1>1, <2>4, <3>1
  <2> QED
    BY <1>1, <2>1, <2>2, <2>3, <2>4
<1> HIDE DEF base
<1> QED
  BY <1>1, <1>2, <1>3 DEF Zones

LEMMA StartKeeps == SyncInv /\ StartSync => SyncInv'
<1> SUFFICES ASSUME SyncInv, StartSync PROVE SyncInv'
  OBVIOUS
<1>1. UNCHANGED <<arrived, saved, software, control, passesLeft, failedBefore, portalsPending, gateOpen, rooms,
                  passedOver, interrupted>>
  BY DEF StartSync, controller, history
<1>2. walk = NoWalk
  BY DEF StartSync
<1>3. /\ walk' \in Walk /\ walk'.zone = "atts" /\ walk'.at = 0 /\ walk'.boot = (control = "boot")
      /\ walk'.known = {}
  <2>1. walk' = [zone |-> "atts", at |-> tokens'["atts"], errs |-> 0, boot |-> (control = "boot"), got |-> FALSE,
                 atts |-> {}, known |-> {}]
    BY DEF StartSync
  <2> QED
    BY <2>1, StartTokens DEF Walk, Zones
<1>4. walk' # NoWalk
  BY <1>3 DEF NoWalk
<1>5. /\ \A z \in Zones : tokens'[z] <= arrived[z]
      /\ \A z \in Zones : tokens[z] \in Nat /\ arrived[z] \in Nat
  <2>1. \A z \in Zones : tokens[z] \in Nat /\ arrived[z] \in Nat /\ tokens[z] <= arrived[z]
    BY DEF SyncInv, SyncType
  <2>2. \A z \in Zones : tokens'[z] = 0 \/ tokens'[z] = tokens[z]
    BY StartTokens
  <2> QED
    BY <2>1, <2>2
<1>6. SyncType'
  BY <1>1, <1>3, <1>5, StartTokens DEF SyncInv, SyncType
<1>7. StageInv'
  BY <1>1, <1>3 DEF SyncInv, StageInv, StartSync
<1>8. \/ records' = records
      \/ records' = [r \in Everything |-> NotStored] /\ control = "boot" /\ \A z \in Zones : tokens[z] = 0
  BY DEF StartSync, hasAnySyncState
<1>9. CASE records' = records
  <2>1. \A r : IsStored(r)' <=> IsStored(r)
    BY <1>9 DEF IsStored
  <2>2. \A z \in Zones : tokens'[z] = tokens[z] \/ Before(z, tokens'[z]) = {}
    BY StartTokens, NoPages
  <2>3. TakenInv' /\ BareInv'
    BY <1>1, <1>3, <2>1, <2>2 DEF SyncInv, TakenInv, MsgsTaken, BareInv, Zones
  <2>4. ~interrupted => MsgsCurrent(tokens["msgs"])' /\ ChatsCurrent(tokens["chats"])'
    <3>1. ASSUME ~interrupted PROVE MsgsCurrent(tokens["msgs"])'
      <4>1. MsgsCurrent(tokens["msgs"]) \/ tokens'["msgs"] = 0
        BY <3>1, StartTokens DEF SyncInv, RereadInv
      <4> QED
        BY <1>1, <1>9, <2>1, <2>2, <4>1, NoPages DEF MsgsCurrent, Zones
    <3>2. ASSUME ~interrupted PROVE ChatsCurrent(tokens["chats"])'
      <4>1. ChatsCurrent(tokens["chats"]) \/ tokens'["chats"] = 0
        BY <3>2, StartTokens DEF SyncInv, RereadInv
      <4> QED
        BY <1>1, <1>9, <2>1, <2>2, <4>1, NoPages DEF ChatsCurrent, Zones
    <3> QED
      BY <3>1, <3>2
  <2>5. RereadInv'
    BY <1>1, <1>3, <2>4 DEF RereadInv
  <2>6. AttsInv'
    BY <1>3, <1>9, <2>1, NoPages DEF SyncInv, AttsInv, AttachmentsKnown
  <2>7. RoomsInv'
    BY <1>1, <1>2, <2>1 DEF SyncInv, RoomsInv
  <2> QED
    BY <1>6, <1>7, <2>3, <2>5, <2>6, <2>7 DEF SyncInv
<1>10. CASE /\ records' = [r \in Everything |-> NotStored] /\ control = "boot"
            /\ \A z \in Zones : tokens[z] = 0
  <2>1. \A r : ~IsStored(r)'
    BY <1>10 DEF IsStored
  <2>2. \A z \in Zones : Before(z, tokens'[z]) = {}
    BY <1>10, StartTokens, NoPages
  <2>3. TakenInv' /\ BareInv'
    BY <1>3, <2>1, <2>2 DEF TakenInv, MsgsTaken, BareInv, Zones
  <2>4. RereadInv'
    BY <1>3, <2>1 DEF RereadInv, MsgsCurrent, ChatsCurrent
  <2>5. AttsInv' /\ RoomsInv'
    BY <1>1, <1>3, <1>10, <2>1, NoPages DEF AttsInv, AttachmentsKnown, RoomsInv
  <2> QED
    BY <1>6, <1>7, <2>3, <2>4, <2>5 DEF SyncInv
<1> QED
  BY <1>8, <1>9, <1>10

\* After a restart the bootstrap is to come, so an upgrade may leave the rows old.
LEMMA RestartKeeps == SyncInv /\ (\E b \in Bumps : RestartSync(b)) => SyncInv'
<1> SUFFICES ASSUME SyncInv, NEW b \in Bumps, RestartSync(b) PROVE SyncInv'
  OBVIOUS
<1>1. walk' = NoWalk /\ walk'.zone = "none" /\ control' = "boot" /\ gateOpen' = FALSE
  BY DEF RestartSync, NoWalk
<1>2. UNCHANGED <<stores, passedOver, arrived, rooms>>
  BY DEF RestartSync
<1>3. b.all \in {0, 1} /\ b.chats \in {0, 1}
  BY DEF Bumps
<1>4. /\ software' = [all |-> software.all + b.all, chats |-> software.chats + b.chats]
      /\ software.all \in Nat \ {0} /\ software.chats \in Nat \ {0} /\ saved.all \in Nat /\ saved.chats \in Nat
      /\ saved.all <= software.all /\ saved.chats <= software.chats
  BY DEF RestartSync, SyncInv, SyncType
<1>5. /\ software' \in [all : Nat \ {0}, chats : Nat \ {0}]
      /\ software'.all = software.all + b.all /\ software'.chats = software.chats + b.chats
  BY <1>3, <1>4
<1>6. SyncType' /\ StageInv' /\ RoomsInv'
  <2>1. passesLeft' \in Int /\ passesLeft' <= Delays
    BY CloudSyncAssumption DEF RestartSync
  <2>2. saved'.all <= software'.all /\ saved'.chats <= software'.chats
    BY <1>2, <1>3, <1>4, <1>5 DEF stores
  <2>3. failedBefore' \in BOOLEAN /\ portalsPending' \in BOOLEAN /\ interrupted' \in BOOLEAN
    BY DEF RestartSync
  <2> QED
    BY <1>1, <1>2, <1>5, <2>1, <2>2, <2>3 DEF SyncInv, SyncType, StageInv, RoomsInv, stores, Zones
<1>7. TakenInv' /\ BareInv'
  BY <1>1, <1>2, StoresStay DEF SyncInv, TakenInv
<1>8. AttsInv'
  BY <1>1, <1>2, StoresStay DEF SyncInv, AttsInv
<1>9. ASSUME ~interrupted'
      PROVE  /\ MsgsCurrent(tokens["msgs"])' \/ (ResetDue' /\ saved'.all < software'.all)
             /\ ChatsCurrent(tokens["chats"])' \/ (ResetDue' /\ saved'.chats < software'.chats)
  <2>1. ~interrupted /\ (b.all + b.chats > 0 => rooms # {} \/ ~hasAnySyncState)
    BY <1>9 DEF RestartSync
  <2>2. ResetDue' <=> rooms # {}
    BY <1>1, <1>2 DEF ResetDue
  <2>3. UNCHANGED <<tokens, saved, records>>
    BY <1>2 DEF stores
  <2>4. \A r : IsStored(r)' <=> IsStored(r)
    BY <2>3 DEF IsStored
  <2>5. CASE b.all + b.chats > 0 /\ rooms = {}
    <3>1. tokens'["msgs"] = 0 /\ tokens'["chats"] = 0
      BY <2>1, <2>3, <2>5 DEF hasAnySyncState, Zones
    <3> QED
      BY <3>1, NoPages DEF MsgsCurrent, ChatsCurrent
  <2>6. CASE ~(b.all + b.chats > 0 /\ rooms = {})
    <3>1. MsgsCurrent(tokens["msgs"])' \/ (ResetDue' /\ saved'.all < software'.all)
      <4>1. CASE b.all = 0
        <5>1. software'.all = software.all
          BY <1>4, <1>5, <4>1
        <5>2. MsgsCurrent(tokens["msgs"]) => MsgsCurrent(tokens["msgs"])'
          BY <2>3, <2>4, <5>1 DEF MsgsCurrent
        <5>3. MsgsCurrent(tokens["msgs"]) \/ (rooms # {} /\ saved.all < software.all)
          BY <2>1 DEF SyncInv, RereadInv, ResetDue
        <5> QED
          BY <2>2, <2>3, <5>1, <5>2, <5>3
      <4>2. CASE b.all = 1
        BY <1>3, <1>4, <1>5, <2>2, <2>3, <2>6, <4>2
      <4> QED
        BY <1>3, <4>1, <4>2
    <3>2. ChatsCurrent(tokens["chats"])' \/ (ResetDue' /\ saved'.chats < software'.chats)
      <4>1. CASE b.chats = 0
        <5>1. software'.chats = software.chats
          BY <1>4, <1>5, <4>1
        <5>2. ChatsCurrent(tokens["chats"]) => ChatsCurrent(tokens["chats"])'
          BY <2>3, <2>4, <5>1 DEF ChatsCurrent
        <5>3. ChatsCurrent(tokens["chats"]) \/ (rooms # {} /\ saved.chats < software.chats)
          BY <2>1 DEF SyncInv, RereadInv, ResetDue
        <5> QED
          BY <2>2, <2>3, <5>1, <5>2, <5>3
      <4>2. CASE b.chats = 1
        BY <1>3, <1>4, <1>5, <2>2, <2>3, <2>6, <4>2
      <4> QED
        BY <1>3, <4>1, <4>2
    <3> QED
      BY <3>1, <3>2
  <2> QED
    BY <2>5, <2>6
<1>10. RereadInv'
  BY <1>1, <1>9 DEF RereadInv
<1> QED
  BY <1>6, <1>7, <1>8, <1>10 DEF SyncInv

LEMMA StepSync == SyncInv /\ [CloudSyncNext]_syncVars => SyncInv'
<1> SUFFICES ASSUME SyncInv, [CloudSyncNext]_syncVars PROVE SyncInv'
  OBVIOUS
<1>1. CASE syncCloudAttachments \/ syncCloudChats \/ syncCloudMessages
  BY <1>1, ReadKeeps DEF syncCloudAttachments, syncCloudChats, syncCloudMessages
<1>2. CASE StartSync
  BY <1>2, StartKeeps
<1>3. CASE PageError \/ IngestError
  BY <1>3, ErrorKeeps, IngestErrorKeeps
<1>4. CASE FinishBootstrap \/ FinishDelayed \/ CreatePortals
  BY <1>4, BootstrapKeeps, DelayedKeeps, PortalsKeep
<1>5. CASE Propagates \/ ControllerPanics \/ \E b \in Bumps : RestartSync(b)
  BY <1>5, PropagatesKeeps, PanicKeeps, RestartKeeps
<1>6. CASE UNCHANGED syncVars
  BY <1>6 DEF syncVars, SyncInv, SyncType, StageInv, TakenInv, BareInv, RereadInv, AttsInv, RoomsInv, MsgsTaken,
              MsgsCurrent, ChatsCurrent, ResetDue, AttachmentsKnown, IsStored
<1> QED
  BY <1>1, <1>2, <1>3, <1>4, <1>5, <1>6 DEF CloudSyncNext

-----------------------------------------------------------------------------

\* Whatever fails, restarts or is upgraded on the way: what the saved tokens
\* have passed is in the store, with the attachments the pass could have known
\* and in the current version (runCloudSyncOnce, syncCloudMessages,
\* setSyncStateSuccess).
THEOREM NothingIsSkipped == CloudSyncSpec => []NothingSkipped
<1>1. SyncInv => NothingSkipped
  <2> SUFFICES ASSUME SyncInv PROVE NothingSkipped
    OBVIOUS
  <2>1. PassedIsStored /\ AttachmentsKnown
    BY DEF SyncInv, TakenInv, MsgsTaken, PassedIsStored, AttsInv
  <2>2. saved.all \in Nat /\ software.all \in Nat /\ saved.chats \in Nat /\ software.chats \in Nat
    BY DEF SyncInv, SyncType
  <2>3. UpgradeRereads
    BY <2>2 DEF SyncInv, RereadInv, MsgsCurrent, ChatsCurrent, UpgradeRereads
  <2> QED
    BY <2>1, <2>3 DEF NothingSkipped
<1> QED
  BY <1>1, InitSync, StepSync, PTL DEF CloudSyncSpec

\* A delayed pass is over without the making of rooms: every stored message has
\* its room, also after failed passes and failed scans
\* (shouldRunDelayedCloudReconciliation, runCloudSyncController).
THEOREM RoomsAreMade == CloudSyncSpec => RoomsNotForgotten
<1>1. SyncInv /\ [CloudSyncNext]_syncVars =>
          [walk.zone = "done" /\ passesLeft' = passesLeft - 1 =>
               \A m \in DOMAIN ChatOf : IsStored(m) => ChatOf[m] \in rooms]_syncVars
  <2> SUFFICES ASSUME SyncInv, CloudSyncNext, walk.zone = "done", passesLeft' = passesLeft - 1
               PROVE  \A m \in DOMAIN ChatOf : IsStored(m) => ChatOf[m] \in rooms
    OBVIOUS
  <2>1. passesLeft \in Int /\ passesLeft <= Delays /\ Delays \in Nat
    BY CloudSyncAssumption DEF SyncInv, SyncType
  <2>2. passesLeft' # passesLeft
    BY <2>1
  <2>3. walk # NoWalk /\ control # "portals"
    BY DEF NoWalk, SyncInv, StageInv
  <2>4. FinishDelayed
    <3>1. ~StartSync /\ ~CreatePortals
      BY <2>3 DEF StartSync, CreatePortals
    <3>2. ~ReadPage /\ ~PageError /\ ~IngestError
      BY DEF ReadPage, PageError, IngestError, Zones
    <3>3. ~FinishBootstrap /\ ~Propagates /\ ~ControllerPanics
      BY <2>2 DEF FinishBootstrap, Propagates, ControllerPanics, controller
    <3>4. \A b : ~RestartSync(b)
      BY <2>1 DEF RestartSync
    <3> QED
      BY <3>1, <3>2, <3>3, <3>4 DEF CloudSyncNext, syncCloudAttachments, syncCloudChats, syncCloudMessages
  <2> QED
    BY <2>4, NoRoomOwed
<1> QED
  BY <1>1, InitSync, StepSync, PTL DEF CloudSyncSpec, RoomsNotForgotten

-----------------------------------------------------------------------------
(* Attachments that are gone.  Until its tombstone is stored the answers    *)
(* that a record is gone are the ones about to be recorded; then no         *)
(* goroutine begins a download, and of those that have only a sync pass's   *)
(* and one of a chunk's are left.                                           *)

At(pc, p, r) == IF job[<<p, r>>].pc = pc THEN 1 ELSE 0
In(pc, r) == At(pc, "sync", r) + At(pc, "chunk", r) + At(pc, "convert", r)

JobPCs == {"none", "slot", "bytes", "begin", "download", "upload", "fail", "gone"}
Failings == [retries : Nat, abandoned : BOOLEAN]
JobStates == [pc : JobPCs, old : Failings]

MediaTypes ==
    /\ failed \in [Records -> Failings] /\ job \in [Jobs -> JobStates]
    /\ fanOuts \subseteq Passes /\ told \in [Records -> Nat] /\ deadLoaded \in BOOLEAN

\* A pass that is over has no goroutine left.
PassesApart ==
    /\ \A j \in Jobs : job[j].pc # "none" => j[1] \in fanOuts
    /\ ~({"chunk", "convert"} \subseteq fanOuts)

TombstoneKept(r) ==
    /\ r \in dead => r \in deadKept
    /\ deadLoaded /\ r \in deadKept => r \in dead
    /\ IF r \in deadKept THEN told[r] + In("download", r) <= 2 ELSE told[r] = In("gone", r)

MediaInv ==
    /\ MediaTypes /\ PassesApart
    /\ \A j \in Jobs : job[j].pc = "upload" => j[2] \notin Gone
    /\ \A r \in Gone \ forgot : TombstoneKept(r)

\* Where nothing changes for a record.
LEMMA RecordUntouched ==
    ASSUME NEW r, TombstoneKept(r), told'[r] = told[r],
           In("download", r)' = In("download", r), In("gone", r)' = In("gone", r),
           r \in deadKept' <=> r \in deadKept, r \in dead' => r \in dead \/ r \in deadKept,
           deadLoaded' /\ r \in deadKept => r \in dead'
    PROVE  TombstoneKept(r)'
BY DEF TombstoneKept

LEMMA CountsAreNumbers ==
    ASSUME NEW r, NEW pc
    PROVE  /\ In(pc, r) \in Nat
           /\ \A p : At(pc, p, r) \in {0, 1}
BY DEF In, At

\* The passes start and end.
LEMMA PassSteps ==
    ASSUME MediaInv,
           \/ \E b \in BOOLEAN : PreUploadCloudAttachments(b)
           \/ PreUploadChunkAttachments \/ ConvertChunk \/ SyncPassDone \/ SendMediaBatch
    PROVE  MediaInv'
<1>t. MediaTypes /\ job \in [Jobs -> JobStates] /\ fanOuts \subseteq Passes /\ PassesApart
  BY DEF MediaInv, MediaTypes
<1>n. NoJob \in JobStates /\ [NoJob EXCEPT !.pc = "slot"] \in JobStates
      /\ NoJob.pc = "none" /\ [NoJob EXCEPT !.pc = "slot"].pc = "slot"
  BY DEF NoJob, NoFailure, JobStates, JobPCs, Failings
<1>p. \A p \in Passes, r \in Records : <<p, r>> \in Jobs
  BY DEF Jobs
<1>g. Gone \subseteq Records
  BY MediaAssumption
<1> DEFINE Fresh == [NoJob EXCEPT !.pc = "slot"]
\* Where a pass begins, its goroutines were gone.
<1>s. ASSUME NEW q \in Passes, q \notin fanOuts, NEW todo,
             job' = [j \in Jobs |-> IF j[1] = q /\ j[2] \in todo THEN Fresh ELSE job[j]]
      PROVE  /\ job' \in [Jobs -> JobStates]
             /\ \A j \in Jobs : job'[j].pc # "none" => job[j].pc # "none" \/ j[1] = q
             /\ \A j \in Jobs : job'[j].pc = "upload" => job[j].pc = "upload"
             /\ \A r \in Records : In("download", r)' = In("download", r) /\ In("gone", r)' = In("gone", r)
  <2>1. \A j \in Jobs : job'[j] = IF j[1] = q /\ j[2] \in todo THEN Fresh ELSE job[j]
    BY <1>s
  <2>2. \A j \in Jobs : j[1] = q => job[j].pc = "none"
    BY <1>s, <1>t DEF PassesApart
  <2>3. job' \in [Jobs -> JobStates]
    BY <1>s, <1>t, <1>n
  <2>4. ASSUME NEW j \in Jobs  PROVE job'[j] = job[j] \/ (job'[j].pc = "slot" /\ job[j].pc = "none" /\ j[1] = q)
    BY <1>n, <2>1, <2>2
  <2>5. ASSUME NEW r \in Records, NEW pc \in {"download", "gone"}, NEW p \in Passes
        PROVE  At(pc, p, r)' = At(pc, p, r)
    <3>1. <<p, r>> \in Jobs
      BY <1>p
    <3>2. job'[<<p, r>>] = job[<<p, r>>]
          \/ (job'[<<p, r>>].pc = "slot" /\ job[<<p, r>>].pc = "none")
      BY <2>4, <3>1
    <3> QED BY <3>2 DEF At
  <2>6. \A r \in Records : In("download", r)' = In("download", r) /\ In("gone", r)' = In("gone", r)
    BY <2>5 DEF In, Passes
  <2> HIDE DEF Fresh
  <2> QED BY <2>3, <2>4, <2>6
<1> HIDE DEF Fresh
<1>1. ASSUME NEW b \in BOOLEAN, PreUploadCloudAttachments(b)  PROVE MediaInv'
  <2> DEFINE candidates == (IF b THEN listPendingAttachmentMessages ELSE {})
                               \cup {r \in Records : loadCurrentAttachmentRetryRow(r)}
             cached == restoreAttachmentCache(candidates)
             checks == ~(candidates \subseteq cached)
             todo(fails) == {r \in candidates \ (cached \cup LoadedDead(fails)) : ~Exhausted(r)}
  <2>0. PICK fails \in BOOLEAN :
            /\ "sync" \notin fanOuts /\ Spawn("sync", todo(fails)) /\ NotFound(fails)
            /\ dead' = IF checks THEN LoadedDead(fails) ELSE dead
            /\ deadLoaded' = (deadLoaded \/ checks)
            /\ UNCHANGED <<failed, deadKept, told>>
            /\ fails => checks
    BY <1>1 DEF PreUploadCloudAttachments
  <2> HIDE DEF candidates, cached, checks, todo
  <2>1. /\ "sync" \notin fanOuts /\ fanOuts' = fanOuts \cup {"sync"}
        /\ job' = [j \in Jobs |-> IF j[1] = "sync" /\ j[2] \in todo(fails) THEN Fresh ELSE job[j]]
        /\ IF fails THEN ~deadLoaded /\ forgot' = forgot \cup deadKept ELSE forgot' = forgot
        /\ \/ dead' = dead /\ deadLoaded' = deadLoaded
           \/ dead' = LoadedDead(fails) /\ deadLoaded' = TRUE
        /\ UNCHANGED <<failed, deadKept, told>>
    <3>1. fanOuts' = fanOuts \cup {"sync"} /\ job' = [j \in Jobs |-> IF j[1] = "sync" /\ j[2] \in todo(fails) THEN Fresh ELSE job[j]]
      BY <2>0 DEF Spawn, Fresh
    <3>2. IF fails THEN ~deadLoaded /\ forgot' = forgot \cup deadKept ELSE forgot' = forgot
      BY <2>0 DEF NotFound, loadDeadAttachments
    <3>3. \/ dead' = dead /\ deadLoaded' = deadLoaded
          \/ dead' = LoadedDead(fails) /\ deadLoaded' = TRUE
      <4>1. CASE checks
        BY <2>0, <4>1
      <4>2. CASE ~checks
        BY <1>t, <2>0, <4>2 DEF MediaTypes
      <4> QED BY <4>1, <4>2
    <3> QED BY <2>0, <3>1, <3>2, <3>3
  <2>2. /\ job' \in [Jobs -> JobStates]
        /\ \A j \in Jobs : job'[j].pc # "none" => job[j].pc # "none" \/ j[1] = "sync"
        /\ \A j \in Jobs : job'[j].pc = "upload" => job[j].pc = "upload"
        /\ \A r \in Records : In("download", r)' = In("download", r) /\ In("gone", r)' = In("gone", r)
    BY <1>s, <2>1 DEF Passes
  <2>3. MediaTypes'
    BY <1>t, <2>1, <2>2 DEF MediaTypes, Passes
  <2>4. PassesApart'
    BY <1>t, <2>1, <2>2 DEF PassesApart
  <2>5. ASSUME NEW r \in Gone \ forgot'  PROVE TombstoneKept(r)'
    <3>1. r \in Gone \ forgot /\ r \in Records /\ TombstoneKept(r)
      BY <1>g, <2>1 DEF MediaInv
    <3>2. fails => r \notin deadKept
      BY <2>1
    <3>3. /\ r \in dead' => r \in dead \/ r \in deadKept
          /\ deadLoaded' /\ r \in deadKept => r \in dead'
      BY <2>1, <3>1, <3>2 DEF LoadedDead, loadDeadAttachments, TombstoneKept
    <3> QED BY <2>1, <2>2, <3>1, <3>3, RecordUntouched
  <2> QED BY <2>2, <2>3, <2>4, <2>5 DEF MediaInv
<1>2. CASE PreUploadChunkAttachments \/ ConvertChunk
  <2>1. PICK q \in {"chunk", "convert"} :
            /\ q \notin fanOuts
            /\ \E todo : job' = [j \in Jobs |-> IF j[1] = q /\ j[2] \in todo THEN Fresh ELSE job[j]]
            /\ \/ q = "chunk" /\ "convert" \notin fanOuts /\ fanOuts' = fanOuts \cup {q}
               \/ /\ q = "convert" /\ fanOuts' = (fanOuts \ {"chunk"}) \cup {q}
                  /\ \A r \in Records : job[<<"chunk", r>>].pc = "none"
            /\ UNCHANGED <<failed, dead, deadKept, deadLoaded, forgot, told>>
    <3>1. CASE PreUploadChunkAttachments
      BY <3>1 DEF PreUploadChunkAttachments, Spawn, tombVars, Fresh
    <3>2. CASE ConvertChunk
      <4>1. /\ "chunk" \in fanOuts /\ fanOuts' = (fanOuts \ {"chunk"}) \cup {"convert"}
            /\ \A r \in Records : job[<<"chunk", r>>].pc = "none"
            /\ job' = [j \in Jobs |-> IF j[1] = "convert" /\ j[2] \in unfetched THEN Fresh ELSE job[j]]
            /\ UNCHANGED <<failed, dead, deadKept, deadLoaded, forgot, told>>
        BY <3>2 DEF ConvertChunk, tombVars, Fresh
      <4>2. "convert" \notin fanOuts
        BY <1>t, <4>1 DEF PassesApart
      <4> QED BY <4>1, <4>2
    <3> QED BY <1>2, <3>1, <3>2
  <2>2. /\ job' \in [Jobs -> JobStates]
        /\ \A j \in Jobs : job'[j].pc # "none" => job[j].pc # "none" \/ j[1] = q
        /\ \A j \in Jobs : job'[j].pc = "upload" => job[j].pc = "upload"
        /\ \A r \in Records : In("download", r)' = In("download", r) /\ In("gone", r)' = In("gone", r)
    <3>1. q \in Passes
      BY DEF Passes
    <3> QED BY <1>s, <2>1, <3>1
  <2>3. MediaTypes'
    BY <1>t, <2>1, <2>2 DEF MediaTypes, Passes
  <2>4. PassesApart'
    <3>1. ASSUME NEW j \in Jobs, job'[j].pc # "none"  PROVE j[1] \in fanOuts'
      <4>1. j[1] = q \/ (j[1] \in fanOuts /\ job[j].pc # "none")
        BY <1>t, <2>2, <3>1 DEF PassesApart
      <4>2. j = <<j[1], j[2]>> /\ j[2] \in Records
        BY DEF Jobs
      <4>3. q = "convert" /\ j[1] = "chunk" => job[j].pc = "none"
        BY <2>1, <4>2
      <4> QED BY <2>1, <4>1, <4>3
    <3>2. ~({"chunk", "convert"} \subseteq fanOuts')
      BY <2>1
    <3> QED BY <3>1, <3>2 DEF PassesApart
  <2>5. ASSUME NEW r \in Gone \ forgot'  PROVE TombstoneKept(r)'
    <3>1. r \in Records /\ TombstoneKept(r)
      BY <1>g, <2>1 DEF MediaInv
    <3> QED BY <2>1, <2>2, <3>1, RecordUntouched DEF TombstoneKept
  <2> QED BY <2>2, <2>3, <2>4, <2>5 DEF MediaInv
<1>3. CASE SyncPassDone \/ SendMediaBatch
  <2>1. PICK q \in {"sync", "convert"} :
            /\ fanOuts' = fanOuts \ {q} /\ \A r \in Records : job[<<q, r>>].pc = "none"
            /\ UNCHANGED <<failed, job, dead, deadKept, deadLoaded, forgot, told>>
    BY <1>3 DEF SyncPassDone, SendMediaBatch, tombVars
  <2>2. MediaTypes' /\ \A j \in Jobs : job'[j].pc = "upload" => j[2] \notin Gone
    BY <2>1 DEF MediaInv, MediaTypes
  <2>3. \A j \in Jobs : j[1] = q => job[j].pc = "none"
    BY <2>1 DEF Jobs
  <2>4. PassesApart'
    BY <1>t, <2>1, <2>3 DEF PassesApart
  <2>5. \A r \in Gone \ forgot' : TombstoneKept(r)'
    BY <2>1 DEF MediaInv, TombstoneKept, In, At
  <2> QED BY <2>2, <2>4, <2>5 DEF MediaInv
<1> QED BY <1>1, <1>2, <1>3

\* A goroutine that does not enter or leave a download of a record that is
\* gone, and writes no tombstone.
LEMMA GoroutineStep ==
    ASSUME MediaInv, NEW j \in Jobs, NEW x \in JobStates, job' = [job EXCEPT ![j] = x],
           job[j].pc # "none", UNCHANGED <<fanOuts, deadKept>>, forgot \subseteq forgot',
           failed' \in [Records -> Failings], told' \in [Records -> Nat], deadLoaded' \in BOOLEAN,
           x.pc = "upload" => j[2] \notin Gone,
           \A r \in Records : r # j[2] => told'[r] = told[r],
           \A r \in Gone \ forgot' : /\ r \in dead' => r \in dead \/ r \in deadKept
                                     /\ deadLoaded' /\ r \in deadKept => r \in dead',
           j[2] \in Gone \ forgot' => TombstoneKept(j[2])'
    PROVE  MediaInv'
<1>t. MediaTypes /\ PassesApart
  BY DEF MediaInv
<1>1. /\ job' \in [Jobs -> JobStates]
      /\ \A k \in Jobs : job'[k] = IF k = j THEN x ELSE job[k]
      /\ \A p \in Passes, r \in Records :
             job'[<<p, r>>] = IF p = j[1] /\ r = j[2] THEN x ELSE job[<<p, r>>]
  <2>1. job' \in [Jobs -> JobStates] /\ \A k \in Jobs : job'[k] = IF k = j THEN x ELSE job[k]
    BY <1>t DEF MediaTypes
  <2>2. \A p \in Passes, r \in Records : <<p, r>> \in Jobs /\ (<<p, r>> = j <=> p = j[1] /\ r = j[2])
    BY DEF Jobs
  <2> QED BY <2>1, <2>2
<1>2. MediaTypes' /\ PassesApart' /\ \A k \in Jobs : job'[k].pc = "upload" => k[2] \notin Gone
  BY <1>t, <1>1 DEF MediaInv, MediaTypes, PassesApart
<1>3. ASSUME NEW r \in Gone \ forgot', r # j[2]  PROVE TombstoneKept(r)'
  <2>1. r \in Records /\ TombstoneKept(r)
    BY MediaAssumption DEF MediaInv
  <2>2. \A p \in Passes : job'[<<p, r>>] = job[<<p, r>>]
    BY <1>1, <1>3, <2>1
  <2>3. In("download", r)' = In("download", r) /\ In("gone", r)' = In("gone", r)
    BY <2>2 DEF In, At, Passes
  <2> QED BY <1>3, <2>1, <2>3, RecordUntouched
<1> QED BY <1>2, <1>3 DEF MediaInv

\* The counts of a record when one of its goroutines moves from pc a to pc b.
LEMMA CountsMove ==
    ASSUME MediaTypes, NEW j \in Jobs, NEW x \in JobStates, job' = [job EXCEPT ![j] = x], NEW pc
    PROVE  In(pc, j[2])' = (In(pc, j[2]) - (IF job[j].pc = pc THEN 1 ELSE 0)) + (IF x.pc = pc THEN 1 ELSE 0)
<1> DEFINE r == j[2]
<1>1. j[1] \in Passes /\ r \in Records /\ j = <<j[1], r>>
  BY DEF Jobs
<1>2. \A p \in Passes : <<p, r>> \in Jobs /\ (<<p, r>> = j <=> p = j[1])
  BY <1>1 DEF Jobs
<1>3. \A p \in Passes : job'[<<p, r>>] = IF p = j[1] THEN x ELSE job[<<p, r>>]
  BY <1>2 DEF MediaTypes
<1> HIDE DEF r
<1>4. \A p \in Passes : At(pc, p, r)' = IF p = j[1] THEN (IF x.pc = pc THEN 1 ELSE 0) ELSE At(pc, p, r)
  BY <1>3 DEF At
<1>5. At(pc, j[1], r) = IF job[j].pc = pc THEN 1 ELSE 0
  BY <1>1 DEF At
<1>6. At(pc, "sync", r) \in {0, 1} /\ At(pc, "chunk", r) \in {0, 1} /\ At(pc, "convert", r) \in {0, 1}
  BY DEF At
<1>7. In(pc, r)' = (In(pc, r) - At(pc, j[1], r)) + (IF x.pc = pc THEN 1 ELSE 0)
  BY <1>1, <1>4, <1>6 DEF In, Passes
<1> QED BY <1>5, <1>7 DEF r

\* A sync pass and one of a chunk's.
LEMMA TwoAtMost ==
    ASSUME PassesApart, NEW r \in Records
    PROVE  In("gone", r) + In("download", r) <= 2
<1>1. \A p \in Passes : <<p, r>> \in Jobs /\ (job[<<p, r>>].pc # "none" => p \in fanOuts)
  BY DEF PassesApart, Jobs
<1>2. \A p \in Passes : At("gone", p, r) + At("download", p, r) <= 1
  BY DEF At
<1>3. PICK p \in {"chunk", "convert"} : At("gone", p, r) = 0 /\ At("download", p, r) = 0
  BY <1>1 DEF PassesApart, At, Passes
<1>4. \A q \in Passes, pc \in {"gone", "download"} : At(pc, q, r) \in {0, 1}
  BY DEF At
<1> QED BY <1>2, <1>3, <1>4 DEF In, Passes

LEMMA GoroutineSteps ==
    ASSUME MediaInv, NEW j \in Jobs, JobStep(j) \/ UploadFails(j)
    PROVE  MediaInv'
<1>t. /\ MediaTypes /\ PassesApart /\ job[j] \in JobStates /\ job[j].pc \in JobPCs /\ job[j].old \in Failings
      /\ j[2] \in Records /\ failed \in [Records -> Failings] /\ failed[j[2]] \in Failings
      /\ told \in [Records -> Nat] /\ told[j[2]] \in Nat /\ deadLoaded \in BOOLEAN
  BY DEF MediaInv, MediaTypes, JobStates, Jobs
<1>r. \A r \in Gone \ forgot : TombstoneKept(r)
  BY DEF MediaInv
<1>c. \A pc : In(pc, j[2]) \in Nat
  BY CountsAreNumbers
<1>x. ASSUME NEW pc \in JobPCs
      PROVE  [job[j] EXCEPT !.pc = pc] \in JobStates /\ [job[j] EXCEPT !.pc = pc].pc = pc
  BY <1>t DEF JobStates
<1>n. NoJob \in JobStates /\ NoJob.pc = "none"
  BY DEF NoJob, NoFailure, JobStates, JobPCs, Failings
\* Steps that touch no tombstone and no download of a record that is gone.
<1>1. ASSUME NEW x \in JobStates, job' = [job EXCEPT ![j] = x], job[j].pc # "none",
             UNCHANGED <<dead, deadKept, deadLoaded, forgot, fanOuts>>, failed' \in [Records -> Failings],
             told' \in [Records -> Nat], \A r \in Records : r # j[2] => told'[r] = told[r],
             \/ j[2] \notin Gone
             \/ /\ x.pc \notin {"upload", "download", "gone"} /\ job[j].pc \notin {"download", "gone"}
                /\ told' = told
      PROVE  MediaInv'
  <2>1. \A r \in Gone \ forgot' : /\ r \in dead' => r \in dead \/ r \in deadKept
                                  /\ deadLoaded' /\ r \in deadKept => r \in dead'
    BY <1>r, <1>1 DEF TombstoneKept
  <2>2. ASSUME j[2] \in Gone \ forgot'  PROVE TombstoneKept(j[2])'
    <3>1. In("download", j[2])' = In("download", j[2]) /\ In("gone", j[2])' = In("gone", j[2])
      <4>1. \A pc : In(pc, j[2])' = (In(pc, j[2]) - (IF job[j].pc = pc THEN 1 ELSE 0))
                                    + (IF x.pc = pc THEN 1 ELSE 0)
        BY <1>t, <1>1, CountsMove
      <4>2. \A pc \in {"download", "gone"} : job[j].pc # pc /\ x.pc # pc
        BY <1>1, <2>2
      <4>3. \A pc \in {"download", "gone"} : In(pc, j[2])' = (In(pc, j[2]) - 0) + 0
        BY <4>1, <4>2
      <4> QED BY <1>c, <4>3
    <3> QED BY <1>r, <1>1, <2>1, <2>2, <3>1, RecordUntouched
  <2>3. x.pc = "upload" => j[2] \notin Gone
    BY <1>1
  <2>4. deadLoaded' \in BOOLEAN /\ forgot \subseteq forgot'
    BY <1>t, <1>1
  <2> QED BY <1>1, <2>1, <2>2, <2>3, <2>4, GoroutineStep
<1>2. CASE TakeSlot(j)
  <2>1. PICK pc \in {"bytes", "begin"} : job' = [job EXCEPT ![j] = [job[j] EXCEPT !.pc = pc]]
    BY <1>2 DEF TakeSlot
  <2>2. /\ job[j].pc = "slot" /\ UNCHANGED <<dead, deadKept, deadLoaded, forgot, fanOuts, failed, told>>
        /\ pc \in JobPCs
    BY <1>2 DEF TakeSlot, tombVars, JobPCs
  <2> QED BY <1>t, <1>x, <1>1, <2>1, <2>2
<1>3. CASE TakeBytes(j)
  <2>1. /\ job[j].pc = "bytes" /\ UNCHANGED <<dead, deadKept, deadLoaded, forgot, fanOuts, failed, told>>
        /\ job' = [job EXCEPT ![j] = [job[j] EXCEPT !.pc = "begin"]] /\ "begin" \in JobPCs
    BY <1>3 DEF TakeBytes, tombVars, JobPCs
  <2> QED BY <1>t, <1>x, <1>1, <2>1
<1>4. CASE Begin(j)
  <2> DEFINE oversized == recoverAttachmentSize(FileSize(j[2])) > MaxAttachmentBytes
             skip(fails) == oversized \/ j[2] \in LoadedDead(fails)
             hit(fails) == ~skip(fails) /\ cachedAttachmentContent(j[2])
  <2>0. PICK fails \in BOOLEAN :
            /\ job[j].pc = "begin" /\ NotFound(fails)
            /\ fails => ~oversized
            /\ IF oversized THEN UNCHANGED <<dead, deadLoaded>>
                            ELSE dead' = LoadedDead(fails) /\ deadLoaded' = TRUE
            /\ job' = [job EXCEPT ![j] = IF skip(fails) \/ hit(fails) THEN NoJob
                                         ELSE [job[j] EXCEPT !.pc = "download"]]
            /\ UNCHANGED <<failed, deadKept, fanOuts, told>>
    BY <1>4 DEF Begin
  <2> DEFINE x == IF skip(fails) \/ hit(fails) THEN NoJob ELSE [job[j] EXCEPT !.pc = "download"]
  <2>1. IF fails THEN ~deadLoaded /\ forgot' = forgot \cup deadKept ELSE forgot' = forgot
    BY <2>0 DEF NotFound, loadDeadAttachments
  <2>2. ASSUME NEW r \in Gone \ forgot'
        PROVE  /\ r \in dead' => r \in dead \/ r \in deadKept
               /\ deadLoaded' /\ r \in deadKept => r \in dead'
               /\ r \in deadKept => r \in LoadedDead(fails)
    <3>1. TombstoneKept(r) /\ (fails => r \notin deadKept)
      BY <1>r, <2>1, <2>2
    <3> QED BY <2>0, <3>1 DEF TombstoneKept, LoadedDead, loadDeadAttachments
  <2>3. x \in JobStates /\ x.pc \in {"none", "download"} /\ (x.pc = "download" => ~skip(fails))
        /\ job' = [job EXCEPT ![j] = x]
    BY <1>x, <1>n, <2>0 DEF JobPCs
  <2>4. x.pc = "download" => j[2] \notin LoadedDead(fails)
    BY <2>3
  <2>5. deadLoaded' \in BOOLEAN /\ forgot \subseteq forgot'
    BY <1>t, <2>0, <2>1
  <2> HIDE DEF x, skip, hit, oversized
  <2>6. ASSUME j[2] \in Gone \ forgot'  PROVE TombstoneKept(j[2])'
    <3>1. TombstoneKept(j[2])
      BY <1>r, <2>5, <2>6
    <3>2. /\ In("download", j[2])' = (In("download", j[2]) - 0) + (IF x.pc = "download" THEN 1 ELSE 0)
          /\ In("gone", j[2])' = (In("gone", j[2]) - 0) + 0
      <4>1. PICK y \in JobStates : y = x /\ job' = [job EXCEPT ![j] = y]
        BY <2>3
      <4>2. job[j].pc = "begin" /\ y.pc \in {"none", "download"}
        BY <2>0, <2>3, <4>1
      <4>3. \A pc : In(pc, j[2])' = (In(pc, j[2]) - (IF job[j].pc = pc THEN 1 ELSE 0))
                                    + (IF y.pc = pc THEN 1 ELSE 0)
        BY <1>t, <4>1, CountsMove
      <4>4. /\ In("download", j[2])' = (In("download", j[2]) - (IF job[j].pc = "download" THEN 1 ELSE 0))
                                       + (IF y.pc = "download" THEN 1 ELSE 0)
            /\ In("gone", j[2])' = (In("gone", j[2]) - (IF job[j].pc = "gone" THEN 1 ELSE 0))
                                   + (IF y.pc = "gone" THEN 1 ELSE 0)
        BY <4>3, Zenon
      <4> QED BY <4>1, <4>2, <4>4
    <3>3. In("gone", j[2])' = In("gone", j[2])
      BY <1>c, <3>2
    <3>4. j[2] \in deadKept => In("download", j[2])' = In("download", j[2])
      BY <1>c, <2>2, <2>4, <2>6, <3>2
    <3> QED BY <2>0, <2>2, <2>6, <3>1, <3>3, <3>4 DEF TombstoneKept
  <2>7. x.pc # "upload" /\ job[j].pc # "none"
    BY <2>0, <2>3
  <2> QED BY <1>t, <2>0, <2>2, <2>3, <2>5, <2>6, <2>7, GoroutineStep
<1>5. CASE Download(j)
  <2> DEFINE next == IF RealSize[j[2]] = 0 THEN "fail"
                     ELSE IF RealSize[j[2]] > MaxAttachmentBytes THEN "drop" ELSE "upload"
             x == IF next = "drop" THEN NoJob
                  ELSE IF next = "fail" THEN [pc |-> "fail", old |-> failed[j[2]]]
                  ELSE [job[j] EXCEPT !.pc = "upload"]
  <2>1. /\ job[j].pc = "download" /\ j[2] \notin Gone /\ job' = [job EXCEPT ![j] = x]
        /\ UNCHANGED <<dead, deadKept, deadLoaded, forgot, fanOuts, failed, told>>
    BY <1>5 DEF Download, tombVars
  <2>2. x \in JobStates
    <3>1. [pc |-> "fail", old |-> failed[j[2]]] \in JobStates
      BY <1>t DEF JobStates, JobPCs
    <3>2. [job[j] EXCEPT !.pc = "upload"] \in JobStates
      BY <1>x DEF JobPCs
    <3> QED BY <1>n, <3>1, <3>2
  <2> HIDE DEF x
  <2>3. told' \in [Records -> Nat] /\ \A r \in Records : r # j[2] => told'[r] = told[r]
    BY <1>t, <2>1
  <2> QED BY <1>t, <1>1, <2>1, <2>2, <2>3
<1>6. CASE DownloadFails(j)
  <2>1. PICK pc \in {"gone", "fail"} :
            /\ job[j].pc = "download" /\ job' = [job EXCEPT ![j] = [pc |-> pc, old |-> failed[j[2]]]]
            /\ told' = IF pc = "gone" THEN [told EXCEPT ![j[2]] = told[j[2]] + 1] ELSE told
            /\ UNCHANGED <<dead, deadKept, deadLoaded, forgot, fanOuts, failed>>
    BY <1>6 DEF DownloadFails, tombVars
  <2> DEFINE x == [pc |-> pc, old |-> failed[j[2]]]
  <2>2. x \in JobStates /\ x.pc = pc /\ job' = [job EXCEPT ![j] = x]
    BY <1>t, <2>1 DEF JobStates, JobPCs
  <2> HIDE DEF x
  <2>3. /\ told' \in [Records -> Nat] /\ \A r \in Records : r # j[2] => told'[r] = told[r]
        /\ told'[j[2]] = told[j[2]] + (IF pc = "gone" THEN 1 ELSE 0)
    BY <1>t, <2>1
  <2>4. ASSUME NEW r \in Gone \ forgot'
        PROVE  /\ r \in dead' => r \in dead \/ r \in deadKept
               /\ deadLoaded' /\ r \in deadKept => r \in dead'
    BY <1>r, <2>1 DEF TombstoneKept
  <2>5. ASSUME j[2] \in Gone \ forgot'  PROVE TombstoneKept(j[2])'
    <3>1. TombstoneKept(j[2])
      BY <1>r, <2>1, <2>5
    <3>2. /\ In("download", j[2])' = (In("download", j[2]) - 1) + 0
          /\ In("gone", j[2])' = (In("gone", j[2]) - 0) + (IF pc = "gone" THEN 1 ELSE 0)
      <4>1. PICK y \in JobStates : y = x /\ job' = [job EXCEPT ![j] = y]
        BY <2>2
      <4>2. \A c : In(c, j[2])' = (In(c, j[2]) - (IF job[j].pc = c THEN 1 ELSE 0))
                                    + (IF y.pc = c THEN 1 ELSE 0)
        BY <1>t, <4>1, CountsMove
      <4> QED BY <2>1, <2>2, <4>1, <4>2
    <3> QED BY <1>t, <1>c, <2>1, <2>3, <3>1, <3>2 DEF TombstoneKept
  <2> QED BY <1>t, <2>1, <2>2, <2>3, <2>4, <2>5, GoroutineStep
<1>7. CASE RecordAttachmentFailure(j)
  <2> DEFINE gone == job[j].pc = "gone"
             failure == [retries |-> job[j].old.retries + 1,
                         abandoned |-> job[j].old.abandoned \/ gone \/ job[j].old.retries + 1 >= MaxAttachmentRetries]
  <2>1. /\ job[j].pc \in {"fail", "gone"} /\ job' = [job EXCEPT ![j] = NoJob]
        /\ failed' = [failed EXCEPT ![j[2]] = failure]
        /\ dead' = IF gone THEN dead \cup {j[2]} ELSE dead
        /\ \/ deadKept' = (IF gone /\ j[2] \notin dead THEN deadKept \cup {j[2]} ELSE deadKept) /\ forgot' = forgot
           \/ gone /\ forgot' = forgot \cup {j[2]} /\ deadKept' = deadKept
        /\ UNCHANGED <<deadLoaded, fanOuts, told>>
    BY <1>7 DEF RecordAttachmentFailure, cacheVars
  <2>2. failure \in Failings
    BY <1>t DEF Failings
  <2> HIDE DEF failure
  <2>3. failed' \in [Records -> Failings]
    BY <1>t, <2>1, <2>2
  <2>4. CASE ~gone
    <3>1. UNCHANGED <<dead, deadKept, deadLoaded, forgot, fanOuts, told>>
      BY <2>1, <2>4
    <3> QED BY <1>t, <1>n, <1>1, <2>1, <2>3, <2>4, <3>1
  <2>5. CASE gone
    <3> HIDE DEF gone
    <3>1. MediaTypes' /\ PassesApart' /\ \A k \in Jobs : job'[k].pc = "upload" => k[2] \notin Gone
      BY <1>t, <1>n, <2>1, <2>3 DEF MediaInv, MediaTypes, PassesApart
    <3>2. ASSUME NEW r \in Gone \ forgot', r # j[2]  PROVE TombstoneKept(r)'
      <4>1. r \in Gone \ forgot /\ TombstoneKept(r) /\ r \in Records
        BY <1>r, <2>1, MediaAssumption
      <4>2. \A p \in Passes : job'[<<p, r>>] = job[<<p, r>>]
        <5>1. \A p \in Passes : <<p, r>> \in Jobs /\ <<p, r>> # j
          BY <3>2, <4>1 DEF Jobs
        <5> QED BY <1>t, <2>1, <5>1 DEF MediaTypes
      <4>3. In("download", r)' = In("download", r) /\ In("gone", r)' = In("gone", r)
        BY <4>2 DEF In, At, Passes
      <4>4. (r \in dead' <=> r \in dead) /\ (r \in deadKept' <=> r \in deadKept)
        BY <2>1, <3>2
      <4> QED BY <2>1, <4>1, <4>3, <4>4 DEF TombstoneKept
    <3>3. ASSUME j[2] \in Gone \ forgot'  PROVE TombstoneKept(j[2])'
      <4>1. forgot' = forgot /\ TombstoneKept(j[2])
        BY <1>r, <2>1, <3>3
      <4>2. j[2] \in deadKept' /\ j[2] \in dead'
        BY <2>1, <2>5, <3>3, <4>1 DEF TombstoneKept
      <4>3. In("download", j[2])' = (In("download", j[2]) - 0) + 0
        BY <1>t, <1>n, <2>1, CountsMove
      <4>4. In("gone", j[2]) + In("download", j[2]) <= 2
        BY <1>t, TwoAtMost
      <4>5. told[j[2]] + In("download", j[2]) <= 2
        BY <1>t, <1>c, <4>1, <4>4 DEF TombstoneKept
      <4> QED BY <1>t, <1>c, <2>1, <4>2, <4>3, <4>5 DEF TombstoneKept
    <3> QED BY <3>1, <3>2, <3>3 DEF MediaInv
  <2> QED BY <2>4, <2>5
<1>8. CASE Upload(j)
  <2>1. /\ job[j].pc = "upload" /\ job' = [job EXCEPT ![j] = NoJob]
        /\ failed' = [failed EXCEPT ![j[2]] = NoFailure]
        /\ UNCHANGED <<dead, deadKept, deadLoaded, forgot, fanOuts, told>>
    BY <1>8 DEF Upload, tombVars
  <2>2. failed' \in [Records -> Failings] /\ j[2] \notin Gone
    BY <1>t, <2>1 DEF MediaInv, NoFailure, Failings
  <2> QED BY <1>t, <1>n, <1>1, <2>1, <2>2
<1>9. CASE UploadFails(j)
  <2> DEFINE x == [pc |-> "fail", old |-> failed[j[2]]]
  <2>1. /\ job[j].pc = "upload" /\ job' = [job EXCEPT ![j] = x]
        /\ UNCHANGED <<dead, deadKept, deadLoaded, forgot, fanOuts, failed, told>>
    BY <1>9 DEF UploadFails, tombVars
  <2>2. x \in JobStates /\ j[2] \notin Gone
    BY <1>t, <2>1 DEF MediaInv, JobStates, JobPCs
  <2> HIDE DEF x
  <2> QED BY <1>t, <1>1, <2>1, <2>2
<1> QED BY <1>2, <1>3, <1>4, <1>5, <1>6, <1>7, <1>8, <1>9 DEF JobStep

\* A restart: an answer that is not yet on record is forgotten.
LEMMA MediaRestarts ==
    ASSUME MediaInv, MediaRestart
    PROVE  MediaInv'
<1>1. /\ dead' = {} /\ deadLoaded' = FALSE /\ fanOuts' = {}
      /\ failed' = [r \in Records |-> NoFailure] /\ job' = [j \in Jobs |-> NoJob]
      /\ forgot' = forgot \cup {r \in Records \ deadKept : \E p \in Passes : job[<<p, r>>].pc = "gone"}
      /\ UNCHANGED <<deadKept, told>>
  BY DEF MediaRestart
<1>2. NoFailure \in Failings /\ NoJob \in JobStates /\ NoJob.pc = "none"
  BY DEF NoJob, NoFailure, JobStates, JobPCs, Failings
<1>3. MediaTypes' /\ PassesApart' /\ \A j \in Jobs : job'[j].pc = "upload" => j[2] \notin Gone
  BY <1>1, <1>2 DEF MediaInv, MediaTypes, PassesApart
<1>4. ASSUME NEW r \in Gone \ forgot'  PROVE TombstoneKept(r)'
  <2>1. r \in Records /\ TombstoneKept(r) /\ told \in [Records -> Nat]
    BY <1>1, MediaAssumption DEF MediaInv, MediaTypes
  <2>2. r \notin deadKept => \A p \in Passes : job[<<p, r>>].pc # "gone"
    BY <1>1, <2>1
  <2>3. r \notin deadKept => In("gone", r) = 0
    BY <2>2 DEF In, At, Passes
  <2>4. \A p \in Passes : job'[<<p, r>>].pc = "none"
    BY <1>1, <1>2, <2>1 DEF Jobs
  <2>5. In("gone", r)' = 0 /\ In("download", r)' = 0
    BY <2>4 DEF In, At, Passes
  <2>6. r \in deadKept => told[r] + In("download", r) <= 2 /\ In("download", r) \in Nat
    BY <2>1, CountsAreNumbers DEF TombstoneKept
  <2>7. r \notin deadKept => told[r] = 0
    BY <2>1, <2>3 DEF TombstoneKept
  <2> QED BY <1>1, <2>1, <2>5, <2>6, <2>7 DEF TombstoneKept
<1> QED BY <1>3, <1>4 DEF MediaInv

\* That an asset is gone Apple says to the passes that were under way when it was
\* first said and to no other, in this session or a later one, whatever retriable
\* errors and restarts come in between (recordAttachmentFailure, markAttachmentDead, isDeadAttachment).
THEOREM GoneIsLeftAlone == MediaSpec => []GoneLeftAlone
<1>1. MediaInit => MediaInv
  <2> SUFFICES ASSUME MediaInit  PROVE MediaInv
    OBVIOUS
  <2>1. NoFailure \in Failings /\ NoJob \in JobStates /\ NoJob.pc = "none"
    BY DEF NoJob, NoFailure, JobStates, JobPCs, Failings
  <2>2. /\ dead = {} /\ deadKept = {} /\ deadLoaded = FALSE /\ fanOuts = {}
        /\ failed = [r \in Records |-> NoFailure] /\ job = [j \in Jobs |-> NoJob]
        /\ told = [r \in Records |-> 0]
    BY DEF MediaInit
  <2>3. MediaTypes /\ PassesApart /\ \A j \in Jobs : job[j].pc = "upload" => j[2] \notin Gone
    BY <2>1, <2>2 DEF MediaTypes, PassesApart
  <2>4. ASSUME NEW r \in Gone  PROVE TombstoneKept(r)
    <3>1. r \in Records /\ \A p \in Passes : job[<<p, r>>].pc = "none"
      BY <2>1, <2>2, MediaAssumption DEF Jobs
    <3>2. In("gone", r) = 0
      BY <3>1 DEF In, At, Passes
    <3> QED BY <2>2, <3>1, <3>2 DEF TombstoneKept
  <2> QED BY <2>3, <2>4 DEF MediaInv
<1>2. MediaInv /\ [MediaNext]_mediaVars => MediaInv'
  <2> SUFFICES ASSUME MediaInv, [MediaNext]_mediaVars  PROVE MediaInv'
    OBVIOUS
  <2>1. CASE \/ \E b \in BOOLEAN : PreUploadCloudAttachments(b)
             \/ PreUploadChunkAttachments \/ ConvertChunk \/ SyncPassDone \/ SendMediaBatch
    BY <2>1, PassSteps
  <2>2. ASSUME NEW j \in Jobs, JobStep(j) \/ UploadFails(j)  PROVE MediaInv'
    BY <2>2, GoroutineSteps
  <2>3. CASE MediaRestart
    BY <2>3, MediaRestarts
  <2>4. CASE UNCHANGED mediaVars
    BY <2>4 DEF mediaVars, MediaInv, MediaTypes, PassesApart, TombstoneKept, In, At
  <2> QED BY <2>1, <2>2, <2>3, <2>4 DEF MediaNext
<1>3. MediaInv => GoneLeftAlone
  <2> SUFFICES ASSUME MediaInv, NEW r \in Gone \ forgot  PROVE told[r] <= 2
    BY DEF GoneLeftAlone
  <2>1. r \in Records /\ TombstoneKept(r) /\ told[r] \in Nat
    BY MediaAssumption DEF MediaInv, MediaTypes
  <2>2. In("gone", r) + In("download", r) <= 2 /\ In("gone", r) \in Nat /\ In("download", r) \in Nat
    BY <2>1, TwoAtMost, CountsAreNumbers DEF MediaInv
  <2> QED BY <2>1, <2>2 DEF TombstoneKept
<1> QED BY <1>1, <1>2, <1>3, PTL DEF MediaSpec

-----------------------------------------------------------------------------
(* The pending table.  What a stored row leaves to be tried, with what was  *)
(* tried, is within the attempts its rows allow; the notice of a row that   *)
(* goes has its edit queued, is no notice any more or is stranded.          *)

RetrierStates == [pc : {"idle", "download", "deliver", "reschedule", "delete"}, att : Nat, count : Nat]

RetryTypes ==
    /\ delivery \in [Atts -> {"new", "enqueued", "handled"}]
    /\ part \in [Atts -> {"nothing", "notice", "media", "redacted"}]
    /\ attempts \in [Atts -> Nat \cup {NoRow}] /\ edits \in [Atts -> Nat]
    /\ retrier \in RetrierStates /\ stranded \subseteq Atts
    /\ rows \in [Atts -> Nat] /\ downloads \in [Atts -> Nat] /\ retryFaults \in Nat

\* The retrier works on a row of the table and knows its attempts.
RetrierHoldsRow ==
    retrier.pc # "idle" => retrier.att \in Atts /\ attempts[retrier.att] = retrier.count

NoticeOwned(a) ==
    /\ part[a] = "nothing" <=> delivery[a] # "handled"
    /\ edits[a] > 0 => part[a] # "nothing"
    /\ delivery[a] = "enqueued" => attempts[a] # NoRow \/ a \in stranded
    /\ part[a] = "notice" => attempts[a] # NoRow \/ edits[a] > 0 \/ a \in stranded
    /\ retrier.pc = "delete" /\ retrier.att = a =>
           edits[a] > 0 \/ part[a] \in {"media", "redacted"} \/ a \in stranded

Allowed(a) == RetrierMaxAttempts * rows[a]
Left(a) ==
    IF attempts[a] = NoRow THEN 0
    ELSE RetrierMaxAttempts - attempts[a]
             - (IF retrier.pc = "reschedule" /\ retrier.att = a THEN 1 ELSE 0)

WithinBudget(a) ==
    /\ attempts[a] < RetrierMaxAttempts
    /\ downloads[a] + Left(a) <= Allowed(a) + retryFaults

RetryInv ==
    /\ RetryTypes /\ RetrierHoldsRow
    /\ \A a \in Atts : NoticeOwned(a) /\ WithinBudget(a)

\* A row allows RetrierMaxAttempts more.
LEMMA RowAllows ==
    ASSUME NEW n \in Nat
    PROVE  /\ RetrierMaxAttempts * n \in Nat
           /\ RetrierMaxAttempts * (n + 1) = RetrierMaxAttempts * n + RetrierMaxAttempts
BY RetryAssumption

\* An attachment that a step leaves alone, if the retrier does not work on it
\* before or after, or stays with it in a stage that is neither of the two
\* whose row has been tried once more or is to go.
LEMMA AttachmentUntouched ==
    ASSUME NEW a \in Atts, RetryTypes, NoticeOwned(a), WithinBudget(a),
           delivery'[a] = delivery[a], part'[a] = part[a], attempts'[a] = attempts[a],
           edits'[a] = edits[a], rows'[a] = rows[a], downloads'[a] = downloads[a],
           a \in stranded => a \in stranded', retryFaults' \in Nat, retryFaults <= retryFaults',
           retrier' = retrier \/ retrier'.att # a \/ retrier'.pc \notin {"reschedule", "delete"},
           retrier' = retrier \/ retrier.att # a \/ retrier.pc # "reschedule"
    PROVE  NoticeOwned(a)' /\ WithinBudget(a)'
<1>1. /\ attempts[a] \in Nat \cup {NoRow} /\ downloads[a] \in Nat /\ rows[a] \in Nat
      /\ retryFaults \in Nat /\ Allowed(a) \in Nat /\ Allowed(a)' = Allowed(a)
  BY RowAllows DEF RetryTypes, Allowed
<1>2. NoticeOwned(a)'
  BY DEF NoticeOwned
<1>3. Left(a)' = Left(a)
  BY DEF Left
<1>4. Left(a) \in Int
  BY <1>1, RetryAssumption DEF Left, NoRow
<1> QED BY <1>1, <1>2, <1>3, <1>4 DEF WithinBudget

\* The event loop's steps for attachment a.
LEMMA LoopSteps ==
    ASSUME RetryInv, NEW a \in Atts,
           EnqueuePendingMMCSRecovery(a) \/ SendNotice(a) \/ HandleEdit(a) \/ RedactNotice(a)
    PROVE  RetryInv'
<1>t. RetryTypes /\ RetrierHoldsRow
  BY DEF RetryInv
<1>a. /\ NoticeOwned(a) /\ WithinBudget(a)
      /\ attempts[a] \in Nat \cup {NoRow} /\ edits[a] \in Nat /\ rows[a] \in Nat /\ downloads[a] \in Nat
      /\ retryFaults \in Nat /\ retrier \in RetrierStates /\ Allowed(a) \in Nat
      /\ delivery[a] \in {"new", "enqueued", "handled"}
  BY RowAllows DEF RetryInv, RetryTypes, Allowed
<1>f. /\ retryFaults' \in Nat /\ retryFaults <= retryFaults' /\ stranded \subseteq stranded' /\ stranded' \subseteq Atts
      /\ downloads' = downloads /\ retrier' = retrier
  BY <1>t DEF RetryTypes, EnqueuePendingMMCSRecovery, SendNotice, HandleEdit, RedactNotice, RetryFault
\* The other attachments.
<1>o. ASSUME NEW b \in Atts, b # a, delivery'[b] = delivery[b], part'[b] = part[b],
             attempts'[b] = attempts[b], edits'[b] = edits[b], rows'[b] = rows[b]
      PROVE  NoticeOwned(b)' /\ WithinBudget(b)'
  <2>1. NoticeOwned(b) /\ WithinBudget(b)
    BY DEF RetryInv
  <2> QED BY <1>t, <1>f, <1>o, <2>1, AttachmentUntouched
<1>1. CASE EnqueuePendingMMCSRecovery(a)
  <2>1. /\ delivery[a] = "new" /\ part[a] = "nothing"
        /\ delivery' = [delivery EXCEPT ![a] = "enqueued"] /\ UNCHANGED <<part, edits>>
    BY <1>1 DEF EnqueuePendingMMCSRecovery
  <2>2. PICK n \in Nat \cup {NoRow}, m \in Nat :
            /\ attempts' = [attempts EXCEPT ![a] = n] /\ rows' = [rows EXCEPT ![a] = m]
            /\ \/ attempts[a] = NoRow /\ n = 0 /\ m = rows[a] + 1
               \/ n = attempts[a] /\ m = rows[a] /\ (n # NoRow \/ a \in stranded')
    <3>1. CASE Insert(a) /\ rows' = [rows EXCEPT ![a] = IF attempts[a] = NoRow THEN rows[a] + 1 ELSE rows[a]]
      <4> DEFINE n == IF attempts[a] = NoRow THEN 0 ELSE attempts[a]
                 m == IF attempts[a] = NoRow THEN rows[a] + 1 ELSE rows[a]
      <4>1. attempts' = [attempts EXCEPT ![a] = n] /\ rows' = [rows EXCEPT ![a] = m]
        BY <3>1 DEF Insert
      <4>2. n \in Nat \cup {NoRow} /\ m \in Nat
        BY <1>a
      <4>3. \/ attempts[a] = NoRow /\ n = 0 /\ m = rows[a] + 1
            \/ n = attempts[a] /\ m = rows[a] /\ n # NoRow
        OBVIOUS
      <4> HIDE DEF n, m
      <4> QED BY <4>1, <4>2, <4>3
    <3>2. CASE a \in stranded' /\ UNCHANGED <<attempts, rows>>
      <4>1. attempts' = [attempts EXCEPT ![a] = attempts[a]] /\ rows' = [rows EXCEPT ![a] = rows[a]]
        BY <1>t, <3>2 DEF RetryTypes
      <4> QED BY <1>a, <3>2, <4>1
    <3> QED BY <1>1, <3>1, <3>2 DEF EnqueuePendingMMCSRecovery
  <2>3. /\ delivery'[a] = "enqueued" /\ attempts'[a] = n /\ rows'[a] = m
        /\ \A b \in Atts : b # a => /\ delivery'[b] = delivery[b] /\ attempts'[b] = attempts[b]
                                    /\ rows'[b] = rows[b]
    BY <1>t, <2>1, <2>2 DEF RetryTypes
  <2>4. RetryTypes'
    BY <1>t, <1>f, <2>1, <2>2 DEF RetryTypes
  <2>5. RetrierHoldsRow'
    BY <1>t, <1>a, <1>f, <2>2, <2>3 DEF RetrierHoldsRow, NoRow, RetrierStates
  <2>6. NoticeOwned(a)'
    BY <1>a, <1>f, <2>1, <2>2, <2>3, <1>t DEF NoticeOwned, NoRow
  <2>7. WithinBudget(a)'
    <3>1. CASE attempts[a] = NoRow /\ n = 0 /\ m = rows[a] + 1
      <4>1. retrier.att # a \/ retrier.pc = "idle"
        BY <1>t, <1>a, <3>1 DEF RetrierHoldsRow, NoRow, RetrierStates
      <4>2. Allowed(a)' = Allowed(a) + RetrierMaxAttempts /\ Left(a)' = RetrierMaxAttempts /\ Left(a) = 0
        <5>1. Allowed(a)' = Allowed(a) + RetrierMaxAttempts
          BY <1>a, <2>3, <3>1, RowAllows DEF Allowed
        <5>2. Left(a)' = RetrierMaxAttempts
          BY <1>f, <2>3, <3>1, <4>1, RetryAssumption DEF Left, NoRow
        <5> QED BY <3>1, <5>1, <5>2 DEF Left
      <4> QED BY <1>a, <1>f, <2>3, <3>1, <4>2, RetryAssumption DEF WithinBudget
    <3>2. CASE n = attempts[a] /\ m = rows[a]
      <4>1. Allowed(a)' = Allowed(a) /\ Left(a)' = Left(a)
        BY <1>f, <2>3, <3>2 DEF Allowed, Left
      <4>2. Left(a) \in Int
        BY <1>a, RetryAssumption DEF Left, NoRow
      <4> QED BY <1>a, <1>f, <2>3, <3>2, <4>1, <4>2 DEF WithinBudget
    <3> QED BY <2>2, <3>1, <3>2
  <2>8. ASSUME NEW b \in Atts  PROVE NoticeOwned(b)' /\ WithinBudget(b)'
    BY <1>o, <2>1, <2>3, <2>6, <2>7
  <2> QED BY <2>4, <2>5, <2>8 DEF RetryInv
\* The rows and the budget stand still.
<1>r. ASSUME UNCHANGED <<attempts, rows>>, RetryTypes', NoticeOwned(a)',
             \A b \in Atts : b # a => /\ delivery'[b] = delivery[b] /\ part'[b] = part[b]
                                      /\ edits'[b] = edits[b]
      PROVE  RetryInv'
  <2>1. Allowed(a)' = Allowed(a) /\ Left(a)' = Left(a) /\ Left(a) \in Int
    BY <1>a, <1>f, <1>r, RetryAssumption DEF Allowed, Left, NoRow
  <2>2. WithinBudget(a)'
    BY <1>a, <1>f, <1>r, <2>1 DEF WithinBudget
  <2>3. RetrierHoldsRow'
    BY <1>t, <1>f, <1>r DEF RetrierHoldsRow
  <2>4. ASSUME NEW b \in Atts  PROVE NoticeOwned(b)' /\ WithinBudget(b)'
    BY <1>o, <1>r, <2>2
  <2> QED BY <1>r, <2>3, <2>4 DEF RetryInv
<1>2. CASE SendNotice(a)
  <2>1. /\ delivery[a] = "enqueued" /\ delivery' = [delivery EXCEPT ![a] = "handled"]
        /\ part' = [part EXCEPT ![a] = "notice"] /\ UNCHANGED <<attempts, rows, edits>>
    BY <1>2 DEF SendNotice
  <2>2. delivery'[a] = "handled" /\ part'[a] = "notice"
    BY <1>t, <2>1 DEF RetryTypes
  <2>3. RetryTypes' /\ \A b \in Atts : b # a => delivery'[b] = delivery[b] /\ part'[b] = part[b]
    BY <1>t, <1>f, <2>1 DEF RetryTypes
  <2>4. NoticeOwned(a)'
    BY <1>a, <1>f, <2>1, <2>2 DEF NoticeOwned
  <2> QED BY <1>r, <2>1, <2>3, <2>4
<1>3. CASE HandleEdit(a)
  <2>1. /\ edits[a] > 0 /\ edits' = [edits EXCEPT ![a] = edits[a] - 1]
        /\ UNCHANGED <<delivery, attempts, rows>>
    BY <1>3 DEF HandleEdit
  <2>2. PICK p \in {"nothing", "notice", "media", "redacted"} :
            /\ part' = [part EXCEPT ![a] = p]
            /\ \/ p = (IF part[a] = "notice" THEN "media" ELSE part[a])
               \/ p = part[a] /\ a \in stranded'
    <3>1. CASE part' = [part EXCEPT ![a] = IF part[a] = "notice" THEN "media" ELSE part[a]]
      BY <1>t, <3>1 DEF RetryTypes
    <3>2. CASE a \in stranded' /\ part' = part
      <4>1. part' = [part EXCEPT ![a] = part[a]]
        BY <1>t, <3>2 DEF RetryTypes
      <4> QED BY <1>t, <3>2, <4>1 DEF RetryTypes
    <3> QED BY <1>3, <3>1, <3>2 DEF HandleEdit
  <2>3. edits'[a] = edits[a] - 1 /\ edits'[a] \in Nat /\ part'[a] = p
    BY <1>t, <1>a, <2>1, <2>2 DEF RetryTypes
  <2>4. RetryTypes' /\ \A b \in Atts : b # a => edits'[b] = edits[b] /\ part'[b] = part[b]
    <3>1. edits[a] - 1 \in Nat
      BY <1>a, <2>1
    <3> QED BY <1>t, <1>f, <2>1, <2>2, <3>1 DEF RetryTypes
  <2>5. NoticeOwned(a)'
    <3>1. /\ part[a] # "nothing" /\ delivery'[a] = delivery[a] /\ attempts'[a] = attempts[a]
          /\ part[a] \in {"notice", "media", "redacted"}
      BY <1>t, <1>a, <2>1 DEF NoticeOwned, RetryTypes
    <3>2. p # "nothing" /\ (p \in {"media", "redacted"} \/ a \in stranded')
      BY <2>2, <3>1
    <3> QED BY <1>a, <1>f, <2>3, <3>1, <3>2 DEF NoticeOwned
  <2> QED BY <1>r, <2>1, <2>4, <2>5
<1>4. CASE RedactNotice(a)
  <2>1. /\ part[a] = "notice" /\ part' = [part EXCEPT ![a] = "redacted"]
        /\ UNCHANGED <<delivery, attempts, rows, edits>>
    BY <1>4 DEF RedactNotice
  <2>2. RetryTypes' /\ part'[a] = "redacted" /\ \A b \in Atts : b # a => part'[b] = part[b]
    BY <1>t, <1>f, <2>1 DEF RetryTypes
  <2>3. NoticeOwned(a)'
    BY <1>a, <1>f, <2>1, <2>2 DEF NoticeOwned
  <2> QED BY <1>r, <2>1, <2>2, <2>3
<1> QED BY <1>1, <1>2, <1>3, <1>4

\* The retrier's steps.
LEMMA RetrierSteps ==
    ASSUME RetryInv, (\E a \in Atts : Tick(a)) \/ RetryWorks
    PROVE  RetryInv'
<1>t. RetryTypes /\ RetrierHoldsRow /\ Resting \in RetrierStates /\ Resting.pc = "idle"
  BY DEF RetryInv, Resting, RetrierStates
<1>f. /\ retryFaults' \in Nat /\ retryFaults <= retryFaults' /\ retryFaults \in Nat
      /\ UNCHANGED <<delivery, part, rows>>
  BY <1>t DEF RetryTypes, Tick, RetryWorks, DownloadRecovered, DownloadsFail, Reschedule,
              DeliverAsEdit, DeleteRow, RetryFault
\* A step that ends with the retrier in x, on the row of a, or at rest.
<1> DEFINE Moves(a, x, n, e, d) ==
        /\ a \in Atts /\ x \in RetrierStates /\ n \in Nat \cup {NoRow} /\ e \in Nat /\ d \in Nat
        /\ retrier' = x /\ (x.att = a \/ x.pc = "idle") /\ (retrier.pc # "idle" => retrier.att = a)
        /\ attempts' = [attempts EXCEPT ![a] = n] /\ n < RetrierMaxAttempts
        /\ x.pc = "idle" \/ n = x.count
        /\ edits' = [edits EXCEPT ![a] = e] /\ downloads' = [downloads EXCEPT ![a] = d]
        /\ stranded \subseteq stranded' /\ stranded' \subseteq Atts
        /\ e > 0 => part[a] # "nothing"
        /\ delivery[a] = "enqueued" => n # NoRow \/ a \in stranded'
        /\ part[a] = "notice" => n # NoRow \/ e > 0 \/ a \in stranded'
        /\ x.pc = "delete" => e > 0 \/ part[a] \in {"media", "redacted"} \/ a \in stranded'
        /\ d + (IF n = NoRow THEN 0
                ELSE RetrierMaxAttempts - n - (IF x.pc = "reschedule" THEN 1 ELSE 0))
               <= Allowed(a) + retryFaults'
<1>s. ASSUME NEW a, NEW x, NEW n, NEW e, NEW d, Moves(a, x, n, e, d)
      PROVE  RetryInv'
  <2>1. /\ attempts'[a] = n /\ edits'[a] = e /\ downloads'[a] = d
        /\ \A b \in Atts : b # a => /\ attempts'[b] = attempts[b] /\ edits'[b] = edits[b]
                                    /\ downloads'[b] = downloads[b]
    BY <1>t, <1>s DEF RetryTypes
  <2>2. RetryTypes'
    BY <1>t, <1>f, <1>s DEF RetryTypes
  <2>3. RetrierHoldsRow'
    BY <1>s, <2>1 DEF RetrierHoldsRow
  <2>4. NoticeOwned(a)'
    <3>1. NoticeOwned(a)
      BY <1>s DEF RetryInv
    <3> QED BY <1>f, <1>s, <2>1, <3>1 DEF NoticeOwned
  <2>5. WithinBudget(a)'
    <3>1. Allowed(a)' = Allowed(a)
      BY <1>f DEF Allowed
    <3>2. x.pc = "reschedule" => x.att = a
      BY <1>s
    <3>3. Left(a)' = IF n = NoRow THEN 0
                     ELSE RetrierMaxAttempts - n - (IF x.pc = "reschedule" THEN 1 ELSE 0)
      BY <1>s, <2>1, <3>2 DEF Left
    <3> QED BY <1>s, <2>1, <3>1, <3>3 DEF WithinBudget
  <2>6. ASSUME NEW b \in Atts, b # a  PROVE NoticeOwned(b)' /\ WithinBudget(b)'
    <3>1. NoticeOwned(b) /\ WithinBudget(b) /\ (b \in stranded => b \in stranded')
      BY <1>s DEF RetryInv
    <3>2. /\ retrier'.att # b \/ retrier'.pc \notin {"reschedule", "delete"}
          /\ retrier.att # b \/ retrier.pc # "reschedule"
      BY <1>s, <2>6
    <3> QED BY <1>t, <1>f, <2>1, <2>6, <3>1, <3>2, AttachmentUntouched
  <2> QED BY <2>2, <2>3, <2>4, <2>5, <2>6 DEF RetryInv
<1> HIDE DEF Moves
\* What a function is where it does not change.
<1>u. ASSUME NEW a \in Atts
      PROVE  /\ attempts = [attempts EXCEPT ![a] = attempts[a]] /\ edits = [edits EXCEPT ![a] = edits[a]]
             /\ downloads = [downloads EXCEPT ![a] = downloads[a]]
             /\ attempts[a] \in Nat \cup {NoRow} /\ edits[a] \in Nat /\ downloads[a] \in Nat
             /\ Allowed(a) \in Nat /\ rows[a] \in Nat /\ stranded \subseteq Atts
             /\ part[a] \in {"nothing", "notice", "media", "redacted"}
             /\ NoticeOwned(a) /\ WithinBudget(a)
  BY <1>t, RowAllows DEF RetryTypes, RetryInv, Allowed
<1>1. ASSUME NEW a \in Atts, Tick(a)  PROVE RetryInv'
  <2> DEFINE x == [pc |-> "download", att |-> a, count |-> attempts[a]]
  <2>1. /\ retrier.pc = "idle" /\ attempts[a] # NoRow /\ retrier' = x
        /\ UNCHANGED <<attempts, edits, stranded, downloads, retryFaults>>
    BY <1>1 DEF Tick
  <2>2. x \in RetrierStates /\ x.pc = "download" /\ x.att = a /\ x.count = attempts[a]
    BY <1>u, <2>1, RetryAssumption DEF RetrierStates
  <2>3. /\ attempts' = [attempts EXCEPT ![a] = attempts[a]] /\ edits' = [edits EXCEPT ![a] = edits[a]]
        /\ downloads' = [downloads EXCEPT ![a] = downloads[a]]
    BY <1>u, <2>1
  <2> HIDE DEF x
  <2>4. /\ attempts[a] < RetrierMaxAttempts
        /\ edits[a] > 0 => part[a] # "nothing"
        /\ part[a] = "notice" => attempts[a] # NoRow \/ edits[a] > 0 \/ a \in stranded'
        /\ downloads[a] + (RetrierMaxAttempts - attempts[a] - 0) <= Allowed(a) + retryFaults'
    BY <1>u, <2>1 DEF NoticeOwned, WithinBudget, Left
  <2>5. Moves(a, x, attempts[a], edits[a], downloads[a])
    BY <1>u, <2>1, <2>2, <2>3, <2>4 DEF Moves
  <2> QED BY <1>s, <2>5
\* The row the retrier works on.
<1> DEFINE a == retrier.att
           n == attempts[a]
<1>w. ASSUME retrier.pc # "idle"
      PROVE  /\ a \in Atts /\ n \in Nat /\ n # NoRow /\ n = retrier.count /\ retrier \in RetrierStates
             /\ n < RetrierMaxAttempts
             /\ downloads[a] + (RetrierMaxAttempts - n - (IF retrier.pc = "reschedule" THEN 1 ELSE 0))
                    <= Allowed(a) + retryFaults
  <2>1. a \in Atts /\ n = retrier.count /\ retrier \in RetrierStates
    BY <1>t, <1>w DEF RetrierHoldsRow, RetryTypes
  <2>2. n \in Nat /\ n # NoRow
    BY <2>1 DEF RetrierStates, NoRow
  <2>3. WithinBudget(a)
    BY <1>u, <2>1
  <2> QED BY <2>1, <2>2, <2>3 DEF WithinBudget, Left
<1> HIDE DEF a, n
<1>p. ASSUME retrier.pc # "idle", NEW pc \in {"deliver", "reschedule", "delete"}
      PROVE  /\ [retrier EXCEPT !.pc = pc] \in RetrierStates
             /\ [retrier EXCEPT !.pc = pc].pc = pc /\ [retrier EXCEPT !.pc = pc].att = a
             /\ [retrier EXCEPT !.pc = pc].count = n
  BY <1>w, <1>p DEF RetrierStates, a
<1>2. CASE DownloadRecovered
  <2>1. /\ retrier.pc = "download" /\ retrier' = [retrier EXCEPT !.pc = "deliver"]
        /\ UNCHANGED <<attempts, edits, stranded, downloads, retryFaults>>
    BY <1>2 DEF DownloadRecovered
  <2>2. PICK x \in RetrierStates : retrier' = x /\ x.pc = "deliver" /\ x.att = a /\ x.count = n
    BY <1>p, <2>1
  <2>3. /\ attempts' = [attempts EXCEPT ![a] = n] /\ edits' = [edits EXCEPT ![a] = edits[a]]
        /\ downloads' = [downloads EXCEPT ![a] = downloads[a]]
    BY <1>u, <1>w, <2>1 DEF n
  <2>4. /\ edits[a] > 0 => part[a] # "nothing"
        /\ downloads[a] + (RetrierMaxAttempts - n - 0) <= Allowed(a) + retryFaults'
    BY <1>u, <1>w, <2>1 DEF NoticeOwned
  <2>5. Moves(a, x, n, edits[a], downloads[a])
    BY <1>u, <1>w, <2>1, <2>2, <2>3, <2>4 DEF Moves, a
  <2> QED BY <1>s, <2>5
<1>3. CASE DownloadsFail
  <2>1. /\ retrier.pc = "download" /\ retrier' = [retrier EXCEPT !.pc = "reschedule"]
        /\ downloads' = [downloads EXCEPT ![a] = downloads[a] + 1]
        /\ UNCHANGED <<attempts, edits, stranded, retryFaults>>
    BY <1>3 DEF DownloadsFail, a
  <2>2. PICK x \in RetrierStates : retrier' = x /\ x.pc = "reschedule" /\ x.att = a /\ x.count = n
    BY <1>p, <2>1
  <2>3. attempts' = [attempts EXCEPT ![a] = n] /\ edits' = [edits EXCEPT ![a] = edits[a]]
    BY <1>u, <1>w, <2>1 DEF n
  <2>4. /\ edits[a] > 0 => part[a] # "nothing"
        /\ (downloads[a] + 1) + (RetrierMaxAttempts - n - 1) <= Allowed(a) + retryFaults'
    BY <1>u, <1>w, <1>f, <2>1, RetryAssumption DEF NoticeOwned
  <2>5. downloads[a] + 1 \in Nat
    BY <1>u, <1>w, <2>1
  <2>6. Moves(a, x, n, edits[a], downloads[a] + 1)
    BY <1>u, <1>w, <2>1, <2>2, <2>3, <2>4, <2>5 DEF Moves, a
  <2> QED BY <1>s, <2>6
<1>4. CASE Reschedule
  <2>1. retrier.pc = "reschedule" /\ retrier' = Resting /\ UNCHANGED <<edits, downloads>>
    BY <1>4 DEF Reschedule
  <2>2. PICK m \in Nat \cup {NoRow} :
            /\ attempts' = [attempts EXCEPT ![a] = m]
            /\ \/ m = NoRow /\ n + 1 >= RetrierMaxAttempts /\ stranded' = stranded \cup {a}
               \/ m = n + 1 /\ n + 1 < RetrierMaxAttempts /\ stranded' = stranded
               \/ m = n /\ n + 1 < RetrierMaxAttempts /\ stranded' = stranded
                  /\ retryFaults' = retryFaults + 1
    <3>1. CASE n + 1 >= RetrierMaxAttempts
      BY <1>4, <1>w, <2>1, <3>1 DEF Reschedule, a
    <3>2. CASE ~(n + 1 >= RetrierMaxAttempts)
      <4>1. n + 1 < RetrierMaxAttempts /\ n + 1 \in Nat
        BY <1>w, <2>1, <3>2, RetryAssumption
      <4>2. CASE attempts' = [attempts EXCEPT ![a] = n + 1] /\ stranded' = stranded
        BY <4>1, <4>2
      <4>3. CASE attempts' = attempts /\ retryFaults' = retryFaults + 1 /\ stranded' = stranded
        <5>1. attempts' = [attempts EXCEPT ![a] = n]
          BY <1>u, <1>w, <2>1, <4>3 DEF n
        <5> QED BY <1>w, <2>1, <4>1, <4>3, <5>1
      <4>4. /\ stranded' = stranded
            /\ \/ attempts' = [attempts EXCEPT ![a] = IF attempts[a] = NoRow THEN attempts[a] ELSE n + 1]
               \/ retryFaults' = retryFaults + 1 /\ attempts' = attempts
        BY <1>4, <1>w, <2>1, <3>2 DEF Reschedule, RetryFault, a
      <4>5. (IF attempts[a] = NoRow THEN attempts[a] ELSE n + 1) = n + 1
        BY <1>w, <2>1 DEF n
      <4> QED BY <4>2, <4>3, <4>4, <4>5
    <3> QED BY <3>1, <3>2
  <2>3. /\ edits' = [edits EXCEPT ![a] = edits[a]] /\ downloads' = [downloads EXCEPT ![a] = downloads[a]]
        /\ a \in Atts
    BY <1>u, <1>w, <2>1
  <2>4. downloads[a] + (IF m = NoRow THEN 0 ELSE RetrierMaxAttempts - m - 0) <= Allowed(a) + retryFaults'
    BY <1>u, <1>w, <1>f, <2>1, <2>2, RetryAssumption DEF NoRow
  <2>5. m < RetrierMaxAttempts
    BY <1>w, <2>1, <2>2, RetryAssumption DEF NoRow
  <2>6. /\ edits[a] > 0 => part[a] # "nothing"
        /\ stranded \subseteq stranded' /\ stranded' \subseteq Atts
        /\ m # NoRow \/ a \in stranded'
    BY <1>u, <1>w, <2>1, <2>2, <2>3 DEF NoticeOwned, NoRow
  <2>7. Moves(a, Resting, m, edits[a], downloads[a])
    BY <1>t, <1>u, <2>1, <2>2, <2>3, <2>4, <2>5, <2>6 DEF Moves, a
  <2> QED BY <1>s, <2>7
<1>5. CASE DeliverAsEdit
  <2>1. retrier.pc = "deliver" /\ UNCHANGED <<attempts, downloads>> /\ a \in Atts
    BY <1>5, <1>w DEF DeliverAsEdit
  <2>2. GetPartByID(a) <=> part[a] \in {"notice", "media"}
    <3>1. makeAttID(a) = attachmentID(a)
      BY <2>1, RetryAssumption DEF makeAttID, attachmentID
    <3> QED BY <3>1 DEF GetPartByID
  <2>3. PICK pc \in {"delete", "reschedule"}, e \in Nat :
            /\ retrier' = [retrier EXCEPT !.pc = pc] /\ edits' = [edits EXCEPT ![a] = e]
            /\ \/ /\ pc = "delete" /\ part[a] \in {"notice", "media"} /\ e = edits[a] + 1
                  /\ stranded' = stranded /\ retryFaults' = retryFaults
               \/ /\ pc = "delete" /\ part[a] \notin {"notice", "media"} /\ e = edits[a]
                  /\ stranded' = (IF part[a] = "nothing" THEN stranded \cup {a} ELSE stranded)
                  /\ retryFaults' = retryFaults
               \/ /\ pc = "reschedule" /\ e = edits[a] /\ stranded' = stranded
                  /\ retryFaults' = retryFaults + 1
    <3>1. CASE /\ GetPartByID(a) /\ edits' = [edits EXCEPT ![a] = edits[a] + 1]
               /\ retrier' = [retrier EXCEPT !.pc = "delete"] /\ UNCHANGED <<stranded, retryFaults>>
      <4>1. PICK e \in Nat : e = edits[a] + 1
        BY <1>u, <2>1
      <4>2. part[a] \in {"notice", "media"} /\ edits' = [edits EXCEPT ![a] = e]
        BY <2>2, <3>1, <4>1
      <4> QED BY <3>1, <4>1, <4>2
    <3>2. CASE /\ ~GetPartByID(a) /\ retrier' = [retrier EXCEPT !.pc = "delete"]
               /\ stranded' = (IF part[a] = "nothing" THEN stranded \cup {a} ELSE stranded)
               /\ UNCHANGED <<edits, retryFaults>>
      <4>1. edits' = [edits EXCEPT ![a] = edits[a]] /\ edits[a] \in Nat
        BY <1>u, <2>1, <3>2
      <4> QED BY <2>2, <3>2, <4>1
    <3>3. CASE RetryFault /\ retrier' = [retrier EXCEPT !.pc = "reschedule"] /\ UNCHANGED <<edits, stranded>>
      <4>1. edits' = [edits EXCEPT ![a] = edits[a]] /\ edits[a] \in Nat /\ retryFaults' = retryFaults + 1
        BY <1>u, <2>1, <3>3 DEF RetryFault
      <4> QED BY <3>3, <4>1
    <3> QED BY <1>5, <3>1, <3>2, <3>3 DEF DeliverAsEdit, a
  <2>4. PICK x \in RetrierStates : retrier' = x /\ x.pc = pc /\ x.att = a /\ x.count = n
    BY <1>p, <2>1, <2>3
  <2>5. attempts' = [attempts EXCEPT ![a] = n] /\ downloads' = [downloads EXCEPT ![a] = downloads[a]]
    BY <1>u, <2>1 DEF n
  <2>6. downloads[a] + (RetrierMaxAttempts - n - (IF pc = "reschedule" THEN 1 ELSE 0)) <= Allowed(a) + retryFaults'
    BY <1>u, <1>w, <1>f, <2>1, <2>3, RetryAssumption
  <2>7. /\ e > 0 => part[a] # "nothing"
        /\ stranded \subseteq stranded' /\ stranded' \subseteq Atts
        /\ pc = "delete" => e > 0 \/ part[a] \in {"media", "redacted"} \/ a \in stranded'
    BY <1>u, <2>1, <2>3 DEF NoticeOwned
  <2>8. Moves(a, x, n, e, downloads[a])
    BY <1>u, <1>w, <2>1, <2>3, <2>4, <2>5, <2>6, <2>7 DEF Moves, a
  <2> QED BY <1>s, <2>8
<1>6. CASE DeleteRow
  <2>1. /\ retrier.pc = "delete" /\ retrier' = Resting /\ UNCHANGED <<edits, downloads, stranded>>
        /\ a \in Atts
    BY <1>6, <1>w DEF DeleteRow
  <2>2. PICK m \in {n, NoRow} : attempts' = [attempts EXCEPT ![a] = m]
    <3>1. attempts = [attempts EXCEPT ![a] = n]
      BY <1>u, <2>1 DEF n
    <3> QED BY <1>6, <3>1 DEF DeleteRow, a
  <2>3. /\ m \in Nat \cup {NoRow} /\ m < RetrierMaxAttempts
        /\ edits' = [edits EXCEPT ![a] = edits[a]] /\ downloads' = [downloads EXCEPT ![a] = downloads[a]]
    BY <1>u, <1>w, <2>1, RetryAssumption DEF NoRow
  <2>4. downloads[a] + (IF m = NoRow THEN 0 ELSE RetrierMaxAttempts - m - 0) <= Allowed(a) + retryFaults'
    BY <1>u, <1>w, <1>f, <2>1, <2>2, RetryAssumption DEF NoRow
  <2>5. /\ edits[a] > 0 => part[a] # "nothing"
        /\ delivery[a] = "enqueued" => m # NoRow \/ a \in stranded
        /\ part[a] = "notice" => m # NoRow \/ edits[a] > 0 \/ a \in stranded
    BY <1>u, <2>1 DEF NoticeOwned, a
  <2>6. Moves(a, Resting, m, edits[a], downloads[a])
    BY <1>t, <1>u, <2>1, <2>2, <2>3, <2>4, <2>5 DEF Moves, a
  <2> QED BY <1>s, <2>6
<1> QED BY <1>1, <1>2, <1>3, <1>4, <1>5, <1>6 DEF RetryWorks

\* A crash drops the queued edits and has the unacknowledged event sent again.
LEMMA RetryCrashes ==
    ASSUME RetryInv, RetryCrash
    PROVE  RetryInv'
<1>1. /\ retrier' = Resting /\ edits' = [a \in Atts |-> 0]
      /\ stranded' = stranded \cup {a \in Atts : edits[a] > 0}
      /\ delivery' = [a \in Atts |-> IF delivery[a] = "enqueued" THEN "new" ELSE delivery[a]]
      /\ UNCHANGED <<part, attempts, downloads, rows>> /\ retryFaults' = retryFaults + 1
  BY DEF RetryCrash, RetryFault
<1>2. RetryTypes /\ Resting \in RetrierStates /\ Resting.pc = "idle"
  BY DEF RetryInv, Resting, RetrierStates
<1>3. RetryTypes'
  BY <1>1, <1>2 DEF RetryTypes
<1>4. RetrierHoldsRow'
  BY <1>1, <1>2 DEF RetrierHoldsRow
<1>5. ASSUME NEW a \in Atts  PROVE NoticeOwned(a)' /\ WithinBudget(a)'
  <2>1. /\ NoticeOwned(a) /\ WithinBudget(a) /\ edits[a] \in Nat /\ retryFaults \in Nat
        /\ attempts[a] \in Nat \cup {NoRow} /\ downloads[a] \in Nat /\ Allowed(a) \in Nat
    BY <1>2, RowAllows DEF RetryInv, RetryTypes, Allowed
  <2>2. /\ edits'[a] = 0 /\ delivery'[a] = (IF delivery[a] = "enqueued" THEN "new" ELSE delivery[a])
        /\ edits[a] > 0 => a \in stranded'
    BY <1>1
  <2>3. NoticeOwned(a)'
    BY <1>1, <1>2, <2>1, <2>2 DEF NoticeOwned
  <2>4. /\ Allowed(a)' = Allowed(a) /\ Left(a)' <= Left(a) + 1
        /\ Left(a) \in Int /\ Left(a)' \in Int
    BY <1>1, <1>2, <2>1, RetryAssumption DEF Allowed, Left, NoRow
  <2>5. WithinBudget(a)'
    BY <1>1, <2>1, <2>4 DEF WithinBudget
  <2> QED BY <2>3, <2>5
<1> QED BY <1>3, <1>4, <1>5 DEF RetryInv

\* A notice is forgotten by no path through the pending table, and the failed
\* downloads of an attachment stay within what its stored rows allow, over
\* replays, lost edits and crashes (attempt, deliverAsEdit, reschedule, Insert).
THEOREM NoNoticeForgotten == RetrySpec => []RetryAccounted
<1>1. RetryInit => RetryInv
  <2> SUFFICES ASSUME RetryInit  PROVE RetryInv
    OBVIOUS
  <2>1. RetryTypes /\ RetrierHoldsRow
    BY DEF RetryInit, RetryTypes, RetrierHoldsRow, Resting, RetrierStates, NoRow
  <2>2. ASSUME NEW a \in Atts  PROVE NoticeOwned(a) /\ WithinBudget(a)
    <3>1. Allowed(a) = 0 /\ Left(a) = 0
      BY RetryAssumption DEF RetryInit, Allowed, Left
    <3>2. WithinBudget(a)
      BY <3>1, RetryAssumption DEF RetryInit, WithinBudget, NoRow
    <3> QED BY <3>2 DEF RetryInit, NoticeOwned, Resting
  <2> QED BY <2>1, <2>2 DEF RetryInv
<1>2. RetryInv /\ [RetryNext]_retryVars => RetryInv'
  <2> SUFFICES ASSUME RetryInv, [RetryNext]_retryVars  PROVE RetryInv'
    OBVIOUS
  <2>1. ASSUME NEW a \in Atts,
               EnqueuePendingMMCSRecovery(a) \/ SendNotice(a) \/ HandleEdit(a) \/ RedactNotice(a)
        PROVE  RetryInv'
    BY <2>1, LoopSteps
  <2>2. CASE (\E a \in Atts : Tick(a)) \/ RetryWorks
    BY <2>2, RetrierSteps
  <2>3. CASE RetryCrash
    BY <2>3, RetryCrashes
  <2>4. CASE UNCHANGED retryVars
    BY <2>4 DEF retryVars, RetryInv, RetryTypes, RetrierHoldsRow, NoticeOwned, WithinBudget, Allowed, Left
  <2> QED BY <2>1, <2>2, <2>3, <2>4 DEF RetryNext, RetryWorks
<1>3. RetryInv => RetryAccounted
  <2> SUFFICES ASSUME RetryInv, NEW a \in Atts
               PROVE  /\ part[a] = "notice" => attempts[a] # NoRow \/ edits[a] > 0 \/ a \in stranded
                      /\ downloads[a] <= RetrierMaxAttempts * rows[a] + retryFaults
    BY DEF RetryAccounted, NoticeHasOwner, RetryBudgetHolds
  <2>1. /\ NoticeOwned(a) /\ WithinBudget(a) /\ attempts[a] \in Nat \cup {NoRow}
        /\ downloads[a] \in Nat /\ Allowed(a) \in Nat /\ retryFaults \in Nat
    BY RowAllows DEF RetryInv, RetryTypes, Allowed
  <2>2. Left(a) \in Int /\ Left(a) >= 0
    BY <2>1, RetryAssumption DEF WithinBudget, Left, NoRow
  <2>3. downloads[a] <= Allowed(a) + retryFaults
    BY <2>1, <2>2 DEF WithinBudget
  <2> QED BY <2>1, <2>3 DEF NoticeOwned, Allowed
<1> QED BY <1>1, <1>2, <1>3, PTL DEF RetrySpec

=============================================================================
