----------------------------- MODULE Places_proofs -----------------------------
(***************************************************************************)
(* Proofs about the components that decide which room a message belongs to *)
(* and whether a chat has one, for any number of events, messages and      *)
(* restarts.                                                               *)
(*                                                                         *)
(* The recycle bin.  That a chat the scan has blocked gets no room says    *)
(* nothing of what would make the next pass create one: the invariant adds *)
(* that it has no live row, no override and stays in Apple's bin.          *)
(*                                                                         *)
(* Direct chats.  The service in memory is always the one of the portal's  *)
(* last message; the invariant says when the stored one is, which is what  *)
(* a restart starts from, and that the room of the contact's last message  *)
(* is the one its next message will find: the choice depends on which      *)
(* rooms have messages and on nothing else.                                *)
(*                                                                         *)
(* Groups.  Every name by which a room can be found (alias, cached GUID,   *)
(* stored GUID, pending save) is one of a group heard in it, and every     *)
(* list of members it can be found by is one such a group has had: a       *)
(* message joins a group to a room it shares a list with.                  *)
(***************************************************************************)
EXTENDS RecycleBin, DMRouting, GroupRouting, FiniteSetTheorems, NaturalsInduction,
        WellFoundedInduction, TLAPS

-----------------------------------------------------------------------------
(* RecycleBin                                                              *)

CloudChat == [zone : {"live", "bin"}, sent : 0 .. MaxMessages, bin : SUBSET Numbers,
              chat : {"none", "live", "gone"}, unread : SUBSET Numbers]

RowState == {"none", "live", "deleted"}

History == [hidden : SUBSET Portals, kept : SUBSET Portals, userDeleted : SUBSET Portals,
            phoneRestored : SUBSET Portals]

Scan == [stage : Stages, cooling : BOOLEAN, todo : SUBSET Portals, bin : [Portals -> SUBSET Numbers],
         verdict : [Portals -> Verdict], dead : SUBSET Portals, blocked : SUBSET Portals]

BinType ==
    /\ cloud \in [Portals -> CloudChat]
    /\ chatRow \in [Portals -> RowState] /\ rows \in [Portals -> [Numbers -> RowState]]
    /\ entry \in [Portals -> {"no", "live", "tombstone"}]
    /\ override \subseteq Portals /\ shownIn \subseteq Portals
    /\ scan \in Scan
    /\ seen \in History
    /\ events \in [said : Nat, starts : Nat]

\* What the bridge has stored, Apple has had; in the bin is all of a chat.
Sound(c) == c.unread \subseteq 1 .. c.sent /\ (c.zone = "bin" => c.bin = 1 .. c.sent /\ c.chat # "live")

CloudInv == \A p \in Portals : Stored(p) \subseteq 1 .. cloud[p].sent /\ Sound(cloud[p])

\* A chat the scan was right to block has nothing a room could be made from.
HiddenInv ==
    \A p \in seen.hidden :
        /\ cloud[p].zone = "bin" /\ p \notin override \cup shownIn
        /\ chatRow[p] = "deleted" /\ \A i \in Numbers : rows[p][i] # "live"

\* No verdict of the query undeletes a chat that is blocked by now.
VerdictInv == scan.stage = "judge" => \A p \in scan.todo \cap seen.hidden : scan.verdict[p] # "restored"

\* What the scan must not block has its override still.
KeptInv ==
    /\ seen.kept \subseteq override /\ (scan.blocked \cup scan.dead) \cap seen.kept = {}
    /\ scan.stage = "soft" => scan.blocked \cup scan.dead = {}

BinInv == BinType /\ CloudInv /\ HiddenInv /\ VerdictInv /\ KeptInv

LEMMA RowFacts ==
    ASSUME NEW r \in [Numbers -> RowState]
    PROVE  /\ Dead(r) \in [Numbers -> RowState] /\ \A i \in Numbers : Dead(r)[i] # "live" /\ (Dead(r)[i] = "none" <=> r[i] = "none")
           /\ Undeleted(r) \in [Numbers -> RowState] /\ \A i \in Numbers : Undeleted(r)[i] = "none" <=> r[i] = "none"
BY DEF Dead, Undeleted, RowState

\* What a deletion, a restore and a new message make of a chat.
LEMMA CloudFacts ==
    ASSUME NEW c \in CloudChat, NEW n, n \in {Deleted(c), Live(c)} \/ (c.sent < MaxMessages /\ n = Received(c))
    PROVE  n \in CloudChat /\ c.sent <= n.sent /\ (Sound(c) => Sound(n))
<1>1. MaxMessages \in Nat /\ c.sent \in Nat /\ c.sent <= MaxMessages
  BY RecycleBinAssumption DEF CloudChat
<1>2. 1 .. c.sent \subseteq Numbers
  BY <1>1 DEF Numbers
<1>3. c.sent < MaxMessages => c.sent + 1 \in 0 .. MaxMessages /\ c.unread \cup {c.sent + 1} \subseteq Numbers
  BY <1>1 DEF Numbers, CloudChat
<1>4. CASE n = Deleted(c)
  <2>1. n \in CloudChat
    BY <1>2, <1>4 DEF Deleted, CloudChat
  <2>2. n.sent = c.sent /\ n.unread = c.unread /\ n.bin = 1 .. c.sent /\ n.chat = "gone"
    BY <1>4 DEF Deleted, CloudChat
  <2> QED
    BY <1>1, <2>1, <2>2 DEF Sound
<1>5. CASE n = Live(c)
  <2>1. n \in CloudChat
    BY <1>2, <1>5 DEF Live, CloudChat
  <2>2. n.sent = c.sent /\ n.unread = 1 .. c.sent /\ n.zone = "live"
    BY <1>5 DEF Live, CloudChat
  <2> QED
    BY <1>1, <2>1, <2>2 DEF Sound
<1>6. CASE c.sent < MaxMessages /\ n = Received(c)
  <2>1. n \in CloudChat
    BY <1>3, <1>6 DEF Received, CloudChat
  <2>2. n.sent = c.sent + 1 /\ n.unread = c.unread \cup {c.sent + 1} /\ n.zone = "live"
    BY <1>6 DEF Received, CloudChat
  <2> QED
    BY <1>1, <2>1, <2>2 DEF Sound
<1> QED
  BY <1>4, <1>5, <1>6

\* A chat all of whose messages are in the bin is not taken for restored.
LEMMA VerdictOfGone ==
    ASSUME BinType, NEW p \in Portals, NEW bin, Stored(p) \subseteq bin[p]
    PROVE  classifyRecycleBinPortals(p, bin) # "restored"
<1>1. IsFiniteSet(Stored(p)) /\ Cardinality(Stored(p)) \in Nat
  <2>1. IsFiniteSet(Numbers) /\ Stored(p) \in SUBSET Numbers
    BY RecycleBinAssumption, FS_Interval DEF Numbers, Stored
  <2> QED
    BY <2>1, FS_Subset, FS_CardinalityType
<1>2. RecoverableSuffix(p, bin) = Stored(p) /\ RecoverableIn(p, bin) = Stored(p)
  BY DEF RecoverableSuffix, RecoverableIn
<1>3. Stored(p) # {} => LooksDeleted(p, bin)
  BY <1>1, <1>2, RecycleBinAssumption DEF LooksDeleted, recycleBinDeleteThreshold
<1>4. Stored(p) = {} => RecoverableIn(p, bin) = {} /\ ~LooksDeleted(p, bin)
  BY <1>2 DEF LooksDeleted
<1>5. ~NeedsUndelete(p, bin)
  BY <1>3, <1>4 DEF NeedsUndelete
<1>6. CASE Stored(p) = {}
  BY <1>4, <1>5, <1>6 DEF classifyRecycleBinPortals
<1>7. CASE Stored(p) # {}
  BY <1>2, <1>3, <1>5, <1>7 DEF classifyRecycleBinPortals
<1> QED
  BY <1>6, <1>7

-----------------------------------------------------------------------------

LEMMA BinInitially == BinInit => BinInv
<1> SUFFICES ASSUME BinInit PROVE BinInv
  OBVIOUS
<1>1. BinType
  <2>1. cloud \in [Portals -> CloudChat]
    BY RecycleBinAssumption DEF BinInit, CloudChat, Numbers
  <2>2. scan \in Scan
    BY DEF BinInit, Scan, ScanAt, NoScan, Stages, Verdict
  <2>3. seen \in History /\ events \in [said : Nat, starts : Nat]
    BY DEF BinInit, History
  <2>4. /\ chatRow \in [Portals -> RowState] /\ rows \in [Portals -> [Numbers -> RowState]]
        /\ entry \in [Portals -> {"no", "live", "tombstone"}]
    BY DEF BinInit, RowState
  <2> QED
    BY <2>1, <2>2, <2>3, <2>4 DEF BinInit, BinType
<1>2. CloudInv
  BY DEF BinInit, CloudInv, Stored, Sound
<1> QED
  BY <1>1, <1>2 DEF BinInit, BinInv, HiddenInv, VerdictInv, KeptInv, ScanAt, NoScan

-----------------------------------------------------------------------------
(* The phone and the user *)

DeletesRows(p) ==
    \/ chatRow' = [chatRow EXCEPT ![p] = IF @ = "live" THEN "deleted" ELSE @] /\ rows' = [rows EXCEPT ![p] = Dead(@)]
    \/ chatRow' = [chatRow EXCEPT ![p] = "deleted"] /\ rows' = [rows EXCEPT ![p] = Dead(@)]
RestoresRows(p) ==
    \/ chatRow' = [chatRow EXCEPT ![p] = "live"] /\ rows' = [rows EXCEPT ![p] = Undeleted(@)]
    \/ chatRow' = [chatRow EXCEPT ![p] = IF @ = "deleted" THEN "live" ELSE @] /\ rows' = [rows EXCEPT ![p] = Undeleted(@)]

LEMMA RowsMove ==
    ASSUME BinType, NEW p \in Portals, DeletesRows(p) \/ RestoresRows(p)
    PROVE  /\ chatRow' \in [Portals -> RowState] /\ rows' \in [Portals -> [Numbers -> RowState]]
           /\ \A q \in Portals, i \in Numbers : rows'[q][i] = "none" <=> rows[q][i] = "none"
           /\ \A q \in Portals \ {p} : chatRow'[q] = chatRow[q] /\ rows'[q] = rows[q]
           /\ DeletesRows(p) => \A i \in Numbers : rows'[p][i] # "live"
           /\ DeletesRows(p) /\ chatRow[p] # "none" => chatRow'[p] = "deleted"
<1>1. rows[p] \in [Numbers -> RowState] /\ chatRow[p] \in RowState
  BY DEF BinType
<1> DEFINE d == Dead(rows[p])
           u == Undeleted(rows[p])
<1>2. /\ d \in [Numbers -> RowState] /\ \A i \in Numbers : d[i] # "live" /\ (d[i] = "none" <=> rows[p][i] = "none")
      /\ u \in [Numbers -> RowState] /\ \A i \in Numbers : u[i] = "none" <=> rows[p][i] = "none"
  BY <1>1, RowFacts
<1>3. rows' = [rows EXCEPT ![p] = d] \/ rows' = [rows EXCEPT ![p] = u]
  BY DEF DeletesRows, RestoresRows
<1>4. DeletesRows(p) => rows' = [rows EXCEPT ![p] = d]
  BY DEF DeletesRows
<1> HIDE DEF d, u
<1>5. chatRow' \in [Portals -> RowState] /\ \A q \in Portals \ {p} : chatRow'[q] = chatRow[q]
  BY DEF DeletesRows, RestoresRows, BinType, RowState
<1>6. rows' \in [Portals -> [Numbers -> RowState]] /\ \A q \in Portals \ {p} : rows'[q] = rows[q]
  BY <1>2, <1>3, SMTT(30) DEF BinType
<1>7. \A q \in Portals, i \in Numbers : rows'[q][i] = "none" <=> rows[q][i] = "none"
  BY <1>2, <1>3, <1>6 DEF BinType
<1>8. DeletesRows(p) => \A i \in Numbers : rows'[p][i] # "live"
  BY <1>2, <1>4 DEF BinType
<1>9. DeletesRows(p) /\ chatRow[p] # "none" => chatRow'[p] = "deleted"
  BY <1>1 DEF DeletesRows, BinType, RowState
<1> QED
  BY <1>5, <1>6, <1>7, <1>8, <1>9

\* A chat changes in the cloud, and rows stay what they are or change their
\* flags.
LEMMA CloudMoves ==
    ASSUME BinType, CloudInv, NEW p \in Portals, NEW n \in CloudChat, cloud[p].sent <= n.sent, Sound(n),
           cloud' = [cloud EXCEPT ![p] = n],
           \A q \in Portals, i \in Numbers : rows'[q][i] = "none" <=> rows[q][i] = "none"
    PROVE  cloud' \in [Portals -> CloudChat] /\ CloudInv'
<1>1. cloud' \in [Portals -> CloudChat]
  BY DEF BinType
<1>2. ASSUME NEW q \in Portals PROVE Stored(q)' \subseteq 1 .. cloud'[q].sent /\ Sound(cloud'[q])
  <2>1. Stored(q)' \subseteq Stored(q)
    BY DEF Stored
  <2>2. cloud[q].sent \in Nat /\ cloud'[q].sent \in Nat /\ cloud[q].sent <= cloud'[q].sent
    BY <1>1, RecycleBinAssumption DEF BinType, CloudChat
  <2>3. Sound(cloud'[q])
    BY DEF BinType, CloudInv
  <2> QED
    BY <2>1, <2>2, <2>3 DEF CloudInv
<1> QED
  BY <1>1, <1>2 DEF CloudInv

World(p) ==
    \/ PhoneDeletes(p) \/ PhoneRestores(p) \/ PhoneReceives(p)
    \/ UserDeletes(p) \/ UserRestores(p) \/ AppleDeletes(p)

LEMMA WorldKeeps ==
    ASSUME BinInv, NEW p \in Portals, World(p)
    PROVE  BinInv'
<1>1. BinType /\ CloudInv /\ HiddenInv /\ VerdictInv /\ KeptInv
  BY DEF BinInv
<1>2. PICK n : cloud' = [cloud EXCEPT ![p] = n]
               /\ \/ n \in {cloud[p], Deleted(cloud[p]), Live(cloud[p])}
                  \/ cloud[p].sent < MaxMessages /\ n = Received(cloud[p])
  <2>1. UserDeletes(p) => cloud' = [cloud EXCEPT ![p] = cloud[p]]
    BY <1>1 DEF UserDeletes, BinType
  <2> QED
    BY <2>1 DEF World, PhoneDeletes, PhoneRestores, PhoneReceives, UserRestores, AppleDeletes
<1>3. n \in CloudChat /\ cloud[p].sent <= n.sent /\ Sound(n)
  <2>1. cloud[p] \in CloudChat /\ Sound(cloud[p]) /\ cloud[p].sent \in Nat
    BY <1>1 DEF BinType, CloudInv, CloudChat
  <2> QED
    BY <1>2, <2>1, CloudFacts
<1>4. Deletes(p) \/ Restores(p) \/ Untouched
  BY DEF World, PhoneDeletes, PhoneRestores, PhoneReceives, UserDeletes, UserRestores, AppleDeletes, Untouched
<1>5. DeletesRows(p) \/ RestoresRows(p) \/ UNCHANGED <<chatRow, rows>>
  BY <1>4 DEF Deletes, Restores, Untouched, deleteLocalChatByPortalID, DeletesRows, RestoresRows
<1>6. /\ events' \in [said : Nat, starts : Nat] /\ UNCHANGED scan
      /\ entry' \in [Portals -> {"no", "live", "tombstone"}]
      /\ override' \subseteq Portals /\ shownIn' \subseteq Portals
  <2>1. events' \in [said : Nat, starts : Nat] /\ UNCHANGED scan
    BY <1>1 DEF World, PhoneDeletes, PhoneRestores, PhoneReceives, UserDeletes, UserRestores, AppleDeletes, Happens, BinType
  <2>2. entry' \in [Portals -> {"no", "live", "tombstone"}]
    BY <1>1, <1>4 DEF Deletes, Restores, Untouched, Unblock, BinType
  <2> QED
    BY <1>1, <1>4, <2>1, <2>2 DEF Deletes, Restores, Untouched, BinType
<1>7. /\ seen' \in History
      /\ seen'.hidden \subseteq seen.hidden \ {p}
      /\ seen'.kept \subseteq seen.kept /\ seen'.kept \subseteq override'
  <2>1. CASE PhoneDeletes(p)
    <3>1. p \notin seen.hidden
      BY <1>1, <2>1 DEF PhoneDeletes, HiddenInv
    <3>2. seen' \in History /\ seen'.hidden = seen.hidden /\ seen'.kept = seen.kept \ {p}
      BY <1>1, <2>1, <3>1 DEF PhoneDeletes, BinType, History
    <3> QED
      BY <1>1, <2>1, <3>1, <3>2 DEF PhoneDeletes, Deletes, Untouched, KeptInv
  <2>2. CASE PhoneRestores(p)
    <3>1. seen' \in History /\ seen'.hidden = seen.hidden \ {p} /\ seen'.kept = seen.kept
      BY <1>1, <2>2 DEF PhoneRestores, BinType, History
    <3> QED
      BY <1>1, <2>2, <3>1 DEF PhoneRestores, Restores, Untouched, KeptInv
  <2>3. CASE PhoneReceives(p)
    <3>1. seen' \in History /\ seen'.hidden = seen.hidden \ {p} /\ seen'.kept = seen.kept
      BY <1>1, <2>3 DEF PhoneReceives, BinType, History
    <3> QED
      BY <1>1, <2>3, <3>1 DEF PhoneReceives, Untouched, KeptInv
  <2>4. CASE UserDeletes(p)
    <3>1. p \notin seen.hidden
      BY <1>1, <2>4 DEF UserDeletes, HiddenInv
    <3>2. seen' \in History /\ seen'.hidden = seen.hidden /\ seen'.kept = seen.kept \ {p}
      BY <1>1, <2>4, <3>1 DEF UserDeletes, BinType, History
    <3> QED
      BY <1>1, <2>4, <3>1, <3>2 DEF UserDeletes, Deletes, KeptInv
  <2>5. CASE UserRestores(p)
    <3>1. seen' \in History /\ seen'.hidden = seen.hidden \ {p} /\ seen'.kept = seen.kept
      BY <1>1, <2>5 DEF UserRestores, BinType, History
    <3> QED
      BY <1>1, <2>5, <3>1 DEF UserRestores, Restores, KeptInv
  <2>6. CASE AppleDeletes(p)
    <3>1. p \notin seen.hidden
      BY <1>1, <2>6 DEF AppleDeletes, HiddenInv
    <3> QED
      BY <1>1, <2>6, <3>1 DEF AppleDeletes, KeptInv, BinType
  <2> QED
    BY <2>1, <2>2, <2>3, <2>4, <2>5, <2>6 DEF World
<1>8. /\ \A q \in Portals, i \in Numbers : rows'[q][i] = "none" <=> rows[q][i] = "none"
      /\ \A q \in Portals \ {p} : chatRow'[q] = chatRow[q] /\ rows'[q] = rows[q]
      /\ chatRow' \in [Portals -> RowState] /\ rows' \in [Portals -> [Numbers -> RowState]]
  BY <1>1, <1>5, RowsMove DEF BinType
<1>9. cloud' \in [Portals -> CloudChat] /\ CloudInv'
  BY <1>1, <1>2, <1>3, <1>8, CloudMoves
<1>10. \A q \in Portals \ {p} : /\ cloud'[q] = cloud[q] /\ (q \in override' => q \in override)
                                 /\ (q \in shownIn' => q \in shownIn)
  BY <1>1, <1>2, <1>4 DEF BinType, Deletes, Restores, Untouched
<1>11. HiddenInv'
  BY <1>1, <1>7, <1>8, <1>10 DEF HiddenInv, BinType, History
<1>12. VerdictInv' /\ KeptInv'
  BY <1>1, <1>6, <1>7 DEF VerdictInv, KeptInv
<1> QED
  BY <1>1, <1>6, <1>7, <1>8, <1>9, <1>11, <1>12 DEF BinInv, BinType

-----------------------------------------------------------------------------
(* Reading CloudKit *)

LEMMA ReadChatKeeps ==
    ASSUME BinInv, NEW p \in Portals, ReadChat(p)
    PROVE  BinInv'
<1>1. BinType /\ CloudInv /\ HiddenInv /\ VerdictInv /\ KeptInv /\ cloud[p] \in CloudChat
  BY DEF BinInv, BinType
<1> DEFINE n == [cloud[p] EXCEPT !.chat = "none"]
<1>2. n \in CloudChat /\ n.sent = cloud[p].sent /\ n.zone = cloud[p].zone /\ cloud[p].sent \in Nat /\ (Sound(cloud[p]) => Sound(n))
  BY <1>1 DEF CloudChat, Sound
<1>3. cloud' = [cloud EXCEPT ![p] = n]
  BY DEF ReadChat
<1> HIDE DEF n
<1>4. \/ /\ chatRow' = [chatRow EXCEPT ![p] = IF @ = "none" \/ entry[p] = "tombstone" THEN "live" ELSE @]
         /\ rows' = rows /\ cloud[p].chat = "live" /\ shownIn' = shownIn
      \/ DeletesRows(p) /\ shownIn' \subseteq shownIn
      \/ UNCHANGED <<chatRow, rows, shownIn>>
  BY DEF ReadChat, ReadLiveChat, ReadGoneChat, DeletesRows, deleteLocalChatByPortalID, SameRows
<1>5. /\ \A q \in Portals, i \in Numbers : rows'[q][i] = "none" <=> rows[q][i] = "none"
      /\ \A q \in Portals \ {p} : chatRow'[q] = chatRow[q] /\ rows'[q] = rows[q]
      /\ chatRow' \in [Portals -> RowState] /\ rows' \in [Portals -> [Numbers -> RowState]]
  BY <1>1, <1>4, RowsMove DEF BinType, RowState
<1>6. cloud' \in [Portals -> CloudChat] /\ CloudInv'
  <2>1. cloud[p].sent <= n.sent /\ Sound(n)
    BY <1>1, <1>2 DEF CloudInv
  <2> QED
    BY <1>1, <1>2, <1>3, <1>5, <2>1, CloudMoves
<1>7. entry' \in [Portals -> {"no", "live", "tombstone"}]
  BY <1>1 DEF ReadChat, ReadLiveChat, ReadGoneChat, BinType
<1>8. ASSUME p \in seen.hidden PROVE chatRow'[p] = "deleted" /\ \A i \in Numbers : rows'[p][i] # "live"
  BY <1>1, <1>4, <1>8, RowsMove DEF HiddenInv, CloudInv, Sound
<1>9. HiddenInv'
  BY <1>1, <1>2, <1>3, <1>4, <1>5, <1>8 DEF HiddenInv, ReadChat, BinType, History
<1> QED
  BY <1>1, <1>4, <1>5, <1>6, <1>7, <1>9 DEF BinInv, BinType, VerdictInv, KeptInv, ReadChat

LEMMA ReadMessagesKeeps ==
    ASSUME BinInv, NEW p \in Portals, ReadMessages(p)
    PROVE  BinInv'
<1>1. BinType /\ CloudInv /\ HiddenInv /\ VerdictInv /\ KeptInv /\ cloud[p] \in CloudChat
  BY DEF BinInv, BinType
<1> DEFINE n == [cloud[p] EXCEPT !.unread = {}]
           r == [i \in Numbers |-> IF i \in cloud[p].unread THEN MessageRowAfter(p, rows[p][i]) ELSE rows[p][i]]
<1>2. n \in CloudChat /\ n.sent = cloud[p].sent /\ n.zone = cloud[p].zone /\ (Sound(cloud[p]) => Sound(n))
  BY <1>1 DEF CloudChat, Sound
<1>3. cloud' = [cloud EXCEPT ![p] = n] /\ rows' = [rows EXCEPT ![p] = r]
  BY DEF ReadMessages
<1>4. r \in [Numbers -> RowState] /\ (chatRow[p] = "deleted" => r = rows[p])
      /\ \A i \in Numbers : r[i] # "none" => rows[p][i] # "none" \/ i \in cloud[p].unread
  <2>1. ASSUME NEW x \in RowState
        PROVE  MessageRowAfter(p, x) \in RowState /\ (chatRow[p] = "deleted" => MessageRowAfter(p, x) = x)
    <3>1. CASE chatRow[p] = "deleted"
      BY <3>1 DEF MessageRowAfter
    <3>2. CASE chatRow[p] # "deleted" /\ (x = "deleted" \/ entry[p] # "no")
      BY <3>2 DEF MessageRowAfter, RowState
    <3>3. CASE chatRow[p] # "deleted" /\ ~(x = "deleted" \/ entry[p] # "no")
      BY <3>3 DEF MessageRowAfter, RowState
    <3> QED
      BY <3>1, <3>2, <3>3
  <2>2. rows[p] \in [Numbers -> RowState]
    BY <1>1 DEF BinType
  <2> QED
    BY <2>1, <2>2
<1> HIDE DEF n, r
<1>5. cloud' \in [Portals -> CloudChat] /\ rows' \in [Portals -> [Numbers -> RowState]]
  BY <1>1, <1>2, <1>3, <1>4 DEF BinType
<1>6. CloudInv'
  BY <1>1, <1>2, <1>3, <1>4 DEF CloudInv, BinType, Stored, Sound
<1>7. HiddenInv'
  BY <1>1, <1>2, <1>3, <1>4 DEF HiddenInv, ReadMessages, BinType, History
<1> QED
  BY <1>1, <1>5, <1>6, <1>7 DEF BinInv, BinType, VerdictInv, KeptInv, ReadMessages

-----------------------------------------------------------------------------
(* The start-up sequence *)

\* Steps of the sequence that leave the rows and what is blocked alone.
LEMMA StagesKeep ==
    ASSUME BinInv, SyncEnds \/ ScanStarts \/ ListGuids \/ ScanEnds \/ CreateRooms \/ NotifyAndPrune
    PROVE  BinInv'
<1>1. BinType /\ CloudInv /\ HiddenInv /\ VerdictInv /\ KeptInv
  BY DEF BinInv
<1>2. UNCHANGED <<cloud, chatRow, rows, override, events>>
  BY DEF SyncEnds, ScanStarts, ListGuids, ScanEnds, CreateRooms, NotifyAndPrune, SameRows, Stays
<1>3. CloudInv'
  BY <1>1, <1>2 DEF CloudInv, Stored
<1>4. CASE SyncEnds \/ NotifyAndPrune
  <2>1. scan' \in Scan /\ scan'.stage \in {"soft", "idle"} /\ scan'.blocked = {} /\ scan'.dead = {}
    BY <1>1, <1>4 DEF SyncEnds, NotifyAndPrune, Scan, ScanAt, NoScan, Stages, Verdict, BinType
  <2>2. entry' \in [Portals -> {"no", "live", "tombstone"}]
    BY <1>1, <1>4 DEF SyncEnds, NotifyAndPrune, BinType
  <2> QED
    BY <1>1, <1>2, <1>3, <1>4, <2>1, <2>2
       DEF BinInv, BinType, SyncEnds, NotifyAndPrune, Stays, HiddenInv, VerdictInv, KeptInv
<1>5. CASE ScanStarts
  <2>1. scan' \in Scan /\ scan'.stage \in {"create", "chats"} /\ scan'.blocked = {} /\ scan'.dead = {}
    <3>1. CASE scan.cooling
      <4>1. scan' = [scan EXCEPT !.stage = "create"] /\ scan.blocked = {} /\ scan.dead = {}
        BY <1>1, <1>5, <3>1 DEF ScanStarts, KeptInv
      <4> QED
        BY <1>1, <4>1 DEF Scan, Stages, BinType
    <3>2. CASE ~scan.cooling
      <4>1. PICK todo \in SUBSET Portals : scan' = ScanAt("chats", TRUE, [NoScan EXCEPT !.todo = todo])
        BY <1>5, <3>2 DEF ScanStarts
      <4> QED
        BY <4>1 DEF Scan, ScanAt, NoScan, Stages, Verdict
    <3> QED
      BY <3>1, <3>2
  <2>2. seen' \in History /\ seen'.kept = override /\ seen'.hidden = seen.hidden
    BY <1>1, <1>5 DEF ScanStarts, History, BinType
  <2> QED
    BY <1>1, <1>2, <1>3, <1>5, <2>1, <2>2 DEF BinInv, BinType, ScanStarts, Stays, HiddenInv, VerdictInv, KeptInv
<1>6. CASE ListGuids
  <2>1. \A p \in Portals : cloud[p].bin \in SUBSET Numbers
    BY <1>1 DEF BinType, CloudChat
  <2> DEFINE bin == [p \in Portals |-> cloud[p].bin]
             verdict == [p \in Portals |-> classifyRecycleBinPortals(p, bin)]
  <2>2. bin \in [Portals -> SUBSET Numbers] /\ verdict \in [Portals -> Verdict]
    BY <2>1 DEF classifyRecycleBinPortals, Verdict
  <2>3. \A p \in seen.hidden : verdict[p] # "restored"
    <3>1. ASSUME NEW p \in seen.hidden PROVE p \in Portals /\ Stored(p) \subseteq bin[p]
      <4>1. p \in Portals
        BY <1>1, <3>1 DEF BinType, History
      <4>2. cloud[p].zone = "bin" /\ Sound(cloud[p]) /\ Stored(p) \subseteq 1 .. cloud[p].sent
        BY <1>1, <3>1, <4>1 DEF HiddenInv, CloudInv
      <4> QED
        BY <4>1, <4>2 DEF Sound
    <3> QED
      BY <1>1, <3>1, VerdictOfGone
  <2>4. \/ scan' = [scan EXCEPT !.stage = "create"]
        \/ \E todo \in SUBSET Portals : scan' = [scan EXCEPT !.stage = "judge", !.bin = bin, !.verdict = verdict, !.todo = todo]
    BY <1>6 DEF ListGuids
  <2> HIDE DEF bin, verdict
  <2>5. /\ scan' \in Scan /\ scan'.stage \in {"create", "judge"} /\ scan'.blocked = scan.blocked /\ scan'.dead = scan.dead
        /\ scan'.stage = "judge" => scan'.verdict = verdict
    <3>1. scan \in Scan
      BY <1>1 DEF BinType
    <3>2. CASE scan' = [scan EXCEPT !.stage = "create"]
      BY <3>1, <3>2 DEF Scan, Stages
    <3>3. ASSUME NEW todo \in SUBSET Portals,
                 scan' = [scan EXCEPT !.stage = "judge", !.bin = bin, !.verdict = verdict, !.todo = todo]
          PROVE  <2>5
      BY <2>2, <3>1, <3>3 DEF Scan, Stages
    <3> QED
      BY <2>4, <3>2, <3>3
  <2> QED
    BY <1>1, <1>2, <1>3, <1>6, <2>3, <2>5 DEF BinInv, BinType, ListGuids, Stays, HiddenInv, VerdictInv, KeptInv
<1>7. CASE ScanEnds
  <2>1. scan' \in Scan /\ scan'.stage = "create" /\ scan'.blocked = scan.blocked /\ scan'.dead = scan.dead
    BY <1>1, <1>7 DEF ScanEnds, Scan, Stages, BinType
  <2> QED
    BY <1>1, <1>2, <1>3, <1>7, <2>1 DEF BinInv, BinType, ScanEnds, Stays, HiddenInv, VerdictInv, KeptInv
<1>8. CASE CreateRooms
  <2>1. scan' \in Scan /\ scan'.stage \in {"notify", scan.stage} /\ scan'.blocked = scan.blocked /\ scan'.dead = scan.dead
        /\ scan'.todo = scan.todo /\ scan'.verdict = scan.verdict
    BY <1>1, <1>8 DEF CreateRooms, Scan, Stages, BinType
  <2>2. RoomsWanted \subseteq Portals /\ RoomsWanted \cap seen.hidden = {}
    BY <1>1 DEF RoomsWanted, hasPortalMessages, HiddenInv
  <2> QED
    BY <1>1, <1>2, <1>3, <1>8, <2>1, <2>2 DEF BinInv, BinType, CreateRooms, HiddenInv, VerdictInv, KeptInv
<1> QED
  BY <1>4, <1>5, <1>6, <1>7, <1>8

LEMMA RestartKeeps ==
    ASSUME BinInv, RestartScan
    PROVE  BinInv'
<1>1. BinType /\ CloudInv /\ HiddenInv /\ VerdictInv /\ KeptInv
  BY DEF BinInv
<1>2. scan' \in Scan /\ scan'.stage = "sync" /\ scan'.blocked = {} /\ scan'.dead = {}
  <2>1. \E cooled \in BOOLEAN : scan' = ScanAt("sync", scan.cooling /\ ~cooled, NoScan)
    BY DEF RestartScan
  <2> QED
    BY <1>1, <2>1 DEF Scan, ScanAt, NoScan, Stages, Verdict, BinType
<1>3. events' \in [said : Nat, starts : Nat]
  <2>1. events \in [said : Nat, starts : Nat] /\ events.starts + 1 \in Nat
    BY <1>1 DEF BinType
  <2> QED
    BY <2>1 DEF RestartScan
<1>7. entry' \in [Portals -> {"no", "live", "tombstone"}]
  BY DEF RestartScan, Repopulated
<1>4. ASSUME NEW p \in Portals
      PROVE  cloud'[p] \in CloudChat /\ Sound(cloud'[p]) /\ cloud'[p].sent = cloud[p].sent /\ cloud'[p].zone = cloud[p].zone
  <2> DEFINE chat == IF cloud[p].zone = "live" THEN "live" ELSE cloud[p].chat
             n == [cloud[p] EXCEPT !.chat = chat, !.unread = 1 .. cloud[p].sent]
  <2>1. cloud[p] \in CloudChat /\ Sound(cloud[p])
    BY <1>1 DEF BinType, CloudInv
  <2>2. 1 .. cloud[p].sent \in SUBSET Numbers
    BY <2>1, RecycleBinAssumption DEF CloudChat, Numbers
  <2>3. chat \in {"none", "live", "gone"} /\ (cloud[p].zone = "bin" => chat = cloud[p].chat)
    BY <2>1 DEF CloudChat
  <2>4. cloud'[p] \in {cloud[p], n}
    BY DEF RestartScan
  <2> HIDE DEF chat
  <2>5. n \in CloudChat /\ n.sent = cloud[p].sent /\ n.zone = cloud[p].zone /\ n.bin = cloud[p].bin
        /\ n.chat = chat /\ n.unread = 1 .. cloud[p].sent
    BY <2>1, <2>2, <2>3 DEF CloudChat
  <2> HIDE DEF n
  <2> QED
    BY <2>1, <2>3, <2>4, <2>5 DEF Sound
<1>5. cloud' \in [Portals -> CloudChat]
  <2>1. cloud' = [p \in Portals |-> cloud'[p]]
    BY <1>1 DEF RestartScan, BinType
  <2> QED
    BY <1>4, <2>1
<1>6. CloudInv' /\ HiddenInv'
  <2>1. UNCHANGED <<chatRow, rows, override, shownIn, seen>> /\ seen.hidden \subseteq Portals
    BY <1>1 DEF RestartScan, SameRows, BinType, History
  <2>2. CloudInv'
    BY <1>1, <1>4, <2>1 DEF CloudInv, Stored
  <2>3. HiddenInv'
    BY <1>1, <1>4, <2>1 DEF HiddenInv
  <2> QED
    BY <2>2, <2>3
<1> QED
  BY <1>1, <1>2, <1>3, <1>5, <1>6, <1>7 DEF BinInv, BinType, RestartScan, SameRows, VerdictInv, KeptInv

\* What a step of the sequence does that judges one portal: only a step that
\* deletes the rows of a chat may block it, and only one without override.
Judges(p) ==
    /\ UNCHANGED <<cloud, override, shownIn, events>> /\ entry' \in [Portals -> {"no", "live", "tombstone"}]
    /\ scan' \in Scan /\ scan'.stage = scan.stage /\ scan'.verdict = scan.verdict /\ scan'.todo = scan.todo \ {p}
    /\ \/ UNCHANGED seen /\ scan'.blocked = scan.blocked /\ scan'.dead = scan.dead
          /\ \/ DeletesRows(p) \/ UNCHANGED <<chatRow, rows>>
             \/ p \notin seen.hidden /\ RestoresRows(p)
             \/ p \notin seen.hidden /\ chatRow' = [chatRow EXCEPT ![p] = "live"] /\ rows' = rows
       \/ /\ UNCHANGED seen /\ UNCHANGED <<chatRow, rows>> /\ p \notin override /\ scan.stage # "soft"
          /\ scan'.blocked = scan.blocked /\ scan'.dead = scan.dead \cup {p}
       \/ /\ p \notin override /\ scan.stage # "soft"
          /\ scan'.blocked = scan.blocked \cup {p} /\ scan'.dead = scan.dead
          /\ seen' \in History /\ seen'.kept = seen.kept
          /\ seen'.hidden \subseteq seen.hidden \cup ({p} \cap StillGone)
          /\ chatRow' = [chatRow EXCEPT ![p] = "deleted"] /\ rows' = [rows EXCEPT ![p] = Dead(@)]

LEMMA JudgesKeeps ==
    ASSUME BinInv, NEW p \in Portals, Judges(p)
    PROVE  BinInv'
<1>1. BinType /\ CloudInv /\ HiddenInv /\ VerdictInv /\ KeptInv
  BY DEF BinInv
<1>2. /\ \A q \in Portals, i \in Numbers : rows'[q][i] = "none" <=> rows[q][i] = "none"
      /\ \A q \in Portals \ {p} : chatRow'[q] = chatRow[q] /\ rows'[q] = rows[q]
      /\ chatRow' \in [Portals -> RowState] /\ rows' \in [Portals -> [Numbers -> RowState]]
  <2>1. CASE UNCHANGED <<chatRow, rows>> \/ (chatRow' = [chatRow EXCEPT ![p] = "live"] /\ rows' = rows)
    BY <1>1, <2>1 DEF BinType, RowState
  <2>2. CASE DeletesRows(p) \/ RestoresRows(p)
    BY <1>1, <2>2, RowsMove
  <2> QED
    BY <2>1, <2>2 DEF Judges, DeletesRows
<1>3. CloudInv'
  BY <1>1, <1>2 DEF CloudInv, Stored, Judges
<1>4. seen' \in History /\ seen'.kept = seen.kept /\ seen'.hidden \subseteq Portals
  BY <1>1 DEF Judges, BinType, History
<1>5. ASSUME p \in seen'.hidden
      PROVE  /\ cloud[p].zone = "bin" /\ p \notin override \cup shownIn
             /\ chatRow'[p] = "deleted" /\ \A i \in Numbers : rows'[p][i] # "live"
  <2>1. CASE chatRow' = [chatRow EXCEPT ![p] = "deleted"] /\ rows' = [rows EXCEPT ![p] = Dead(@)]
    <3>1. \A i \in Numbers : rows'[p][i] # "live"
      BY <1>1, <2>1, RowsMove DEF DeletesRows
    <3>2. chatRow'[p] = "deleted"
      BY <1>1, <2>1 DEF BinType
    <3> QED
      BY <1>1, <1>5, <3>1, <3>2 DEF Judges, HiddenInv, StillGone
  <2>2. CASE UNCHANGED seen /\ (DeletesRows(p) \/ UNCHANGED <<chatRow, rows>>)
    BY <1>1, <1>5, <2>2, RowsMove DEF Judges, HiddenInv
  <2>3. CASE UNCHANGED seen /\ p \notin seen.hidden
    BY <1>5, <2>3
  <2> QED
    BY <2>1, <2>2, <2>3 DEF Judges
<1>6. HiddenInv'
  BY <1>1, <1>2, <1>4, <1>5 DEF HiddenInv, Judges
<1>7. VerdictInv' /\ KeptInv'
  BY <1>1 DEF VerdictInv, KeptInv, Judges, BinType, Scan, History
<1> QED
  BY <1>1, <1>2, <1>3, <1>4, <1>6, <1>7 DEF BinInv, BinType, Judges

LEMMA SoftDeleteJudges ==
    ASSUME BinInv, NEW p \in Portals, SoftDelete(p)
    PROVE  Judges(p)
<1>1. BinType
  BY DEF BinInv
<1>2. scan' \in Scan /\ scan' = [scan EXCEPT !.todo = @ \ {p}]
  BY <1>1 DEF SoftDelete, BinType, Scan
<1> QED
  BY <1>1, <1>2 DEF SoftDelete, Judges, Stays, BinType, Scan, DeletesRows, deleteLocalChatByPortalID

LEMMA BlockJudges ==
    ASSUME BinInv, NEW p \in Portals, Block(p), Stays, p \notin override, scan.stage # "soft"
    PROVE  Judges(p)
<1>1. BinType
  BY DEF BinInv
<1>2. scan' \in Scan /\ scan' = [scan EXCEPT !.todo = @ \ {p}, !.blocked = @ \cup {p}]
  BY <1>1 DEF Block, BinType, Scan
<1>3. seen' \in History /\ seen'.kept = seen.kept /\ seen'.hidden \subseteq seen.hidden \cup ({p} \cap StillGone)
  BY <1>1 DEF Block, BinType, History
<1>4. entry' \in [Portals -> {"no", "live", "tombstone"}]
  BY <1>1 DEF Block, BinType
<1> QED
  BY <1>1, <1>2, <1>3, <1>4 DEF Block, Judges, Stays, BinType, Scan, Tombstoned

\* The branches that pass a portal on.
LEMMA PassJudges ==
    ASSUME BinInv, NEW p \in Portals, Pass(p), Stays,
           Unblock(p) \/ UNCHANGED entry,
           \/ SameRows
           \/ p \notin seen.hidden /\ undeleteCloudMessagesByPortalID(p)
           \/ p \notin seen.hidden /\ chatRow' = [chatRow EXCEPT ![p] = "live"] /\ rows' = rows
    PROVE  Judges(p)
<1>1. BinType
  BY DEF BinInv
<1>2. scan' \in Scan /\ scan' = [scan EXCEPT !.todo = @ \ {p}]
  BY <1>1 DEF Pass, BinType, Scan
<1>3. entry' \in [Portals -> {"no", "live", "tombstone"}]
  BY <1>1 DEF Unblock, BinType
<1> QED
  BY <1>1, <1>2, <1>3 DEF Pass, Judges, Stays, BinType, Scan, SameRows, undeleteCloudMessagesByPortalID, RestoresRows

LEMMA StepJudges ==
    ASSUME BinInv, NEW p \in Portals, SeedChat(p) \/ Judge(p) \/ Hint(p)
    PROVE  Judges(p)
<1>1. BinType /\ HiddenInv /\ VerdictInv
  BY DEF BinInv
<1>2. (p \in override \/ chatRow[p] = "live" \/ hasPortalMessages(p)) => p \notin seen.hidden
  BY <1>1 DEF HiddenInv, hasPortalMessages
<1>3. CASE SeedChat(p)
  BY <1>2, <1>3, PassJudges, BlockJudges DEF SeedChat, isRestoreOverridden, portalHasChatRow
<1>4. CASE Judge(p)
  <2>1. CASE /\ scan' = [scan EXCEPT !.todo = @ \ {p}, !.dead = @ \cup {p}]
             /\ SameRows /\ UNCHANGED <<entry, seen>> /\ p \notin override
    <3>1. scan' \in Scan
      BY <1>1, <2>1 DEF BinType, Scan
    <3> QED
      BY <1>1, <1>4, <2>1, <3>1 DEF Judge, Judges, SameRows, Stays, BinType, Scan
  <2>2. CASE Pass(p)
    <3>1. scan.verdict[p] = "restored" => p \notin seen.hidden
      BY <1>1, <1>4 DEF Judge, VerdictInv
    <3> QED
      BY <1>2, <1>4, <2>2, <3>1, PassJudges DEF Judge, isRestoreOverridden, portalHasChatRow
  <2> QED
    BY <1>4, <2>1, <2>2 DEF Judge, isRestoreOverridden
<1>5. CASE Hint(p)
  BY <1>2, <1>5, PassJudges, BlockJudges DEF Hint, isRestoreOverridden, portalHasChatRow
<1> QED
  BY <1>3, <1>4, <1>5

LEMMA ApplyDeadKeeps ==
    ASSUME BinInv, ApplyDead
    PROVE  BinInv'
<1>1. BinType /\ CloudInv /\ HiddenInv /\ VerdictInv /\ KeptInv
  BY DEF BinInv
<1>2. scan' \in Scan /\ scan'.stage = "hints" /\ scan'.blocked = scan.blocked \cup NewlyDead /\ scan'.dead = scan.dead
  <2>1. NewlyDead \subseteq Portals /\ HintsOf(scan.bin) \subseteq Portals
    BY <1>1 DEF NewlyDead, HintsOf, BinType, Scan
  <2> QED
    BY <1>1, <2>1 DEF ApplyDead, BinType, Scan, Stages
<1>3. seen' \in History /\ seen'.kept = seen.kept /\ seen'.hidden = seen.hidden \cup (NewlyDead \cap StillGone)
  BY <1>1 DEF ApplyDead, StillGone, BinType, History
<1>4. chatRow' \in [Portals -> RowState] /\ entry' \in [Portals -> {"no", "live", "tombstone"}]
  BY <1>1 DEF ApplyDead, BinType, RowState
<1>5. ASSUME NEW q \in Portals
      PROVE  /\ rows'[q] \in [Numbers -> RowState] /\ \A i \in Numbers : rows'[q][i] = "none" <=> rows[q][i] = "none"
             /\ q \in NewlyDead => \A i \in Numbers : rows'[q][i] # "live"
             /\ q \notin NewlyDead => rows'[q] = rows[q]
  <2>1. rows[q] \in [Numbers -> RowState]
    BY <1>1 DEF BinType
  <2>2. rows'[q] = IF q \in NewlyDead THEN Dead(rows[q]) ELSE rows[q]
    BY DEF ApplyDead
  <2> QED
    BY <2>1, <2>2, RowFacts
<1>6. rows' \in [Portals -> [Numbers -> RowState]]
  <2>1. rows' = [q \in Portals |-> rows'[q]]
    BY DEF ApplyDead
  <2> QED
    BY <1>5, <2>1
<1>7. CloudInv'
  BY <1>1, <1>5 DEF CloudInv, Stored, ApplyDead, Stays
<1>8. HiddenInv'
  <2>1. ASSUME NEW q \in seen'.hidden
        PROVE  cloud[q].zone = "bin" /\ q \notin override \cup shownIn /\ q \in Portals
               /\ (q \in NewlyDead \/ (chatRow[q] = "deleted" /\ \A i \in Numbers : rows[q][i] # "live"))
    BY <1>1, <1>3 DEF HiddenInv, StillGone, BinType, History
  <2> QED
    BY <1>5, <2>1 DEF HiddenInv, ApplyDead, Stays
<1>9. KeptInv'
  BY <1>1, <1>2, <1>3 DEF KeptInv, NewlyDead, ApplyDead, Stays
<1> QED
  BY <1>1, <1>2, <1>3, <1>4, <1>6, <1>7, <1>8, <1>9 DEF BinInv, BinType, VerdictInv, ApplyDead, Stays

-----------------------------------------------------------------------------

LEMMA BinStep == BinInv /\ [BinNext]_binVars => BinInv'
<1> SUFFICES ASSUME BinInv, [BinNext]_binVars PROVE BinInv'
  OBVIOUS
<1>1. CASE UNCHANGED binVars
  BY <1>1 DEF binVars, BinInv, BinType, CloudInv, HiddenInv, VerdictInv, KeptInv, Stored
<1>2. ASSUME NEW p \in Portals, SoftDelete(p) \/ SeedChat(p) \/ Judge(p) \/ Hint(p) PROVE BinInv'
  BY <1>2, SoftDeleteJudges, StepJudges, JudgesKeeps
<1> QED
  BY <1>1, <1>2, StagesKeep, RestartKeeps, ApplyDeadKeeps, WorldKeeps, ReadChatKeeps, ReadMessagesKeeps DEF BinNext, World

\* What the scan of the recycle bin knows it keeps, for any chats, messages and
\* restarts: a chat it blocked gets no room until somebody restores it or
\* writes to it, and a chat restored before it is not blocked
\* (seedDeletedChatsFromRecycleBin).
THEOREM VerdictsAreKept == BinSpec => []ScanKeepsVerdicts
<1>1. BinInv => ScanKeepsVerdicts
  BY DEF BinInv, HiddenInv, KeptInv, ScanKeepsVerdicts, KnownDeletesKept, RestoredSurvivesScan
<1> QED
  BY BinInitially, BinStep, <1>1, PTL DEF BinSpec

-----------------------------------------------------------------------------
(* DMRouting                                                               *)

LEMMA LeastNumber ==
    ASSUME NEW S \in SUBSET Nat, S # {}
    PROVE  \E i \in S : \A j \in S : i <= j
<1>1. PICK i \in S : \A j \in S : <<j, i>> \notin OpToRel(<, Nat)
  BY NatLessThanWellFounded, WFMin, Zenon
<1>2. \A j \in S : ~ (j < i)
  BY <1>1, Zenon DEF OpToRel
<1> QED BY <1>2


LEMMA FirstUsed ==
    ASSUME NEW c, DOMAIN c \subseteq Nat
    PROVE  /\ (\E i \in DOMAIN c : IsUsed(c[i])) =>
                \E i \in DOMAIN c : /\ FirstWith(c, IsUsed) = c[i] /\ IsUsed(c[i])
                                    /\ \A j \in DOMAIN c : j < i => ~IsUsed(c[j])
           /\ (\A i \in DOMAIN c : ~IsUsed(c[i])) => FirstWith(c, IsUsed) = NoPortal
<1> DEFINE found == {i \in DOMAIN c : IsUsed(c[i])}
           first == CHOOSE i \in found : \A j \in found : i <= j
<1>1. FirstWith(c, IsUsed) = IF found = {} THEN NoPortal ELSE c[first]
  BY DEF FirstWith
<1>2. ASSUME found # {} PROVE first \in found /\ \A j \in found : first <= j
  <2>1. found \in SUBSET Nat
    OBVIOUS
  <2>2. \E i \in found : \A j \in found : i <= j
    BY <1>2, <2>1, LeastNumber, Zenon
  <2> QED BY <2>2, Zenon
<1> HIDE DEF first
<1>3. CASE found = {}
  BY <1>1, <1>3
<1>4. CASE found # {}
  BY <1>1, <1>2, <1>4
<1> QED BY <1>3, <1>4

LEMMA FirstRoom ==
    ASSUME NEW c, DOMAIN c \subseteq Nat
    PROVE  FirstWith(c, HasRoom) = NoPortal
           \/ \E i \in DOMAIN c : FirstWith(c, HasRoom) = c[i] /\ HasRoom(c[i])
<1> DEFINE found == {i \in DOMAIN c : HasRoom(c[i])}
           first == CHOOSE i \in found : \A j \in found : i <= j
<1>1. FirstWith(c, HasRoom) = IF found = {} THEN NoPortal ELSE c[first]
  BY DEF FirstWith
<1>2. ASSUME found # {} PROVE first \in found
  <2>1. found \in SUBSET Nat
    OBVIOUS
  <2>2. \E i \in found : \A j \in found : i <= j
    BY <1>2, <2>1, LeastNumber, Zenon
  <2> QED BY <2>2, Zenon
<1> HIDE DEF first
<1> QED BY <1>1, <1>2

SpellingUsed(h) == \E j \in DOMAIN Spellings[h] : IsUsed(Spellings[h][j])

\* r is the first used spelling of the first candidate that has one.
Chosen(c, r) ==
    \E i \in DOMAIN c :
        /\ \A k \in DOMAIN c : k < i => ~SpellingUsed(c[k])
        /\ \E j \in DOMAIN Spellings[c[i]] :
              /\ r = Spellings[c[i]][j] /\ IsUsed(r)
              /\ \A k \in DOMAIN Spellings[c[i]] : k < j => ~IsUsed(Spellings[c[i]][k])

LEMMA SpellingsOf ==
    ASSUME NEW h \in Handles
    PROVE  /\ DOMAIN Spellings[h] \subseteq Nat
           /\ \A j \in DOMAIN Spellings[h] : Spellings[h][j] \in DMPortals
           /\ 1 \in DOMAIN Spellings[h] /\ Spellings[h][1] = h /\ h \in DMPortals
<1>1. Spellings[h] \in Seq(DMPortals) /\ Spellings[h] # <<>> /\ Spellings[h][1] = h
  BY DMAssumption
<1> QED BY <1>1

LEMMA OneIsChosen ==
    ASSUME NEW c \in Seq(Handles), NEW r, NEW s, Chosen(c, r), Chosen(c, s)
    PROVE  r = s
<1>1. PICK i \in DOMAIN c :
        /\ \A k \in DOMAIN c : k < i => ~SpellingUsed(c[k])
        /\ \E j \in DOMAIN Spellings[c[i]] :
              /\ r = Spellings[c[i]][j] /\ IsUsed(r)
              /\ \A k \in DOMAIN Spellings[c[i]] : k < j => ~IsUsed(Spellings[c[i]][k])
  BY Zenon DEF Chosen
<1>2. PICK i2 \in DOMAIN c :
        /\ \A k \in DOMAIN c : k < i2 => ~SpellingUsed(c[k])
        /\ \E j \in DOMAIN Spellings[c[i2]] :
              /\ s = Spellings[c[i2]][j] /\ IsUsed(s)
              /\ \A k \in DOMAIN Spellings[c[i2]] : k < j => ~IsUsed(Spellings[c[i2]][k])
  BY Zenon DEF Chosen
<1>3. i = i2
  <2>1. SpellingUsed(c[i]) /\ SpellingUsed(c[i2])
    BY <1>1, <1>2 DEF SpellingUsed
  <2>2. i \in Nat /\ i2 \in Nat
    OBVIOUS
  <2> QED BY <1>1, <1>2, <2>1, <2>2
<1>4. DOMAIN Spellings[c[i]] \subseteq Nat
  BY SpellingsOf
<1> QED BY <1>1, <1>2, <1>3, <1>4

LEMMA SpellingFound ==
    ASSUME NEW h \in Handles
    PROVE  LET r == preferredExistingDMPortalSpelling(h)
           IN /\ SpellingUsed(h) =>
                   \E j \in DOMAIN Spellings[h] :
                      /\ r = Spellings[h][j] /\ IsUsed(r)
                      /\ \A k \in DOMAIN Spellings[h] : k < j => ~IsUsed(Spellings[h][k])
              /\ ~SpellingUsed(h) => ~IsUsed(r)
<1> DEFINE c == Spellings[h]
<1>0. DOMAIN c \subseteq Nat
  BY SpellingsOf
<1>1. CASE SpellingUsed(h)
  <2>1. FirstWith(c, IsUsed) # NoPortal
    BY <1>0, <1>1, FirstUsed DEF SpellingUsed, IsUsed
  <2>2. preferredExistingDMPortalSpelling(h) = FirstWith(c, IsUsed)
    BY <2>1, Zenon DEF preferredExistingDMPortalSpelling, preferredExistingDMPortalCandidate
  <2> QED BY <1>0, <1>1, <2>2, FirstUsed DEF SpellingUsed
<1>2. CASE ~SpellingUsed(h)
  <2>1. FirstWith(c, IsUsed) = NoPortal
    BY <1>0, <1>2, FirstUsed DEF SpellingUsed
  <2>2. preferredExistingDMPortalSpelling(h) = FirstWith(c, HasRoom)
    BY <2>1, Zenon DEF preferredExistingDMPortalSpelling, preferredExistingDMPortalCandidate
  <2>3. ~IsUsed(FirstWith(c, HasRoom))
    BY <1>0, <1>2, FirstRoom DEF SpellingUsed, IsUsed
  <2> QED BY <1>2, <2>2, <2>3
<1> QED BY <1>1, <1>2

\* A search among candidates finds a room with messages when there is one:
\* the first spelling of the first candidate.
LEMMA SearchFindsUsed ==
    ASSUME NEW c \in Seq(Handles), c # <<>>, NEW n \in DOMAIN c, SpellingUsed(c[n])
    PROVE  Chosen(c, findExistingDMPortalCandidate(c))
<1> DEFINE direct == FirstWith(Spellings[c[1]], IsUsed)
           R == SpelledRooms(c)
<1>0. /\ 1 \in DOMAIN c /\ c[1] \in Handles /\ DOMAIN c \subseteq Nat
      /\ \A k \in DOMAIN c : c[k] \in Handles
  OBVIOUS
<1>1. CASE SpellingUsed(c[1])
  <2>1. PICK j \in DOMAIN Spellings[c[1]] :
           /\ direct = Spellings[c[1]][j] /\ IsUsed(Spellings[c[1]][j])
           /\ \A k \in DOMAIN Spellings[c[1]] : k < j => ~IsUsed(Spellings[c[1]][k])
    BY <1>0, <1>1, FirstUsed, SpellingsOf DEF SpellingUsed
  <2>2. findExistingDMPortalCandidate(c) = direct
    BY <2>1 DEF findExistingDMPortalCandidate, IsUsed
  <2>3. \A k \in DOMAIN c : ~ (k < 1)
    OBVIOUS
  <2> HIDE DEF direct
  <2> QED BY <1>0, <2>1, <2>2, <2>3 DEF Chosen
<1>2. CASE ~SpellingUsed(c[1])
  <2>1. direct = NoPortal
    BY <1>0, <1>2, FirstUsed, SpellingsOf DEF SpellingUsed
  <2>2. findExistingDMPortalCandidate(c) = preferredExistingDMPortalCandidate(R)
    BY <2>1 DEF findExistingDMPortalCandidate
  <2>3. DOMAIN R = DOMAIN c /\ \A i \in DOMAIN c : R[i] = preferredExistingDMPortalSpelling(c[i])
    BY DEF SpelledRooms
  <2>4. \A i \in DOMAIN c : IsUsed(R[i]) <=> SpellingUsed(c[i])
    BY <2>3, SpellingFound
  <2> HIDE DEF R, direct
  <2>5. PICK i \in DOMAIN R : /\ FirstWith(R, IsUsed) = R[i] /\ IsUsed(R[i])
                              /\ \A j \in DOMAIN R : j < i => ~IsUsed(R[j])
    BY <1>0, <2>3, <2>4, FirstUsed
  <2>6. preferredExistingDMPortalCandidate(R) = R[i]
    BY <2>5 DEF preferredExistingDMPortalCandidate, IsUsed
  <2>7. SpellingUsed(c[i]) /\ c[i] \in Handles
    BY <1>0, <2>3, <2>4, <2>5, Zenon
  <2>8. PICK j \in DOMAIN Spellings[c[i]] :
           /\ R[i] = Spellings[c[i]][j] /\ IsUsed(R[i])
           /\ \A k \in DOMAIN Spellings[c[i]] : k < j => ~IsUsed(Spellings[c[i]][k])
    BY <2>3, <2>7, SpellingFound
  <2>9. \A k \in DOMAIN c : k < i => ~SpellingUsed(c[k])
    BY <2>3, <2>4, <2>5
  <2> QED BY <2>2, <2>3, <2>6, <2>8, <2>9 DEF Chosen
<1> QED BY <1>1, <1>2

-----------------------------------------------------------------------------

Service == {IMessage} \cup Handles
Route == Service \cup {Absent}
EventKinds == {"message", "create", "sync", "refresh"}
Handling == [kind : EventKinds \cup {"idle"}, stage : {"idle", "update", "post"}, seen : Route]

DMType ==
    /\ known \in BOOLEAN
    /\ room \in [DMPortals -> {"none", "empty", "used"}]
    /\ smsPortals \in [DMPortals -> Route] /\ metadata \in [DMPortals -> Service]
    /\ inbox \in [DMPortals -> SUBSET EventKinds]
    /\ handling \in [DMPortals -> Handling]
    /\ latest \in [DMPortals -> Route]
    /\ homePortal \in DMPortals \cup {NoPortal}
    /\ registered \subseteq Handles

\* What a portal's loop is at agrees with the room: a message is queued only
\* for a room, and who creates one has read the service.
LoopOK(p) ==
    /\ "message" \in inbox[p] \/ handling[p].kind = "message" => HasRoom(p)
    /\ handling[p].stage = "post" => handling[p].kind \in {"create", "sync"}
    /\ handling[p].kind = "create" /\ ~HasRoom(p) => handling[p].seen # Absent

\* The service in memory is the one of the last message; without one the
\* stored service is, and a refresh at work has read that one.
MemoryOK(p) ==
    /\ smsPortals[p] = Absent => handling[p].seen \in {Absent, metadata[p]}
    /\ ~chatsSynced /\ latest[p] # Absent => smsPortals[p] = latest[p]
    /\ latest[p] # Absent => getPortalSMSRouting(p) = latest[p]

\* The stored service is the one of the last message, but for a room that the
\* initial sync has just made and not saved.
StoredOK(p) ==
    latest[p] # Absent /\ HasRoom(p) /\ p \notin overtaken \cup unsaved
    /\ ~(handling[p].kind = "sync" /\ handling[p].stage = "post")
    => metadata[p] = latest[p]

PortalOK(p) == LoopOK(p) /\ MemoryOK(p) /\ StoredOK(p)

\* The room of the contact's last message is the one a search finds, or no
\* room of the contact has been used yet.
HomeOK ==
    homePortal # NoPortal =>
        known /\ (Chosen(Card, homePortal) \/ \A q \in DMPortals : ~IsUsed(q))

DMInv == /\ DMType /\ \A p \in DMPortals : PortalOK(p)
         /\ HomeOK /\ ~drifted /\ ~groundless

LEMMA DMPortalFacts ==
    /\ NoPortal \notin DMPortals /\ Handles \subseteq DMPortals
    /\ Absent \notin Service /\ Absent \notin Handles
<1>1. NoPortal \notin DMPortals /\ Absent \notin {IMessage} \cup Handles
  BY DMAssumption
<1>2. Handles \subseteq DMPortals
  BY SpellingsOf
<1> QED BY <1>1, <1>2 DEF Service

LEMMA RoutingReads ==
    ASSUME DMType, NEW p \in DMPortals
    PROVE  getPortalSMSRouting(p) \in Service
BY DMPortalFacts DEF DMType, getPortalSMSRouting, Route

LEMMA DMInitially == DMInit => DMInv
<1> SUFFICES ASSUME DMInit PROVE DMInv
  OBVIOUS
<1> USE DEF DMInit
<1>1. DMType
  <2>1. registered \subseteq Handles
    BY DMAssumption DEF Handles
  <2>2. NotHandling \in Handling
    BY DEF NotHandling, Handling, Route
  <2> QED BY <2>1, <2>2 DEF DMType, Service, Route
<1>2. ASSUME NEW p \in DMPortals PROVE PortalOK(p)
  <2>1. handling[p] = NotHandling /\ inbox[p] = {} /\ latest[p] = Absent
    BY DEF NotHandling
  <2> QED BY <2>1 DEF PortalOK, LoopOK, MemoryOK, StoredOK, NotHandling
<1> QED BY <1>1, <1>2, DMPortalFacts DEF DMInv, HomeOK

\* A portal whose loop and services a step leaves alone.
SamePortal(p) ==
    /\ room'[p] = room[p] /\ smsPortals'[p] = smsPortals[p] /\ metadata'[p] = metadata[p]
    /\ inbox'[p] \subseteq inbox[p] \cup {"create", "sync", "refresh"}
    /\ handling'[p] = handling[p] /\ latest'[p] = latest[p]
    /\ (p \in overtaken => p \in overtaken') /\ (p \in unsaved => p \in unsaved')
    /\ chatsSynced => chatsSynced'

LEMMA SamePortalKeeps ==
    ASSUME NEW p \in DMPortals, PortalOK(p), SamePortal(p)
    PROVE  PortalOK(p)'
<1>1. HasRoom(p)' <=> HasRoom(p)
  BY DEF SamePortal, HasRoom
<1>2. getPortalSMSRouting(p)' = getPortalSMSRouting(p)
  BY DEF SamePortal, getPortalSMSRouting
<1>3. LoopOK(p)'
  BY <1>1 DEF PortalOK, LoopOK, SamePortal
<1>4. MemoryOK(p)'
  BY <1>2 DEF PortalOK, MemoryOK, SamePortal
<1>5. StoredOK(p)'
  BY <1>1 DEF PortalOK, StoredOK, SamePortal
<1> QED BY <1>3, <1>4, <1>5 DEF PortalOK

OnlyUsedChosen == \A r : Chosen(Card, r) => IsUsed(r) /\ r \in DMPortals

LEMMA ChosenAreUsed == OnlyUsedChosen
<1> SUFFICES ASSUME NEW r, Chosen(Card, r) PROVE IsUsed(r) /\ r \in DMPortals
  BY DEF OnlyUsedChosen
<1>1. Card \in Seq(Handles)
  BY DMAssumption
<1>2. \A i \in DOMAIN Card : Card[i] \in Handles
  BY <1>1
<1> QED BY <1>2, SpellingsOf DEF Chosen

LEMMA CardHasUsed ==
    ASSUME NEW q \in DMPortals, IsUsed(q)
    PROVE  \E n \in DOMAIN Card : SpellingUsed(Card[n])
<1>1. PICK h \in Handles : q \in Range(Spellings[h])
  BY DEF DMPortals
<1>2. PICK n \in DOMAIN Card : h = Card[n]
  BY DEF Handles, Range
<1> QED BY <1>1, <1>2 DEF SpellingUsed, Range

\* A contact's search with a used room among its portals.
UsedIsChosen ==
    (\E q \in DMPortals : IsUsed(q)) => Chosen(Card, findExistingDMPortalCandidate(Card))

LEMMA SearchesCard == UsedIsChosen
<1>1. Card \in Seq(Handles) /\ Card # <<>>
  BY DMAssumption
<1> QED BY <1>1, CardHasUsed, SearchFindsUsed DEF UsedIsChosen

\* The choice depends on nothing but which rooms are used.
LEMMA SameRoomsSameChoice ==
    ASSUME NEW r, Chosen(Card, r), \A q \in DMPortals : IsUsed(q)' <=> IsUsed(q)
    PROVE  Chosen(Card, r)'
<1>2. \A i \in DOMAIN Card : Card[i] \in Handles
  BY DMAssumption
<1>3. \A i \in DOMAIN Card : SpellingUsed(Card[i])' <=> SpellingUsed(Card[i])
  BY <1>2, SpellingsOf DEF SpellingUsed
<1>4. PICK i \in DOMAIN Card :
        /\ \A k \in DOMAIN Card : k < i => ~SpellingUsed(Card[k])
        /\ \E j \in DOMAIN Spellings[Card[i]] :
              /\ r = Spellings[Card[i]][j] /\ IsUsed(r)
              /\ \A k \in DOMAIN Spellings[Card[i]] : k < j => ~IsUsed(Spellings[Card[i]][k])
  BY Zenon DEF Chosen
<1>5. PICK j \in DOMAIN Spellings[Card[i]] :
        /\ r = Spellings[Card[i]][j] /\ IsUsed(r)
        /\ \A k \in DOMAIN Spellings[Card[i]] : k < j => ~IsUsed(Spellings[Card[i]][k])
  BY <1>4, Zenon
<1>6. \A k \in DOMAIN Spellings[Card[i]] : Spellings[Card[i]][k] \in DMPortals
  BY <1>2, SpellingsOf
<1>7. \A k \in DOMAIN Spellings[Card[i]] : k < j => ~IsUsed(Spellings[Card[i]][k])'
  BY <1>5, <1>6
<1>8. IsUsed(r)'
  BY <1>5, <1>6
<1>9. \A k \in DOMAIN Card : k < i => ~SpellingUsed(Card[k])'
  BY <1>3, <1>4
<1> QED BY <1>5, <1>7, <1>8, <1>9 DEF Chosen

LEMMA SameHomeKeeps ==
    ASSUME HomeOK, known' = known, homePortal' = homePortal,
           \A q \in DMPortals : IsUsed(q)' <=> IsUsed(q)
    PROVE  HomeOK'
<1>1. PICK r : r = homePortal
  OBVIOUS
<1>2. ASSUME Chosen(Card, r) PROVE Chosen(Card, r)'
  BY <1>2, SameRoomsSameChoice
<1>3. Chosen(Card, homePortal) => Chosen(Card, homePortal)'
  BY <1>1, <1>2 DEF Chosen
<1> QED BY <1>3 DEF HomeOK

\* The contact's home after a step that changes the state of one room.
LEMMA HomeKeeps ==
    ASSUME DMType, DMType', HomeOK, NEW p \in DMPortals,
           room' = [room EXCEPT ![p] = room'[p]],
           IsUsed(p) => room'[p] = "used",
           known' = known, homePortal' = HomeAfter(p, room'[p])
    PROVE  HomeOK'
<1> SUFFICES ASSUME homePortal' # NoPortal
             PROVE  known /\ (Chosen(Card, homePortal)' \/ \A q \in DMPortals : ~IsUsed(q)')
  BY DEF HomeOK
<1>1. /\ homePortal' = homePortal /\ homePortal # NoPortal
      /\ ~(p # homePortal /\ ~IsUsed(p) /\ room'[p] = "used")
  BY DEF HomeAfter
<1>2. known /\ (Chosen(Card, homePortal) \/ \A q \in DMPortals : ~IsUsed(q))
  BY <1>1 DEF HomeOK
<1>3. /\ \A q \in DMPortals \ {p} : IsUsed(q)' <=> IsUsed(q)
      /\ IsUsed(p)' <=> room'[p] = "used"
  BY DMPortalFacts DEF DMType, IsUsed
<1>4. CASE IsUsed(p) \/ room'[p] # "used"
  <2>1. \A q \in DMPortals : IsUsed(q)' <=> IsUsed(q)
    BY <1>3, <1>4
  <2>4. CASE Chosen(Card, homePortal)
    BY <1>1, <1>2, <2>1, <2>4, SameRoomsSameChoice
  <2>5. CASE \A q \in DMPortals : ~IsUsed(q)
    BY <1>2, <2>1, <2>5
  <2> QED BY <1>2, <2>4, <2>5
<1>5. CASE ~IsUsed(p) /\ room'[p] = "used"
  <2>1. p = homePortal /\ IsUsed(p)'
    BY <1>1, <1>3, <1>5
  <2>2. \A q \in DMPortals : ~IsUsed(q)
    BY <1>2, <1>5, <2>1, ChosenAreUsed DEF OnlyUsedChosen
  <2>3. UsedIsChosen' /\ OnlyUsedChosen'
    BY SearchesCard, ChosenAreUsed, PTL
  <2> DEFINE r == findExistingDMPortalCandidate(Card)
  <2>4. PICK s : s = r'
    OBVIOUS
  <2> HIDE DEF r
  <2>5. Chosen(Card, s)'
    BY <2>1, <2>3, <2>4, DMPortalFacts DEF UsedIsChosen, r
  <2>6. IsUsed(s)' /\ s \in DMPortals
    BY <2>3, <2>5 DEF OnlyUsedChosen
  <2>7. s = homePortal
    BY <1>3, <2>1, <2>2, <2>6
  <2> QED BY <1>1, <1>2, <2>5, <2>7
<1> QED BY <1>4, <1>5

-----------------------------------------------------------------------------

\* PersistRouting leaves the service saved, or the portal unsaved.
LEMMA Persisted ==
    ASSUME DMType, NEW p \in DMPortals, NEW s \in Service, PersistRouting(p, s)
    PROVE  /\ metadata' \in [DMPortals -> Service]
           /\ metadata'[p] = s \/ (metadata'[p] = metadata[p] /\ p \in unsaved')
           /\ \A q \in DMPortals \ {p} :
                 metadata'[q] = metadata[q] /\ (q \in unsaved => q \in unsaved')
<1>1. CASE metadata' = [metadata EXCEPT ![p] = s] /\ unsaved' = unsaved \ {p}
  BY <1>1 DEF DMType
<1>2. CASE unsaved' = unsaved \cup {p} /\ UNCHANGED metadata
  BY <1>2 DEF DMType
<1> QED BY <1>1, <1>2 DEF PersistRouting

LEMMA ContactSearch ==
    ASSUME NEW h \in Handles
    PROVE  LET c == liveContactPortalIDCandidates(h)
           IN /\ c \in Seq(Handles) /\ c # <<>>
              /\ known => c = Card
<1>1. Card \in Seq(Handles) /\ Card # <<>>
  BY DMAssumption
<1>2. CASE known /\ ~(Len(Card) > 1)
  <2>1. Len(Card) = 1 /\ \E n \in DOMAIN Card : Card[n] = h
    BY <1>1, <1>2 DEF Handles, Range
  <2>2. Card = <<h>>
    BY <1>1, <2>1
  <2> QED BY <1>1, <1>2, <2>2 DEF liveContactPortalIDCandidates
<1>3. CASE ~known \/ Len(Card) > 1
  BY <1>1, <1>3 DEF liveContactPortalIDCandidates
<1> QED BY <1>2, <1>3

LEMMA PreferredIsMember ==
    ASSUME NEW c, DOMAIN c \subseteq Nat, NEW S, \A i \in DOMAIN c : c[i] \in S \cup {NoPortal}
    PROVE  preferredExistingDMPortalCandidate(c) \in S \cup {NoPortal}
<1>1. FirstWith(c, IsUsed) \in S \cup {NoPortal}
  BY FirstUsed
<1>2. FirstWith(c, HasRoom) \in S \cup {NoPortal}
  BY FirstRoom
<1> QED BY <1>1, <1>2 DEF preferredExistingDMPortalCandidate

LEMMA FoundIsPortal ==
    ASSUME NEW c \in Seq(Handles), c # <<>>
    PROVE  findExistingDMPortalCandidate(c) \in DMPortals \cup {NoPortal}
<1> DEFINE R == SpelledRooms(c)
<1>1. c[1] \in Handles /\ DOMAIN c \subseteq Nat /\ \A i \in DOMAIN c : c[i] \in Handles
  OBVIOUS
<1>2. FirstWith(Spellings[c[1]], IsUsed) \in DMPortals \cup {NoPortal}
  <2> DEFINE d == Spellings[c[1]]
  <2>1. DOMAIN d \subseteq Nat /\ \A i \in DOMAIN d : d[i] \in DMPortals
    BY <1>1, SpellingsOf
  <2> HIDE DEF d
  <2>2. FirstWith(d, IsUsed) \in DMPortals \cup {NoPortal}
    BY <2>1, FirstUsed
  <2> QED BY <2>2 DEF d
<1>3. \A h \in Handles : preferredExistingDMPortalSpelling(h) \in DMPortals \cup {NoPortal}
  BY SpellingsOf, PreferredIsMember DEF preferredExistingDMPortalSpelling
<1>4. DOMAIN R \subseteq Nat /\ \A i \in DOMAIN R : R[i] \in DMPortals \cup {NoPortal}
  BY <1>1, <1>3 DEF SpelledRooms
<1>5. preferredExistingDMPortalCandidate(R) \in DMPortals \cup {NoPortal}
  BY <1>4, PreferredIsMember
<1> QED BY <1>2, <1>5 DEF findExistingDMPortalCandidate

\* A message goes to the used room that its search chooses, or its sender has
\* none.
LEMMA ResolveFinds ==
    ASSUME NEW h \in Handles, room \in [DMPortals -> {"none", "empty", "used"}]
    PROVE  LET c == liveContactPortalIDCandidates(h)
               p == resolveContactPortalID(h)
           IN /\ p \in DMPortals
              /\ (\E n \in DOMAIN c : SpellingUsed(c[n])) => Chosen(c, p)

<1> DEFINE c == liveContactPortalIDCandidates(h)
           e == findExistingDMPortalCandidate(c)
<1>1. c \in Seq(Handles) /\ c # <<>> /\ \A i \in DOMAIN c : c[i] \in Handles
  BY ContactSearch
<1>2. resolveContactPortalID(h) = IF e # NoPortal THEN e ELSE c[1]
  BY DEF resolveContactPortalID
<1>3. 1 \in DOMAIN c /\ c[1] \in DMPortals
  BY <1>1, DMPortalFacts
<1> HIDE DEF c
<1>4. e \in DMPortals \cup {NoPortal}
  BY <1>1, FoundIsPortal
<1> HIDE DEF e
<1>5. ASSUME NEW n \in DOMAIN c, SpellingUsed(c[n]) PROVE e # NoPortal /\ Chosen(c, e)
  <2>1. Chosen(c, e)
    BY <1>1, <1>5, SearchFindsUsed DEF e
  <2> QED BY <2>1 DEF Chosen, IsUsed
<1> QED BY <1>2, <1>3, <1>4, <1>5 DEF c


LEMMA ReceiveKeeps ==
    ASSUME DMInv, NEW h \in Handles, NEW s \in {IMessage, h}, ReceiveDM(h, s)
    PROVE  DMInv'
<1> DEFINE c == liveContactPortalIDCandidates(h)
<1>a. PICK p \in DMPortals : p = resolveContactPortalID(h)
  BY ResolveFinds DEF DMInv, DMType
<1>1. /\ s \in Service
      /\ (\E n \in DOMAIN c : SpellingUsed(c[n])) => Chosen(c, p)
  BY <1>a, ResolveFinds DEF DMInv, DMType, Service
<1>2. /\ smsPortals' = [smsPortals EXCEPT ![p] = s] /\ latest' = [latest EXCEPT ![p] = s]
      /\ IF HasRoom(p) THEN PersistRouting(p, s) /\ overtaken' = overtaken \ {p}
         ELSE UNCHANGED <<metadata, unsaved, overtaken, routeFaults>>
      /\ inbox' = [inbox EXCEPT ![p] = @ \cup {IF HasRoom(p) THEN "message" ELSE "create"}]
      /\ drifted' = (drifted \/ LeavesHistory(h, p))
      /\ homePortal' = IF known THEN p ELSE NoPortal
      /\ UNCHANGED <<known, room, handling, chatsSynced, registered, groundless>>
  BY <1>a DEF ReceiveDM, places, syncState, ids
<1>3. DMType
  BY DEF DMInv
<1>4. /\ metadata' \in [DMPortals -> Service]
      /\ HasRoom(p) => metadata'[p] = s \/ (metadata'[p] = metadata[p] /\ p \in unsaved')
      /\ \A q \in DMPortals \ {p} :
            metadata'[q] = metadata[q] /\ (q \in unsaved => q \in unsaved')
  <2>1. CASE HasRoom(p)
    BY <1>1, <1>2, <1>3, <2>1, Persisted
  <2>2. CASE ~HasRoom(p)
    BY <1>2, <1>3, <2>2 DEF DMType
  <2> QED BY <2>1, <2>2
<1>5. DMType'
  <2>1. smsPortals' \in [DMPortals -> Route] /\ latest' \in [DMPortals -> Route]
    BY <1>1, <1>2, <1>3 DEF DMType, Route
  <2>2. inbox' \in [DMPortals -> SUBSET EventKinds]
    BY <1>1, <1>2, <1>3 DEF DMType, EventKinds
  <2> QED BY <1>1, <1>2, <1>3, <1>4, <2>1, <2>2 DEF DMType
<1>6. PortalOK(p)'
  <2>1. /\ smsPortals'[p] = s /\ latest'[p] = s /\ s # Absent
        /\ handling'[p] = handling[p] /\ HasRoom(p)' = HasRoom(p)
    BY <1>1, <1>2, <1>3, DMPortalFacts DEF DMType, HasRoom
  <2>6. inbox'[p] = inbox[p] \cup {IF HasRoom(p) THEN "message" ELSE "create"}
    BY <1>2, <1>3 DEF DMType
  <2>2. PortalOK(p)
    BY <1>1 DEF DMInv
  <2>3. LoopOK(p)'
    BY <2>1, <2>2, <2>6 DEF PortalOK, LoopOK
  <2>4. MemoryOK(p)'
    BY <2>1 DEF MemoryOK, getPortalSMSRouting
  <2>5. StoredOK(p)'
    BY <1>4, <2>1 DEF StoredOK
  <2> QED BY <2>3, <2>4, <2>5 DEF PortalOK
<1>7. ASSUME NEW q \in DMPortals, q # p PROVE PortalOK(q)'
  <2>1. q \in overtaken => q \in overtaken'
    BY <1>2, <1>7
  <2>2. SamePortal(q)
    BY <1>1, <1>2, <1>3, <1>4, <1>7, <2>1 DEF SamePortal, DMType
  <2> QED BY <2>2, SamePortalKeeps DEF DMInv
<1>8. \A q \in DMPortals : IsUsed(q)' <=> IsUsed(q)
  BY <1>2 DEF IsUsed
<1>9. known => c = Card
  BY ContactSearch
<1>10. \A q \in DMPortals : known /\ IsUsed(q) => Chosen(Card, p)
  <2> SUFFICES ASSUME NEW q \in DMPortals, known, IsUsed(q) PROVE Chosen(Card, p)
    OBVIOUS
  <2>1. \E n \in DOMAIN Card : SpellingUsed(Card[n])
    BY CardHasUsed
  <2> QED BY <1>1, <1>9, <2>1
<1>11. HomeOK'
  <2> SUFFICES ASSUME known
               PROVE  Chosen(Card, p)' \/ \A q \in DMPortals : ~IsUsed(q)'
    BY <1>2 DEF HomeOK
  <2>1. CASE \E q \in DMPortals : IsUsed(q)
    <3>1. Chosen(Card, p)
      BY <1>10, <2>1
    <3>2. Chosen(Card, p)'
      BY <1>8, <3>1, SameRoomsSameChoice
    <3> QED BY <3>2
  <2> QED BY <1>8, <2>1
<1>12. ~LeavesHistory(h, p)
  <2>1. ~(known /\ homePortal \notin {NoPortal, p} /\ IsUsed(homePortal))
    <3> SUFFICES ASSUME known, homePortal # NoPortal, IsUsed(homePortal) PROVE homePortal = p
      OBVIOUS
    <3>1. homePortal \in DMPortals
      BY <1>3 DEF DMType
    <3>2. Chosen(Card, homePortal) /\ Chosen(Card, p)
      BY <1>10, <3>1 DEF DMInv, HomeOK
    <3>3. Card \in Seq(Handles)
      BY DMAssumption
    <3> QED BY <3>2, <3>3, OneIsChosen
  <2>2. ASSUME NEW d \in Range(c), NEW q \in Range(Spellings[d]), IsUsed(q) PROVE IsUsed(p)
    <3>1. PICK n \in DOMAIN c : d = c[n]
      BY DEF Range
    <3>2. SpellingUsed(c[n])
      BY <2>2, <3>1 DEF SpellingUsed, Range
    <3> QED BY <1>1, <3>2 DEF Chosen
  <2>3. p # NoPortal
    BY DMPortalFacts
  <2> QED BY <1>a, <2>1, <2>2 DEF LeavesHistory
<1> QED BY <1>2, <1>5, <1>6, <1>7, <1>11, <1>12 DEF DMInv


LEMMA TakeKeeps ==
    ASSUME DMInv, NEW p \in DMPortals, NEW k \in inbox[p], TakeEvent(p, k)
    PROVE  DMInv'
<1> DEFINE read == IF k = "refresh" \/ (k = "create" /\ ~HasRoom(p))
                   THEN getPortalSMSRouting(p) ELSE Absent
           e == [kind |-> k, stage |-> "update", seen |-> read]
<1>1. /\ inbox' = [inbox EXCEPT ![p] = @ \ {k}] /\ handling' = [handling EXCEPT ![p] = e]
      /\ UNCHANGED <<places, route, syncState, ids, dmHistory, dmBounds>>
  BY DEF TakeEvent
<1> USE DEF places, route, syncState, ids, dmHistory
<1>2. DMType /\ PortalOK(p)
  BY DEF DMInv
<1>3. k \in EventKinds /\ read \in Route
  BY <1>2, RoutingReads DEF DMType, Route
<1>4. e \in Handling /\ e.kind = k /\ e.stage = "update" /\ e.seen = read
  BY <1>3 DEF Handling
<1> HIDE DEF read, e
<1>5. DMType'
  <2>1. inbox' \in [DMPortals -> SUBSET EventKinds] /\ handling' \in [DMPortals -> Handling]
    BY <1>1, <1>2, <1>4 DEF DMType
  <2> QED BY <1>1, <1>2, <2>1 DEF DMType
<1>6. PortalOK(p)'
  <2>1. handling'[p] = e /\ inbox'[p] = inbox[p] \ {k}
    BY <1>1, <1>2 DEF DMType
  <2>2. HasRoom(p)' = HasRoom(p) /\ getPortalSMSRouting(p)' = getPortalSMSRouting(p)
    BY <1>1 DEF HasRoom, getPortalSMSRouting
  <2>3. LoopOK(p)'
    <3>1. k = "message" => HasRoom(p)
      BY <1>2 DEF PortalOK, LoopOK
    <3>2. k = "create" /\ ~HasRoom(p) => read # Absent
      BY <1>2, RoutingReads, DMPortalFacts DEF read
    <3> QED BY <1>2, <1>4, <2>1, <2>2, <3>1, <3>2 DEF PortalOK, LoopOK
  <2>4. MemoryOK(p)'
    <3>1. smsPortals[p] = Absent => read \in {Absent, metadata[p]}
      BY DEF read, getPortalSMSRouting
    <3> QED BY <1>1, <1>2, <1>4, <2>1, <2>2, <3>1 DEF PortalOK, MemoryOK
  <2>5. StoredOK(p)'
    <3>1. handling[p].stage # "post"
      BY DEF TakeEvent, NotHandling
    <3> QED BY <1>1, <1>2, <2>2, <3>1 DEF PortalOK, StoredOK
  <2> QED BY <2>3, <2>4, <2>5 DEF PortalOK
<1>7. ASSUME NEW q \in DMPortals, q # p PROVE PortalOK(q)'
  <2>1. SamePortal(q)
    BY <1>1, <1>2, <1>7 DEF SamePortal, DMType
  <2> QED BY <2>1, SamePortalKeeps DEF DMInv
<1>8. HomeOK'
  <2>1. \A q \in DMPortals : IsUsed(q)' <=> IsUsed(q)
    BY <1>1 DEF IsUsed
  <2> QED BY <1>1, <2>1, SameHomeKeeps DEF DMInv
<1> QED BY <1>1, <1>5, <1>6, <1>7, <1>8 DEF DMInv


LEMMA UpdateKeeps ==
    ASSUME DMInv, NEW p \in DMPortals, UpdateRoom(p)
    PROVE  DMInv'
<1>0. PICK e \in Handling : e = handling[p]
  BY DEF DMInv, DMType
<1> DEFINE written == IF e.seen = Absent THEN metadata[p] ELSE e.seen
           opened == IF e.kind \in {"create", "message"} THEN "used"
                     ELSE IF room[p] = "none" /\ e.kind = "sync" THEN "empty" ELSE room[p]
           next == IF e.kind \in {"create", "sync"} THEN [e EXCEPT !.stage = "post"] ELSE NotHandling
<1>1. /\ e.stage = "update"
      /\ metadata' = [metadata EXCEPT ![p] = written] /\ room' = [room EXCEPT ![p] = opened]
      /\ handling' = [handling EXCEPT ![p] = next]
      /\ overtaken' = IF e.seen # Absent /\ latest[p] \notin {Absent, e.seen}
                      THEN overtaken \cup {p} ELSE overtaken
      /\ homePortal' = HomeAfter(p, room'[p])
      /\ UNCHANGED <<known, smsPortals, inbox, chatsSynced, registered, latest, unsaved, drifted,
                     groundless>>
  BY <1>0 DEF UpdateRoom, syncState, ids
<1>2. DMType /\ PortalOK(p)
  BY DEF DMInv
<1>3. e.kind \in EventKinds \cup {"idle"} /\ e.seen \in Route
  BY DEF Handling
<1>4. written \in Service /\ opened \in {"none", "empty", "used"}
  BY <1>2, <1>3 DEF DMType, Route
<1>5. /\ next \in Handling
      /\ e.kind \in {"create", "sync"} =>
           next.kind = e.kind /\ next.stage = "post" /\ next.seen = e.seen
      /\ e.kind \notin {"create", "sync"} =>
           next.kind = "idle" /\ next.stage = "idle" /\ next.seen = Absent
  BY <1>3 DEF Handling, NotHandling, Route
<1>6. /\ e.kind \in {"create", "message"} => opened = "used"
      /\ e.kind \notin {"create", "message", "sync"} => opened = room[p]
      /\ room[p] # "none" => opened # "none"
      /\ room[p] = "used" => opened = "used"
  OBVIOUS
<1> HIDE DEF written, opened, next
<1>7. DMType'
  <2>1. /\ metadata' \in [DMPortals -> Service] /\ room' \in [DMPortals -> {"none", "empty", "used"}]
        /\ handling' \in [DMPortals -> Handling]
    BY <1>1, <1>2, <1>4, <1>5 DEF DMType
  <2>2. homePortal' \in DMPortals \cup {NoPortal}
    BY <1>1, <1>2 DEF DMType, HomeAfter
  <2> QED BY <1>1, <1>2, <2>1, <2>2 DEF DMType
<1>8. PortalOK(p)'
  <2>1. handling'[p] = next /\ metadata'[p] = written /\ room'[p] = opened
    BY <1>1, <1>2 DEF DMType
  <2>2. /\ HasRoom(p) <=> room[p] # "none"
        /\ HasRoom(p)' <=> opened # "none"
    BY <2>1, DMPortalFacts DEF HasRoom
  <2>3. LoopOK(p)'
    <3>1. "message" \in inbox[p] => HasRoom(p)
      BY <1>2 DEF PortalOK, LoopOK
    <3> QED BY <1>1, <1>3, <1>5, <1>6, <2>1, <2>2, <3>1 DEF LoopOK
  <2>4. smsPortals[p] = Absent => e.seen \in {Absent, metadata[p]}
    BY <1>0, <1>2 DEF PortalOK, MemoryOK
  <2>5. smsPortals[p] = Absent => written = metadata[p]
    BY <2>4 DEF written
  <2>6. MemoryOK(p)'
    <3>1. getPortalSMSRouting(p)' = getPortalSMSRouting(p)
      BY <1>1, <2>1, <2>5 DEF getPortalSMSRouting
    <3>2. smsPortals'[p] = Absent => handling'[p].seen \in {Absent, metadata'[p]}
      BY <1>1, <1>5, <2>1, <2>4, <2>5
    <3> QED BY <1>1, <1>2, <3>1, <3>2 DEF PortalOK, MemoryOK
  <2>7. StoredOK(p)'
    <3> SUFFICES ASSUME latest[p] # Absent, opened # "none", p \notin overtaken' \cup unsaved,
                        ~(next.kind = "sync" /\ next.stage = "post")
                 PROVE  written = latest[p]
      BY <1>1, <2>1, <2>2 DEF StoredOK
    <3>1. CASE e.seen # Absent
      BY <1>1, <3>1 DEF written
    <3>2. CASE e.seen = Absent
      <4>1. e.kind # "sync"
        BY <1>5
      <4>2. HasRoom(p)
        <5>1. CASE e.kind \in {"message", "create"}
          BY <1>0, <1>2, <3>2, <5>1 DEF PortalOK, LoopOK
        <5>2. CASE e.kind \notin {"message", "create"}
          BY <1>6, <2>2, <4>1, <5>2
        <5> QED BY <5>1, <5>2
      <4>3. p \notin overtaken \cup unsaved
        BY <1>1, <3>2
      <4>4. metadata[p] = latest[p]
        BY <1>0, <1>1, <1>2, <4>2, <4>3 DEF PortalOK, StoredOK
      <4> QED BY <3>2, <4>4 DEF written
    <3> QED BY <3>1, <3>2
  <2> QED BY <2>3, <2>6, <2>7 DEF PortalOK
<1>9. ASSUME NEW q \in DMPortals, q # p PROVE PortalOK(q)'
  <2>1. SamePortal(q)
    BY <1>1, <1>2, <1>9 DEF SamePortal, DMType
  <2> QED BY <2>1, SamePortalKeeps DEF DMInv
<1>10. HomeOK'
  <2>1. room'[p] = opened
    BY <1>1, <1>2 DEF DMType
  <2>2. IsUsed(p) => room'[p] = "used"
    BY <1>6, <2>1 DEF IsUsed
  <2>3. room' = [room EXCEPT ![p] = room'[p]]
    BY <1>1, <2>1
  <2> QED BY <1>1, <1>2, <1>7, <2>2, <2>3, HomeKeeps DEF DMInv
<1> QED BY <1>1, <1>7, <1>8, <1>9, <1>10 DEF DMInv


LEMMA PostKeeps ==
    ASSUME DMInv, NEW p \in DMPortals, PostHandle(p)
    PROVE  DMInv'
<1>0. PICK s \in Service : s = getPortalSMSRouting(p)
  BY RoutingReads DEF DMInv
<1>1. /\ handling[p].stage = "post" /\ PersistRouting(p, s)
      /\ overtaken' = IF p \in unsaved' THEN overtaken ELSE overtaken \ {p}
      /\ handling' = [handling EXCEPT ![p] = NotHandling]
      /\ UNCHANGED <<known, room, smsPortals, inbox, chatsSynced, registered, latest, homePortal,
                     drifted, groundless>>
  BY <1>0 DEF PostHandle, SavedService, places, ids
<1>2. DMType /\ PortalOK(p)
  BY DEF DMInv
<1>3. /\ metadata' \in [DMPortals -> Service]
      /\ metadata'[p] = s \/ (metadata'[p] = metadata[p] /\ p \in unsaved')
      /\ \A q \in DMPortals \ {p} : metadata'[q] = metadata[q] /\ (q \in unsaved => q \in unsaved')
  BY <1>1, <1>2, Persisted
<1>4. NotHandling \in Handling
  BY DEF NotHandling, Handling, Route
<1>5. DMType'
  BY <1>1, <1>2, <1>3, <1>4 DEF DMType
<1>6. PortalOK(p)'
  <2>1. handling'[p] = NotHandling
    BY <1>1, <1>2 DEF DMType
  <2>2. HasRoom(p)' = HasRoom(p)
    BY <1>1 DEF HasRoom
  <2>3. LoopOK(p)'
    BY <1>1, <1>2, <2>1, <2>2 DEF PortalOK, LoopOK, NotHandling
  <2>4. getPortalSMSRouting(p)' = getPortalSMSRouting(p)
    BY <1>0, <1>1, <1>3 DEF getPortalSMSRouting
  <2>5. MemoryOK(p)'
    BY <1>1, <1>2, <2>1, <2>4 DEF PortalOK, MemoryOK, NotHandling
  <2>6. StoredOK(p)'
    BY <1>0, <1>1, <1>2, <1>3 DEF PortalOK, MemoryOK, StoredOK
  <2> QED BY <2>3, <2>5, <2>6 DEF PortalOK
<1>7. ASSUME NEW q \in DMPortals, q # p PROVE PortalOK(q)'
  <2>0. handling'[q] = handling[q] /\ (q \in overtaken => q \in overtaken')
    BY <1>1, <1>2, <1>7 DEF DMType
  <2>1. SamePortal(q)
    BY <1>1, <1>2, <1>3, <1>7, <2>0 DEF SamePortal
  <2> QED BY <2>1, SamePortalKeeps DEF DMInv
<1>8. HomeOK'
  <2>1. \A q \in DMPortals : IsUsed(q)' <=> IsUsed(q)
    BY <1>1 DEF IsUsed
  <2> QED BY <1>1, <2>1, SameHomeKeeps DEF DMInv
<1> QED BY <1>1, <1>5, <1>6, <1>7, <1>8 DEF DMInv

LEMMA SendTarget ==
    ASSUME NEW p \in DMPortals, registered \subseteq Handles, registered # {}, known
    PROVE  resolveSendTarget(p) \in registered
<1> DEFINE own == CHOOSE h \in Handles : p \in Range(Spellings[h])
           IsValid(h) == h \in registered /\ h # own
           found == {i \in DOMAIN Card : IsValid(Card[i])}
           first == CHOOSE i \in found : \A j \in found : i <= j
           valid == IF found = {} THEN NoPortal ELSE Card[first]
<1>1. resolveSendTarget(p) = IF own \in registered \/ valid = NoPortal THEN own ELSE valid
  BY DEF resolveSendTarget, FirstWith
<1>2. CASE own \in registered
  BY <1>1, <1>2
<1>3. CASE own \notin registered
  <2>1. PICK h \in registered : TRUE
    OBVIOUS
  <2>2. PICK i \in DOMAIN Card : Card[i] = h
    BY <2>1 DEF Handles, Range
  <2>3. found # {}
    BY <1>3, <2>1, <2>2
  <2>4. DOMAIN Card \subseteq Nat
    BY DMAssumption
  <2>5. found \in SUBSET Nat
    BY <2>4
  <2>6. \E m \in found : \A j \in found : m <= j
    BY <2>3, <2>5, LeastNumber, Zenon
  <2>7. first \in found
    BY <2>6, Zenon
  <2>8. Card[first] \in registered
    BY <2>7
  <2>9. valid = Card[first] /\ valid # NoPortal
    BY <2>3, <2>8, DMPortalFacts
  <2> HIDE DEF valid, own
  <2> QED BY <1>1, <1>3, <2>8, <2>9
<1> QED BY <1>2, <1>3

LEMMA SendKeeps ==
    ASSUME DMInv, NEW p \in DMPortals, SendDM(p)
    PROVE  DMInv'
<1> DEFINE s == getPortalSMSRouting(p)
           t == IF s = IMessage THEN resolveSendTarget(p) ELSE s
           repaired == s # IMessage /\ RouteChecked(p, t) = "verified"
           asked == memo[p][t] = "verified" \/ (memo[p][t] = "none" /\ t \in registered)
           opened == IF s # IMessage /\ ~repaired /\ RelaySeen = "no" THEN room[p] ELSE "used"
<1>1. /\ HasRoom(p) /\ room' = [room EXCEPT ![p] = opened]
      /\ groundless' = \/ groundless
                       \/ repaired /\ ~asked
                       \/ s = IMessage /\ known /\ registered # {} /\ t \notin registered
      /\ homePortal' = HomeAfter(p, room'[p])
      /\ UNCHANGED <<known, smsPortals, metadata, inbox, handling, chatsSynced, registered, latest,
                     overtaken, unsaved, drifted>>
  BY DEF SendDM, route, work, syncState
<1>2. DMType /\ PortalOK(p)
  BY DEF DMInv
<1>3. opened \in {"none", "empty", "used"} /\ opened # "none" /\ (room[p] = "used" => opened = "used")
  BY <1>1, <1>2 DEF DMType, HasRoom
<1>4. ~groundless'
  <2>1. repaired => asked
    BY DEF RouteChecked, carrierRouteMemo
  <2>2. s = IMessage /\ known /\ registered # {} => t \in registered
    BY <1>2, SendTarget DEF DMType
  <2> QED BY <1>1, <2>1, <2>2 DEF DMInv
<1> HIDE DEF opened
<1>5. DMType'
  <2>1. room' \in [DMPortals -> {"none", "empty", "used"}]
    BY <1>1, <1>2, <1>3 DEF DMType
  <2>2. homePortal' \in DMPortals \cup {NoPortal}
    BY <1>1, <1>2 DEF DMType, HomeAfter
  <2> QED BY <1>1, <1>2, <2>1, <2>2 DEF DMType
<1>6. room'[p] = opened
  BY <1>1, <1>2 DEF DMType
<1>7. ASSUME NEW q \in DMPortals PROVE PortalOK(q)'
  <2>1. HasRoom(q)' = HasRoom(q)
    BY <1>1, <1>2, <1>3, <1>6, DMPortalFacts DEF DMType, HasRoom
  <2>2. getPortalSMSRouting(q)' = getPortalSMSRouting(q)
    BY <1>1 DEF getPortalSMSRouting
  <2>3. PortalOK(q)
    BY DEF DMInv
  <2> QED BY <1>1, <2>1, <2>2, <2>3 DEF PortalOK, LoopOK, MemoryOK, StoredOK
<1>8. HomeOK'
  <2>1. IsUsed(p) => room'[p] = "used"
    BY <1>3, <1>6 DEF IsUsed
  <2>2. room' = [room EXCEPT ![p] = room'[p]]
    BY <1>1, <1>6
  <2> QED BY <1>1, <1>2, <1>5, <2>1, <2>2, HomeKeeps DEF DMInv
<1> QED BY <1>1, <1>4, <1>5, <1>7, <1>8 DEF DMInv


\* A step that changes no room and no service; it may queue a refresh or a
\* sync, learn the card or end the initial sync.
LEMMA QuietKeeps ==
    ASSUME DMInv,
           UNCHANGED <<room, smsPortals, metadata, handling, registered, latest, overtaken, unsaved,
                       homePortal, drifted, groundless>>,
           known' \in BOOLEAN, known => known', homePortal # NoPortal => known' = known,
           chatsSynced => chatsSynced',
           inbox' \in [DMPortals -> SUBSET EventKinds],
           \A p \in DMPortals : inbox'[p] \subseteq inbox[p] \cup {"sync", "refresh"}
    PROVE  DMInv'
<1>1. DMType'
  BY DEF DMInv, DMType
<1>2. ASSUME NEW p \in DMPortals PROVE PortalOK(p)'
  <2>1. SamePortal(p)
    BY DEF SamePortal
  <2> QED BY <2>1, SamePortalKeeps DEF DMInv
<1>3. HomeOK'
  <2>1. CASE homePortal = NoPortal
    BY <2>1 DEF HomeOK
  <2>2. CASE homePortal # NoPortal
    <3>1. \A q \in DMPortals : IsUsed(q)' <=> IsUsed(q)
      BY DEF IsUsed
    <3> QED BY <2>2, <3>1, SameHomeKeeps DEF DMInv
  <2> QED BY <2>1, <2>2
<1> QED BY <1>1, <1>2, <1>3 DEF DMInv

LEMMA RefreshRoomKeeps ==
    ASSUME DMInv, NEW p \in DMPortals, RefreshRoom(p)
    PROVE  DMInv'
<1>1. DMType
  BY DEF DMInv
<1>2. inbox' = [inbox EXCEPT ![p] = @ \cup {"refresh"}]
  BY DEF RefreshRoom
<1>3. /\ inbox' \in [DMPortals -> SUBSET EventKinds]
      /\ \A q \in DMPortals : inbox'[q] \subseteq inbox[q] \cup {"sync", "refresh"}
  BY <1>1, <1>2 DEF DMType, EventKinds
<1> QED BY <1>1, <1>3, QuietKeeps
      DEF RefreshRoom, places, route, syncState, ids, dmHistory, DMType

LEMMA SeedKeeps ==
    ASSUME DMInv, SeedInitialSync
    PROVE  DMInv'
<1>1. DMType
  BY DEF DMInv
<1>2. /\ ~chatsSynced
      /\ UNCHANGED <<known, room, metadata, inbox, handling, chatsSynced, registered, latest,
                     overtaken, unsaved, homePortal, drifted, groundless>>
  BY DEF SeedInitialSync, places, work, ids, dmHistory
<1>3. ASSUME NEW p \in DMPortals
      PROVE  /\ smsPortals'[p] \in Route
             /\ smsPortals[p] # Absent => smsPortals'[p] = smsPortals[p]
             /\ smsPortals[p] = Absent /\ smsPortals'[p] = Absent => smsPortals'[p] = smsPortals[p]
  <2> DEFINE mine == {i \in DOMAIN ChatDB : canonicalID(ChatDB[i][1]) = p /\ FirstOfPortal(i)}
             i0 == CHOOSE i \in mine : TRUE
  <2>1. smsPortals'[p] = IF mine = {} THEN smsPortals[p]
                         ELSE seedPortalSMSRouting(p, ChatDB[i0][2])
    BY DEF SeedInitialSync
  <2>2. CASE mine # {}
    <3>1. i0 \in DOMAIN ChatDB
      BY <2>2
    <3>2. ChatDB[i0][2] \in Service
      BY <3>1, DMAssumption DEF Service
    <3> HIDE DEF i0, mine
    <3> QED BY <1>1, <2>1, <2>2, <3>2, DMPortalFacts DEF seedPortalSMSRouting, Route, DMType
  <2>3. CASE mine = {}
    BY <1>1, <2>1, <2>3 DEF DMType
  <2> QED BY <2>2, <2>3
<1>4. DMType'
  <2>1. smsPortals' \in [DMPortals -> Route]
    BY <1>3 DEF SeedInitialSync
  <2> QED BY <1>1, <1>2, <2>1 DEF DMType
<1>5. ASSUME NEW p \in DMPortals PROVE PortalOK(p)'
  <2>1. PortalOK(p)
    BY DEF DMInv
  <2>2. HasRoom(p)' = HasRoom(p)
    BY <1>2 DEF HasRoom
  <2>3. LoopOK(p)'
    BY <1>2, <2>1, <2>2 DEF PortalOK, LoopOK
  <2>4. latest[p] # Absent => smsPortals'[p] = latest[p]
    BY <1>2, <1>3, <2>1 DEF PortalOK, MemoryOK
  <2>5. MemoryOK(p)'
    BY <1>2, <1>3, <2>1, <2>4 DEF PortalOK, MemoryOK, getPortalSMSRouting
  <2>6. StoredOK(p)'
    BY <1>2, <2>1, <2>2 DEF PortalOK, StoredOK
  <2> QED BY <2>3, <2>5, <2>6 DEF PortalOK
<1>6. HomeOK'
  <2>1. \A q \in DMPortals : IsUsed(q)' <=> IsUsed(q)
    BY <1>2 DEF IsUsed
  <2> QED BY <1>2, <2>1, SameHomeKeeps DEF DMInv
<1> QED BY <1>2, <1>4, <1>5, <1>6 DEF DMInv

LEMMA QueueKeeps ==
    ASSUME DMInv, QueueSyncEntry \/ FinishInitialSync
    PROVE  DMInv'
<1>1. DMType
  BY DEF DMInv
<1>2. CASE QueueSyncEntry
  <2>1. PICK p : inbox' = [inbox EXCEPT ![p] = @ \cup {"sync"}]
    BY <1>2 DEF QueueSyncEntry
  <2>2. /\ inbox' \in [DMPortals -> SUBSET EventKinds]
        /\ \A q \in DMPortals : inbox'[q] \subseteq inbox[q] \cup {"sync", "refresh"}
    BY <1>1, <2>1 DEF DMType, EventKinds
  <2> QED BY <1>1, <1>2, <2>2, QuietKeeps
        DEF QueueSyncEntry, places, route, ids, dmHistory, DMType
<1>3. CASE FinishInitialSync
  BY <1>1, <1>3, QuietKeeps DEF FinishInitialSync, places, route, work, ids, dmHistory, DMType
<1> QED BY <1>2, <1>3

LEMMA RefreshGUIDsKeep ==
    ASSUME DMInv, RefreshChatDBGUIDs
    PROVE  DMInv'
<1>1. DMType
  BY DEF DMInv
<1>2. PICK saved \in SUBSET DMPortals :
        /\ metadata' = [p \in DMPortals |->
               IF p \in saved THEN getPortalSMSRouting(p) ELSE metadata[p]]
        /\ unsaved' = unsaved \ saved /\ overtaken' = overtaken \ saved
        /\ UNCHANGED <<known, room, smsPortals, inbox, handling, chatsSynced, registered, latest,
                       homePortal, drifted, groundless>>
  BY DEF RefreshChatDBGUIDs, MatchedPortals, places, work, ids
<1>3. DMType'
  BY <1>1, <1>2, RoutingReads DEF DMType
<1>4. ASSUME NEW p \in DMPortals PROVE PortalOK(p)'
  <2>1. PortalOK(p)
    BY DEF DMInv
  <2>2. HasRoom(p)' = HasRoom(p)
    BY <1>2 DEF HasRoom
  <2>3. metadata'[p] = IF p \in saved THEN getPortalSMSRouting(p) ELSE metadata[p]
    BY <1>2
  <2>4. getPortalSMSRouting(p)' = getPortalSMSRouting(p)
    BY <1>2, <2>3 DEF getPortalSMSRouting
  <2>5. LoopOK(p)'
    BY <1>2, <2>1, <2>2 DEF PortalOK, LoopOK
  <2>6. MemoryOK(p)'
    <3>1. smsPortals[p] = Absent => metadata'[p] = metadata[p]
      BY <2>3 DEF getPortalSMSRouting
    <3> QED BY <1>2, <2>1, <2>4, <3>1 DEF PortalOK, MemoryOK
  <2>7. StoredOK(p)'
    BY <1>2, <2>1, <2>2, <2>3 DEF PortalOK, MemoryOK, StoredOK
  <2> QED BY <2>5, <2>6, <2>7 DEF PortalOK
<1>5. HomeOK'
  <2>1. \A q \in DMPortals : IsUsed(q)' <=> IsUsed(q)
    BY <1>2 DEF IsUsed
  <2> QED BY <1>2, <2>1, SameHomeKeeps DEF DMInv
<1> QED BY <1>2, <1>3, <1>4, <1>5 DEF DMInv

LEMMA RestartDMKeeps ==
    ASSUME DMInv, RestartDM
    PROVE  DMInv'
<1>1. DMType
  BY DEF DMInv
<1>2. /\ inbox' = [p \in DMPortals |-> {}] /\ handling' = [p \in DMPortals |-> NotHandling]
      /\ smsPortals' = [p \in DMPortals |->
             IF chatsSynced /\ HasRoom(p) /\ metadata[p] # IMessage THEN metadata[p] ELSE Absent]
      /\ latest' = [p \in DMPortals |->
             IF chatsSynced /\ HasRoom(p) /\ p \notin overtaken \cup unsaved
                /\ handling[p] = NotHandling
             THEN latest[p] ELSE Absent]
      /\ UNCHANGED <<known, room, metadata, chatsSynced, registered, homePortal, drifted, groundless>>
  BY DEF RestartDM, places
<1>3. NotHandling \in Handling
  BY DEF NotHandling, Handling, Route
<1>4. DMType'
  <2>1. smsPortals' \in [DMPortals -> Route] /\ latest' \in [DMPortals -> Route]
    BY <1>1, <1>2 DEF DMType, Route
  <2>2. inbox' \in [DMPortals -> SUBSET EventKinds] /\ handling' \in [DMPortals -> Handling]
    BY <1>2, <1>3
  <2> QED BY <1>1, <1>2, <2>1, <2>2 DEF DMType
<1>5. ASSUME NEW p \in DMPortals PROVE PortalOK(p)'
  <2>1. inbox'[p] = {} /\ handling'[p] = NotHandling
    BY <1>2
  <2>2. latest'[p] # Absent => /\ chatsSynced /\ HasRoom(p) /\ latest'[p] = latest[p]
                               /\ metadata[p] = latest[p]
    <3>1. handling[p] = NotHandling => handling[p].kind # "sync"
      BY DEF NotHandling
    <3>2. StoredOK(p)
      BY DEF DMInv, PortalOK
    <3> QED BY <1>2, <3>1, <3>2 DEF StoredOK
  <2>3. LoopOK(p)'
    BY <2>1 DEF LoopOK, NotHandling
  <2>4. smsPortals'[p] = IF chatsSynced /\ HasRoom(p) /\ metadata[p] # IMessage
                         THEN metadata[p] ELSE Absent
    BY <1>2
  <2>5. MemoryOK(p)'
    <3>1. latest'[p] # Absent => getPortalSMSRouting(p)' = latest'[p]
      BY <1>2, <2>2, <2>4 DEF getPortalSMSRouting
    <3> QED BY <1>2, <2>1, <2>2, <3>1 DEF MemoryOK, NotHandling
  <2>6. StoredOK(p)'
    BY <1>2, <2>2 DEF StoredOK
  <2> QED BY <2>3, <2>5, <2>6 DEF PortalOK
<1>6. HomeOK'
  <2>1. \A q \in DMPortals : IsUsed(q)' <=> IsUsed(q)
    BY <1>2 DEF IsUsed
  <2> QED BY <1>2, <2>1, SameHomeKeeps DEF DMInv
<1> QED BY <1>2, <1>4, <1>5, <1>6 DEF DMInv

LEMMA DMStep == DMInv /\ [DMNext]_dmVars => DMInv'
<1> SUFFICES ASSUME DMInv, [DMNext]_dmVars PROVE DMInv'
  OBVIOUS
<1>1. ASSUME NEW h \in Handles, NEW s \in {IMessage} \cup Handles, s \in {IMessage, h}, ReceiveDM(h, s)
      PROVE  DMInv'
  BY <1>1, ReceiveKeeps
<1>2. ASSUME NEW p \in DMPortals, NEW k \in inbox[p], TakeEvent(p, k) PROVE DMInv'
  BY <1>2, TakeKeeps
<1>3. ASSUME NEW p \in DMPortals, UpdateRoom(p) \/ PostHandle(p) \/ RefreshRoom(p) \/ SendDM(p)
      PROVE  DMInv'
  BY <1>3, UpdateKeeps, PostKeeps, RefreshRoomKeeps, SendKeeps
<1>4. CASE SeedInitialSync \/ QueueSyncEntry \/ FinishInitialSync \/ RefreshChatDBGUIDs
  BY <1>4, SeedKeeps, QueueKeeps, RefreshGUIDsKeep
<1>5. CASE MemosExpire \/ LearnContact
  <2>1. DMType
    BY DEF DMInv
  <2>2. CASE MemosExpire
    BY <2>1, <2>2, QuietKeeps DEF MemosExpire, places, route, work, syncState, dmHistory, DMType
  <2>3. CASE LearnContact
    <3>1. homePortal = NoPortal
      BY <2>3 DEF LearnContact, DMInv, HomeOK
    <3> QED BY <2>1, <2>3, <3>1, QuietKeeps
          DEF LearnContact, route, work, syncState, ids, dmHistory, DMType
  <2> QED BY <1>5, <2>2, <2>3
<1>6. CASE RestartDM
  BY <1>6, RestartDMKeeps
<1>7. CASE UNCHANGED dmVars
  <2>1. DMType
    BY DEF DMInv
  <2> QED BY <1>7, <2>1, QuietKeeps
        DEF dmVars, places, route, work, syncState, ids, dmHistory, DMType
<1> QED BY <1>1, <1>2, <1>3, <1>4, <1>5, <1>6, <1>7 DEF DMNext

\* A reply takes the service and destination of its portal's last message, in
\* memory and, after a restart, from the metadata; it leaves them only on
\* evidence about its own target (getPortalSMSRouting, checkCarrierRoute).
THEOREM RepliesFollowRoutes == DMSpec => []SendsFollowRoute
<1>1. DMInv => SendsFollowRoute
  <2> SUFFICES ASSUME DMInv PROVE ReplyTakesLatestRoute
    BY DEF SendsFollowRoute, SendIsGrounded, DMInv
  <2>1. \A p \in DMPortals : handling[p] = NotHandling => handling[p].kind # "sync"
    BY DEF NotHandling
  <2> QED BY <2>1 DEF ReplyTakesLatestRoute, DMInv, PortalOK, MemoryOK, StoredOK
<1> QED BY <1>1, DMInitially, DMStep, PTL DEF DMSpec

\* A contact's messages stay in the room that holds their history
\* (chooseContactPortalID, findExistingDMPortalCandidateWithFastPath).
THEOREM RoomIsKept == DMSpec => []ContactKeepsRoom
<1>1. DMInv => ContactKeepsRoom
  BY DEF DMInv, ContactKeepsRoom
<1> QED BY <1>1, DMInitially, DMStep, PTL DEF DMSpec

-----------------------------------------------------------------------------
(* GroupRouting                                                            *)

Lists == SUBSET People

GroupType ==
    /\ members \in [Groups -> GroupSets]
    /\ rooms \subseteq GroupPortals /\ wanted \subseteq GroupPortals
    /\ gidAliases \in [Guids -> GroupPortals \cup {None}]
    /\ imGroupGuids \in [GroupPortals -> Guids \cup {None}]
    /\ imGroupParticipants \in [GroupPortals -> Lists]
    /\ senderGuid \in [GroupPortals -> Guids \cup {None}]
    /\ roster \in [GroupPortals -> Lists]
    /\ saves \subseteq GroupPortals \X Guids \X Lists
    /\ had \in [Groups -> SUBSET Lists]
    /\ heardIn \in [GroupPortals -> SUBSET Groups]
    /\ home \in [Guids -> GroupPortals \cup {None}]
    /\ partial \subseteq GroupPortals

\* A portal that carries a GUID's name has had a message of its group, unless
\* an event without the member list gave it the name.
Heard(g, p) == GroupOf[g] \in heardIn[p] \/ p \in partial

NamesInv ==
    /\ \A g \in Guids : gidAliases[g] # None =>
          gidAliases[g] \in rooms /\ Heard(g, gidAliases[g])
    /\ \A p \in GroupPortals, g \in Guids : g \in {imGroupGuids[p], senderGuid[p]} => Heard(g, p)
    /\ \A s \in saves : /\ Heard(s[2], s[1])
                        /\ s[3] # {} /\ s[1] \notin partial => s[3] \in had[GroupOf[s[2]]]

\* The member list kept of a portal is one that a group heard there has had.
ListsInv ==
    \A p \in GroupPortals \ partial : \A l \in {imGroupParticipants[p], roster[p]} :
        l # {} => \E w \in heardIn[p] : l \in had[w]

CommaInv ==
    /\ \A p \in groupPortalIndex : ~IsGid(p)
    /\ \A p \in GroupPortals : ~IsGid(p) =>
          /\ p \in rooms \cap groupPortalIndex /\ roster[p] = {}
          /\ p \notin partial => \A w \in heardIn[p] : p[2] \in had[w]

\* Until its room exists a GUID's own portal has none but its own messages.
GidInv ==
    \A g \in Guids : /\ gidID(g) \in rooms \cup wanted => Heard(g, gidID(g))
                     /\ gidID(g) \notin rooms => heardIn[gidID(g)] \subseteq {GroupOf[g]}

HadInv == \A x \in Groups : members[x] \in had[x]

RoomsInv == NamesInv /\ ListsInv /\ CommaInv /\ GidInv /\ HadInv /\ RoomHoldsOneGroup

\* No other group was heard where g is at home, and all lists came from it.
Alone(g) == home[g] # None /\ home[g] \notin partial /\ heardIn[home[g]] = {GroupOf[g]}

\* A restart would find the home of g by its members.
FoundByMembers(g) ==
    /\ had[GroupOf[g]] = {members[GroupOf[g]]}
    /\ IsGid(home[g]) => roster[home[g]] = members[GroupOf[g]]

HomeOf(g) ==
    /\ home[g] # None => GroupOf[g] \in heardIn[home[g]]
    /\ Alone(g) =>
         /\ ~IsGid(home[g]) => members[GroupOf[g]] \subseteq home[g][2]
         /\ IsGid(home[g]) => imGroupParticipants[home[g]] \in {{}, members[GroupOf[g]]}
         /\ home[g] # gidID(g) => gidAliases[g] = home[g] \/ FoundByMembers(g)
         /\ IsGid(home[g]) /\ had[GroupOf[g]] = {members[GroupOf[g]]} =>
               \/ roster[home[g]] = members[GroupOf[g]]
               \/ \E s \in saves : s[1] = home[g] /\ s[3] = members[GroupOf[g]]

RoutingInv == GroupType /\ RoomsInv /\ (\A g \in Guids : HomeOf(g)) /\ NoSecondRoom

-----------------------------------------------------------------------------

LEMMA PortalFacts ==
    /\ None \notin GroupPortals /\ None \notin Guids
    /\ \A g \in Guids : gidID(g) \in GroupPortals /\ IsGid(gidID(g)) /\ GroupOf[g] \in Groups
    /\ \A g, k \in Guids : gidID(g) = gidID(k) => g = k
    /\ \A p \in GroupPortals : ~IsGid(p) => p[2] \in Legacy /\ p = comma(p[2])
    /\ \A s \in Legacy : comma(s) \in GroupPortals /\ ~IsGid(comma(s))
BY RoutingAssumption DEF None, GroupPortals, gidID, comma, IsGid

LEMMA SizedLists ==
    \A s \in GroupSets : s \in Lists /\ s # {} /\ Cardinality(s) >= 2
<1> SUFFICES ASSUME NEW s \in GroupSets PROVE s \in Lists /\ s # {} /\ Cardinality(s) >= 2
  OBVIOUS
<1>1. Cardinality(s) >= 2 /\ s \in Lists
  BY DEF GroupSets, Lists
<1>2. s # {}
  BY <1>1, FS_EmptySet
<1> QED BY <1>1, <1>2

LEMMA RoutingInitially == RoutingInit => RoutingInv
<1> SUFFICES ASSUME RoutingInit PROVE RoutingInv
  OBVIOUS
<1> USE DEF RoutingInit
<1>1. GroupType
  <2>1. members \in [Groups -> GroupSets] /\ \A x \in Groups : members[x] \in Lists
    BY RoutingAssumption, SizedLists
  <2>2. rooms \subseteq GroupPortals
    BY PortalFacts
  <2>3. had \in [Groups -> SUBSET Lists]
    BY <2>1
  <2> QED BY <2>1, <2>2, <2>3 DEF GroupType, Lists
<1>2. NamesInv
  BY PortalFacts DEF NamesInv
<1>3. ListsInv
  BY DEF ListsInv
<1>4. CommaInv
  BY PortalFacts DEF CommaInv
<1>5. GidInv
  BY PortalFacts DEF GidInv
<1>6. HadInv /\ RoomHoldsOneGroup
  <2>1. HadInv
    BY DEF HadInv
  <2>2. \A p \in GroupPortals : heardIn[p] = {}
    OBVIOUS
  <2>3. ASSUME NEW p \in GroupPortals, NEW part \in SUBSET heardIn[p], part # {}
        PROVE  FALSE
    <3>1. PICK x \in part : TRUE
      BY <2>3
    <3> QED BY <2>2, <3>1
  <2> QED BY <2>1, <2>3, ZenonT(30) DEF RoomHoldsOneGroup
<1>7. \A g \in Guids : HomeOf(g)
  BY DEF HomeOf, Alone
<1> QED BY <1>1, <1>2, <1>3, <1>4, <1>5, <1>6, <1>7 DEF RoutingInv, RoomsInv, NoSecondRoom

LEMMA AliasFacts ==
    ASSUME GroupType, NamesInv, NEW g \in Guids, NEW parts, LiveAlias(g, parts) # None
    PROVE  /\ LiveAlias(g, parts) = gidAliases[g]
           /\ LiveAlias(g, parts) \in GroupPortals \cap rooms
           /\ Heard(g, LiveAlias(g, parts))
           /\ ~guidCacheMatchIsStale(LiveAlias(g, parts), parts)
<1>1. /\ LiveAlias(g, parts) = gidAliases[g] /\ gidAliases[g] # None
      /\ ~guidCacheMatchIsStale(gidAliases[g], parts)
  BY DEF LiveAlias
<1> QED BY <1>1 DEF GroupType, NamesInv

LEMMA NotStale ==
    ASSUME NEW p, ~IsGid(p), NEW parts, ~guidCacheMatchIsStale(p, parts)
    PROVE  parts \subseteq p[2]
BY DEF guidCacheMatchIsStale, PortalParts

\* Where makePortalKey sends a message of g that names parts.
LEMMA Destination ==
    ASSUME GroupType, RoomsInv, NEW g \in Guids, NEW parts, NEW p \in PortalsFor(g, parts)
    PROVE  /\ p \in GroupPortals /\ (p \in rooms \/ p = gidID(g))
           /\ \/ Heard(g, p)
              \/ p = gidID(g) /\ p \notin rooms
              \/ parts # {} /\ p \in rooms
                 /\ IF IsGid(p) THEN parts \in {imGroupParticipants[p], roster[p]} ELSE parts = p[2]
           /\ ~IsGid(p) => parts \subseteq p[2]
<1> USE PortalFacts
<1>1. CASE LiveAlias(g, parts) # None
  BY <1>1, AliasFacts, NotStale DEF PortalsFor, RoomsInv
<1>2. CASE LiveAlias(g, parts) = None /\ gidID(g) \in rooms
  BY <1>2 DEF PortalsFor, RoomsInv, GidInv
<1>3. CASE LiveAlias(g, parts) = None /\ gidID(g) \notin rooms
  <2>1. \/ p \in GuidMatches(g, parts)
        \/ p = gidID(g)
        \/ parts # {} /\ p \in ParticipantMatches(g, parts)
        \/ parts # {} /\ p \in IndexMatches(parts)
        \/ parts # {} /\ p \in findPortalIDsByParticipants(g, parts)
    BY <1>3, Zenon DEF PortalsFor, resolveExistingGroupByGid
  <2>2. CASE p \in GuidMatches(g, parts)
    <3>1. /\ p \in GroupPortals /\ p \in rooms /\ imGroupGuids[p] = g
          /\ ~guidCacheMatchIsStale(p, parts)
      BY <2>2 DEF GuidMatches, CachedFor, StaleFor
    <3> QED BY <3>1, NotStale DEF RoomsInv, NamesInv
  <2>3. CASE p = gidID(g)
    BY <1>3, <2>3
  <2>4. CASE parts # {} /\ p \in ParticipantMatches(g, parts)
    BY <2>4 DEF ParticipantMatches, participantSetsMatch, GroupType
  <2>5. CASE parts # {} /\ p \in IndexMatches(parts)
    BY <2>5 DEF IndexMatches, participantSetsMatch, GroupType, RoomsInv, CommaInv
  <2>6. CASE parts # {} /\ p \in findPortalIDsByParticipants(g, parts)
    BY <2>6 DEF findPortalIDsByParticipants, participantSetsMatch, GroupType, RoomsInv, CommaInv
  <2> QED BY <2>1, <2>2, <2>3, <2>4, <2>5, <2>6
<1> QED BY <1>1, <1>2, <1>3

\* A room that hears a group it shares members with, or is the first to hear
\* it, still hangs together.
Together(H, sets) ==
    \A part \in (SUBSET H) \ {{}, H} : \E v \in part, w \in H \ part : sets[v] \cap sets[w] # {}

LEMMA JoinsTogether ==
    ASSUME NEW H, NEW x, NEW sets, Together(H, sets),
           H \subseteq {x} \/ x \in H \/ \E w \in H : sets[w] \cap sets[x] # {}
    PROVE  Together(H \cup {x}, sets)
<1> USE DEF Together
<1> SUFFICES ASSUME NEW part \in SUBSET (H \cup {x}), part # {}, part # H \cup {x}
             PROVE  \E v \in part, w \in (H \cup {x}) \ part : sets[v] \cap sets[w] # {}
  OBVIOUS
<1>1. CASE x \in H
  <2>1. H \cup {x} = H
    BY <1>1
  <2> QED BY <2>1
<1>2. CASE H \subseteq {x}
  BY <1>2
<1>3. ASSUME x \notin H, NEW w \in H, sets[w] \cap sets[x] # {}
      PROVE  \E v \in part, u \in (H \cup {x}) \ part : sets[v] \cap sets[u] # {}
  <2>1. CASE part \ {x} \in (SUBSET H) \ {{}, H}
    <3>1. PICK v \in part \ {x}, u \in H \ (part \ {x}) : sets[v] \cap sets[u] # {}
      BY <2>1
    <3>2. u # x
      BY <1>3
    <3> QED BY <3>1, <3>2
  <2>2. CASE part \ {x} = {}
    <3>1. part = {x}
      BY <2>2
    <3> QED BY <1>3, <3>1
  <2>3. CASE part \ {x} = H
    <3>1. x \notin part
      BY <2>3
    <3> QED BY <1>3, <2>3, <3>1
  <2> QED BY <2>1, <2>2, <2>3
<1> QED BY <1>1, <1>2, <1>3

\* A message or a receipt of g that goes to p and is cached there.
Routed(g, parts, p) ==
    /\ parts \in Lists /\ Cache(g, parts, p)
    /\ Heard(g, p)'
    /\ wanted \subseteq wanted' /\ wanted' \subseteq wanted \cup ({p} \ rooms)
    /\ heardIn' \in [GroupPortals -> SUBSET Groups] /\ partial' \subseteq GroupPortals
    /\ \A q \in GroupPortals : q # p => heardIn'[q] = heardIn[q] /\ (q \in partial' <=> q \in partial)
    /\ heardIn[p] \subseteq heardIn'[p] /\ heardIn'[p] \subseteq heardIn[p] \cup {GroupOf[g]}
    /\ partial \subseteq partial'
    /\ p \notin partial' => GroupOf[g] \in heardIn'[p] /\ parts \in {{}, members[GroupOf[g]]}
    /\ UNCHANGED <<members, rooms, roster, had>>

LEMMA CacheFacts ==
    ASSUME GroupType, RoomsInv, NEW g \in Guids, NEW parts \in Lists, NEW p \in PortalsFor(g, parts),
           Cache(g, parts, p)
    PROVE  /\ gidAliases' \in [Guids -> GroupPortals \cup {None}]
           /\ \A k \in Guids \ {g} : gidAliases'[k] = gidAliases[k]
           /\ gidAliases'[g] \in {None, p} /\ (p # gidID(g) => gidAliases'[g] = p)
           /\ gidAliases'[g] # None => p \in rooms
           /\ imGroupParticipants' \in [GroupPortals -> Lists]
           /\ \A q \in GroupPortals \ {p} : imGroupParticipants'[q] = imGroupParticipants[q]
           /\ imGroupParticipants'[p] = IF parts = {} THEN imGroupParticipants[p] ELSE parts
           /\ imGroupGuids' \in [GroupPortals -> Guids \cup {None}]
           /\ senderGuid' \in [GroupPortals -> Guids \cup {None}]
           /\ \A q \in GroupPortals, k \in Guids : k \in {imGroupGuids'[q], senderGuid'[q]} =>
                 k \in {imGroupGuids[q], senderGuid[q]} \/ (q = p /\ k = g)
           /\ saves' = saves \cup {<<p, g, parts>>}
           /\ groupPortalIndex' = groupPortalIndex
<1> USE PortalFacts
<1>0. PICK evicted \in Evictions(g, parts) :
        /\ gidAliases' = [gidAliases EXCEPT ![g] = IF p # gidID(g) THEN p ELSE LiveAlias(g, parts)]
        /\ imGroupParticipants' = [imGroupParticipants EXCEPT ![p] = IF parts = {} THEN @ ELSE parts]
        /\ imGroupGuids' = [q \in GroupPortals |->
              IF q = p /\ (~IsGid(p) \/ p = gidID(g)) THEN g
              ELSE IF q \in evicted THEN None ELSE imGroupGuids[q]]
        /\ senderGuid' = [q \in GroupPortals |->
              IF q \in evicted /\ senderGuid[q] = g THEN None ELSE senderGuid[q]]
        /\ saves' = saves \cup {<<p, g, parts>>}
        /\ UNCHANGED groupPortalIndex
  BY Zenon DEF Cache
<1>1. p \in GroupPortals /\ (p \in rooms \/ p = gidID(g))
  BY Destination
<1>2. LiveAlias(g, parts) # None => LiveAlias(g, parts) = p /\ p \in rooms
  BY AliasFacts DEF PortalsFor, RoomsInv
<1>3. PICK alias : alias = IF p # gidID(g) THEN p ELSE LiveAlias(g, parts)
  OBVIOUS
<1>4. alias \in {None, p} /\ (p # gidID(g) => alias = p) /\ (alias # None => p \in rooms)
  BY <1>1, <1>2, <1>3
<1>5. /\ gidAliases' \in [Guids -> GroupPortals \cup {None}] /\ gidAliases'[g] = alias
      /\ \A k \in Guids \ {g} : gidAliases'[k] = gidAliases[k]
  BY <1>0, <1>1, <1>3, <1>4 DEF GroupType
<1>6. /\ imGroupParticipants' \in [GroupPortals -> Lists]
      /\ \A q \in GroupPortals \ {p} : imGroupParticipants'[q] = imGroupParticipants[q]
      /\ imGroupParticipants'[p] = IF parts = {} THEN imGroupParticipants[p] ELSE parts
  BY <1>0, <1>1 DEF GroupType
<1>7. /\ imGroupGuids' \in [GroupPortals -> Guids \cup {None}]
      /\ \A q \in GroupPortals, k \in Guids : k = imGroupGuids'[q] =>
            k = imGroupGuids[q] \/ (q = p /\ k = g)
  BY <1>0 DEF GroupType
<1>8. /\ senderGuid' \in [GroupPortals -> Guids \cup {None}]
      /\ \A q \in GroupPortals, k \in Guids : k = senderGuid'[q] => k = senderGuid[q]
  BY <1>0 DEF GroupType
<1> QED BY <1>0, <1>4, <1>5, <1>6, <1>7, <1>8

LEMMA RoutedRooms ==
    ASSUME GroupType, RoomsInv, NEW g \in Guids, NEW parts, NEW p \in PortalsFor(g, parts),
           Routed(g, parts, p)
    PROVE  RoomsInv'
<1> USE PortalFacts
<1>1. /\ p \in GroupPortals /\ (p \in rooms \/ p = gidID(g))
      /\ \/ Heard(g, p)
         \/ p = gidID(g) /\ p \notin rooms
         \/ parts # {} /\ p \in rooms
            /\ IF IsGid(p) THEN parts \in {imGroupParticipants[p], roster[p]} ELSE parts = p[2]
  BY Destination
<1>2. parts \in Lists /\ Cache(g, parts, p)
  BY DEF Routed
<1> DEFINE x == GroupOf[g]
<1>3. \A q \in GroupPortals, k \in Guids : Heard(k, q) => Heard(k, q)'
  BY <1>1 DEF Routed, Heard
<1>4. /\ \A k \in Guids \ {g} : gidAliases'[k] = gidAliases[k]
      /\ gidAliases'[g] \in {None, p} /\ (gidAliases'[g] # None => p \in rooms)
      /\ \A q \in GroupPortals \ {p} : imGroupParticipants'[q] = imGroupParticipants[q]
      /\ imGroupParticipants'[p] = IF parts = {} THEN imGroupParticipants[p] ELSE parts
      /\ \A q \in GroupPortals, k \in Guids : k \in {imGroupGuids'[q], senderGuid'[q]} =>
            k \in {imGroupGuids[q], senderGuid[q]} \/ (q = p /\ k = g)
      /\ saves' = saves \cup {<<p, g, parts>>}
      /\ groupPortalIndex' = groupPortalIndex
  BY <1>2, CacheFacts
<1>5. x \in Groups /\ members[x] \in had[x]
  BY DEF RoomsInv, HadInv
<1>6. NamesInv'
  <2>1. ASSUME NEW k \in Guids, gidAliases'[k] # None
        PROVE  gidAliases'[k] \in rooms' /\ Heard(k, gidAliases[k])'
    <3>1. CASE k = g
      BY <1>4, <2>1, <3>1 DEF Routed, Heard
    <3>2. CASE k # g
      <4>1. gidAliases[k] \in rooms /\ Heard(k, gidAliases[k]) /\ gidAliases[k] \in GroupPortals
        BY <1>4, <2>1, <3>2 DEF RoomsInv, NamesInv, GroupType
      <4> QED BY <1>3, <1>4, <3>2, <4>1 DEF Routed, Heard
    <3> QED BY <3>1, <3>2
  <2>2. ASSUME NEW q \in GroupPortals, NEW k \in Guids, k \in {imGroupGuids'[q], senderGuid'[q]}
        PROVE  Heard(k, q)'
    <3>1. CASE q = p /\ k = g
      BY <3>1 DEF Routed
    <3>2. CASE k \in {imGroupGuids[q], senderGuid[q]}
      BY <1>3, <3>2 DEF RoomsInv, NamesInv
    <3> QED BY <1>4, <2>2, <3>1, <3>2
  <2>3. ASSUME NEW s \in saves'
        PROVE  /\ Heard(s[2], s[1])'
               /\ s[3] # {} /\ s[1] \notin partial' => s[3] \in had'[GroupOf[s[2]]]
    <3>1. CASE s = <<p, g, parts>>
      BY <1>5, <3>1 DEF Routed
    <3>2. CASE s \in saves
      <4>1. s[1] \in GroupPortals /\ s[2] \in Guids
        BY <3>2 DEF GroupType
      <4> QED BY <1>3, <3>2, <4>1 DEF RoomsInv, NamesInv, Routed
    <3> QED BY <1>4, <3>1, <3>2
  <2> QED BY <2>1, <2>2, <2>3 DEF NamesInv
<1>7. ListsInv'
  <2> SUFFICES ASSUME NEW q \in GroupPortals, q \notin partial',
                      NEW l \in {imGroupParticipants'[q], roster'[q]}, l # {}
               PROVE  \E w \in heardIn'[q] : l \in had'[w]
    BY DEF ListsInv
  <2>1. CASE l \in {imGroupParticipants[q], roster[q]}
    <3>1. PICK w \in heardIn[q] : l \in had[w]
      BY <2>1 DEF RoomsInv, ListsInv, Routed
    <3> QED BY <3>1 DEF Routed
  <2>2. CASE q = p /\ l = parts
    BY <1>5, <2>2 DEF Routed
  <2> QED BY <1>4, <2>1, <2>2 DEF Routed
<1>8. CommaInv'
  <2>1. ASSUME NEW q \in GroupPortals, ~IsGid(q), q \notin partial', NEW w \in heardIn'[q]
        PROVE  q[2] \in had'[w]
    <3>1. q \notin partial /\ \A v \in heardIn[q] : q[2] \in had[v]
      BY <2>1 DEF RoomsInv, CommaInv, Routed
    <3>2. CASE w \in heardIn[q]
      BY <3>1, <3>2 DEF Routed
    <3>3. CASE w \notin heardIn[q]
      <4>1. q = p /\ w = x
        BY <2>1, <3>3 DEF Routed
      <4>2. ~Heard(g, p)
        BY <3>1, <3>3, <4>1 DEF Heard
      <4>3. parts = p[2] /\ parts # {}
        BY <1>1, <2>1, <4>1, <4>2
      <4> QED BY <1>5, <2>1, <4>1, <4>3 DEF Routed
    <3> QED BY <3>2, <3>3
  <2> QED BY <1>4, <2>1 DEF CommaInv, RoomsInv, Routed
<1>9. GidInv'
  <2> SUFFICES ASSUME NEW k \in Guids
               PROVE  /\ gidID(k) \in rooms' \cup wanted' => Heard(k, gidID(k))'
                      /\ gidID(k) \notin rooms' => heardIn'[gidID(k)] \subseteq {GroupOf[k]}
    BY DEF GidInv, gidID
  <2>1. /\ gidID(k) \in rooms \cup wanted => Heard(k, gidID(k))
        /\ gidID(k) \notin rooms => heardIn[gidID(k)] \subseteq {GroupOf[k]}
    BY DEF RoomsInv, GidInv
  <2>2. CASE gidID(k) # p
    BY <1>3, <2>1, <2>2 DEF Routed
  <2>3. CASE gidID(k) = p
    <3>1. p \notin rooms => k = g
      BY <1>1, <2>3
    <3>2. p \in rooms => Heard(k, p)'
      BY <1>1, <1>3, <2>1, <2>3
    <3>3. p \notin rooms => Heard(k, p)'
      BY <3>1 DEF Routed
    <3> QED BY <2>1, <2>3, <3>1, <3>2, <3>3 DEF Routed
  <2> QED BY <2>2, <2>3
<1>10. HadInv'
  BY DEF RoomsInv, HadInv, Routed
<1>11. RoomHoldsOneGroup'
  <2> SUFFICES ASSUME NEW q \in GroupPortals, q \notin partial'
               PROVE  Together(heardIn'[q], had)
    BY DEF RoomHoldsOneGroup, Together, Routed
  <2>1. Together(heardIn[q], had)
    BY DEF RoomsInv, RoomHoldsOneGroup, Together, Routed
  <2>2. CASE heardIn'[q] = heardIn[q]
    BY <2>1, <2>2
  <2>3. CASE q = p /\ heardIn'[q] = heardIn[q] \cup {x}
    <3>1. p \notin partial
      BY <2>3 DEF Routed
    <3>2. heardIn[p] \subseteq {x} \/ x \in heardIn[p] \/ \E w \in heardIn[p] : had[w] \cap had[x] # {}
      <4>1. CASE Heard(g, p)
        BY <3>1, <4>1 DEF Heard
      <4>2. CASE p = gidID(g) /\ p \notin rooms
        BY <4>2 DEF RoomsInv, GidInv
      <4>3. CASE /\ parts # {} /\ p \in rooms
                 /\ IF IsGid(p) THEN parts \in {imGroupParticipants[p], roster[p]} ELSE parts = p[2]
        <5>1. parts \in had[x]
          BY <1>5, <2>3, <4>3 DEF Routed
        <5>2. CASE IsGid(p)
          <6>1. \E w \in heardIn[p] : parts \in had[w]
            BY <1>1, <3>1, <4>3, <5>2 DEF RoomsInv, ListsInv
          <6> QED BY <5>1, <6>1
        <5>3. CASE ~IsGid(p)
          BY <1>1, <3>1, <4>3, <5>1, <5>3 DEF RoomsInv, CommaInv
        <5> QED BY <5>2, <5>3
      <4> QED BY <1>1, <4>1, <4>2, <4>3
    <3>3. Together(heardIn[p] \cup {x}, had)
      BY <2>1, <2>3, <3>2, JoinsTogether
    <3>4. heardIn'[q] = heardIn[p] \cup {x}
      BY <2>3
    <3> QED BY <3>3, <3>4
  <2> QED BY <2>2, <2>3 DEF Routed
<1> QED BY <1>6, <1>7, <1>8, <1>9, <1>10, <1>11 DEF RoomsInv

-----------------------------------------------------------------------------

\* The alias of a group that has its home to itself is never stale.
LEMMA AliasLasts ==
    ASSUME GroupType, NEW g \in Guids, HomeOf(g), Alone(g), gidAliases[g] = home[g],
           NEW parts \in SUBSET members[GroupOf[g]]
    PROVE  PortalsFor(g, parts) = {home[g]}
<1>1. home[g] # None /\ home[g] \in GroupPortals
  BY DEF Alone, GroupType
<1>2. ~guidCacheMatchIsStale(home[g], parts)
  <2>1. CASE IsGid(home[g])
    <3>1. imGroupParticipants[home[g]] \in {{}, members[GroupOf[g]]}
      BY <2>1 DEF HomeOf
    <3> QED BY <2>1, <3>1 DEF guidCacheMatchIsStale, PortalParts
  <2>2. CASE ~IsGid(home[g])
    <3>1. members[GroupOf[g]] \subseteq home[g][2]
      BY <2>2 DEF HomeOf
    <3> QED BY <2>2, <3>1 DEF guidCacheMatchIsStale, PortalParts
  <2> QED BY <2>1, <2>2
<1> QED BY <1>1, <1>2 DEF LiveAlias, PortalsFor

\* A message that names the members of g makes no room when g has one.
LEMMA FindsHome ==
    ASSUME GroupType, RoomsInv, NEW g \in Guids, HomeOf(g),
           NEW p \in PortalsFor(g, members[GroupOf[g]])
    PROVE  ~Duplicates(g, members[GroupOf[g]], p)
<1> DEFINE parts == members[GroupOf[g]]
           h == home[g]
<1> SUFFICES ASSUME h \in rooms, p \notin rooms, Alone(g) PROVE FALSE
  BY PortalFacts DEF Duplicates, Alone, GroupType
<1> USE PortalFacts
<1>1. /\ parts \in GroupSets /\ parts # {} /\ h \in GroupPortals /\ h \notin partial
      /\ heardIn[h] = {GroupOf[g]}
  BY SizedLists DEF GroupType, Alone
<1>2. p = gidID(g)
  BY Destination
<1>3. h # gidID(g)
  BY <1>2
<1>4. gidAliases[g] # h
  <2> SUFFICES ASSUME gidAliases[g] = h PROVE FALSE
    OBVIOUS
  <2>1. PortalsFor(g, parts) = {h}
    BY AliasLasts
  <2> QED BY <2>1
<1>5. FoundByMembers(g)
  BY <1>3, <1>4 DEF HomeOf
<1>6. LiveAlias(g, parts) = None
  <2> SUFFICES ASSUME LiveAlias(g, parts) # None PROVE FALSE
    OBVIOUS
  <2>1. PortalsFor(g, parts) = {LiveAlias(g, parts)} /\ LiveAlias(g, parts) \in rooms
    BY AliasFacts DEF PortalsFor, RoomsInv
  <2> QED BY <2>1
<1>7. p \in resolveExistingGroupByGid(g, parts)
  BY <1>2, <1>6, Zenon DEF PortalsFor
<1>8. IndexMatches(parts) = {} /\ findPortalIDsByParticipants(g, parts) = {}
  <2>1. \A q \in GuidMatches(g, parts) \cup ParticipantMatches(g, parts) \cup IndexMatches(parts)
                 \cup findPortalIDsByParticipants(g, parts) : q \in rooms
    BY DEF GuidMatches, ParticipantMatches, IndexMatches, findPortalIDsByParticipants
  <2> QED BY <1>1, <1>7, <2>1 DEF resolveExistingGroupByGid
<1>9. CASE IsGid(h)
  <2>1. roster[h] = parts
    BY <1>5, <1>9 DEF FoundByMembers
  <2>2. h \in findPortalIDsByParticipants(g, parts)
    BY <1>1, <1>3, <2>1 DEF findPortalIDsByParticipants, participantSetsMatch
  <2> QED BY <1>8, <2>2
<1>10. CASE ~IsGid(h)
  <2>1. h \in groupPortalIndex /\ h[2] \in had[GroupOf[g]]
    BY <1>1, <1>10 DEF RoomsInv, CommaInv
  <2>2. h[2] = parts
    BY <1>5, <2>1 DEF FoundByMembers
  <2>3. h \in IndexMatches(parts)
    BY <1>1, <2>1, <2>2 DEF IndexMatches, participantSetsMatch
  <2> QED BY <1>8, <2>3
<1> QED BY <1>9, <1>10

LEMMA RoutedHomes ==
    ASSUME GroupType, RoomsInv, \A k \in Guids : HomeOf(k),
           NEW g \in Guids, NEW parts \in SUBSET members[GroupOf[g]], NEW p \in PortalsFor(g, parts),
           Routed(g, parts, p), NEW k \in Guids,
           \/ home'[k] = home[k]
           \/ home'[k] = None
           \/ k = g /\ home'[k] = p /\ parts = members[GroupOf[g]] /\ GroupOf[g] \in heardIn'[p]
    PROVE  HomeOf(k)'
<1> USE PortalFacts
<1> DEFINE x == GroupOf[k]
<1>1. p \in GroupPortals /\ (~IsGid(p) => parts \subseteq p[2])
  BY Destination
<1>2. parts \in Lists /\ Cache(g, parts, p)
  BY DEF Routed
<1>3. /\ \A j \in Guids \ {g} : gidAliases'[j] = gidAliases[j]
      /\ p # gidID(g) => gidAliases'[g] = p
      /\ \A q \in GroupPortals \ {p} : imGroupParticipants'[q] = imGroupParticipants[q]
      /\ imGroupParticipants'[p] = IF parts = {} THEN imGroupParticipants[p] ELSE parts
      /\ saves' = saves \cup {<<p, g, parts>>}
  BY <1>2, CacheFacts
<1>4. CASE home'[k] = None
  BY <1>4 DEF HomeOf, Alone
<1>5. ASSUME home'[k] = home[k], home[k] # None
      PROVE  HomeOf(k)'
  <2> DEFINE h == home[k]
  <2>1. h \in GroupPortals /\ x \in heardIn[h]
    BY <1>5 DEF GroupType, HomeOf
  <2>2. x \in heardIn'[h]
    BY <2>1 DEF Routed
  <2> SUFFICES ASSUME Alone(k)'
               PROVE  /\ ~IsGid(h) => members[x] \subseteq h[2]
                      /\ IsGid(h) => imGroupParticipants'[h] \in {{}, members[x]}
                      /\ h # gidID(k) => gidAliases'[k] = h \/ FoundByMembers(k)
                      /\ IsGid(h) /\ had[x] = {members[x]} =>
                            \/ roster[h] = members[x]
                            \/ \E s \in saves' : s[1] = h /\ s[3] = members[x]
    BY <1>5, <2>2 DEF HomeOf, FoundByMembers, Routed, gidID
  <2>3. h \notin partial' /\ heardIn'[h] = {x}
    BY <1>5 DEF Alone
  <2>4. Alone(k)
    BY <1>5, <2>1, <2>3 DEF Alone, Routed
  <2>5. h = p => parts \in {{}, members[x]} /\ GroupOf[g] = x
    BY <2>3 DEF Routed
  <2>6. /\ ~IsGid(h) => members[x] \subseteq h[2]
        /\ IsGid(h) => imGroupParticipants[h] \in {{}, members[x]}
        /\ h # gidID(k) => gidAliases[k] = h \/ FoundByMembers(k)
        /\ IsGid(h) /\ had[x] = {members[x]} =>
              \/ roster[h] = members[x]
              \/ \E s \in saves : s[1] = h /\ s[3] = members[x]
    BY <2>4 DEF HomeOf
  <2>7. IsGid(h) => imGroupParticipants'[h] \in {{}, members[x]}
    BY <1>3, <2>1, <2>5, <2>6
  <2>8. h # gidID(k) => gidAliases'[k] = h \/ FoundByMembers(k)
    <3> SUFFICES ASSUME h # gidID(k), gidAliases[k] = h, k = g PROVE gidAliases'[k] = h
      BY <1>3, <2>6
    <3>1. p = h
      BY <2>4, AliasLasts
    <3> QED BY <1>3, <3>1
  <2> QED BY <1>3, <2>6, <2>7, <2>8
<1>6. ASSUME k = g, home'[k] = p, parts = members[GroupOf[g]], GroupOf[g] \in heardIn'[p]
      PROVE  HomeOf(k)'
  <2>1. /\ ~IsGid(p) => members[x] \subseteq p[2]
        /\ imGroupParticipants'[p] \in {{}, members[x]}
    <3>1. parts = {} => imGroupParticipants'[p] = {}
      <4>1. members[x] # {}
        BY SizedLists DEF GroupType
      <4> QED BY <1>6, <4>1
    <3> QED BY <1>1, <1>3, <1>6, <3>1
  <2>3. p # gidID(k) => gidAliases'[k] = p
    BY <1>3, <1>6
  <2>2. \E s \in saves' : s[1] = p /\ s[3] = members[x]
    <3>1. <<p, g, parts>> \in saves'
      BY <1>3
    <3> QED BY <1>6, <3>1
  <2> QED BY <1>6, <2>1, <2>2, <2>3 DEF HomeOf, Routed, gidID
<1> QED BY <1>4, <1>5, <1>6


LEMMA RoutedType ==
    ASSUME GroupType, RoomsInv, NEW g \in Guids, NEW parts, NEW p \in PortalsFor(g, parts),
           Routed(g, parts, p), home' \in [Guids -> GroupPortals \cup {None}]
    PROVE  GroupType'
<1>1. p \in GroupPortals
  BY Destination
<1>2. parts \in Lists /\ Cache(g, parts, p)
  BY DEF Routed
<1>3. /\ gidAliases' \in [Guids -> GroupPortals \cup {None}]
      /\ imGroupParticipants' \in [GroupPortals -> Lists]
      /\ imGroupGuids' \in [GroupPortals -> Guids \cup {None}]
      /\ senderGuid' \in [GroupPortals -> Guids \cup {None}]
      /\ saves' = saves \cup {<<p, g, parts>>}
  BY <1>2, CacheFacts
<1>4. saves' \subseteq GroupPortals \X Guids \X Lists
  BY <1>1, <1>2, <1>3 DEF GroupType
<1>5. rooms' \subseteq GroupPortals /\ wanted' \subseteq GroupPortals
  BY <1>1 DEF GroupType, Routed
<1> QED BY <1>3, <1>4, <1>5 DEF GroupType, Routed

LEMMA MessageKeeps ==
    ASSUME RoutingInv, NEW g \in Guids, NEW parts, RouteMessage(g, parts)
    PROVE  RoutingInv'
<1> DEFINE x == GroupOf[g]
<1>0. GroupType /\ RoomsInv /\ (\A k \in Guids : HomeOf(k)) /\ doubled = {}
  BY DEF RoutingInv, NoSecondRoom
<1>1. PICK p \in PortalsFor(g, parts) :
        /\ Cache(g, parts, p)
        /\ wanted' = wanted \cup ({p} \ rooms)
        /\ heardIn' = [heardIn EXCEPT ![p] = @ \cup {x}]
        /\ home' = [home EXCEPT ![g] = IF parts # {} THEN p ELSE IF @ = p THEN p ELSE None]
        /\ doubled' = doubled \cup IF Duplicates(g, parts, p) THEN {g} ELSE {}
        /\ partial' = partial \cup (IF parts = {} THEN {p} \ rooms ELSE {})
  BY Zenon DEF RouteMessage
<1>2. parts \in {{}, members[x]} /\ UNCHANGED <<members, rooms, roster, had>>
  BY DEF RouteMessage
<1>3. x \in Groups /\ members[x] \in Lists /\ p \in GroupPortals
  BY <1>0, PortalFacts, SizedLists, Destination DEF GroupType
<1>4. heardIn' \in [GroupPortals -> SUBSET Groups] /\ heardIn'[p] = heardIn[p] \cup {x}
      /\ \A q \in GroupPortals \ {p} : heardIn'[q] = heardIn[q]
  BY <1>0, <1>1, <1>3 DEF GroupType
<1>5. Routed(g, parts, p)
  <2>1. parts \in Lists
    BY <1>2, <1>3 DEF Lists
  <2>2. /\ partial \subseteq partial' /\ partial' \subseteq GroupPortals
        /\ \A q \in GroupPortals : q # p => (q \in partial' <=> q \in partial)
    BY <1>0, <1>1, <1>3 DEF GroupType
  <2>3. Heard(g, p)'
    BY <1>4 DEF Heard
  <2> QED BY <1>1, <1>2, <1>4, <2>1, <2>2, <2>3 DEF Routed
<1>6. /\ home' \in [Guids -> GroupPortals \cup {None}]
      /\ \A k \in Guids \ {g} : home'[k] = home[k]
      /\ home'[g] = IF parts # {} THEN p ELSE IF home[g] = p THEN p ELSE None
  BY <1>0, <1>1, <1>3 DEF GroupType
<1>7. GroupType' /\ RoomsInv'
  BY <1>0, <1>5, <1>6, RoutedType, RoutedRooms
<1>8. ASSUME NEW k \in Guids PROVE HomeOf(k)'
  <2>1. \/ home'[k] = home[k]
        \/ home'[k] = None
        \/ k = g /\ home'[k] = p /\ parts = members[x] /\ x \in heardIn'[p]
    BY <1>2, <1>4, <1>6
  <2>2. parts \in SUBSET members[x]
    BY <1>2
  <2> QED BY <1>0, <1>5, <2>1, <2>2, RoutedHomes
<1>9. ~Duplicates(g, parts, p)
  <2>1. CASE parts = {}
    BY <2>1 DEF Duplicates
  <2>2. CASE parts = members[x]
    BY <1>0, <2>2, FindsHome
  <2> QED BY <1>2, <2>1, <2>2
<1> QED BY <1>0, <1>1, <1>7, <1>8, <1>9 DEF RoutingInv, NoSecondRoom

LEMMA TypingKeeps ==
    ASSUME RoutingInv, NEW g \in Guids, NEW y, RouteTyping(g, y)
    PROVE  RoutingInv'
<1>0. GroupType /\ RoomsInv /\ (\A k \in Guids : HomeOf(k)) /\ doubled = {}
  BY DEF RoutingInv, NoSecondRoom
<1>1. PICK p \in PortalsFor(g, {y}) : Cache(g, {y}, p) /\ partial' = partial \cup {p}
  BY Zenon DEF RouteTyping
<1>2. /\ y \in members[GroupOf[g]]
      /\ UNCHANGED <<members, rooms, wanted, roster, had, heardIn, home, doubled>>
  BY DEF RouteTyping
<1>3. GroupOf[g] \in Groups /\ {y} \in Lists /\ p \in GroupPortals
  <2>1. GroupOf[g] \in Groups /\ members[GroupOf[g]] \in Lists
    BY <1>0, PortalFacts, SizedLists DEF GroupType
  <2> QED BY <1>0, <1>2, <2>1, Destination DEF Lists
<1>4. Routed(g, {y}, p)
  BY <1>0, <1>1, <1>2, <1>3 DEF Routed, Heard, GroupType
<1>5. GroupType' /\ RoomsInv'
  BY <1>0, <1>2, <1>4, RoutedType, RoutedRooms DEF GroupType
<1>6. ASSUME NEW k \in Guids PROVE HomeOf(k)'
  <2>1. {y} \in SUBSET members[GroupOf[g]] /\ home'[k] = home[k]
    BY <1>2
  <2> QED BY <1>0, <1>4, <2>1, RoutedHomes
<1> QED BY <1>0, <1>2, <1>5, <1>6 DEF RoutingInv, NoSecondRoom

-----------------------------------------------------------------------------

LEMMA SaveKeeps ==
    ASSUME RoutingInv, NEW s \in saves, SavePortal(s)
    PROVE  RoutingInv'
<1>0. GroupType /\ RoomsInv /\ (\A k \in Guids : HomeOf(k)) /\ doubled = {}
  BY DEF RoutingInv, NoSecondRoom
<1>1. PICK p \in GroupPortals, g \in Guids, l \in Lists : s = <<p, g, l>>
  BY <1>0 DEF GroupType
<1>2. /\ saves' = saves \ {s}
      /\ senderGuid' = [senderGuid EXCEPT ![p] = IF p \in rooms THEN g ELSE @]
      /\ roster' = [roster EXCEPT ![p] =
             IF IsGid(p) /\ l # {} /\ (@ = {} \/ Cardinality(l) >= 2) THEN l ELSE @]
      /\ UNCHANGED <<members, rooms, wanted, gidAliases, imGroupGuids, imGroupParticipants,
                     groupPortalIndex, had, heardIn, home, doubled, partial>>
  BY <1>1 DEF SavePortal, memory, routingHistory
<1>3. Heard(g, p) /\ (l # {} /\ p \notin partial => l \in had[GroupOf[g]])
  BY <1>0, <1>1 DEF RoomsInv, NamesInv
<1>4. /\ roster' \in [GroupPortals -> Lists]
      /\ \A q \in GroupPortals \ {p} : roster'[q] = roster[q]
      /\ roster'[p] = IF IsGid(p) /\ l # {} /\ (roster[p] = {} \/ Cardinality(l) >= 2)
                      THEN l ELSE roster[p]
  BY <1>0, <1>2 DEF GroupType
<1>5. /\ senderGuid' \in [GroupPortals -> Guids \cup {None}]
      /\ \A q \in GroupPortals, k \in Guids : k = senderGuid'[q] => k = senderGuid[q] \/ (q = p /\ k = g)
  BY <1>0, <1>2 DEF GroupType
<1>6. GroupType'
  BY <1>0, <1>2, <1>4, <1>5 DEF GroupType
<1>7. NamesInv'
  <2>1. \A q \in GroupPortals, k \in Guids : Heard(k, q)' <=> Heard(k, q)
    BY <1>2 DEF Heard
  <2>2. \A k \in Guids : gidAliases'[k] # None =>
           gidAliases'[k] \in rooms' /\ Heard(k, gidAliases[k])'
    BY <1>0, <1>2, <2>1 DEF GroupType, RoomsInv, NamesInv
  <2>3. \A q \in GroupPortals, k \in Guids : k \in {imGroupGuids'[q], senderGuid'[q]} => Heard(k, q)'
    BY <1>0, <1>2, <1>3, <1>5, <2>1 DEF RoomsInv, NamesInv
  <2>4. \A t \in saves' : /\ Heard(t[2], t[1])'
                          /\ t[3] # {} /\ t[1] \notin partial' => t[3] \in had'[GroupOf[t[2]]]
    BY <1>0, <1>2 DEF RoomsInv, NamesInv, Heard
  <2> QED BY <1>2, <2>2, <2>3, <2>4 DEF NamesInv, Heard
<1>8. ListsInv'
  <2> SUFFICES ASSUME NEW q \in GroupPortals, q \notin partial,
                      NEW m \in {imGroupParticipants[q], roster'[q]}, m # {}
               PROVE  \E w \in heardIn[q] : m \in had[w]
    BY <1>2 DEF ListsInv
  <2>1. CASE m \in {imGroupParticipants[q], roster[q]}
    BY <1>0, <2>1 DEF RoomsInv, ListsInv
  <2>2. CASE q = p /\ m = l
    BY <1>3, <2>2 DEF Heard
  <2> QED BY <1>4, <2>1, <2>2
<1>9. CommaInv'
  <2>1. \A q \in GroupPortals : ~IsGid(q) => roster'[q] = roster[q]
    BY <1>4
  <2> QED BY <1>0, <1>2, <2>1 DEF RoomsInv, CommaInv
<1>10. GidInv' /\ HadInv' /\ RoomHoldsOneGroup'
  BY <1>0, <1>2 DEF RoomsInv, GidInv, HadInv, RoomHoldsOneGroup, Heard, gidID
<1>11. ASSUME NEW k \in Guids PROVE HomeOf(k)'
  <2> DEFINE h == home[k]
             x == GroupOf[k]
  <2>0. HomeOf(k) /\ (Alone(k)' <=> Alone(k))
    BY <1>0, <1>2 DEF Alone
  <2> SUFFICES ASSUME Alone(k)
               PROVE  /\ h # gidID(k) => gidAliases[k] = h \/ FoundByMembers(k)'
                      /\ IsGid(h) /\ had[x] = {members[x]} =>
                            \/ roster'[h] = members[x]
                            \/ \E t \in saves' : t[1] = h /\ t[3] = members[x]
    BY <1>2, <2>0 DEF HomeOf, gidID
  <2>1. /\ h \in GroupPortals /\ h \notin partial /\ heardIn[h] = {x}
        /\ x \in Groups /\ members[x] \in GroupSets
    BY <1>0, PortalFacts DEF Alone, GroupType
  <2>2. h = p /\ l # {} /\ had[x] = {members[x]} => l = members[x]
    BY <1>3, <2>1 DEF Heard
  <2>3. had[x] = {members[x]} /\ roster[h] = members[x] => roster'[h] = members[x]
    BY <1>4, <2>1, <2>2
  <2>4. h # gidID(k) => gidAliases[k] = h \/ FoundByMembers(k)'
    BY <1>2, <2>0, <2>3 DEF HomeOf, FoundByMembers
  <2>5. ASSUME IsGid(h), had[x] = {members[x]}
        PROVE  \/ roster'[h] = members[x]
               \/ \E t \in saves' : t[1] = h /\ t[3] = members[x]
    <3>1. CASE roster[h] = members[x]
      BY <2>3, <2>5, <3>1
    <3>2. ASSUME NEW t \in saves, t[1] = h, t[3] = members[x]
          PROVE  roster'[h] = members[x] \/ t \in saves'
      <4>1. CASE t # s
        BY <1>2, <4>1
      <4>2. CASE t = s
        <5>1. h = p /\ l = members[x] /\ l # {} /\ Cardinality(l) >= 2
          BY <1>1, <2>1, <3>2, <4>2, SizedLists
        <5> QED BY <1>4, <2>5, <5>1
      <4> QED BY <4>1, <4>2
    <3> QED BY <2>0, <2>5, <3>1, <3>2 DEF HomeOf
  <2> QED BY <2>4, <2>5
<1> QED BY <1>0, <1>2, <1>6, <1>7, <1>8, <1>9, <1>10, <1>11 DEF RoutingInv, RoomsInv, NoSecondRoom

LEMMA CreateKeeps ==
    ASSUME RoutingInv, NEW p \in wanted, CreateWantedRoom(p)
    PROVE  RoutingInv'
<1>0. GroupType /\ RoomsInv /\ (\A k \in Guids : HomeOf(k)) /\ doubled = {}
  BY DEF RoutingInv, NoSecondRoom
<1>1. /\ wanted' = wanted \ {p} /\ rooms' = rooms \cup {p}
      /\ UNCHANGED <<members, gidAliases, imGroupGuids, imGroupParticipants, groupPortalIndex,
                     senderGuid, roster, saves, had, heardIn, home, doubled, partial>>
  BY DEF CreateWantedRoom, memory, disk, routingHistory
<1>2. GroupType'
  BY <1>0, <1>1 DEF GroupType
<1>3. NamesInv' /\ ListsInv' /\ CommaInv'
  BY <1>0, <1>1 DEF RoomsInv, NamesInv, ListsInv, CommaInv, Heard
<1>4. GidInv' /\ HadInv' /\ RoomHoldsOneGroup'
  BY <1>0, <1>1 DEF RoomsInv, GidInv, HadInv, RoomHoldsOneGroup, Heard, gidID
<1>5. ASSUME NEW k \in Guids PROVE HomeOf(k)'
  BY <1>0, <1>1 DEF HomeOf, Alone, FoundByMembers, gidID
<1> QED BY <1>0, <1>1, <1>2, <1>3, <1>4, <1>5 DEF RoutingInv, RoomsInv, NoSecondRoom

LEMMA ChangeKeeps ==
    ASSUME RoutingInv, NEW x \in Groups, NEW l \in GroupSets, ChangeMembers(x, l)
    PROVE  RoutingInv'
<1>0. GroupType /\ RoomsInv /\ (\A k \in Guids : HomeOf(k)) /\ doubled = {}
  BY DEF RoutingInv, NoSecondRoom
<1>1. /\ members' = [members EXCEPT ![x] = l] /\ had' = [had EXCEPT ![x] = @ \cup {l}]
      /\ home' = [g \in Guids |-> IF GroupOf[g] = x THEN None ELSE home[g]]
      /\ UNCHANGED <<rooms, wanted, gidAliases, imGroupGuids, imGroupParticipants, groupPortalIndex,
                     senderGuid, roster, saves, heardIn, doubled, partial>>
  BY DEF ChangeMembers, memory, disk
<1>2. l \in Lists
  BY SizedLists
<1>3. /\ members' \in [Groups -> GroupSets] /\ members'[x] = l
      /\ \A y \in Groups \ {x} : members'[y] = members[y]
  BY <1>0, <1>1 DEF GroupType
<1>4. /\ had' \in [Groups -> SUBSET Lists] /\ had'[x] = had[x] \cup {l}
      /\ \A y \in Groups \ {x} : had'[y] = had[y]
  BY <1>0, <1>1, <1>2 DEF GroupType
<1>5. \A y \in Groups : had[y] \subseteq had'[y]
  BY <1>4
<1>6. GroupType'
  BY <1>0, <1>1, <1>3, <1>4 DEF GroupType
<1>7. NamesInv'
  <2>1. \A t \in saves : GroupOf[t[2]] \in Groups
    BY <1>0, PortalFacts DEF GroupType
  <2> QED BY <1>0, <1>1, <1>5, <2>1 DEF RoomsInv, NamesInv, Heard
<1>8. ListsInv'
  <2>1. \A p \in GroupPortals : heardIn[p] \subseteq Groups
    BY <1>0 DEF GroupType
  <2> SUFFICES ASSUME NEW p \in GroupPortals, p \notin partial,
                      NEW m \in {imGroupParticipants[p], roster[p]}, m # {}
               PROVE  \E w \in heardIn[p] : m \in had'[w]
    BY <1>1 DEF ListsInv
  <2>2. PICK w \in heardIn[p] : m \in had[w]
    BY <1>0 DEF RoomsInv, ListsInv
  <2> QED BY <1>5, <2>1, <2>2
<1>9. CommaInv'
  <2>1. \A p \in GroupPortals : heardIn[p] \subseteq Groups
    BY <1>0 DEF GroupType
  <2>2. \A p \in GroupPortals : ~IsGid(p) /\ p \notin partial => \A w \in heardIn[p] : p[2] \in had'[w]
    BY <1>0, <1>5, <2>1 DEF RoomsInv, CommaInv
  <2> QED BY <1>0, <1>1, <2>2 DEF RoomsInv, CommaInv
<1>10. GidInv'
  BY <1>0, <1>1 DEF RoomsInv, GidInv, Heard, gidID
<1>11. HadInv'
  BY <1>0, <1>3, <1>4 DEF RoomsInv, HadInv
<1>12. RoomHoldsOneGroup'
  <2> SUFFICES ASSUME NEW p \in GroupPortals, p \notin partial,
                      NEW part \in (SUBSET heardIn[p]) \ {{}, heardIn[p]}
               PROVE  \E v \in part, w \in heardIn[p] \ part : had'[v] \cap had'[w] # {}
    BY <1>1 DEF RoomHoldsOneGroup
  <2>1. PICK v \in part, w \in heardIn[p] \ part : had[v] \cap had[w] # {}
    BY <1>0 DEF RoomsInv, RoomHoldsOneGroup
  <2>2. v \in Groups /\ w \in Groups
    BY <1>0 DEF GroupType
  <2> QED BY <1>5, <2>1, <2>2
<1>13. ASSUME NEW k \in Guids PROVE HomeOf(k)'
  <2>1. CASE GroupOf[k] = x
    BY <1>1, <2>1 DEF HomeOf, Alone
  <2>2. CASE GroupOf[k] # x
    <3>1. /\ home'[k] = home[k] /\ members'[GroupOf[k]] = members[GroupOf[k]]
          /\ had'[GroupOf[k]] = had[GroupOf[k]]
      BY <1>1, <1>3, <1>4, <2>2, PortalFacts
    <3> QED BY <1>0, <1>1, <3>1 DEF HomeOf, Alone, FoundByMembers, gidID
  <2> QED BY <2>1, <2>2
<1> QED BY <1>0, <1>1, <1>6, <1>7, <1>8, <1>9, <1>10, <1>11, <1>12, <1>13
      DEF RoutingInv, RoomsInv, NoSecondRoom

LEMMA RoutingRestartKeeps ==
    ASSUME RoutingInv, RoutingRestart
    PROVE  RoutingInv'
<1>0. GroupType /\ RoomsInv /\ (\A k \in Guids : HomeOf(k)) /\ doubled = {}
  BY DEF RoutingInv, NoSecondRoom
<1>1. /\ gidAliases' = [g \in Guids |-> None]
      /\ imGroupGuids' = [p \in GroupPortals |-> IF p \in rooms THEN senderGuid[p] ELSE None]
      /\ imGroupParticipants' = [p \in GroupPortals |-> {}]
      /\ groupPortalIndex' = {p \in rooms : ~IsGid(p)}
      /\ saves' = {} /\ wanted' = {}
      /\ home' = [g \in Guids |->
             IF saves = {} /\ had[GroupOf[g]] = {members[GroupOf[g]]} THEN home[g] ELSE None]
      /\ UNCHANGED <<members, rooms, senderGuid, roster, had, heardIn, doubled, partial>>
  BY DEF RoutingRestart, disk
<1>2. GroupType'
  BY <1>0, <1>1 DEF GroupType, Lists
<1>3. NamesInv'
  BY <1>0, <1>1, PortalFacts DEF RoomsInv, NamesInv, Heard
<1>4. ListsInv'
  BY <1>0, <1>1 DEF RoomsInv, ListsInv
<1>5. CommaInv'
  BY <1>0, <1>1 DEF RoomsInv, CommaInv
<1>6. GidInv' /\ HadInv' /\ RoomHoldsOneGroup'
  BY <1>0, <1>1 DEF RoomsInv, GidInv, HadInv, RoomHoldsOneGroup, Heard, gidID
<1>7. ASSUME NEW k \in Guids PROVE HomeOf(k)'
  <2>1. CASE home'[k] = None
    BY <2>1 DEF HomeOf, Alone
  <2>2. CASE saves = {} /\ had[GroupOf[k]] = {members[GroupOf[k]]} /\ home'[k] = home[k]
    <3>1. home[k] # None => home[k] \in GroupPortals
      BY <1>0 DEF GroupType
    <3>2. HomeOf(k) /\ (Alone(k)' <=> Alone(k))
      BY <1>0, <1>1, <2>2 DEF Alone
    <3>3. Alone(k) /\ IsGid(home[k]) => roster[home[k]] = members[GroupOf[k]]
      BY <2>2, <3>2 DEF HomeOf
    <3>4. Alone(k) => FoundByMembers(k)'
      BY <1>1, <2>2, <3>3 DEF FoundByMembers
    <3>5. Alone(k) => imGroupParticipants'[home[k]] = {}
      BY <1>1, <3>1 DEF Alone
    <3> QED BY <1>1, <2>2, <3>2, <3>3, <3>4, <3>5 DEF HomeOf, gidID
  <2> QED BY <1>1, <2>1, <2>2
<1> QED BY <1>0, <1>1, <1>2, <1>3, <1>4, <1>5, <1>6, <1>7 DEF RoutingInv, RoomsInv, NoSecondRoom

LEMMA RoutingStep == RoutingInv /\ [RoutingNext]_routingVars => RoutingInv'
<1> SUFFICES ASSUME RoutingInv, [RoutingNext]_routingVars PROVE RoutingInv'
  OBVIOUS
<1>1. ASSUME NEW g \in Guids, NEW s, RouteMessage(g, s) PROVE RoutingInv'
  BY <1>1, MessageKeeps
<1>2. ASSUME NEW g \in Guids, NEW y, RouteTyping(g, y) PROVE RoutingInv'
  BY <1>2, TypingKeeps
<1>3. CASE \E s \in saves : SavePortal(s)
  BY <1>3, SaveKeeps
<1>4. CASE \E p \in wanted : CreateWantedRoom(p)
  BY <1>4, CreateKeeps
<1>5. CASE \E x \in Groups, s \in GroupSets : ChangeMembers(x, s)
  BY <1>5, ChangeKeeps
<1>6. CASE RoutingRestart
  BY <1>6, RoutingRestartKeeps
<1>7. CASE UNCHANGED routingVars
  BY <1>7 DEF routingVars, memory, disk, routingHistory, RoutingInv, GroupType, RoomsInv, NamesInv,
              ListsInv, CommaInv, GidInv, HadInv, RoomHoldsOneGroup, Heard, HomeOf, Alone, FoundByMembers,
              NoSecondRoom, gidID
<1> QED BY <1>1, <1>2, <1>3, <1>4, <1>5, <1>6, <1>7 DEF RoutingNext

\* The groups of a room hang together, and a group that has a room gets no
\* second one, whatever identifiers its members' clients send and whatever a
\* restart forgets (makePortalKey, resolveExistingGroupByGid).
THEOREM GroupsAndRooms == RoutingSpec => []OneRoomPerGroup
<1>1. RoutingInv => OneRoomPerGroup
  BY DEF RoutingInv, RoomsInv, OneRoomPerGroup
<1> QED BY <1>1, RoutingInitially, RoutingStep, PTL DEF RoutingSpec

=============================================================================
