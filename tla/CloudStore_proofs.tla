-------------------------- MODULE CloudStore_proofs --------------------------
(***************************************************************************)
(* The theorems of CloudStore, for any messages, chats, portals and cap.   *)
(* RowOK is what every statement keeps true of every message row: it says  *)
(* what a tombstone, a scrub flag and a rehydrate marker imply about the   *)
(* other columns.  ScrubInv is what the scrubber knows of the portals it   *)
(* holds, as long as it holds restorePipelinesMu.                          *)
(***************************************************************************)
EXTENDS CloudStore, TLAPS

\* The columns of one row fit together.
RowOK(r) ==
    /\ r.scrubbed => ~r.text
    /\ r.ts = "marker" => ~r.text
    /\ ~r.here => ~r.text
    /\ r.msgDeleted => r.here /\ r.deleted /\ r.scrubbed /\ ~r.text

RowsOK == \A g \in Guid : RowOK(msg[g])

\* What any statement may make of a row, and what any but a scrub may.
RowStep(r, s) ==
    /\ s \in MsgRow
    /\ RowOK(s)
    /\ r.msgDeleted => s.msgDeleted

KeepsText(r, s) == r.text /\ ~r.deleted => s.text \/ s.deleted

RowsStep == \A g \in Guid : RowStep(msg[g], msg'[g])

RowsKeepText == \A g \in Guid : KeepsText(msg[g], msg'[g])

-----------------------------------------------------------------------------
(* The statements of CloudRows on one row.                                 *)

LEMMA SameRow ==
    ASSUME NEW r \in MsgRow, RowOK(r)
    PROVE  RowStep(r, r) /\ KeepsText(r, r)
BY DEF RowStep, KeepsText

LEMMA NoMsgRow == NoMsg \in MsgRow /\ RowOK(NoMsg)
BY DEF NoMsg, MsgRow, RowOK

LEMMA UpsertRow ==
    ASSUME NEW r \in MsgRow, RowOK(r), NEW k \in AppleChat \cup {NoChat},
           NEW p \in Portal \cup {NoPortal}, NEW d \in BOOLEAN
    PROVE  RowStep(r, Upsert(r, k, p, d)) /\ KeepsText(r, Upsert(r, k, p, d))
BY DEF Upsert, RowStep, KeepsText, RowOK, MsgRow

LEMMA SoftDeleteRow ==
    ASSUME NEW r \in MsgRow, RowOK(r), r.here
    PROVE  RowStep(r, SoftDelete(r)) /\ KeepsText(r, SoftDelete(r))
BY DEF SoftDelete, RowStep, KeepsText, RowOK, MsgRow

LEMMA TombstoneRow ==
    ASSUME NEW r \in MsgRow, RowOK(r), NEW p \in Portal \cup {NoPortal}
    PROVE  RowStep(r, Tombstone(r, p)) /\ KeepsText(r, Tombstone(r, p))
BY DEF Tombstone, RowStep, KeepsText, RowOK, MsgRow

LEMMA UndeleteRow ==
    ASSUME NEW r \in MsgRow, RowOK(r), NEW p, Undeletable(r, p)
    PROVE  RowStep(r, Undelete(r)) /\ KeepsText(r, Undelete(r))
BY DEF Undelete, Undeletable, RowStep, KeepsText, RowOK, MsgRow

LEMMA ClearScrubRow ==
    ASSUME NEW r \in MsgRow, RowOK(r), NEW p, Clearable(r, p)
    PROVE  RowStep(r, ClearScrub(r)) /\ KeepsText(r, ClearScrub(r))
BY DEF ClearScrub, Clearable, RowStep, KeepsText, RowOK, MsgRow

LEMMA MarkClearedRow ==
    ASSUME NEW r \in MsgRow, RowOK(r), r.here, r.scrubbed, ~r.deleted
    PROVE  RowStep(r, MarkCleared(r)) /\ KeepsText(r, MarkCleared(r))
BY DEF MarkCleared, RowStep, KeepsText, RowOK, MsgRow

LEMMA RescrubRow ==
    ASSUME NEW r \in MsgRow, RowOK(r), NEW p, Rescrubbable(r, p)
    PROVE  RowStep(r, Rescrub(r)) /\ KeepsText(r, Rescrub(r))
BY DEF Rescrub, Rescrubbable, RowStep, KeepsText, RowOK, MsgRow

LEMMA ScrubRow ==
    ASSUME NEW r \in MsgRow, RowOK(r), r.here
    PROVE  RowStep(r, Scrub(r))
BY DEF Scrub, RowStep, RowOK, MsgRow

LEMMA SeedMessageRow ==
    ASSUME NEW r \in MsgRow, RowOK(r), NEW k \in AppleChat \cup {NoChat},
           NEW p \in Portal \cup {NoPortal}
    PROVE  RowStep(r, SeedMessage(r, k, p)) /\ KeepsText(r, SeedMessage(r, k, p))
BY DEF SeedMessage, NoMsg, RowStep, KeepsText, RowOK, MsgRow

LEMMA AgeRow ==
    ASSUME NEW r \in MsgRow, RowOK(r)
    PROVE  RowStep(r, [r EXCEPT !.ts = "old"]) /\ KeepsText(r, [r EXCEPT !.ts = "old"])
BY DEF RowStep, KeepsText, RowOK, MsgRow

-----------------------------------------------------------------------------
(* The statements on one chat row.                                         *)

LEMMA UpsertChatRow ==
    ASSUME NEW c \in ChatRow, NEW p \in Portal \cup {NoPortal}, NEW f \in BOOLEAN
    PROVE  UpsertChat(c, p, f) \in ChatRow
BY DEF UpsertChat, ChatRow

LEMMA SeedChatRow ==
    ASSUME NEW c \in ChatRow, NEW p \in Portal \cup {NoPortal}
    PROVE  SeedChat(c, p) \in ChatRow
BY DEF SeedChat, ChatRow

LEMMA SyntheticChatRow ==
    ASSUME NEW p \in Portal
    PROVE  SyntheticChat(p) \in ChatRow
BY DEF SyntheticChat, ChatRow

LEMMA ChatFlags ==
    ASSUME NEW c \in ChatRow
    PROVE  /\ [c EXCEPT !.deleted = TRUE] \in ChatRow
           /\ [c EXCEPT !.deleted = FALSE, !.done = FALSE] \in ChatRow
           /\ [c EXCEPT !.done = TRUE] \in ChatRow
           /\ [c EXCEPT !.recent = FALSE] \in ChatRow
BY DEF ChatRow

LEMMA UndeleteChatsType ==
    ASSUME NEW ct \in [ChatId -> ChatRow], NEW p
    PROVE  UndeleteChats(ct, p) \in [ChatId -> ChatRow]
BY ChatFlags DEF UndeleteChats

-----------------------------------------------------------------------------
(* What a step does to the message rows.                                   *)

\* The steps that null plaintext of rows that stay alive.
ScrubStep == ScrubBatch \/ TailUpdate

\* The other steps that write cloud_message.
MessageStep ==
    \/ \E g \in Guid : IngestDelete(g) \/ OrphanCleanup(g) \/ Age(g)
    \/ \E g \in Guid, p \in Portal \cup {NoPortal} : MessageDelete(g, p)
    \/ IngestCommit
    \/ \E p \in Portal :
          \/ DeleteMessageRows(p) \/ RestoreMessages(p) \/ RestoreClear(p)
          \/ RestoreRecycle(p) \/ RestoreFetch(p)
          \/ RehydrateClear(p) \/ RehydrateFetch(p) \/ RehydrateRescrub(p)

LEMMA StepKinds ==
    ASSUME [Next]_vars
    PROVE  ScrubStep \/ MessageStep \/ UNCHANGED msg
<1> USE DEF tables
<1>1. CASE UNCHANGED vars
  BY <1>1 DEF vars
<1>2. CASE Outside
  <2>1. ASSUME NEW k \in AppleChat, NEW p \in Portal, NEW f \in BOOLEAN, IngestChat(k, p, f)
        PROVE  UNCHANGED msg
    BY <2>1 DEF IngestChat
  <2>2. ASSUME NEW k \in AppleChat, IngestChatTombstone(k) PROVE UNCHANGED msg
    BY <2>2 DEF IngestChatTombstone
  <2>3. ASSUME NEW g \in Guid, IngestResolve(g) PROVE UNCHANGED msg
    BY <2>3 DEF IngestResolve
  <2>4. ASSUME NEW p \in Portal,
               \/ ChatDelete(p) \/ DeleteFails(p) \/ PruneTracked(p)
               \/ RestoreStart(p) \/ FwdRead(p) \/ FwdAborts(p)
        PROVE  UNCHANGED msg
    BY <2>4 DEF ChatDelete, DeleteFails, PruneTracked, RestoreStart, FwdRead, FwdAborts
  <2>5. ASSUME ScrubAborts \/ Restart PROVE UNCHANGED msg
    BY <2>5 DEF ScrubAborts, Restart
  <2> QED
    BY <1>2, <2>1, <2>2, <2>3, <2>4, <2>5 DEF Outside, MessageStep
<1>3. CASE Inside
  <2>1. ASSUME IngestGoesOn PROVE MessageStep \/ UNCHANGED msg
    BY <2>1 DEF IngestGoesOn, IngestConfirm, IngestUndelete, MessageStep
  <2>2. ASSUME NEW p \in Portal, DeleteGoesOn(p) PROVE MessageStep \/ UNCHANGED msg
    BY <2>2 DEF DeleteGoesOn, DeleteChatRows, RoomDelete, MessageStep
  <2>3. ASSUME NEW p \in Portal, RestoreGoesOn(p) PROVE MessageStep \/ UNCHANGED msg
    <3>1. ASSUME \/ RestoreChats(p) \/ RestoreCallFails(p) \/ RestoreCheck(p)
                 \/ RestoreFinish(p)
          PROVE  UNCHANGED msg
      BY <3>1 DEF RestoreChats, RestoreCallFails, RestoreCheck, RestoreFinish
    <3> QED
      BY <2>3, <3>1 DEF RestoreGoesOn, MessageStep
  <2>4. ASSUME NEW p \in Portal, FwdGoesOn(p) PROVE MessageStep \/ UNCHANGED msg
    <3>1. ASSUME FwdReread(p) \/ FwdDeliver(p) \/ FwdComplete(p)
          PROVE  UNCHANGED msg
      BY <3>1 DEF FwdReread, FwdDeliver, FwdComplete
    <3> QED
      BY <2>4, <3>1 DEF FwdGoesOn, MessageStep
  <2>5. ASSUME NEW g \in Guid, NEW p \in Portal, MessageRedact(g, p)
        PROVE  UNCHANGED msg
    BY <2>5 DEF MessageRedact
  <2>6. ASSUME ScrubScan \/ TailScan \/ ScrubGoesOn
        PROVE  ScrubStep \/ UNCHANGED msg
    BY <2>6 DEF ScrubScan, TailScan, ScrubGoesOn, ScrubLoad, TailThreshold, ScrubStep
  <2>7. ASSUME NEW k \in ChatId, HoldExpires(k) PROVE UNCHANGED msg
    BY <2>7 DEF HoldExpires
  <2> QED
    BY <1>3, <2>1, <2>2, <2>3, <2>4, <2>5, <2>6, <2>7 DEF Inside, MessageStep
<1> QED
  BY <1>1, <1>2, <1>3 DEF Next

\* A write of a row that is not a scrub keeps the row in shape, keeps a
\* tombstone and takes no plaintext from a row that stays alive.
LEMMA MessageRows ==
    ASSUME TypeOK, RowsOK, MessageStep
    PROVE  msg' \in [Guid -> MsgRow] /\ RowsStep /\ RowsKeepText
<1> DEFINE Goal == msg' \in [Guid -> MsgRow] /\ RowsStep /\ RowsKeepText
<1>t. msg \in [Guid -> MsgRow] /\ ingest \in Ingest /\ chat \in [ChatId -> ChatRow]
  BY DEF TypeOK
<1>s. \A g \in Guid : SourceOf[g] \in AppleChat \cup {NoChat}
  BY StoreAssumption
<1>a. \A g \in Guid : /\ msg[g] \in MsgRow /\ RowOK(msg[g])
                      /\ RowStep(msg[g], msg[g]) /\ KeepsText(msg[g], msg[g])
  BY <1>t, SameRow DEF RowsOK
\* It suffices to look at each row.
<1>b. ASSUME NEW f, msg' = [g \in Guid |-> f[g]],
             \A g \in Guid : RowStep(msg[g], f[g]) /\ KeepsText(msg[g], f[g])
      PROVE  Goal
  BY <1>b DEF RowStep, RowsStep, RowsKeepText
<1>1. ASSUME NEW g \in Guid, IngestDelete(g) PROVE Goal
  <2>1. RowStep(msg[g], SoftDelete(msg[g])) /\ KeepsText(msg[g], SoftDelete(msg[g]))
    BY <1>1, <1>a, SoftDeleteRow DEF IngestDelete
  <2> QED
    BY <1>1, <1>a, <1>t, <2>1 DEF IngestDelete, RowStep, RowsStep, RowsKeepText
<1>2. ASSUME NEW g \in Guid, OrphanCleanup(g) PROVE Goal
  <2>1. RowStep(msg[g], NoMsg) /\ KeepsText(msg[g], NoMsg)
    BY <1>2, <1>a, NoMsgRow DEF OrphanCleanup, RowStep, KeepsText
  <2> QED
    BY <1>2, <1>a, <1>t, <2>1 DEF OrphanCleanup, RowStep, RowsStep, RowsKeepText
<1>3. ASSUME NEW g \in Guid, Age(g) PROVE Goal
  <2>1. /\ RowStep(msg[g], [msg[g] EXCEPT !.ts = "old"])
        /\ KeepsText(msg[g], [msg[g] EXCEPT !.ts = "old"])
    BY <1>a, AgeRow
  <2> QED
    BY <1>3, <1>a, <1>t, <2>1 DEF Age, RowStep, RowsStep, RowsKeepText
<1>4. ASSUME NEW g \in Guid, NEW p \in Portal \cup {NoPortal}, MessageDelete(g, p)
      PROVE  Goal
  <2>1. RowStep(msg[g], Tombstone(msg[g], p)) /\ KeepsText(msg[g], Tombstone(msg[g], p))
    BY <1>a, TombstoneRow
  <2> QED
    BY <1>4, <1>a, <1>t, <2>1 DEF MessageDelete, RowStep, RowsStep, RowsKeepText
<1>5. ASSUME IngestCommit PROVE Goal
  <2> DEFINE f == [g \in Guid |-> IF g \in ingest.guids
                    THEN Upsert(msg[g], SourceOf[g], ingest.portal, ingest.deleted)
                    ELSE msg[g]]
  <2>1. CASE msg' = f
    <3>1. ingest.portal \in Portal \cup {NoPortal} /\ ingest.deleted \in BOOLEAN
      BY <1>t DEF Ingest
    <3>2. \A g \in Guid : RowStep(msg[g], f[g]) /\ KeepsText(msg[g], f[g])
      BY <1>a, <1>s, <3>1, UpsertRow
    <3> QED
      BY <2>1, <3>2, <1>b
  <2>2. CASE UNCHANGED msg
    BY <2>2, <1>a, <1>t DEF RowsStep, RowsKeepText
  <2> QED
    BY <1>5, <2>1, <2>2 DEF IngestCommit
<1>6. ASSUME NEW p \in Portal, DeleteMessageRows(p) PROVE Goal
  <2> DEFINE f == [g \in Guid |->
                     IF msg[g].here /\ msg[g].portal = p /\ ~msg[g].deleted
                     THEN SoftDelete(msg[g]) ELSE msg[g]]
  <2>1. \A g \in Guid : RowStep(msg[g], f[g]) /\ KeepsText(msg[g], f[g])
    BY <1>a, SoftDeleteRow
  <2>2. msg' = f
    BY <1>6 DEF DeleteMessageRows
  <2> QED
    BY <2>1, <2>2, <1>b
<1>7. ASSUME NEW p \in Portal, RestoreMessages(p) PROVE Goal
  <2> DEFINE f == [g \in Guid |-> IF Undeletable(msg[g], p) THEN Undelete(msg[g]) ELSE msg[g]]
  <2>1. \A g \in Guid : RowStep(msg[g], f[g]) /\ KeepsText(msg[g], f[g])
    BY <1>a, UndeleteRow
  <2>2. msg' = f
    BY <1>7 DEF RestoreMessages
  <2> QED
    BY <2>1, <2>2, <1>b
<1>8. ASSUME NEW p \in Portal, RestoreClear(p) PROVE Goal
  <2> DEFINE f == [g \in Guid |-> IF Clearable(msg[g], p) THEN ClearScrub(msg[g]) ELSE msg[g]]
  <2>1. \A g \in Guid : RowStep(msg[g], f[g]) /\ KeepsText(msg[g], f[g])
    BY <1>a, ClearScrubRow
  <2>2. msg' = f
    BY <1>8 DEF RestoreClear
  <2> QED
    BY <2>1, <2>2, <1>b
<1>9. ASSUME NEW p \in Portal, RestoreRecycle(p) PROVE Goal
  <2>1. PICK listed \in SUBSET Guid :
               LET revived == {g \in listed : Undeletable(msg[g], p)}
                   seeded == {g \in listed : revived = {} /\ Resolve(g) = p}
               IN  msg' = [g \in Guid |->
                        IF g \in revived THEN Undelete(msg[g])
                        ELSE IF g \in seeded THEN SeedMessage(msg[g], SourceOf[g], p)
                        ELSE msg[g]]
    BY <1>9 DEF RestoreRecycle
  <2> DEFINE revived == {g \in listed : Undeletable(msg[g], p)}
             seeded == {g \in listed : revived = {} /\ Resolve(g) = p}
             f == [g \in Guid |->
                        IF g \in revived THEN Undelete(msg[g])
                        ELSE IF g \in seeded THEN SeedMessage(msg[g], SourceOf[g], p)
                        ELSE msg[g]]
  <2>2. \A g \in Guid : g \in revived => Undeletable(msg[g], p)
    OBVIOUS
  <2> HIDE DEF revived, seeded
  <2>3. \A g \in Guid : RowStep(msg[g], f[g]) /\ KeepsText(msg[g], f[g])
    BY <1>a, <1>s, <2>2, UndeleteRow, SeedMessageRow
  <2> QED
    BY <2>1, <2>3, <1>b DEF revived, seeded
<1>f. ASSUME NEW p \in Portal, NEW found, msg' = FetchRecovered(found, p) PROVE Goal
  <2> DEFINE f == [g \in Guid |-> IF g \in found
                                  THEN Upsert(msg[g], SourceOf[g], p, FALSE) ELSE msg[g]]
  <2>1. \A g \in Guid : RowStep(msg[g], f[g]) /\ KeepsText(msg[g], f[g])
    BY <1>a, <1>s, UpsertRow
  <2> QED
    BY <1>f, <2>1, <1>b DEF FetchRecovered
<1>10. ASSUME NEW p \in Portal, RestoreFetch(p) PROVE Goal
  BY <1>10, <1>f DEF RestoreFetch
<1>11. ASSUME NEW p \in Portal, RehydrateClear(p) PROVE Goal
  <2> DEFINE cleared == {g \in Guid : /\ msg[g].here /\ msg[g].portal = p
                                      /\ msg[g].scrubbed /\ ~msg[g].deleted
                                      /\ Readable(chat, msg[g])}
             f == [g \in Guid |-> IF g \in cleared THEN MarkCleared(msg[g]) ELSE msg[g]]
  <2>1. msg' = f
    BY <1>11 DEF RehydrateClear
  <2>2. \A g \in cleared : msg[g].here /\ msg[g].scrubbed /\ ~msg[g].deleted
    OBVIOUS
  <2> HIDE DEF cleared
  <2>3. \A g \in Guid : RowStep(msg[g], f[g]) /\ KeepsText(msg[g], f[g])
    BY <1>a, <2>2, MarkClearedRow
  <2> QED
    BY <2>1, <2>3, <1>b
<1>12. ASSUME NEW p \in Portal, RehydrateFetch(p) PROVE Goal
  BY <1>12, <1>f DEF RehydrateFetch
<1>13. ASSUME NEW p \in Portal, RehydrateRescrub(p) PROVE Goal
  <2> DEFINE f == [g \in Guid |->
                    IF g \in fwd[p].cleared /\ Rescrubbable(msg[g], p)
                    THEN Rescrub(msg[g]) ELSE msg[g]]
  <2>1. \A g \in Guid : RowStep(msg[g], f[g]) /\ KeepsText(msg[g], f[g])
    BY <1>a, RescrubRow
  <2>2. CASE msg' = f
    BY <2>1, <2>2, <1>b
  <2>3. CASE UNCHANGED msg
    BY <2>3, <1>a, <1>t DEF RowsStep, RowsKeepText
  <2> QED
    BY <1>13, <2>2, <2>3 DEF RehydrateRescrub
<1> QED
  BY <1>1, <1>2, <1>3, <1>4, <1>5, <1>6, <1>7, <1>8, <1>9, <1>10, <1>11, <1>12, <1>13
     DEF MessageStep

LEMMA ScrubRows ==
    ASSUME TypeOK, RowsOK, ScrubStep
    PROVE  msg' \in [Guid -> MsgRow] /\ RowsStep
<1>a. \A g \in Guid : /\ msg[g] \in MsgRow /\ RowOK(msg[g])
                      /\ RowStep(msg[g], msg[g])
                      /\ msg[g].here => RowStep(msg[g], Scrub(msg[g]))
  BY SameRow, ScrubRow DEF TypeOK, RowsOK
<1>1. CASE ScrubBatch
  <2>1. PICK chunk \in SUBSET pass.cands :
               msg' = [g \in Guid |->
                        IF \E c \in chunk : c.guid = g /\ StillEligible(c)
                        THEN Scrub(msg[g]) ELSE msg[g]]
    BY <1>1 DEF ScrubBatch
  <2>2. \A g \in Guid : (\E c \in chunk : c.guid = g /\ StillEligible(c)) => msg[g].here
    BY DEF StillEligible, Aged
  <2> QED
    BY <1>a, <2>1, <2>2 DEF RowStep, RowsStep
<1>2. CASE TailUpdate
  <2>1. \A g \in Guid : TailRow(g) => msg[g].here
    BY DEF TailRow, Aged
  <2>2. msg' = [g \in Guid |-> IF TailRow(g) THEN Scrub(msg[g]) ELSE msg[g]]
    BY <1>2 DEF TailUpdate
  <2> QED
    BY <1>a, <2>1, <2>2 DEF RowStep, RowsStep
<1> QED
  BY <1>1, <1>2 DEF ScrubStep

\* RowOK is inductive: every step keeps the rows in shape and the tombstones.
LEMMA AnyStepRows ==
    ASSUME TypeOK, RowsOK, [Next]_vars
    PROVE  msg' \in [Guid -> MsgRow] /\ RowsStep /\ RowsOK'
<1>1. CASE UNCHANGED msg
  <2>1. \A g \in Guid : msg[g] \in MsgRow /\ RowOK(msg[g]) /\ RowStep(msg[g], msg[g])
    BY SameRow DEF TypeOK, RowsOK
  <2> QED
    BY <1>1, <2>1 DEF RowsStep, RowsOK, TypeOK
<1>2. CASE MessageStep \/ ScrubStep
  <2>1. msg' \in [Guid -> MsgRow] /\ RowsStep
    BY <1>2, MessageRows, ScrubRows
  <2> QED
    BY <2>1 DEF RowsStep, RowStep, RowsOK
<1> QED
  BY <1>1, <1>2, StepKinds

-----------------------------------------------------------------------------
(* Type correctness.                                                       *)

LEMMA IdleTypes ==
    /\ IngestIdle \in Ingest /\ NotDeleting \in Deleting /\ FwdIdle \in Fwd
    /\ PassIdle \in Pass /\ TailIdle \in Tail
BY DEF IngestIdle, Ingest, NotDeleting, Deleting, FwdIdle, Fwd, PassIdle, Pass,
       TailIdle, Tail

LEMMA InitType == Init => TypeOK /\ RowsOK
<1> SUFFICES ASSUME Init PROVE TypeOK /\ RowsOK
  OBVIOUS
<1>1. NoChatRow \in ChatRow
  BY DEF NoChatRow, ChatRow
<1>2. msg \in [Guid -> MsgRow] /\ RowsOK /\ chat \in [ChatId -> ChatRow]
  BY <1>1, NoMsgRow DEF Init, RowsOK
<1> QED
  BY <1>2, IdleTypes DEF Init, TypeOK

LEMMA ResolveType ==
    ASSUME TypeOK, NEW g \in Guid
    PROVE  Resolve(g) \in Portal \cup {NoPortal}
<1>1. chat[SourceOf[g]].portal \in Portal \cup {NoPortal} \/ SourceOf[g] = NoChat
  <2>1. SourceOf[g] = NoChat \/ SourceOf[g] \in ChatId
    BY StoreAssumption DEF ChatId
  <2> QED
    BY <2>1 DEF TypeOK, ChatRow
<1> QED
  BY <1>1, StoreAssumption DEF Resolve

LEMMA TypeStep ==
    ASSUME TypeOK, RowsOK, [Next]_vars
    PROVE  TypeOK'
<1>m. msg' \in [Guid -> MsgRow]
  BY AnyStepRows
<1>k. AppleChat \subseteq ChatId /\ \A p \in Portal : <<"synthetic", p>> \in ChatId
  BY DEF ChatId
<1> USE <1>m, <1>k, IdleTypes DEF TypeOK, tables
<1>1. ASSUME NEW k \in AppleChat, NEW p \in Portal, NEW f \in BOOLEAN, IngestChat(k, p, f) PROVE TypeOK'
  <2>1. chat[k] \in ChatRow
    OBVIOUS
  <2>2. UpsertChat(chat[k], p, f) \in ChatRow
    BY <2>1, UpsertChatRow
  <2>3. [IngestIdle EXCEPT !.pc = "confirm", !.portal = p] \in Ingest
    BY DEF IngestIdle, Ingest
  <2> QED
    BY <1>1, <2>2, <2>3 DEF IngestChat
<1>2. ASSUME IngestConfirm PROVE TypeOK'
  <2>1. [ingest EXCEPT !.pc = "undelete"] \in Ingest
    BY DEF Ingest
  <2> QED
    BY <1>2, <2>1 DEF IngestConfirm
<1>3. ASSUME IngestUndelete PROVE TypeOK'
  BY <1>3, UndeleteChatsType DEF IngestUndelete
<1>4. ASSUME NEW k \in AppleChat, IngestChatTombstone(k) PROVE TypeOK'
  <2>1. [chat[k] EXCEPT !.deleted = TRUE] \in ChatRow
    BY ChatFlags
  <2>2. [pc |-> "chats", by |-> "cloudkit"] \in Deleting
    BY DEF Deleting
  <2> QED
    BY <1>4, <2>1, <2>2 DEF IngestChatTombstone
<1>5. ASSUME NEW g \in Guid, IngestDelete(g) PROVE TypeOK'
  BY <1>5 DEF IngestDelete
<1>6. ASSUME NEW g \in Guid, IngestResolve(g) PROVE TypeOK'
  <2>1. [pc |-> "message", guids |-> {g}, portal |-> Resolve(g),
         deleted |-> tracked[Resolve(g)] # "no"] \in Ingest
    BY ResolveType DEF Ingest
  <2> QED
    BY <1>6, <2>1 DEF IngestResolve
<1>7. ASSUME IngestCommit PROVE TypeOK'
  BY <1>7 DEF IngestCommit
<1>8. ASSUME NEW g \in Guid, NEW p \in Portal \cup {NoPortal}, MessageDelete(g, p) PROVE TypeOK'
  BY <1>8 DEF MessageDelete
<1>9. ASSUME NEW g \in Guid, NEW p \in Portal, MessageRedact(g, p) PROVE TypeOK'
  BY <1>9 DEF MessageRedact
<1>10. ASSUME NEW p \in Portal, ChatDelete(p) PROVE TypeOK'
  <2>1. [pc |-> "chats", by |-> "apple"] \in Deleting
    BY DEF Deleting
  <2> QED
    BY <1>10, <2>1 DEF ChatDelete
<1>11. ASSUME NEW p \in Portal, DeleteChatRows(p) PROVE TypeOK'
  <2>1. [deleting[p] EXCEPT !.pc = "messages"] \in Deleting
    BY DEF Deleting
  <2>2. chat' \in [ChatId -> ChatRow]
    BY <1>11, ChatFlags DEF DeleteChatRows
  <2> QED
    BY <1>11, <2>1, <2>2 DEF DeleteChatRows
<1>12. ASSUME NEW p \in Portal, DeleteMessageRows(p) PROVE TypeOK'
  BY <1>12 DEF DeleteMessageRows
<1>13. ASSUME NEW p \in Portal, DeleteFails(p) PROVE TypeOK'
  BY <1>13 DEF DeleteFails
<1>14. ASSUME NEW p \in Portal, RoomDelete(p) PROVE TypeOK'
  BY <1>14 DEF RoomDelete
<1>15. ASSUME NEW p \in Portal, PruneTracked(p) PROVE TypeOK'
  BY <1>15 DEF PruneTracked
<1>16. ASSUME NEW p \in Portal, RestoreStart(p) PROVE TypeOK'
  BY <1>16 DEF RestoreStart
<1>17. ASSUME NEW p \in Portal, RestoreChats(p) PROVE TypeOK'
  <2>1. PICK seeds : chat' = UndeleteChats(
             [k \in ChatId |-> IF k \in seeds THEN SeedChat(chat[k], p) ELSE chat[k]], p)
    BY <1>17 DEF RestoreChats
  <2>2. [k \in ChatId |-> IF k \in seeds THEN SeedChat(chat[k], p) ELSE chat[k]]
           \in [ChatId -> ChatRow]
    BY SeedChatRow
  <2>3. chat' \in [ChatId -> ChatRow]
    BY <2>1, <2>2, UndeleteChatsType
  <2> QED
    BY <1>17, <2>3 DEF RestoreChats
<1>18. ASSUME NEW p \in Portal, RestoreMessages(p) PROVE TypeOK'
  <2>1. chat' \in [ChatId -> ChatRow]
    BY <1>18, ChatFlags DEF RestoreMessages
  <2> QED
    BY <1>18, <2>1 DEF RestoreMessages
<1>19. ASSUME NEW p \in Portal, RestoreClear(p) PROVE TypeOK'
  BY <1>19 DEF RestoreClear
<1>20. ASSUME NEW p \in Portal, RestoreCallFails(p) PROVE TypeOK'
  BY <1>20 DEF RestoreCallFails
<1>c. ASSUME NEW p \in Portal, RestoreCheck(p) PROVE TypeOK'
  BY <1>c DEF RestoreCheck, HasContentfulMessages
<1>21. ASSUME NEW p \in Portal, RestoreRecycle(p) PROVE TypeOK'
  BY <1>21 DEF RestoreRecycle
<1>22. ASSUME NEW p \in Portal, RestoreFetch(p) PROVE TypeOK'
  BY <1>22 DEF RestoreFetch
<1>23. ASSUME NEW p \in Portal, RestoreFinish(p) PROVE TypeOK'
  BY <1>23 DEF RestoreFinish
<1>24. ASSUME NEW p \in Portal, FwdRead(p) PROVE TypeOK'
  <2>1. Convertible(p) \subseteq Guid
    BY DEF Convertible, ForwardRows
  <2>2. /\ [FwdIdle EXCEPT !.pc = "deliver", !.batch = Convertible(p)] \in Fwd
        /\ [fwd[p] EXCEPT !.pc = "clear"] \in Fwd
        /\ [fwd[p] EXCEPT !.pc = "complete"] \in Fwd
    BY <2>1 DEF Fwd, FwdIdle
  <2>3. fwd' \in [Portal -> Fwd]
    BY <1>24, <2>2 DEF FwdRead, FwdGoTo
  <2> QED
    BY <1>24, <2>3 DEF FwdRead
<1>25. ASSUME NEW p \in Portal, RehydrateClear(p) PROVE TypeOK'
  <2> DEFINE cleared == {g \in Guid : /\ msg[g].here /\ msg[g].portal = p
                                      /\ msg[g].scrubbed /\ ~msg[g].deleted
                                      /\ Readable(chat, msg[g])}
  <2>1. [fwd[p] EXCEPT !.pc = "refetch", !.cleared = cleared] \in Fwd
    BY DEF Fwd
  <2>2. fwd' \in [Portal -> Fwd]
    BY <1>25, <2>1 DEF RehydrateClear
  <2> QED
    BY <1>25, <2>2 DEF RehydrateClear
<1>26. ASSUME NEW p \in Portal, RehydrateFetch(p) PROVE TypeOK'
  <2>1. PICK found \in SUBSET Recoverable(p) :
           fwd' = [fwd EXCEPT ![p].pc = "rescrub", ![p].batch = found]
    BY <1>26 DEF RehydrateFetch
  <2>2. [fwd[p] EXCEPT !.pc = "rescrub", !.batch = found] \in Fwd
    BY DEF Fwd, Recoverable
  <2>3. fwd' \in [Portal -> Fwd]
    BY <2>1, <2>2
  <2> QED
    BY <1>26, <2>3 DEF RehydrateFetch
<1>27. ASSUME NEW p \in Portal, RehydrateRescrub(p) PROVE TypeOK'
  <2>1. /\ [FwdIdle EXCEPT !.pc = "complete"] \in Fwd
        /\ [FwdIdle EXCEPT !.pc = "reread"] \in Fwd
    BY DEF Fwd, FwdIdle
  <2>2. fwd' \in [Portal -> Fwd]
    BY <1>27, <2>1 DEF RehydrateRescrub
  <2> QED
    BY <1>27, <2>2 DEF RehydrateRescrub
<1>28. ASSUME NEW p \in Portal, FwdReread(p) PROVE TypeOK'
  <2>1. Convertible(p) \subseteq Guid
    BY DEF Convertible, ForwardRows
  <2>2. /\ [fwd[p] EXCEPT !.batch = Convertible(p), !.pc = "deliver"] \in Fwd
        /\ [fwd[p] EXCEPT !.batch = Convertible(p), !.pc = "complete"] \in Fwd
    BY <2>1 DEF Fwd
  <2>3. fwd' \in [Portal -> Fwd]
    BY <1>28, <2>2 DEF FwdReread
  <2> QED
    BY <1>28, <2>3 DEF FwdReread
<1>29. ASSUME NEW p \in Portal, FwdDeliver(p) PROVE TypeOK'
  <2>1. [FwdIdle EXCEPT !.pc = "complete"] \in Fwd
    BY DEF Fwd, FwdIdle
  <2>2. fwd[p].batch \subseteq Guid
    BY DEF Fwd
  <2> QED
    BY <1>29, <2>1, <2>2 DEF FwdDeliver
<1>30. ASSUME NEW p \in Portal, FwdComplete(p) PROVE TypeOK'
  <2>1. chat' \in [ChatId -> ChatRow]
    BY <1>30, ChatFlags, SyntheticChatRow DEF FwdComplete
  <2> QED
    BY <1>30, <2>1 DEF FwdComplete
<1>31. ASSUME NEW p \in Portal, FwdAborts(p) PROVE TypeOK'
  BY <1>31 DEF FwdAborts
<1>32. ASSUME ScrubScan PROVE TypeOK'
  <2>1. ScrubCandidates \subseteq Candidate
    <3>1. ASSUME NEW g \in Guid
          PROVE  [guid |-> g, portal |-> msg[g].portal, force |-> ForceScrub(msg[g])]
                    \in Candidate
      <4>1. msg[g].portal \in Portal \cup {NoPortal} /\ msg[g].deleted \in BOOLEAN
        BY DEF MsgRow
      <4>2. ForceScrub(msg[g]) \in BOOLEAN
        BY DEF ForceScrub, PermanentlyFiltered
      <4> QED
        BY <4>1, <4>2 DEF Candidate
    <3> QED
      BY <3>1 DEF ScrubCandidates
  <2>2. [pc |-> "load", excl |-> Restoring, cands |-> ScrubCandidates, seen |-> {}] \in Pass
    BY <2>1 DEF Pass, Restoring
  <2> QED
    BY <1>32, <2>2 DEF ScrubScan
<1>33. ASSUME ScrubLoad PROVE TypeOK'
  <2>1. pass' \in Pass
    BY <1>33 DEF ScrubLoad, Pass
  <2> QED
    BY <1>33, <2>1 DEF ScrubLoad
<1>34. ASSUME ScrubBatch PROVE TypeOK'
  <2>1. \A chunk : [pass EXCEPT !.cands = @ \ chunk] \in Pass
    BY DEF Pass
  <2>2. pass' \in Pass
    BY <1>34, <2>1, SMTT(30) DEF ScrubBatch
  <2> QED
    BY <1>34, <2>2 DEF ScrubBatch
<1>35. ASSUME ScrubAborts PROVE TypeOK'
  BY <1>35 DEF ScrubAborts
<1>36. ASSUME TailScan PROVE TypeOK'
  <2>1. [TailIdle EXCEPT !.pc = "portals", !.todo = TailPortals] \in Tail
    BY DEF TailIdle, Tail, TailPortals
  <2> QED
    BY <1>36, <2>1 DEF TailScan
<1>37. ASSUME NEW p \in Portal, TailThreshold(p) PROVE TypeOK'
  <2> DEFINE listed == {g \in Guid : Listed(chat, msg[g], p)}
             capth == {g \in listed :
                         Cardinality({h \in listed : Sent[h] > Sent[g]}) = Cap - 1}
             floor == IF capth # {} THEN Sent[CHOOSE g \in capth : TRUE] ELSE 0
  <2>1. floor \in Int
    <3>1. capth \subseteq Guid
      OBVIOUS
    <3> HIDE DEF capth
    <3> QED
      BY <3>1, StoreAssumption
  <2>2. tail' = [tail EXCEPT
                !.todo = @ \ {p},
                !.pc = IF capth # {} THEN "update"
                       ELSE IF tail.todo = {p} THEN "idle" ELSE "portals",
                !.at = IF capth # {} THEN p ELSE NoPortal,
                !.floor = floor]
    BY <1>37 DEF TailThreshold
  <2> HIDE DEF capth, floor
  <2>3. tail' \in Tail
    BY <2>1, <2>2 DEF Tail
  <2> QED
    BY <1>37, <2>3 DEF TailThreshold
<1>38. ASSUME TailUpdate PROVE TypeOK'
  <2>1. [tail EXCEPT !.pc = "portals", !.at = NoPortal, !.floor = 0] \in Tail
    <3>1. tail \in Tail /\ 0 \in Int
      OBVIOUS
    <3> QED
      BY ONLY <3>1 DEF Tail
  <2> QED
    BY <1>38, <2>1 DEF TailUpdate
<1>39. ASSUME NEW g \in Guid, OrphanCleanup(g) PROVE TypeOK'
  BY <1>39 DEF OrphanCleanup
<1>40. ASSUME NEW g \in Guid, Age(g) PROVE TypeOK'
  BY <1>40 DEF Age
<1>41. ASSUME NEW k \in ChatId, HoldExpires(k) PROVE TypeOK'
  <2>1. [chat[k] EXCEPT !.recent = FALSE] \in ChatRow
    BY ChatFlags
  <2> QED
    BY <1>41, <2>1 DEF HoldExpires
<1>42. ASSUME Restart PROVE TypeOK'
  BY <1>42 DEF Restart
<1>43. CASE UNCHANGED vars
  BY <1>43 DEF vars
<1> QED
  BY <1>1, <1>2, <1>3, <1>4, <1>5, <1>6, <1>7, <1>8, <1>9, <1>10, <1>11,
     <1>12, <1>13, <1>14, <1>15, <1>16, <1>17, <1>18, <1>19, <1>20, <1>21,
     <1>22, <1>23, <1>24, <1>25, <1>26, <1>27, <1>28, <1>29, <1>30, <1>31,
     <1>32, <1>33, <1>34, <1>35, <1>36, <1>37, <1>38, <1>39, <1>40, <1>41,
     <1>42, <1>43, <1>c DEF Next, Outside, Inside, IngestGoesOn, DeleteGoesOn,
     RestoreGoesOn, FwdGoesOn, ScrubGoesOn

LEMMA RowInvariance == Spec => [](TypeOK /\ RowsOK)
<1>1. TypeOK /\ RowsOK /\ [Next]_vars => (TypeOK /\ RowsOK)'
  BY AnyStepRows, TypeStep
<1> QED
  BY <1>1, InitType, PTL DEF Spec

\* Every behaviour of the store and its actors is type-correct: no handler
\* leaves a pipeline, a pass or a row in a state another does not know.
THEOREM TypeCorrect == Spec => []TypeOK
BY RowInvariance, PTL

\* body_scrubbed implies that the plaintext is gone, for any number of
\* messages, restores, rehydrates and scrub passes in any interleaving.
THEOREM ScrubbedRowsAreEmpty == Spec => []ScrubbedIsEmpty
<1>1. TypeOK /\ RowsOK => ScrubbedIsEmpty
  BY DEF RowsOK, RowOK, ScrubbedIsEmpty
<1> QED
  BY <1>1, RowInvariance, PTL

\* The tombstone of a message deleted on its own is never dropped, and its
\* plaintext never comes back, whatever is restored, recovered, upserted,
\* rehydrated or cleaned up around it.
THEOREM TombstonesAreDurable == Spec => TombstoneDurable
<1>1. TypeOK /\ RowsOK /\ [Next]_vars =>
        [\A g \in Guid : msg[g].msgDeleted =>
            msg'[g].msgDeleted /\ msg'[g].deleted /\ ~msg'[g].text]_vars
  <2> SUFFICES ASSUME TypeOK, RowsOK, [Next]_vars, NEW g \in Guid, msg[g].msgDeleted
               PROVE  msg'[g].msgDeleted /\ msg'[g].deleted /\ ~msg'[g].text
    OBVIOUS
  <2>1. RowStep(msg[g], msg'[g])
    BY AnyStepRows DEF RowsStep
  <2> QED
    BY <2>1 DEF RowStep, RowOK
<1> QED
  BY <1>1, RowInvariance, PTL DEF Spec, TombstoneDurable

-----------------------------------------------------------------------------
(* The scrubber and the restore pipelines.                                 *)

\* A pass works on portals no pipeline restores, from its first query to its
\* last UPDATE.
ScrubInv ==
    /\ pass.pc = "idle" => pass.cands = {}
    /\ tail.pc = "idle" => tail.todo = {} /\ tail.at = NoPortal
    /\ \A c \in pass.cands : c.portal \notin Restoring
    /\ tail.todo \cap Restoring = {}
    /\ tail.at \notin Restoring

\* The step changes neither the set of restoring portals nor a pass.
LeavesScrubber == Restoring' = Restoring /\ UNCHANGED <<pass, tail>>

ScrubberStep ==
    \/ \E p \in Portal : RestoreStart(p) \/ RestoreFinish(p) \/ TailThreshold(p)
    \/ ScrubScan \/ TailScan \/ ScrubLoad \/ ScrubBatch \/ TailUpdate
    \/ ScrubAborts \/ Restart

LEMMA ScrubberSteps ==
    ASSUME TypeOK, [Next]_vars
    PROVE  ScrubberStep \/ LeavesScrubber
<1>a. ASSUME UNCHANGED <<restore, pass, tail>> PROVE LeavesScrubber
  BY <1>a DEF LeavesScrubber, Restoring
<1>1. CASE UNCHANGED vars
  BY <1>1, <1>a DEF vars
<1>2. CASE Outside
  <2>1. ASSUME NEW k \in AppleChat, NEW p \in Portal, NEW f \in BOOLEAN, IngestChat(k, p, f)
        PROVE  LeavesScrubber
    BY <2>1, <1>a DEF IngestChat
  <2>2. ASSUME NEW k \in AppleChat, IngestChatTombstone(k) PROVE LeavesScrubber
    BY <2>2, <1>a DEF IngestChatTombstone
  <2>3. ASSUME NEW g \in Guid, IngestDelete(g) \/ IngestResolve(g) PROVE LeavesScrubber
    BY <2>3, <1>a DEF IngestDelete, IngestResolve
  <2>4. ASSUME NEW g \in Guid, NEW p \in Portal \cup {NoPortal}, MessageDelete(g, p)
        PROVE  LeavesScrubber
    BY <2>4, <1>a DEF MessageDelete
  <2>5. ASSUME NEW p \in Portal,
               \/ ChatDelete(p) \/ DeleteFails(p) \/ PruneTracked(p)
               \/ FwdRead(p) \/ FwdAborts(p)
        PROVE  LeavesScrubber
    BY <2>5, <1>a DEF ChatDelete, DeleteFails, PruneTracked, FwdRead, FwdAborts
  <2> QED
    BY <1>2, <2>1, <2>2, <2>3, <2>4, <2>5 DEF Outside, ScrubberStep
<1>3. CASE Inside
  <2>1. ASSUME IngestGoesOn PROVE LeavesScrubber
    BY <2>1, <1>a DEF IngestGoesOn, IngestConfirm, IngestUndelete, IngestCommit
  <2>2. ASSUME NEW p \in Portal, DeleteGoesOn(p) PROVE LeavesScrubber
    BY <2>2, <1>a DEF DeleteGoesOn, DeleteChatRows, DeleteMessageRows, RoomDelete
  <2>3. ASSUME NEW p \in Portal, RestoreGoesOn(p) PROVE ScrubberStep \/ LeavesScrubber
    <3>1. ASSUME NEW s, s # "off", restore[p] # "off",
                 restore' = [restore EXCEPT ![p] = s], UNCHANGED <<pass, tail>>
          PROVE  LeavesScrubber
      <4>1. \A q \in Portal : restore'[q] # "off" <=> restore[q] # "off"
        BY <3>1 DEF TypeOK
      <4> QED
        BY <3>1, <4>1 DEF LeavesScrubber, Restoring
    <3>2. ASSUME \/ RestoreChats(p) \/ RestoreMessages(p) \/ RestoreClear(p)
                 \/ RestoreCallFails(p) \/ RestoreCheck(p) \/ RestoreRecycle(p)
                 \/ RestoreFetch(p)
          PROVE  LeavesScrubber
      BY <3>1, <3>2 DEF RestoreChats, RestoreMessages, RestoreClear, RestoreCallFails,
                        RestoreCheck, RestoreRecycle, RestoreFetch, tables
    <3> QED
      BY <2>3, <3>2 DEF RestoreGoesOn, ScrubberStep
  <2>4. ASSUME NEW p \in Portal, FwdGoesOn(p) PROVE LeavesScrubber
    BY <2>4, <1>a DEF FwdGoesOn, RehydrateClear, RehydrateFetch, RehydrateRescrub,
                      FwdReread, FwdDeliver, FwdComplete
  <2>5. ASSUME NEW g \in Guid, NEW p \in Portal, MessageRedact(g, p) PROVE LeavesScrubber
    BY <2>5, <1>a DEF MessageRedact
  <2>6. ASSUME ScrubScan \/ TailScan \/ ScrubGoesOn PROVE ScrubberStep
    BY <2>6 DEF ScrubGoesOn, ScrubberStep
  <2>7. ASSUME NEW g \in Guid, OrphanCleanup(g) \/ Age(g) PROVE LeavesScrubber
    BY <2>7, <1>a DEF OrphanCleanup, Age
  <2>8. ASSUME NEW k \in ChatId, HoldExpires(k) PROVE LeavesScrubber
    BY <2>8, <1>a DEF HoldExpires
  <2> QED
    BY <1>3, <2>1, <2>2, <2>3, <2>4, <2>5, <2>6, <2>7, <2>8 DEF Inside
<1> QED
  BY <1>1, <1>2, <1>3 DEF Next

LEMMA ScrubInvStep ==
    ASSUME TypeOK, ScrubInv, [Next]_vars
    PROVE  ScrubInv'
<1>n. NoPortal \notin Restoring /\ NoPortal \notin Restoring'
  BY RowsAssumption DEF Restoring
<1>1. CASE LeavesScrubber
  BY <1>1 DEF LeavesScrubber, ScrubInv
<1>2. ASSUME NEW p \in Portal, RestoreStart(p) \/ RestoreFinish(p) PROVE ScrubInv'
  BY <1>2, <1>n DEF RestoreStart, RestoreFinish, ScrubberIdle, ScrubInv
<1>3. ASSUME NEW p \in Portal, TailThreshold(p) PROVE ScrubInv'
  <2>1. Restoring' = Restoring /\ UNCHANGED pass
    BY <1>3 DEF TailThreshold, Restoring
  <2>2. /\ tail'.todo = tail.todo \ {p}
        /\ tail'.at \in {p, NoPortal}
        /\ p \in tail.todo
        /\ tail'.pc = "idle" => tail.todo = {p} /\ tail'.at = NoPortal
    BY <1>3 DEF TailThreshold, TypeOK, Tail
  <2> QED
    BY <1>n, <2>1, <2>2 DEF ScrubInv
<1>4. CASE ScrubScan
  <2>1. Restoring' = Restoring /\ UNCHANGED tail
    BY <1>4 DEF ScrubScan, Restoring
  <2>2. \A c \in ScrubCandidates : c.portal \notin Restoring
    BY DEF ScrubCandidates
  <2>3. pass'.pc = "load" /\ pass'.cands = ScrubCandidates
    BY <1>4 DEF ScrubScan
  <2> QED
    BY <2>1, <2>2, <2>3 DEF ScrubInv
<1>5. CASE TailScan
  <2>1. Restoring' = Restoring /\ UNCHANGED pass
    BY <1>5 DEF TailScan, Restoring
  <2>2. tail'.pc = "portals" /\ tail'.todo = TailPortals /\ tail'.at = NoPortal
    BY <1>5 DEF TailScan, TailIdle
  <2> QED
    BY <1>n, <2>1, <2>2 DEF ScrubInv, TailPortals
<1>6. CASE ScrubLoad
  <2>1. Restoring' = Restoring /\ UNCHANGED tail
    BY <1>6 DEF ScrubLoad, Restoring
  <2>2. pass'.pc = "batch" /\ pass'.cands = pass.cands
    BY <1>6 DEF ScrubLoad, TypeOK, Pass
  <2> QED
    BY <2>1, <2>2 DEF ScrubInv
<1>7. CASE ScrubBatch
  <2>1. Restoring' = Restoring /\ UNCHANGED tail
    BY <1>7 DEF ScrubBatch, Restoring
  <2>2. pass'.cands \subseteq pass.cands /\ (pass'.pc = "idle" => pass'.cands = {})
    BY <1>7 DEF ScrubBatch, PassIdle, TypeOK, Pass
  <2> QED
    BY <2>1, <2>2 DEF ScrubInv
<1>8. CASE TailUpdate
  <2>1. Restoring' = Restoring /\ UNCHANGED pass
    BY <1>8 DEF TailUpdate, Restoring
  <2>2. /\ tail'.todo = tail.todo /\ tail'.at = NoPortal
        /\ tail'.pc = "idle" => tail'.todo = {}
    BY <1>8 DEF TailUpdate, TailIdle, TypeOK, Tail
  <2> QED
    BY <1>n, <2>1, <2>2 DEF ScrubInv
<1>9. CASE ScrubAborts \/ Restart
  <2>1. pass' = PassIdle /\ tail' = TailIdle
    BY <1>9 DEF ScrubAborts, Restart
  <2> QED
    BY <1>n, <2>1 DEF ScrubInv, PassIdle, TailIdle
<1> QED
  BY <1>1, <1>2, <1>3, <1>4, <1>5, <1>6, <1>7, <1>8, <1>9, ScrubberSteps DEF ScrubberStep

LEMMA ScrubInvariance == Spec => [](TypeOK /\ RowsOK /\ ScrubInv)
<1>1. Init => ScrubInv
  BY RowsAssumption DEF Init, ScrubInv, Restoring, PassIdle, TailIdle
<1>2. TypeOK /\ ScrubInv /\ [Next]_vars => ScrubInv'
  BY ScrubInvStep
<1> QED
  BY <1>1, <1>2, RowInvariance, PTL DEF Spec

\* A permanently filtered row is not readable, so a forced scrub takes no
\* readable row.
LEMMA FilteredIsUnreadable ==
    ASSUME NEW ct, NEW r, Readable(ct, r)
    PROVE  ~PermanentlyFiltered(ct, r)
BY DEF Readable, PermanentlyFiltered, LiveSource, SourceOn, HasSource, On

\* Readable plaintext of a row that stays alive is taken by a scrub only: by
\* a witnessed candidate of the pass, or by the tail scrub of its portal.
LEMMA WhoNulls ==
    ASSUME TypeOK, RowsOK, [Next]_vars, NEW g \in Guid, Nulls(g), Readable(chat, msg[g])
    PROVE  \/ \E c \in pass.cands : /\ c.portal = msg[g].portal
                                    /\ <<g, msg[g].portal>> \in delivered
           \/ TailUpdate /\ tail.at = msg[g].portal
<1>1. ~UNCHANGED msg
  BY DEF Nulls
<1>2. ~MessageStep
  BY MessageRows DEF RowsKeepText, KeepsText, Nulls
<1>3. CASE ScrubBatch
  <2>1. PICK chunk \in SUBSET pass.cands :
               msg' = [h \in Guid |->
                        IF \E c \in chunk : c.guid = h /\ StillEligible(c)
                        THEN Scrub(msg[h]) ELSE msg[h]]
    BY <1>3 DEF ScrubBatch
  <2>2. PICK c \in chunk : c.guid = g /\ StillEligible(c)
    BY <2>1 DEF Nulls
  <2>3. ~ForceScrub(msg[g])
    BY FilteredIsUnreadable DEF ForceScrub, Nulls
  <2> QED
    BY <2>2, <2>3 DEF StillEligible
<1>4. CASE TailUpdate
  <2>1. TailRow(g)
    BY <1>4 DEF TailUpdate, Nulls
  <2> QED
    BY <1>4, <2>1 DEF TailRow
<1> QED
  BY <1>1, <1>2, <1>3, <1>4, StepKinds DEF ScrubStep

\* For any number of portals, restores and messages: no interleaving of a
\* scrub pass with a restore takes readable plaintext out of a portal while
\* it is being restored.
THEOREM RestoreIsSafeFromScrubber == Spec => RestoreKeepsText
<1>1. TypeOK /\ RowsOK /\ ScrubInv /\ [Next]_vars =>
        [\A g \in Guid :
            Nulls(g) /\ Readable(chat, msg[g]) => msg[g].portal \notin Restoring]_vars
  BY WhoNulls DEF ScrubInv
<1> QED
  BY <1>1, ScrubInvariance, PTL DEF Spec, RestoreKeepsText

\* No tail scrub is under way.
TailOff == tail = TailIdle

\* Without a cap on the first backfill there is no tail scrub, and then no
\* readable plaintext is lost: what is nulled was delivered in the row's
\* current portal.
THEOREM NoUndeliveredTextLost ==
    ASSUME Cap = 0
    PROVE  Spec => ScrubsOnlyDelivered
<1>1. Init => TailOff
  BY DEF Init, TailOff
<1>2. TypeOK /\ TailOff /\ [Next]_vars => TailOff'
  <2> SUFFICES ASSUME TypeOK, tail = TailIdle, [Next]_vars PROVE tail' = TailIdle
    BY DEF TailOff
  <2>1. CASE LeavesScrubber
    BY <2>1 DEF LeavesScrubber
  <2>2. CASE ScrubberStep
    BY <2>2 DEF ScrubberStep, RestoreStart, RestoreFinish, TailThreshold, ScrubScan,
                TailScan, ScrubLoad, ScrubBatch, TailUpdate, ScrubAborts, Restart, TailIdle
  <2> QED
    BY <2>1, <2>2, ScrubberSteps
<1>3. TypeOK /\ RowsOK /\ TailOff /\ [Next]_vars =>
        [\A g \in Guid :
            Nulls(g) /\ Readable(chat, msg[g]) => <<g, msg[g].portal>> \in delivered]_vars
  <2>1. TailOff => ~TailUpdate
    BY DEF TailOff, TailIdle, TailUpdate
  <2> QED
    BY <2>1, WhoNulls
<1> QED
  BY <1>1, <1>2, <1>3, RowInvariance, PTL DEF Spec, ScrubsOnlyDelivered

=============================================================================
