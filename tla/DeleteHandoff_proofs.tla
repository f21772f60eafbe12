------------------------- MODULE DeleteHandoff_proofs -------------------------
(***************************************************************************)
(* The theorems of DeleteHandoff, for any messages, portals and copies.    *)
(* HandoffInv strengthens the properties to an inductive invariant: what   *)
(* is routed, who holds messageDeleteHandoffMu, and what the delete        *)
(* handler's two lookups still mean when it uses them.                     *)
(***************************************************************************)
EXTENDS DeleteHandoff, TLAPS

\* A message that is being delivered, or that has a copy, has a route.
Routed ==
    /\ \A m \in Msg, p \in Portal :
          live[m][p] = "persisted" => row[m].portal # NoPortal
    /\ \A c \in Copy :
          ev[c] # "none" \/ c \in visible \/ c \in bridged
             => row[MsgOf[c]].portal # NoPortal
    /\ \A p \in Portal : \A m \in backfill[p] : row[m].portal # NoPortal

\* The event of a copy is queued once, when its message is admitted.
QueuedByAdmission ==
    \A c \in Copy : ev[c] # "none" => live[MsgOf[c]][PortalOf[c]] = "admitted"

\* messageDeleteHandoffMu: admission and delete preparation exclude each other.
HandoffMutex ==
    \A m, n \in Msg, p \in Portal :
        ~ (del[m] \in {"resolved", "tombstoned"} /\ live[n][p] = "persisted")

\* The portal that the row of a message is routed to while a delete of it is
\* handled or on record is one of its homes, and so is that of a copy whose
\* post-handle hook has seen the tombstone.
HomesNoted ==
    /\ \A m \in Msg :
          (del[m] # "idle" \/ row[m].deleted) /\ row[m].portal # NoPortal
             => row[m].portal \in homes[m]
    /\ \A c \in Copy :
          ev[c] = "doomed" => row[MsgOf[c]].deleted /\ PortalOf[c] \in homes[MsgOf[c]]

\* What the delete handler looked up is about the message's homes: the stored
\* route was one, and of a message that had none nothing is in an event loop
\* and all that a backfill reads or delivers is in one.
LookupHolds ==
    \A m \in Msg :
        /\ del[m] \in {"tombstoned", "redact"} => row[m].deleted
        /\ del[m] \in {"resolved", "tombstoned"} =>
              /\ found[m].stored # NoPortal => found[m].stored \in homes[m]
              /\ found[m].stored = NoPortal =>
                    /\ \A c \in CopiesOf(m) :
                          /\ ev[c] = "none"
                          /\ c \in visible \cup bridged => PortalOf[c] \in homes[m]
                    /\ \A p \in Portal : m \in backfill[p] => p \in homes[m]
        /\ del[m] = "redact" =>
              \A c \in found[m].copies : MsgOf[c] = m /\ PortalOf[c] \in homes[m]

HandoffInv ==
    /\ TypeOK
    /\ VisibleCopyIsFindable
    /\ QueuedByAdmission
    /\ Routed
    /\ HandoffMutex
    /\ HomesNoted
    /\ LookupHolds

-----------------------------------------------------------------------------
(* Type correctness.                                                       *)

LEMMA RouteOfType ==
    ASSUME NEW m \in Msg
    PROVE  RouteOf(m) \in PortalId
BY HandoffAssumption DEF RouteOf, Routes, BridgedCopies, CopiesOf, PortalId

LEMMA BridgedCopiesType ==
    ASSUME NEW m \in Msg
    PROVE  BridgedCopies(m) \in SUBSET Copy
BY DEF BridgedCopies, CopiesOf

LEMMA HomesType ==
    ASSUME homes \in [Msg -> SUBSET Portal], row' \in [Msg -> Row], NEW m \in Msg, NoteHome(m)
    PROVE  homes' \in [Msg -> SUBSET Portal]
<1>1. row'[m].portal # NoPortal => row'[m].portal \in Portal
  BY DEF Row, PortalId
<1> QED
  BY <1>1 DEF NoteHome

\* What a noted route adds to the history.
LEMMA HomesGrow ==
    ASSUME homes \in [Msg -> SUBSET Portal], NEW m \in Msg, NoteHome(m)
    PROVE  /\ \A n \in Msg : homes[n] \subseteq homes'[n] /\ (n # m => homes'[n] = homes[n])
           /\ (del'[m] # "idle" \/ row'[m].deleted) /\ row'[m].portal # NoPortal
                 => row'[m].portal \in homes'[m]
BY DEF NoteHome

LEMMA TypeStep == TypeOK /\ [Next]_vars => TypeOK'
<1> SUFFICES ASSUME TypeOK, [Next]_vars PROVE TypeOK'
    OBVIOUS
<1> USE HandoffAssumption DEF TypeOK, Row, PortalId, Found, bridgeVars, storeVars, historyVars
<1>1. ASSUME NEW m \in Msg, NEW p \in Portal, AdmitPersist(m, p) PROVE TypeOK'
  <2>1. row' \in [Msg -> Row]
    BY <1>1 DEF AdmitPersist, PersistMessageUUID
  <2>2. homes' \in [Msg -> SUBSET Portal]
    BY <1>1, <2>1, HomesType DEF AdmitPersist
  <2> QED
    BY <1>1, <2>1, <2>2 DEF AdmitPersist
<1>2. ASSUME NEW m \in Msg, NEW p \in Portal, AdmitPersistFails(m, p) PROVE TypeOK'
  BY <1>2 DEF AdmitPersistFails
<1>3. ASSUME NEW m \in Msg, NEW p \in Portal, AdmitCheck(m, p) PROVE TypeOK'
  <2>a. \/ live' = [live EXCEPT ![m][p] = "dropped"]
        \/ live' = [live EXCEPT ![m][p] = "admitted"]
    BY <1>3 DEF AdmitCheck, IsMessageDeletedInPortal
  <2>1. live' \in [Msg -> [Portal -> {"idle", "persisted", "admitted", "dropped"}]]
    <3>1. CASE live' = [live EXCEPT ![m][p] = "dropped"]
      BY <3>1
    <3>2. CASE live' = [live EXCEPT ![m][p] = "admitted"]
      BY <3>2
    <3> QED
      BY <2>a, <3>1, <3>2
  <2>2. ev' \in [Copy -> {"none", "queued", "sent", "inserted", "doomed", "done"}]
    BY <1>3 DEF AdmitCheck, IsMessageDeletedInPortal
  <2> QED
    BY <1>3, <2>1, <2>2 DEF AdmitCheck
<1>4. ASSUME NEW m \in Msg, NEW p \in Portal, CloudUpsert(m, p) PROVE TypeOK'
  <2>1. row' \in [Msg -> Row]
    BY <1>4 DEF CloudUpsert, UpsertMessage
  <2>2. homes' \in [Msg -> SUBSET Portal]
    BY <1>4, <2>1, HomesType DEF CloudUpsert
  <2> QED
    BY <1>4, <2>1, <2>2 DEF CloudUpsert
<1>5. ASSUME NEW p \in Portal, BackfillRead(p) PROVE TypeOK'
  BY <1>5 DEF BackfillRead, BackfillRows
<1>6. ASSUME NEW p \in Portal, BackfillDeliver(p) PROVE TypeOK'
  BY <1>6 DEF BackfillDeliver, BackfillCopies, CopiesIn, CopiesOf
<1>7. ASSUME NEW c \in Copy, LoopSend(c) PROVE TypeOK'
  BY <1>7 DEF LoopSend, PortalLoopIdle
<1>8. ASSUME NEW c \in Copy, LoopInsert(c) PROVE TypeOK'
  BY <1>8 DEF LoopInsert
<1>9. ASSUME NEW c \in Copy, PostHandle(c) PROVE TypeOK'
  BY <1>9 DEF PostHandle
<1>10. ASSUME NEW c \in Copy, PostHandleFails(c) PROVE TypeOK'
  BY <1>10 DEF PostHandleFails
<1>18. ASSUME NEW c \in Copy, PostHandleRedact(c) PROVE TypeOK'
  BY <1>18 DEF PostHandleRedact
<1>11. ASSUME NEW m \in Msg, DeleteResolve(m) PROVE TypeOK'
  <2>1. RouteOf(m) \in PortalId
    BY RouteOfType
  <2> DEFINE f == [route |-> RouteOf(m), stored |-> row[m].portal, copies |-> {}]
  <2>a. f \in Found /\ NothingFound \in Found
    BY <2>1 DEF NothingFound
  <2>b. found' = [found EXCEPT ![m] = f] \/ found' = [found EXCEPT ![m] = NothingFound]
    BY <1>11 DEF DeleteResolve, Ambiguous, Differ, GiveUp
  <2>2. found' \in [Msg -> Found]
    BY <2>a, <2>b
  <2>3. homes' \in [Msg -> SUBSET Portal]
    BY <1>11, HomesType DEF DeleteResolve
  <2> QED
    BY <1>11, <2>2, <2>3 DEF DeleteResolve, Ambiguous, Differ, GiveUp
<1>12. ASSUME NEW m \in Msg, DeleteTombstone(m) PROVE TypeOK'
  <2>1. row' \in [Msg -> Row]
    BY <1>12 DEF DeleteTombstone, SoftDeleteRow
  <2>2. homes' \in [Msg -> SUBSET Portal]
    BY <1>12, <2>1, HomesType DEF DeleteTombstone
  <2> QED
    BY <1>12, <2>1, <2>2 DEF DeleteTombstone
<1>13. ASSUME NEW m \in Msg, DeleteTombstoneFails(m) PROVE TypeOK'
  BY <1>13 DEF DeleteTombstoneFails, GiveUp, NothingFound
<1>14. ASSUME NEW m \in Msg, DeleteRefresh(m) PROVE TypeOK'
  <2>1. BridgedCopies(m) \in SUBSET Copy
    BY BridgedCopiesType
  <2>a. NothingFound \in Found
    BY DEF NothingFound
  <2>b. \/ found' = [found EXCEPT ![m].copies = BridgedCopies(m)]
        \/ found' = [found EXCEPT ![m] = NothingFound]
    BY <1>14 DEF DeleteRefresh, Ambiguous, Differ, GiveUp
  <2>2. found' \in [Msg -> Found]
    <3>1. CASE found' = [found EXCEPT ![m].copies = BridgedCopies(m)]
      <4>1. found \in [Msg -> Found] /\ found[m] \in Found
        BY DEF TypeOK
      <4>2. [found[m] EXCEPT !.copies = BridgedCopies(m)] \in Found
        BY <2>1, <4>1 DEF Found
      <4> HIDE DEF Found
      <4> QED
        BY <3>1, <4>1, <4>2, Zenon
    <3>2. CASE found' = [found EXCEPT ![m] = NothingFound]
      <4>1. found \in [Msg -> Found]
        BY DEF TypeOK
      <4> HIDE DEF Found, NothingFound
      <4> QED
        BY <2>a, <3>2, <4>1
    <3> QED
      BY <2>b, <3>1, <3>2
  <2>3. del' \in [Msg -> {"idle", "resolved", "tombstoned", "redact"}]
    <3>1. del' = [del EXCEPT ![m] = "idle"] \/ del' = [del EXCEPT ![m] = "redact"]
      BY <1>14 DEF DeleteRefresh, GiveUp
    <3>2. CASE del' = [del EXCEPT ![m] = "idle"]
      BY <3>2
    <3>3. CASE del' = [del EXCEPT ![m] = "redact"]
      BY <3>3
    <3> QED
      BY <3>1, <3>2, <3>3
  <2> QED
    BY <1>14, <2>2, <2>3 DEF DeleteRefresh, Ambiguous, Differ, GiveUp
<1>15. ASSUME NEW m \in Msg, DeleteRedact(m) PROVE TypeOK'
  BY <1>15 DEF DeleteRedact, NothingFound
<1>16. ASSUME NEW m \in Msg, DeleteRedactFails(m) PROVE TypeOK'
  BY <1>16 DEF DeleteRedactFails, GiveUp, NothingFound
<1>17. CASE UNCHANGED vars
  BY <1>17 DEF vars
<1> QED
  BY <1>1, <1>2, <1>3, <1>4, <1>5, <1>6, <1>7, <1>8, <1>9, <1>10, <1>11, <1>12, <1>13, <1>14, <1>15, <1>16, <1>17, <1>18 DEF Next, LiveStep, LoopStep, DeleteStep

\* The variables of the handoff keep their types: in particular a stored
\* route is a portal or empty and a lookup never names a copy that is not one.
THEOREM TypeCorrect == Spec => []TypeOK
<1>1. Init => TypeOK
  BY HandoffAssumption DEF Init, TypeOK, Row, NoRow, PortalId, Found, NothingFound
<1> QED
  BY <1>1, TypeStep, PTL DEF Spec

-----------------------------------------------------------------------------
(* The inductive invariant.                                                *)

LEMMA QueuedStep == HandoffInv /\ TypeOK' /\ [Next]_vars => QueuedByAdmission'
<1> SUFFICES ASSUME HandoffInv, TypeOK', [Next]_vars PROVE QueuedByAdmission'
    OBVIOUS
<1> USE HandoffAssumption DEF HandoffInv, TypeOK, Row, PortalId, Found, bridgeVars, storeVars, historyVars, QueuedByAdmission
<1>1. ASSUME NEW m \in Msg, NEW p \in Portal, AdmitPersist(m, p) PROVE QueuedByAdmission'
  BY <1>1 DEF AdmitPersist, PersistMessageUUID
<1>2. ASSUME NEW m \in Msg, NEW p \in Portal, AdmitPersistFails(m, p) PROVE QueuedByAdmission'
  BY <1>2 DEF AdmitPersistFails
<1>3. ASSUME NEW m \in Msg, NEW p \in Portal, AdmitCheck(m, p) PROVE QueuedByAdmission'
  <2>1. CASE live' = [live EXCEPT ![m][p] = "dropped"] /\ UNCHANGED ev
    BY <1>3, <2>1 DEF AdmitCheck
  <2>2. CASE /\ live' = [live EXCEPT ![m][p] = "admitted"]
             /\ ev' = [c \in Copy |-> IF c \in CopiesIn(m, p) THEN "queued" ELSE ev[c]]
    BY <1>3, <2>2 DEF AdmitCheck, CopiesIn, CopiesOf
  <2> QED
    BY <1>3, <2>1, <2>2 DEF AdmitCheck
<1>4. ASSUME NEW m \in Msg, NEW p \in Portal, CloudUpsert(m, p) PROVE QueuedByAdmission'
  BY <1>4 DEF CloudUpsert, UpsertMessage
<1>5. ASSUME NEW p \in Portal, BackfillRead(p) PROVE QueuedByAdmission'
  BY <1>5 DEF BackfillRead, BackfillRows, PortalLoopIdle
<1>6. ASSUME NEW p \in Portal, BackfillDeliver(p) PROVE QueuedByAdmission'
  BY <1>6 DEF BackfillDeliver, BackfillCopies, CopiesIn, CopiesOf
<1>7. ASSUME NEW c \in Copy, LoopSend(c) PROVE QueuedByAdmission'
  BY <1>7 DEF LoopSend, PortalLoopIdle
<1>8. ASSUME NEW c \in Copy, LoopInsert(c) PROVE QueuedByAdmission'
  BY <1>8 DEF LoopInsert
<1>9. ASSUME NEW c \in Copy, PostHandle(c) PROVE QueuedByAdmission'
  BY <1>9 DEF PostHandle, IsMessageDeletedInPortal
<1>10. ASSUME NEW c \in Copy, PostHandleFails(c) PROVE QueuedByAdmission'
  BY <1>10 DEF PostHandleFails
<1>18. ASSUME NEW c \in Copy, PostHandleRedact(c) PROVE QueuedByAdmission'
  BY <1>18 DEF PostHandleRedact
<1>11. ASSUME NEW m \in Msg, DeleteResolve(m) PROVE QueuedByAdmission'
  BY <1>11 DEF DeleteResolve, GiveUp, Ambiguous, Differ
<1>12. ASSUME NEW m \in Msg, DeleteTombstone(m) PROVE QueuedByAdmission'
  BY <1>12 DEF DeleteTombstone, SoftDeleteRow
<1>13. ASSUME NEW m \in Msg, DeleteTombstoneFails(m) PROVE QueuedByAdmission'
  BY <1>13 DEF DeleteTombstoneFails, GiveUp
<1>14. ASSUME NEW m \in Msg, DeleteRefresh(m) PROVE QueuedByAdmission'
  BY <1>14 DEF DeleteRefresh, GiveUp, Ambiguous, Differ
<1>15. ASSUME NEW m \in Msg, DeleteRedact(m) PROVE QueuedByAdmission'
  BY <1>15 DEF DeleteRedact
<1>16. ASSUME NEW m \in Msg, DeleteRedactFails(m) PROVE QueuedByAdmission'
  BY <1>16 DEF DeleteRedactFails, GiveUp
<1>17. CASE UNCHANGED vars
  BY <1>17 DEF vars
<1> QED
  BY <1>1, <1>2, <1>3, <1>4, <1>5, <1>6, <1>7, <1>8, <1>9, <1>10, <1>11, <1>12, <1>13, <1>14, <1>15, <1>16, <1>17, <1>18 DEF Next, LiveStep, LoopStep, DeleteStep

LEMMA FindableStep == HandoffInv /\ TypeOK' /\ [Next]_vars => VisibleCopyIsFindable'
<1> SUFFICES ASSUME HandoffInv, TypeOK', [Next]_vars PROVE VisibleCopyIsFindable'
    OBVIOUS
<1> USE HandoffAssumption DEF HandoffInv, TypeOK, Row, PortalId, Found, bridgeVars, storeVars, historyVars, VisibleCopyIsFindable
<1>1. ASSUME NEW m \in Msg, NEW p \in Portal, AdmitPersist(m, p) PROVE VisibleCopyIsFindable'
  BY <1>1 DEF AdmitPersist, PersistMessageUUID
<1>2. ASSUME NEW m \in Msg, NEW p \in Portal, AdmitPersistFails(m, p) PROVE VisibleCopyIsFindable'
  BY <1>2 DEF AdmitPersistFails
<1>3. ASSUME NEW m \in Msg, NEW p \in Portal, AdmitCheck(m, p) PROVE VisibleCopyIsFindable'
  <2>1. \A c \in Copy : ev'[c] = ev[c] \/ (MsgOf[c] = m /\ PortalOf[c] = p /\ ev[c] = "none")
    BY <1>3 DEF AdmitCheck, CopiesIn, CopiesOf, QueuedByAdmission
  <2> QED
    BY <1>3, <2>1 DEF AdmitCheck
<1>4. ASSUME NEW m \in Msg, NEW p \in Portal, CloudUpsert(m, p) PROVE VisibleCopyIsFindable'
  BY <1>4 DEF CloudUpsert, UpsertMessage
<1>5. ASSUME NEW p \in Portal, BackfillRead(p) PROVE VisibleCopyIsFindable'
  BY <1>5 DEF BackfillRead, BackfillRows, PortalLoopIdle
<1>6. ASSUME NEW p \in Portal, BackfillDeliver(p) PROVE VisibleCopyIsFindable'
  BY <1>6 DEF BackfillDeliver, BackfillCopies, CopiesIn, CopiesOf
<1>7. ASSUME NEW c \in Copy, LoopSend(c) PROVE VisibleCopyIsFindable'
  BY <1>7 DEF LoopSend, PortalLoopIdle
<1>8. ASSUME NEW c \in Copy, LoopInsert(c) PROVE VisibleCopyIsFindable'
  BY <1>8 DEF LoopInsert
<1>9. ASSUME NEW c \in Copy, PostHandle(c) PROVE VisibleCopyIsFindable'
  BY <1>9 DEF PostHandle, IsMessageDeletedInPortal
<1>10. ASSUME NEW c \in Copy, PostHandleFails(c) PROVE VisibleCopyIsFindable'
  BY <1>10 DEF PostHandleFails
<1>18. ASSUME NEW c \in Copy, PostHandleRedact(c) PROVE VisibleCopyIsFindable'
  BY <1>18 DEF PostHandleRedact
<1>11. ASSUME NEW m \in Msg, DeleteResolve(m) PROVE VisibleCopyIsFindable'
  BY <1>11 DEF DeleteResolve, GiveUp, Ambiguous, Differ
<1>12. ASSUME NEW m \in Msg, DeleteTombstone(m) PROVE VisibleCopyIsFindable'
  BY <1>12 DEF DeleteTombstone, SoftDeleteRow
<1>13. ASSUME NEW m \in Msg, DeleteTombstoneFails(m) PROVE VisibleCopyIsFindable'
  BY <1>13 DEF DeleteTombstoneFails, GiveUp
<1>14. ASSUME NEW m \in Msg, DeleteRefresh(m) PROVE VisibleCopyIsFindable'
  BY <1>14 DEF DeleteRefresh, GiveUp, Ambiguous, Differ
<1>15. ASSUME NEW m \in Msg, DeleteRedact(m) PROVE VisibleCopyIsFindable'
  BY <1>15 DEF DeleteRedact
<1>16. ASSUME NEW m \in Msg, DeleteRedactFails(m) PROVE VisibleCopyIsFindable'
  BY <1>16 DEF DeleteRedactFails, GiveUp
<1>17. CASE UNCHANGED vars
  BY <1>17 DEF vars
<1> QED
  BY <1>1, <1>2, <1>3, <1>4, <1>5, <1>6, <1>7, <1>8, <1>9, <1>10, <1>11, <1>12, <1>13, <1>14, <1>15, <1>16, <1>17, <1>18 DEF Next, LiveStep, LoopStep, DeleteStep

LEMMA RoutedStep == HandoffInv /\ TypeOK' /\ [Next]_vars => Routed'
<1> SUFFICES ASSUME HandoffInv, TypeOK', [Next]_vars PROVE Routed'
    OBVIOUS
<1> USE HandoffAssumption DEF HandoffInv, TypeOK, Row, PortalId, Found, bridgeVars, storeVars, historyVars, Routed
<1>1. ASSUME NEW m \in Msg, NEW p \in Portal, AdmitPersist(m, p) PROVE Routed'
  BY <1>1 DEF AdmitPersist, PersistMessageUUID
<1>2. ASSUME NEW m \in Msg, NEW p \in Portal, AdmitPersistFails(m, p) PROVE Routed'
  BY <1>2 DEF AdmitPersistFails
<1>3. ASSUME NEW m \in Msg, NEW p \in Portal, AdmitCheck(m, p) PROVE Routed'
  <2>1. \A c \in Copy : ev'[c] = ev[c] \/ (MsgOf[c] = m /\ PortalOf[c] = p /\ ev[c] = "none")
    BY <1>3 DEF AdmitCheck, CopiesIn, CopiesOf, QueuedByAdmission
  <2>2. \A n \in Msg, q \in Portal : live'[n][q] = "persisted" => live[n][q] = "persisted"
    <3>1. CASE live' = [live EXCEPT ![m][p] = "dropped"]
      BY <3>1
    <3>2. CASE live' = [live EXCEPT ![m][p] = "admitted"]
      BY <3>2
    <3> QED
      BY <1>3, <3>1, <3>2 DEF AdmitCheck
  <2>3. row[m].portal # NoPortal /\ UNCHANGED <<row, visible, bridged, backfill>>
    BY <1>3 DEF AdmitCheck
  <2> QED
    BY <2>1, <2>2, <2>3
<1>4. ASSUME NEW m \in Msg, NEW p \in Portal, CloudUpsert(m, p) PROVE Routed'
  BY <1>4 DEF CloudUpsert, UpsertMessage
<1>5. ASSUME NEW p \in Portal, BackfillRead(p) PROVE Routed'
  BY <1>5 DEF BackfillRead, BackfillRows, PortalLoopIdle
<1>6. ASSUME NEW p \in Portal, BackfillDeliver(p) PROVE Routed'
  BY <1>6 DEF BackfillDeliver, BackfillCopies, CopiesIn, CopiesOf
<1>7. ASSUME NEW c \in Copy, LoopSend(c) PROVE Routed'
  BY <1>7 DEF LoopSend, PortalLoopIdle
<1>8. ASSUME NEW c \in Copy, LoopInsert(c) PROVE Routed'
  BY <1>8 DEF LoopInsert
<1>9. ASSUME NEW c \in Copy, PostHandle(c) PROVE Routed'
  BY <1>9 DEF PostHandle, IsMessageDeletedInPortal
<1>10. ASSUME NEW c \in Copy, PostHandleFails(c) PROVE Routed'
  BY <1>10 DEF PostHandleFails
<1>18. ASSUME NEW c \in Copy, PostHandleRedact(c) PROVE Routed'
  BY <1>18 DEF PostHandleRedact
<1>11. ASSUME NEW m \in Msg, DeleteResolve(m) PROVE Routed'
  BY <1>11 DEF DeleteResolve, GiveUp, Ambiguous, Differ
<1>12. ASSUME NEW m \in Msg, DeleteTombstone(m) PROVE Routed'
  BY <1>12 DEF DeleteTombstone, SoftDeleteRow
<1>13. ASSUME NEW m \in Msg, DeleteTombstoneFails(m) PROVE Routed'
  BY <1>13 DEF DeleteTombstoneFails, GiveUp
<1>14. ASSUME NEW m \in Msg, DeleteRefresh(m) PROVE Routed'
  BY <1>14 DEF DeleteRefresh, GiveUp, Ambiguous, Differ
<1>15. ASSUME NEW m \in Msg, DeleteRedact(m) PROVE Routed'
  BY <1>15 DEF DeleteRedact
<1>16. ASSUME NEW m \in Msg, DeleteRedactFails(m) PROVE Routed'
  BY <1>16 DEF DeleteRedactFails, GiveUp
<1>17. CASE UNCHANGED vars
  BY <1>17 DEF vars
<1> QED
  BY <1>1, <1>2, <1>3, <1>4, <1>5, <1>6, <1>7, <1>8, <1>9, <1>10, <1>11, <1>12, <1>13, <1>14, <1>15, <1>16, <1>17, <1>18 DEF Next, LiveStep, LoopStep, DeleteStep

LEMMA MutexStep == HandoffInv /\ TypeOK' /\ [Next]_vars => HandoffMutex'
<1> SUFFICES ASSUME HandoffInv, TypeOK', [Next]_vars PROVE HandoffMutex'
    OBVIOUS
<1> USE HandoffAssumption DEF HandoffInv, TypeOK, Row, PortalId, Found, bridgeVars, storeVars, historyVars, HandoffMutex, HandoffMuFree
<1>1. ASSUME NEW m \in Msg, NEW p \in Portal, AdmitPersist(m, p) PROVE HandoffMutex'
  BY <1>1 DEF AdmitPersist, PersistMessageUUID
<1>2. ASSUME NEW m \in Msg, NEW p \in Portal, AdmitPersistFails(m, p) PROVE HandoffMutex'
  BY <1>2 DEF AdmitPersistFails
<1>3. ASSUME NEW m \in Msg, NEW p \in Portal, AdmitCheck(m, p) PROVE HandoffMutex'
  BY <1>3 DEF AdmitCheck, IsMessageDeletedInPortal, CopiesIn, CopiesOf
<1>4. ASSUME NEW m \in Msg, NEW p \in Portal, CloudUpsert(m, p) PROVE HandoffMutex'
  BY <1>4 DEF CloudUpsert, UpsertMessage
<1>5. ASSUME NEW p \in Portal, BackfillRead(p) PROVE HandoffMutex'
  BY <1>5 DEF BackfillRead, BackfillRows, PortalLoopIdle
<1>6. ASSUME NEW p \in Portal, BackfillDeliver(p) PROVE HandoffMutex'
  BY <1>6 DEF BackfillDeliver, BackfillCopies, CopiesIn, CopiesOf
<1>7. ASSUME NEW c \in Copy, LoopSend(c) PROVE HandoffMutex'
  BY <1>7 DEF LoopSend, PortalLoopIdle
<1>8. ASSUME NEW c \in Copy, LoopInsert(c) PROVE HandoffMutex'
  BY <1>8 DEF LoopInsert
<1>9. ASSUME NEW c \in Copy, PostHandle(c) PROVE HandoffMutex'
  BY <1>9 DEF PostHandle, IsMessageDeletedInPortal
<1>10. ASSUME NEW c \in Copy, PostHandleFails(c) PROVE HandoffMutex'
  BY <1>10 DEF PostHandleFails
<1>18. ASSUME NEW c \in Copy, PostHandleRedact(c) PROVE HandoffMutex'
  BY <1>18 DEF PostHandleRedact
<1>11. ASSUME NEW m \in Msg, DeleteResolve(m) PROVE HandoffMutex'
  BY <1>11 DEF DeleteResolve, GiveUp, Ambiguous, Differ
<1>12. ASSUME NEW m \in Msg, DeleteTombstone(m) PROVE HandoffMutex'
  BY <1>12 DEF DeleteTombstone, SoftDeleteRow
<1>13. ASSUME NEW m \in Msg, DeleteTombstoneFails(m) PROVE HandoffMutex'
  BY <1>13 DEF DeleteTombstoneFails, GiveUp
<1>14. ASSUME NEW m \in Msg, DeleteRefresh(m) PROVE HandoffMutex'
  BY <1>14 DEF DeleteRefresh, GiveUp, Ambiguous, Differ
<1>15. ASSUME NEW m \in Msg, DeleteRedact(m) PROVE HandoffMutex'
  BY <1>15 DEF DeleteRedact
<1>16. ASSUME NEW m \in Msg, DeleteRedactFails(m) PROVE HandoffMutex'
  BY <1>16 DEF DeleteRedactFails, GiveUp
<1>17. CASE UNCHANGED vars
  BY <1>17 DEF vars
<1> QED
  BY <1>1, <1>2, <1>3, <1>4, <1>5, <1>6, <1>7, <1>8, <1>9, <1>10, <1>11, <1>12, <1>13, <1>14, <1>15, <1>16, <1>17, <1>18 DEF Next, LiveStep, LoopStep, DeleteStep

LEMMA HomesStep == HandoffInv /\ TypeOK' /\ [Next]_vars => HomesNoted'
<1> SUFFICES ASSUME HandoffInv, TypeOK', [Next]_vars PROVE HomesNoted'
    OBVIOUS
<1> USE HandoffAssumption DEF HandoffInv, TypeOK, Row, PortalId, Found, bridgeVars, storeVars, historyVars, HomesNoted
<1>1. ASSUME NEW m \in Msg, NEW p \in Portal, AdmitPersist(m, p) PROVE HomesNoted'
  <2>1. /\ \A n \in Msg : homes[n] \subseteq homes'[n]
        /\ (del'[m] # "idle" \/ row'[m].deleted) /\ row'[m].portal # NoPortal
              => row'[m].portal \in homes'[m]
    BY <1>1, HomesGrow DEF AdmitPersist
  <2> QED
    BY <1>1, <2>1 DEF AdmitPersist, PersistMessageUUID
<1>2. ASSUME NEW m \in Msg, NEW p \in Portal, AdmitPersistFails(m, p) PROVE HomesNoted'
  BY <1>2 DEF AdmitPersistFails
<1>3. ASSUME NEW m \in Msg, NEW p \in Portal, AdmitCheck(m, p) PROVE HomesNoted'
  BY <1>3 DEF AdmitCheck, IsMessageDeletedInPortal, CopiesIn, CopiesOf
<1>4. ASSUME NEW m \in Msg, NEW p \in Portal, CloudUpsert(m, p) PROVE HomesNoted'
  <2>1. /\ \A n \in Msg : homes[n] \subseteq homes'[n]
        /\ (del'[m] # "idle" \/ row'[m].deleted) /\ row'[m].portal # NoPortal
              => row'[m].portal \in homes'[m]
    BY <1>4, HomesGrow DEF CloudUpsert
  <2> QED
    BY <1>4, <2>1 DEF CloudUpsert, UpsertMessage
<1>5. ASSUME NEW p \in Portal, BackfillRead(p) PROVE HomesNoted'
  BY <1>5 DEF BackfillRead, BackfillRows, PortalLoopIdle
<1>6. ASSUME NEW p \in Portal, BackfillDeliver(p) PROVE HomesNoted'
  BY <1>6 DEF BackfillDeliver, BackfillCopies, CopiesIn, CopiesOf
<1>7. ASSUME NEW c \in Copy, LoopSend(c) PROVE HomesNoted'
  BY <1>7 DEF LoopSend, PortalLoopIdle
<1>8. ASSUME NEW c \in Copy, LoopInsert(c) PROVE HomesNoted'
  BY <1>8 DEF LoopInsert
<1>9. ASSUME NEW c \in Copy, PostHandle(c) PROVE HomesNoted'
  BY <1>9 DEF PostHandle, IsMessageDeletedInPortal
<1>10. ASSUME NEW c \in Copy, PostHandleFails(c) PROVE HomesNoted'
  BY <1>10 DEF PostHandleFails
<1>18. ASSUME NEW c \in Copy, PostHandleRedact(c) PROVE HomesNoted'
  BY <1>18 DEF PostHandleRedact
<1>11. ASSUME NEW m \in Msg, DeleteResolve(m) PROVE HomesNoted'
  <2>1. /\ \A n \in Msg : homes[n] \subseteq homes'[n]
        /\ (del'[m] # "idle" \/ row'[m].deleted) /\ row'[m].portal # NoPortal
              => row'[m].portal \in homes'[m]
    BY <1>11, HomesGrow DEF DeleteResolve
  <2>2. UNCHANGED <<row, ev>> /\ \A n \in Msg : n # m => del'[n] = del[n]
    BY <1>11 DEF DeleteResolve, GiveUp
  <2> QED
    BY <2>1, <2>2
<1>12. ASSUME NEW m \in Msg, DeleteTombstone(m) PROVE HomesNoted'
  <2>1. /\ \A n \in Msg : homes[n] \subseteq homes'[n]
        /\ (del'[m] # "idle" \/ row'[m].deleted) /\ row'[m].portal # NoPortal
              => row'[m].portal \in homes'[m]
    BY <1>12, HomesGrow DEF DeleteTombstone
  <2> QED
    BY <1>12, <2>1 DEF DeleteTombstone, SoftDeleteRow
<1>13. ASSUME NEW m \in Msg, DeleteTombstoneFails(m) PROVE HomesNoted'
  BY <1>13 DEF DeleteTombstoneFails, GiveUp
<1>14. ASSUME NEW m \in Msg, DeleteRefresh(m) PROVE HomesNoted'
  BY <1>14 DEF DeleteRefresh, GiveUp, Ambiguous, Differ
<1>15. ASSUME NEW m \in Msg, DeleteRedact(m) PROVE HomesNoted'
  BY <1>15 DEF DeleteRedact
<1>16. ASSUME NEW m \in Msg, DeleteRedactFails(m) PROVE HomesNoted'
  BY <1>16 DEF DeleteRedactFails, GiveUp
<1>17. CASE UNCHANGED vars
  BY <1>17 DEF vars
<1> QED
  BY <1>1, <1>2, <1>3, <1>4, <1>5, <1>6, <1>7, <1>8, <1>9, <1>10, <1>11, <1>12, <1>13, <1>14, <1>15, <1>16, <1>17, <1>18 DEF Next, LiveStep, LoopStep, DeleteStep

LEMMA LookupStep == HandoffInv /\ TypeOK' /\ [Next]_vars => LookupHolds'
<1> SUFFICES ASSUME HandoffInv, TypeOK', [Next]_vars PROVE LookupHolds'
    OBVIOUS
<1> USE HandoffAssumption DEF HandoffInv, TypeOK, Row, PortalId, Found, bridgeVars, storeVars, historyVars, LookupHolds, CopiesOf, NothingFound
<1>1. ASSUME NEW m \in Msg, NEW p \in Portal, AdmitPersist(m, p) PROVE LookupHolds'
  <2>0. \A n \in Msg : homes[n] \subseteq homes'[n] /\ (n # m => homes'[n] = homes[n])
    BY <1>1, HomesGrow DEF AdmitPersist
  <2>1. \A n \in Msg : del[n] \notin {"resolved", "tombstoned"}
    BY <1>1 DEF AdmitPersist, HandoffMuFree
  <2>2. \A n \in Msg : row[n].deleted => row'[n].deleted
    BY <1>1 DEF AdmitPersist, PersistMessageUUID
  <2>3. UNCHANGED <<del, found>>
    BY <1>1 DEF AdmitPersist
  <2> QED
    BY <2>0, <2>1, <2>2, <2>3
<1>2. ASSUME NEW m \in Msg, NEW p \in Portal, AdmitPersistFails(m, p) PROVE LookupHolds'
  BY <1>2 DEF AdmitPersistFails
<1>3. ASSUME NEW m \in Msg, NEW p \in Portal, AdmitCheck(m, p) PROVE LookupHolds'
  <2>1. \A n \in Msg : del[n] \notin {"resolved", "tombstoned"}
    BY <1>3 DEF AdmitCheck, HandoffMutex
  <2>2. UNCHANGED <<row, del, found, homes>>
    BY <1>3 DEF AdmitCheck
  <2> QED
    BY <2>1, <2>2
<1>4. ASSUME NEW m \in Msg, NEW p \in Portal, CloudUpsert(m, p) PROVE LookupHolds'
  <2>0. \A n \in Msg : homes[n] \subseteq homes'[n] /\ (n # m => homes'[n] = homes[n])
    BY <1>4, HomesGrow DEF CloudUpsert
  <2>1. \A n \in Msg : row[n].deleted => row'[n].deleted
    BY <1>4 DEF CloudUpsert, UpsertMessage
  <2>2. UNCHANGED <<ev, bridged, visible, del, found, backfill>>
    BY <1>4 DEF CloudUpsert
  <2> QED
    BY <2>0, <2>1, <2>2
<1>5. ASSUME NEW p \in Portal, BackfillRead(p) PROVE LookupHolds'
  <2>1. \A n \in BackfillRows(p) : row[n].portal = p /\ p # NoPortal
    BY DEF BackfillRows
  <2>2. \A n \in BackfillRows(p) : del[n] # "idle" => p \in homes[n]
    BY <2>1 DEF HomesNoted, BackfillRows
  <2>3. /\ UNCHANGED <<row, ev, bridged, visible, del, found, homes>>
        /\ backfill' = [backfill EXCEPT ![p] = BackfillRows(p)]
    BY <1>5 DEF BackfillRead
  <2> QED
    BY <2>2, <2>3
<1>6. ASSUME NEW p \in Portal, BackfillDeliver(p) PROVE LookupHolds'
  <2>1. \A c \in BackfillCopies(p) : PortalOf[c] = p /\ MsgOf[c] \in backfill[p]
    BY DEF BackfillCopies, CopiesIn
  <2>2. /\ UNCHANGED <<row, ev, del, found, homes>>
        /\ visible' = visible \cup BackfillCopies(p)
        /\ bridged' = bridged \cup BackfillCopies(p)
        /\ \A q \in Portal : backfill'[q] \subseteq backfill[q]
    BY <1>6 DEF BackfillDeliver
  <2> QED
    BY <2>1, <2>2
<1>7. ASSUME NEW c \in Copy, LoopSend(c) PROVE LookupHolds'
  BY <1>7 DEF LoopSend, PortalLoopIdle
<1>8. ASSUME NEW c \in Copy, LoopInsert(c) PROVE LookupHolds'
  BY <1>8 DEF LoopInsert
<1>9. ASSUME NEW c \in Copy, PostHandle(c) PROVE LookupHolds'
  BY <1>9 DEF PostHandle, IsMessageDeletedInPortal
<1>10. ASSUME NEW c \in Copy, PostHandleFails(c) PROVE LookupHolds'
  BY <1>10 DEF PostHandleFails
<1>18. ASSUME NEW c \in Copy, PostHandleRedact(c) PROVE LookupHolds'
  BY <1>18 DEF PostHandleRedact
<1>11. ASSUME NEW m \in Msg, DeleteResolve(m) PROVE LookupHolds'
  <2>0. \A n \in Msg : homes[n] \subseteq homes'[n] /\ (n # m => homes'[n] = homes[n])
    BY <1>11, HomesGrow DEF DeleteResolve
  <2>1. CASE del'[m] = "idle"
    <3>1. UNCHANGED <<row, ev, visible, bridged, backfill>>
      BY <1>11 DEF DeleteResolve
    <3>2. /\ \A n \in Msg : n # m => del'[n] = del[n] /\ found'[n] = found[n]
      BY <1>11 DEF DeleteResolve, GiveUp
    <3> QED
      BY <2>0, <2>1, <3>1, <3>2
  <2>2. CASE del'[m] # "idle"
    <3>1. /\ UNCHANGED <<row, ev, visible, bridged, backfill>>
          /\ del' = [del EXCEPT ![m] = "resolved"]
          /\ found' = [found EXCEPT ![m] =
                [route |-> RouteOf(m), stored |-> row[m].portal, copies |-> {}]]
      BY <1>11, <2>2 DEF DeleteResolve, GiveUp
    <3>2. row[m].portal = NoPortal =>
             /\ \A c \in CopiesOf(m) : ev[c] = "none" /\ c \notin visible \cup bridged
             /\ \A p \in Portal : m \notin backfill[p]
      BY DEF Routed
    <3>3. row[m].portal # NoPortal => row[m].portal \in homes'[m]
      BY <1>11, <3>1, HomesGrow DEF DeleteResolve
    <3> QED
      BY <2>0, <3>1, <3>2, <3>3
  <2> QED
    BY <2>1, <2>2
<1>12. ASSUME NEW m \in Msg, DeleteTombstone(m) PROVE LookupHolds'
  <2>0. \A n \in Msg : homes[n] \subseteq homes'[n] /\ (n # m => homes'[n] = homes[n])
    BY <1>12, HomesGrow DEF DeleteTombstone
  <2>1. /\ \A n \in Msg : row[n].deleted => row'[n].deleted
        /\ row'[m].deleted
    BY <1>12 DEF DeleteTombstone, SoftDeleteRow
  <2>2. /\ UNCHANGED <<ev, bridged, visible, found, backfill>>
        /\ del[m] = "resolved" /\ del' = [del EXCEPT ![m] = "tombstoned"]
    BY <1>12 DEF DeleteTombstone
  <2> QED
    BY <2>0, <2>1, <2>2
<1>13. ASSUME NEW m \in Msg, DeleteTombstoneFails(m) PROVE LookupHolds'
  BY <1>13 DEF DeleteTombstoneFails, GiveUp
<1>14. ASSUME NEW m \in Msg, DeleteRefresh(m) PROVE LookupHolds'
  <2>0. UNCHANGED <<row, ev, visible, bridged, backfill, homes>> /\ del[m] = "tombstoned"
    BY <1>14 DEF DeleteRefresh
  <2>1. CASE del' = [del EXCEPT ![m] = "idle"]
    BY <1>14, <2>0, <2>1 DEF DeleteRefresh, GiveUp
  <2>2. CASE del' # [del EXCEPT ![m] = "idle"]
    <3>1. /\ ~Ambiguous(m)
          /\ ~Differ(found[m].stored, RouteOf(m))
          /\ BridgedCopies(m) # {}
          /\ del' = [del EXCEPT ![m] = "redact"]
          /\ found' = [found EXCEPT ![m].copies = BridgedCopies(m)]
      BY <1>14, <2>2 DEF DeleteRefresh, GiveUp
    <3>2. ASSUME NEW c \in BridgedCopies(m) PROVE MsgOf[c] = m /\ PortalOf[c] \in homes[m]
      <4>1. c \in Copy /\ MsgOf[c] = m /\ c \in bridged
        BY DEF BridgedCopies
      <4>2. PortalOf[c] \in Routes(m) /\ PortalOf[c] \in Portal
        BY <3>2, <4>1 DEF Routes
      <4>3. RouteOf(m) \in Routes(m)
        BY <4>2 DEF RouteOf
      <4>4. RouteOf(m) = PortalOf[c]
        BY <3>1, <4>2, <4>3 DEF Ambiguous
      <4>5. CASE found[m].stored = NoPortal
        BY <2>0, <4>1, <4>5
      <4>6. CASE found[m].stored # NoPortal
        BY <2>0, <3>1, <4>1, <4>2, <4>4, <4>6 DEF Differ
      <4> QED
        BY <4>5, <4>6
    <3> QED
      BY <2>0, <3>1, <3>2
  <2> QED
    BY <2>1, <2>2
<1>15. ASSUME NEW m \in Msg, DeleteRedact(m) PROVE LookupHolds'
  BY <1>15 DEF DeleteRedact
<1>16. ASSUME NEW m \in Msg, DeleteRedactFails(m) PROVE LookupHolds'
  BY <1>16 DEF DeleteRedactFails, GiveUp
<1>17. CASE UNCHANGED vars
  BY <1>17 DEF vars
<1> QED
  BY <1>1, <1>2, <1>3, <1>4, <1>5, <1>6, <1>7, <1>8, <1>9, <1>10, <1>11, <1>12, <1>13, <1>14, <1>15, <1>16, <1>17, <1>18 DEF Next, LiveStep, LoopStep, DeleteStep

\* The parts above make HandoffInv inductive, so it holds of every behaviour.
LEMMA HandoffInvHolds == Spec => []HandoffInv
<1>1. Init => HandoffInv
  BY HandoffAssumption DEF Init, HandoffInv, TypeOK, Row, NoRow, PortalId, Found,
     NothingFound, VisibleCopyIsFindable, QueuedByAdmission, Routed, HandoffMutex, HomesNoted, LookupHolds
<1>2. HandoffInv /\ [Next]_vars => HandoffInv'
  BY TypeStep, QueuedStep, FindableStep, RoutedStep, MutexStep, HomesStep, LookupStep DEF HandoffInv
<1> QED
  BY <1>1, <1>2, PTL DEF Spec

\* Whatever is on screen stays within reach of a later delete: the rows that
\* getAppleDeletedMessageParts looks up never lose a Matrix event.
THEOREM Findable == Spec => []VisibleCopyIsFindable
<1>1. HandoffInv => VisibleCopyIsFindable
  BY DEF HandoffInv
<1> QED
  BY <1>1, HandoffInvHolds, PTL

-----------------------------------------------------------------------------
(* Live delivery: no deleted copy is left.                                 *)

\* Without backfill no batch is ever read.
BackfillOff == \A p \in Portal : backfill[p] = {}

LEMMA HandoffStep == ~Backfills /\ HandoffInv /\ BackfillOff /\ NoDeletedCopyLeft /\ TypeOK' /\ [Next]_vars => NoDeletedCopyLeft'
<1> SUFFICES ASSUME ~Backfills, HandoffInv, BackfillOff, NoDeletedCopyLeft, TypeOK', [Next]_vars PROVE NoDeletedCopyLeft'
    OBVIOUS
<1> USE HandoffAssumption DEF HandoffInv, TypeOK, Row, PortalId, Found, bridgeVars, storeVars, historyVars, NoDeletedCopyLeft, DeletedHere, RemovalPending
<1>1. ASSUME NEW m \in Msg, NEW p \in Portal, AdmitPersist(m, p) PROVE NoDeletedCopyLeft'
  <2>1. \A c \in visible : row[MsgOf[c]].portal # NoPortal
    BY DEF Routed
  <2> QED
    BY <1>1, <2>1 DEF AdmitPersist, PersistMessageUUID
<1>2. ASSUME NEW m \in Msg, NEW p \in Portal, AdmitPersistFails(m, p) PROVE NoDeletedCopyLeft'
  BY <1>2 DEF AdmitPersistFails
<1>3. ASSUME NEW m \in Msg, NEW p \in Portal, AdmitCheck(m, p) PROVE NoDeletedCopyLeft'
  <2>1. \A c \in Copy : ev'[c] = ev[c] \/ ev[c] = "none"
    BY <1>3 DEF AdmitCheck, CopiesIn, CopiesOf, QueuedByAdmission
  <2> QED
    BY <1>3, <2>1 DEF AdmitCheck
<1>4. ASSUME NEW m \in Msg, NEW p \in Portal, CloudUpsert(m, p) PROVE NoDeletedCopyLeft'
  <2>1. \A c \in visible : row[MsgOf[c]].portal # NoPortal
    BY DEF Routed
  <2>2. /\ UNCHANGED <<ev, bridged, visible, del, found, failed>> /\ moved \subseteq moved'
        /\ row' = [row EXCEPT ![m] = UpsertMessage(row[m], p)]
        /\ row[m].deleted /\ row[m].portal \notin {p, NoPortal} => m \in moved'
    BY <1>4 DEF CloudUpsert
  <2>3. ASSUME NEW c \in visible, DeletedHere(c)', MsgOf[c] \notin moved'  PROVE DeletedHere(c)
    BY <2>1, <2>2, <2>3 DEF UpsertMessage
  <2> QED
    BY <2>2, <2>3
<1>5. ASSUME NEW p \in Portal, BackfillRead(p) PROVE NoDeletedCopyLeft'
  BY <1>5 DEF BackfillRead, BackfillRows, PortalLoopIdle
<1>6. ASSUME NEW p \in Portal, BackfillDeliver(p) PROVE NoDeletedCopyLeft'
  BY <1>6 DEF BackfillDeliver, BackfillOff
<1>7. ASSUME NEW c \in Copy, LoopSend(c) PROVE NoDeletedCopyLeft'
  <2>1. UNCHANGED <<row, bridged, del, found, failed, moved>> /\ ev[c] = "queued"
    BY <1>7 DEF LoopSend
  <2>2. CASE c \notin bridged
    <3>1. ev' = [ev EXCEPT ![c] = "sent"] /\ visible' = visible \cup {c}
      BY <1>7, <2>2 DEF LoopSend
    <3> QED
      BY <2>1, <3>1
  <2>3. CASE c \in bridged
    <3>1. ev' = [ev EXCEPT ![c] = "done"] /\ visible' = visible
      BY <1>7, <2>3 DEF LoopSend
    <3> QED
      BY <2>1, <3>1
  <2> QED
    BY <2>2, <2>3
<1>8. ASSUME NEW c \in Copy, LoopInsert(c) PROVE NoDeletedCopyLeft'
  BY <1>8 DEF LoopInsert
<1>9. ASSUME NEW c \in Copy, PostHandle(c) PROVE NoDeletedCopyLeft'
  <2>1. c \in visible => c \in bridged
    BY <1>9 DEF PostHandle, VisibleCopyIsFindable
  <2>2. /\ UNCHANGED <<row, bridged, visible, del, found, failed, moved>>
        /\ \A d \in Copy : d # c => ev'[d] = ev[d]
        /\ DeletedHere(c) /\ c \in bridged => ev'[c] = "doomed"
    BY <1>9 DEF PostHandle, IsMessageDeletedInPortal
  <2> QED
    BY <2>1, <2>2
<1>10. ASSUME NEW c \in Copy, PostHandleFails(c) PROVE NoDeletedCopyLeft'
  BY <1>10 DEF PostHandleFails
<1>18. ASSUME NEW c \in Copy, PostHandleRedact(c) PROVE NoDeletedCopyLeft'
  BY <1>18 DEF PostHandleRedact
<1>11. ASSUME NEW m \in Msg, DeleteResolve(m) PROVE NoDeletedCopyLeft'
  BY <1>11 DEF DeleteResolve, GiveUp, Ambiguous, Differ
<1>12. ASSUME NEW m \in Msg, DeleteTombstone(m) PROVE NoDeletedCopyLeft'
  <2>1. \A c \in visible : /\ row[MsgOf[c]].portal # NoPortal
                           /\ c \in bridged \/ ev[c] = "sent"
    BY DEF Routed, VisibleCopyIsFindable
  <2> QED
    BY <1>12, <2>1 DEF DeleteTombstone, SoftDeleteRow
<1>13. ASSUME NEW m \in Msg, DeleteTombstoneFails(m) PROVE NoDeletedCopyLeft'
  BY <1>13 DEF DeleteTombstoneFails, GiveUp
<1>14. ASSUME NEW m \in Msg, DeleteRefresh(m) PROVE NoDeletedCopyLeft'
  <2>1. UNCHANGED <<row, ev, visible, bridged, moved>> /\ del[m] = "tombstoned"
    BY <1>14 DEF DeleteRefresh
  <2>2. CASE m \in failed'
    BY <1>14, <2>1, <2>2 DEF DeleteRefresh, GiveUp
  <2>3. CASE m \notin failed'
    <3>1. /\ UNCHANGED failed
          /\ \/ /\ BridgedCopies(m) = {}
                /\ del' = [del EXCEPT ![m] = "idle"]
                /\ found' = [found EXCEPT ![m] = NothingFound]
             \/ /\ del' = [del EXCEPT ![m] = "redact"]
                /\ found' = [found EXCEPT ![m].copies = BridgedCopies(m)]
      BY <1>14, <2>3 DEF DeleteRefresh, GiveUp
    <3>2. ASSUME NEW c \in visible, RemovalPending(c)  PROVE RemovalPending(c)'
      <4>1. CASE MsgOf[c] # m
        BY <2>1, <3>1, <3>2, <4>1
      <4>2. CASE MsgOf[c] = m /\ ev[c] \notin {"sent", "inserted", "doomed"}
        <5>1. c \in BridgedCopies(m)
          BY <2>1, <3>2, <4>2 DEF BridgedCopies, CopiesOf
        <5> QED
          BY <2>1, <3>1, <4>2, <5>1
      <4>3. CASE ev[c] \in {"sent", "inserted", "doomed"}
        BY <2>1, <4>3
      <4> QED
        BY <4>1, <4>2, <4>3
    <3>3. \A c \in visible : DeletedHere(c)' = DeletedHere(c)
      BY <2>1
    <3> HIDE DEF RemovalPending, DeletedHere
    <3> QED
      BY <2>1, <3>1, <3>2, <3>3
  <2> QED
    BY <2>2, <2>3
<1>15. ASSUME NEW m \in Msg, DeleteRedact(m) PROVE NoDeletedCopyLeft'
  BY <1>15 DEF DeleteRedact
<1>16. ASSUME NEW m \in Msg, DeleteRedactFails(m) PROVE NoDeletedCopyLeft'
  BY <1>16 DEF DeleteRedactFails, GiveUp
<1>17. CASE UNCHANGED vars
  BY <1>17 DEF vars
<1> QED
  BY <1>1, <1>2, <1>3, <1>4, <1>5, <1>6, <1>7, <1>8, <1>9, <1>10, <1>11, <1>12, <1>13, <1>14, <1>15, <1>16, <1>17, <1>18 DEF Next, LiveStep, LoopStep, DeleteStep

\* For live traffic the two lookups, the tombstone and the post-handle check
\* close the handoff window of client.go:4712 in every interleaving.
THEOREM HandoffClosed ==
    ASSUME ~Backfills
    PROVE  Spec => []NoDeletedCopyLeft
<1>1. Init => BackfillOff /\ NoDeletedCopyLeft
  BY DEF Init, BackfillOff, NoDeletedCopyLeft
<1>2. BackfillOff /\ [Next]_vars => BackfillOff'
  <2> SUFFICES ASSUME BackfillOff, [Next]_vars PROVE BackfillOff'
      OBVIOUS
  <2>1. CASE UNCHANGED vars
    BY <2>1 DEF vars, BackfillOff
  <2>2. ASSUME NEW m \in Msg, DeleteStep(m) PROVE BackfillOff'
    BY <2>2 DEF DeleteStep, DeleteResolve, DeleteTombstone, DeleteTombstoneFails,
       DeleteRefresh, DeleteRedact, DeleteRedactFails, BackfillOff
  <2>3. ASSUME NEW m \in Msg, NEW p \in Portal, LiveStep(m, p) \/ CloudUpsert(m, p)
        PROVE BackfillOff'
    BY <2>3 DEF LiveStep, AdmitPersist, AdmitPersistFails, AdmitCheck, CloudUpsert, BackfillOff
  <2>4. ASSUME NEW p \in Portal, BackfillRead(p) \/ BackfillDeliver(p) PROVE BackfillOff'
    BY <2>4 DEF BackfillRead, BackfillDeliver, BackfillOff
  <2>5. ASSUME NEW c \in Copy, LoopStep(c) PROVE BackfillOff'
    BY <2>5 DEF LoopStep, LoopSend, LoopInsert, PostHandle, PostHandleRedact, PostHandleFails,
       BackfillOff
  <2> QED
    BY <2>1, <2>2, <2>3, <2>4, <2>5 DEF Next
<1>3. HandoffInv => TypeOK
  BY DEF HandoffInv
<1>4. HandoffInv /\ BackfillOff /\ NoDeletedCopyLeft /\ TypeOK' /\ [Next]_vars => NoDeletedCopyLeft'
  BY HandoffStep
<1> QED
  BY <1>1, <1>2, <1>3, <1>4, HandoffInvHolds, PTL DEF Spec

-----------------------------------------------------------------------------
(* Reused UUIDs: no redaction in a portal the delete has nothing to do with. *)

LEMMA RedactStep ==
    ASSUME HandoffInv, [Next]_vars, NEW c \in visible \ visible'
    PROVE  row[MsgOf[c]].deleted /\ PortalOf[c] \in homes[MsgOf[c]]
<1>1. \/ \E d \in Copy : PostHandleRedact(d)
      \/ \E m \in Msg : DeleteRedact(m)
  BY DEF Next, vars, bridgeVars, DeleteStep, LiveStep, LoopStep, AdmitPersist, AdmitPersistFails,
     AdmitCheck, CloudUpsert, BackfillRead, BackfillDeliver, LoopSend, LoopInsert, PostHandle,
     PostHandleFails, DeleteResolve, DeleteTombstone, DeleteTombstoneFails, DeleteRefresh,
     DeleteRedactFails
<1>2. CASE \E d \in Copy : PostHandleRedact(d)
  BY <1>2 DEF PostHandleRedact, HandoffInv, HomesNoted
<1>3. CASE \E m \in Msg : DeleteRedact(m)
  BY <1>3 DEF DeleteRedact, HandoffInv, LookupHolds
<1> QED
  BY <1>1, <1>2, <1>3

\* Whoever redacts a copy, however stale the lookup it acts on and wherever
\* CloudKit moves the row meanwhile, the row was routed to that copy's own
\* portal while the delete was handled or on record.
THEOREM NoCrossPortalRedaction == Spec => RedactsOnlyDeletedPortal
<1>1. HandoffInv /\ [Next]_vars =>
         [\A c \in visible \ visible' :
             row[MsgOf[c]].deleted /\ PortalOf[c] \in homes[MsgOf[c]]]_vars
  BY RedactStep
<1> QED
  BY <1>1, HandoffInvHolds, PTL DEF Spec, RedactsOnlyDeletedPortal

=============================================================================
