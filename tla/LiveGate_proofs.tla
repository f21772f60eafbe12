--------------------------- MODULE LiveGate_proofs ---------------------------
(***************************************************************************)
(* Proofs about LiveGate, and that it implements HandOver, for any number  *)
(* of portals, messages and flushing goroutines.                           *)
(*                                                                         *)
(* HistoryFirstInNewRooms is not inductive.  It rests on the order of the  *)
(* controller (every ChatResync is queued while the gate is shut), on the  *)
(* gate (until then no queued message may create a room) and on the queue  *)
(* being FIFO: in a new portal the ChatResync is always the head.          *)
(***************************************************************************)
EXTENDS GateHandOver, FiniteSetTheorems, TLAPS

\* Candidates are queued only before the gate opens.
ControlInv ==
    /\ ctl \in {"contacts", "sync", "scan", "queue", "gate"} => ~syncDone
    /\ toQueue # {} => ctl \in {"contacts", "sync", "scan", "queue"}
    /\ toQueue \subseteq Candidates

\* Flush a is in the middle of a message only while it has one; it read an open
\* gate only if the gate is open, and a room it found stays.
AgentInv(a) ==
    /\ flush[a].todo # {} => flush[a].phase \in {"buffer", "held"}
    /\ flush[a].step # "gate" => flush[a].todo # {}
    /\ flush[a].create => syncDone
    /\ flush[a].step = "act" /\ ~flush[a].missing =>
            \A m \in Msgs : Dispatches(a, m) => PortalOf[m] \in rooms

\* A queued message has a room or may create one; a queued ChatResync is a
\* candidate's.
EventInv(p) ==
    \A i \in 1..Len(queue[p]) :
        IF queue[p][i].msg = History
        THEN Kind[p] # "unknown" /\ p \notin toQueue
        ELSE p \in rooms \/ (queue[p][i].create /\ syncDone)

RoomInv(p) == p \notin rooms => shown[p] = <<>> /\ loop[p] = "idle"

\* Before its ChatResync is handled a new portal has no room and nothing is
\* queued ahead of it.
NewInv(p) ==
    Kind[p] = "new" =>
        /\ \A i \in 1..Len(queue[p]) : queue[p][i].msg = History => i = 1 /\ p \notin rooms
        /\ p \in toQueue => p \notin rooms
        /\ loop[p] # "idle" => ~LiveShown(p)

\* A slot is in use exactly while a loop fetches.
SemInv == sem = Cardinality({p \in Portals : loop[p] = "fetch"})

AllAgents == \A a \in Agents : AgentInv(a)
AllEvents == \A p \in Portals : EventInv(p)
AllRooms  == \A p \in Portals : RoomInv(p)
AllNew    == \A p \in Portals : NewInv(p)

IInv ==
    /\ TypeOK /\ SemInv
    /\ ControlInv /\ AllAgents /\ AllEvents /\ AllRooms /\ AllNew
    /\ NoEarlyRoom /\ NotDropped

-----------------------------------------------------------------------------
(* Type correctness, with the bound on forwardBackfillSem.                 *)

LEMMA FlushFromType ==
    ASSUME TypeOK, NEW a \in Agents
    PROVE  FlushFrom(a) \in [Agents -> Flush]
BY DEF TypeOK, FlushFrom, NoFlush, Flush

LEMMA FlushUpdate ==
    ASSUME TypeOK, NEW a \in Agents, NEW f \in Flush, flush' = [flush EXCEPT ![a] = f]
    PROVE  flush' \in [Agents -> Flush]
BY DEF TypeOK

LEMMA DispatchedType ==
    ASSUME TypeOK, NEW a \in Agents, NEW m, Dispatched(a, m)
    PROVE  flush' \in [Agents -> Flush]
<1>1. flush[a] \in Flush
  BY DEF TypeOK
<1>2. [NoFlush EXCEPT !.phase = flush[a].phase, !.todo = flush[a].todo \ {m}] \in Flush
  BY <1>1 DEF Flush, NoFlush
<1> QED
  BY <1>2, FlushUpdate DEF Dispatched

LEMMA HeadEventType ==
    ASSUME TypeOK, NEW p \in Portals, queue[p] # <<>>
    PROVE  /\ Head(queue[p]) \in Event
           /\ Tail(queue[p]) \in Seq(Event)
           /\ Head(queue[p]) = queue[p][1]
           /\ Len(Tail(queue[p])) = Len(queue[p]) - 1
           /\ Len(queue[p]) >= 1
           /\ \A i \in 1..Len(Tail(queue[p])) : Tail(queue[p])[i] = queue[p][i + 1]
BY DEF TypeOK

LEMMA DoneType ==
    ASSUME TypeOK, NEW p \in Portals, OnForwardBackfillDone(p)
    PROVE  /\ pending' \in Int
           /\ flushed' \in BOOLEAN
           /\ flush' \in [Agents -> Flush]
<1>1. p \in Agents
  BY DEF Agents
<1>2. FlushFrom(p) \in [Agents -> Flush]
  BY <1>1, FlushFromType
<1>3. flush' \in [Agents -> Flush]
  BY <1>2 DEF OnForwardBackfillDone, TypeOK
<1> QED
  BY <1>3 DEF OnForwardBackfillDone, TypeOK

LEMMA FetchingFinite ==
    /\ IsFiniteSet({p \in Portals : loop[p] = "fetch"})
    /\ Cardinality({p \in Portals : loop[p] = "fetch"}) \in Nat
<1>1. {p \in Portals : loop[p] = "fetch"} \subseteq Portals
  OBVIOUS
<1>2. IsFiniteSet({p \in Portals : loop[p] = "fetch"})
  BY <1>1, FS_Subset, GateAssumption
<1> QED
  BY <1>2, FS_CardinalityType

LEMMA FetchingHoldsSlot ==
    ASSUME TypeOK, SemInv, NEW p \in Portals, loop[p] = "fetch"
    PROVE  sem - 1 \in 0..ForwardSlots
<1>1. Cardinality({q \in Portals : loop[q] = "fetch"}) # 0
  BY FetchingFinite, FS_EmptySet
<1> QED
  BY <1>1, FetchingFinite, GateAssumption DEF SemInv, TypeOK

LEMMA InitType == Init => TypeOK
<1> SUFFICES ASSUME Init PROVE TypeOK
  OBVIOUS
<1>1. flush \in [Agents -> Flush]
  BY DEF Init, NoFlush, Flush
<1>2. queue \in [Portals -> Seq(Event)]
  BY DEF Init
<1>3. shown \in [Portals -> Seq(Msgs \cup {History})]
  BY DEF Init
<1>4. sem \in 0..ForwardSlots
  BY GateAssumption DEF Init
<1>5. rooms \in SUBSET Portals /\ toQueue \in SUBSET Portals
  BY DEF Init, Candidates
<1>6. loop \in [Portals -> {"idle", "wait", "fetch", "deliver"}]
  BY DEF Init
<1>7. syncDone \in BOOLEAN /\ flushed \in BOOLEAN /\ timer \in BOOLEAN /\ stopped \in BOOLEAN
  BY DEF Init
<1> QED
  BY <1>1, <1>2, <1>3, <1>4, <1>5, <1>6, <1>7 DEF Init, TypeOK

LEMMA NeedsCount == Cardinality(NeedsInitialBackfill) \in Nat
<1>1. NeedsInitialBackfill \subseteq Portals
  BY DEF NeedsInitialBackfill
<1>2. IsFiniteSet(NeedsInitialBackfill)
  BY <1>1, FS_Subset, GateAssumption
<1> QED
  BY <1>2, FS_CardinalityType

LEMMA TypeStep ==
    ASSUME TypeOK, SemInv, [Next]_vars
    PROVE  TypeOK'
<1> USE DEF gateVars, ctlVars, bufVars, loopVars, logVars
<1>1. ASSUME NEW m \in Msgs, OnMessage(m) PROVE TypeOK'
  <2>1. flush' \in [Agents -> Flush]
    <3>1. \A a \in Flushers : FlushFrom(a) \in [Agents -> Flush]
      BY FlushFromType DEF Agents
    <3> QED
      BY <1>1, <3>1 DEF OnMessage, TypeOK
  <2> QED
    BY <1>1, <2>1 DEF OnMessage, TypeOK
<1>2. ASSUME NEW a \in Flushers, TimerFires(a) PROVE TypeOK'
  <2>1. FlushFrom(a) \in [Agents -> Flush]
    BY FlushFromType DEF Agents
  <2> QED
    BY <1>2, <2>1 DEF TimerFires, TypeOK
<1>3. ASSUME NEW a \in Deleters, HandleMatrixDeleteChat(a) PROVE TypeOK'
  <2>1. FlushFrom(a) \in [Agents -> Flush]
    BY FlushFromType DEF Agents
  <2> QED
    BY <1>3, <2>1 DEF HandleMatrixDeleteChat, TypeOK
<1>4. ASSUME NEW a \in Agents, FlushStep(a) PROVE TypeOK'
  <2>1. CASE TakeBuffer(a)
    <3>1. flush' \in [Agents -> Flush]
      <4>1. flush[a] \in Flush /\ buffer \in SUBSET Msgs
        BY DEF TypeOK
      <4>2. [flush[a] EXCEPT !.phase = "buffer", !.todo = buffer] \in Flush
        BY <4>1 DEF Flush
      <4> QED
        BY <2>1, <4>2, FlushUpdate DEF TakeBuffer
    <3> QED
      BY <2>1, <3>1 DEF TakeBuffer, TypeOK
  <2>2. CASE TakeHeld(a)
    <3>1. flush' \in [Agents -> Flush]
      <4>1. flush[a] \in Flush /\ held \in SUBSET Msgs
        BY DEF TypeOK
      <4>2. [flush[a] EXCEPT !.phase = "held", !.todo = held] \in Flush
        BY <4>1 DEF Flush
      <4> QED
        BY <2>2, <4>2, FlushUpdate DEF TakeHeld
    <3> QED
      BY <2>2, <3>1 DEF TakeHeld, TypeOK
  <2>3. CASE FlushReturns(a)
    <3>1. flush' \in [Agents -> Flush]
      <4>1. flush[a] \in Flush
        BY DEF TypeOK
      <4>2. [flush[a] EXCEPT !.phase = IF a \in Deleters THEN "over" ELSE "idle"] \in Flush
        BY <4>1 DEF Flush
      <4> QED
        BY <2>3, <4>2, FlushUpdate DEF FlushReturns
    <3> QED
      BY <2>3, <3>1 DEF FlushReturns, TypeOK
  <2>4. CASE ReadGate(a)
    <3>1. flush' \in [Agents -> Flush]
      <4>1. flush[a] \in Flush /\ syncDone \in BOOLEAN
        BY DEF TypeOK
      <4>2. [flush[a] EXCEPT !.step = "room", !.create = syncDone] \in Flush
        BY <4>1 DEF Flush
      <4> QED
        BY <2>4, <4>2, FlushUpdate DEF ReadGate
    <3> QED
      BY <2>4, <3>1 DEF ReadGate, TypeOK
  <2>5. ASSUME NEW m \in Msgs, LookUpPortal(a, m) PROVE TypeOK'
    <3>1. flush' \in [Agents -> Flush]
      <4>1. flush[a] \in Flush
        BY DEF TypeOK
      <4>2. [flush[a] EXCEPT !.step = "act", !.missing = PortalOf[m] \notin rooms] \in Flush
        BY <4>1 DEF Flush
      <4> QED
        BY <2>5, <4>2, FlushUpdate DEF LookUpPortal
    <3> QED
      BY <2>5, <3>1 DEF LookUpPortal, TypeOK
  <2>6. ASSUME NEW m \in Msgs, HoldMessage(a, m) PROVE TypeOK'
    <3>1. flush' \in [Agents -> Flush]
      BY <2>6, DispatchedType DEF HoldMessage
    <3> QED
      BY <2>6, <3>1 DEF HoldMessage, TypeOK
  <2>7. ASSUME NEW m \in Msgs, QueueMessage(a, m) PROVE TypeOK'
    <3>1. flush' \in [Agents -> Flush]
      BY <2>7, DispatchedType DEF QueueMessage
    <3>2. [msg |-> m, create |-> flush[a].create] \in Event
      BY DEF TypeOK, Event, Flush
    <3>3. queue' \in [Portals -> Seq(Event)]
      BY <2>7, <3>2, GateAssumption DEF QueueMessage, TypeOK
    <3> QED
      BY <2>7, <3>1, <3>3 DEF QueueMessage, TypeOK
  <2> QED
    BY <1>4, <2>1, <2>2, <2>3, <2>4, <2>5, <2>6, <2>7 DEF FlushStep
<1>5. CASE ControllerStep
  <2>1. CASE ContactsReady
    BY <2>1 DEF ContactsReady, CtlGoes, TypeOK
  <2>2. CASE SyncAbandoned
    BY <2>2 DEF SyncAbandoned, CtlGoes, TypeOK
  <2>3. CASE CountPortals
    BY <2>3, NeedsCount DEF CountPortals, CtlGoes, TypeOK
  <2>4. CASE ScanFails
    BY <2>4 DEF ScanFails, CtlGoes, TypeOK
  <2>5. ASSUME NEW p \in Portals, QueueResync(p) PROVE TypeOK'
    <3>1. [msg |-> History, create |-> TRUE] \in Event
      BY DEF Event
    <3>2. queue' \in [Portals -> Seq(Event)]
      BY <2>5, <3>1 DEF QueueResync, TypeOK
    <3> QED
      BY <2>5, <3>2 DEF QueueResync, TypeOK
  <2>6. CASE AllQueued
    BY <2>6 DEF AllQueued, CtlGoes, TypeOK
  <2>7. CASE OpenGate
    BY <2>7 DEF OpenGate, CtlGoes, TypeOK
  <2>8. CASE LoadPending
    <3>1. FlushFrom(Ctl) \in [Agents -> Flush]
      BY FlushFromType DEF Agents
    <3>2. flush' \in [Agents -> Flush]
      BY <2>8, <3>1 DEF LoadPending, TypeOK
    <3> QED
      BY <2>8, <3>2 DEF LoadPending, CtlGoes, TypeOK
  <2> QED
    BY <1>5, <2>1, <2>2, <2>3, <2>4, <2>5, <2>6, <2>7, <2>8 DEF ControllerStep
<1>6. CASE SyncSucceeds
  BY <1>6 DEF SyncSucceeds, CtlGoes, TypeOK
<1>7. CASE NetStep
  <2>1. CASE NetLeaves
    BY <2>1 DEF NetLeaves, TypeOK
  <2>2. CASE NetForcesFlush
    <3>1. FlushFrom(Net) \in [Agents -> Flush]
      BY FlushFromType DEF Agents
    <3> QED
      BY <2>2, <3>1 DEF NetForcesFlush, TypeOK
  <2> QED
    BY <1>7, <2>1, <2>2 DEF NetStep
<1>8. ASSUME NEW p \in Portals, LoopStep(p) PROVE TypeOK'
  <2>1. CASE HandleResync(p)
    BY <2>1, HeadEventType DEF HandleResync, NextEvent, TypeOK
  <2>2. CASE HandleMessageEvent(p)
    <3>1. Head(queue[p]).msg \in Msgs
      BY <2>2, HeadEventType DEF HandleMessageEvent, NextEvent, Event
    <3>2. queue' \in [Portals -> Seq(Event)]
      BY <2>2, HeadEventType DEF HandleMessageEvent, NextEvent, TypeOK
    <3>3. shown' \in [Portals -> Seq(Msgs \cup {History})]
      BY <2>2, <3>1 DEF HandleMessageEvent, TypeOK
    <3> QED
      BY <2>2, <3>1, <3>2, <3>3 DEF HandleMessageEvent, TypeOK
  <2>3. CASE CreateRoom(p)
    BY <2>3 DEF CreateRoom, TypeOK
  <2>4. CASE AcquireSlot(p)
    BY <2>4, GateAssumption DEF AcquireSlot, TypeOK
  <2>5. CASE FetchReturnsNothing(p)
    BY <2>5, FetchingHoldsSlot, DoneType DEF FetchReturnsNothing, TypeOK
  <2>6. CASE FetchReturnsBatch(p)
    BY <2>6, FetchingHoldsSlot DEF FetchReturnsBatch, TypeOK
  <2>7. CASE DeliverBatch(p)
    BY <2>7, DoneType DEF DeliverBatch, TypeOK
  <2> QED
    BY <1>8, <2>1, <2>2, <2>3, <2>4, <2>5, <2>6, <2>7 DEF LoopStep
<1>9. ASSUME NEW p \in Portals, LoseResync(p) PROVE TypeOK'
  BY <1>9, HeadEventType DEF LoseResync, NextEvent, TypeOK
<1>10. ASSUME NEW p \in Portals, FetchCancelled(p) PROVE TypeOK'
  BY <1>10, DoneType DEF FetchCancelled, TypeOK
<1>11. CASE Disconnect
  BY <1>11 DEF Disconnect, TypeOK
<1>12. CASE UNCHANGED vars
  BY <1>12 DEF vars, TypeOK
<1> QED
  BY <1>1, <1>2, <1>3, <1>4, <1>5, <1>6, <1>7, <1>8, <1>9, <1>10, <1>11, <1>12 DEF Next

-----------------------------------------------------------------------------
(* forwardBackfillSem.                                                     *)

LEMMA SemKeeps ==
    ASSUME SemInv, sem' = sem, \A p \in Portals : loop'[p] = "fetch" <=> loop[p] = "fetch"
    PROVE  SemInv'
<1>1. {p \in Portals : loop'[p] = "fetch"} = {p \in Portals : loop[p] = "fetch"}
  OBVIOUS
<1> QED
  BY <1>1 DEF SemInv

LEMMA SemReleases ==
    ASSUME TypeOK, SemInv, NEW p \in Portals, loop[p] = "fetch", sem' = sem - 1,
           NEW s \in {"idle", "deliver"}, loop' = [loop EXCEPT ![p] = s]
    PROVE  SemInv'
<1> DEFINE F == {q \in Portals : loop[q] = "fetch"}
<1>1. {q \in Portals : loop'[q] = "fetch"} = F \ {p}
  BY DEF TypeOK
<1>2. Cardinality(F \ {p}) = Cardinality(F) - 1
  BY FetchingFinite, FS_RemoveElement
<1> QED
  BY <1>1, <1>2 DEF SemInv

LEMMA SemAcquires ==
    ASSUME TypeOK, SemInv, NEW p \in Portals, loop[p] = "wait", sem' = sem + 1,
           loop' = [loop EXCEPT ![p] = "fetch"]
    PROVE  SemInv'
<1> DEFINE F == {q \in Portals : loop[q] = "fetch"}
<1>1. {q \in Portals : loop'[q] = "fetch"} = F \cup {p}
  BY DEF TypeOK
<1>2. Cardinality(F \cup {p}) = Cardinality(F) + 1
  BY FetchingFinite, FS_AddElement
<1> QED
  BY <1>1, <1>2 DEF SemInv

LEMMA SemStep ==
    ASSUME TypeOK, SemInv, [Next]_vars
    PROVE  SemInv'
<1> USE DEF gateVars, ctlVars, bufVars, loopVars, logVars
<1> DEFINE Same == sem' = sem /\ \A p \in Portals : loop'[p] = "fetch" <=> loop[p] = "fetch"
<1>1. ASSUME NEW m \in Msgs, OnMessage(m) PROVE Same
  BY <1>1 DEF OnMessage
<1>2. ASSUME NEW a \in Flushers, TimerFires(a) PROVE Same
  BY <1>2 DEF TimerFires
<1>3. ASSUME NEW a \in Deleters, HandleMatrixDeleteChat(a) PROVE Same
  BY <1>3 DEF HandleMatrixDeleteChat
<1>4. ASSUME NEW a \in Agents, FlushStep(a) PROVE Same
  BY <1>4 DEF FlushStep, TakeBuffer, TakeHeld, FlushReturns, ReadGate, LookUpPortal,
              HoldMessage, QueueMessage
<1>5. ASSUME ControllerStep PROVE Same
  BY <1>5 DEF ControllerStep, ContactsReady, SyncAbandoned, CountPortals, ScanFails,
              QueueResync, AllQueued, OpenGate, LoadPending
<1>6. ASSUME SyncSucceeds PROVE Same
  BY <1>6 DEF SyncSucceeds
<1>7. ASSUME NetStep PROVE Same
  BY <1>7 DEF NetStep, NetLeaves, NetForcesFlush
<1>8. ASSUME NEW p \in Portals, LoopStep(p) PROVE SemInv'
  <2>1. CASE HandleResync(p)
    <3>1. Same
      BY <2>1 DEF HandleResync, NextEvent, Free, TypeOK
    <3> QED
      BY <3>1, SemKeeps
  <2>2. CASE HandleMessageEvent(p)
    <3>1. Same
      BY <2>2 DEF HandleMessageEvent
    <3> QED
      BY <3>1, SemKeeps
  <2>3. CASE CreateRoom(p)
    <3>1. Same
      BY <2>3 DEF CreateRoom, NextEvent, Free, TypeOK
    <3> QED
      BY <3>1, SemKeeps
  <2>4. CASE AcquireSlot(p)
    BY <2>4, SemAcquires DEF AcquireSlot
  <2>5. CASE FetchReturnsNothing(p)
    BY <2>5, SemReleases DEF FetchReturnsNothing
  <2>6. CASE FetchReturnsBatch(p)
    BY <2>6, SemReleases DEF FetchReturnsBatch
  <2>7. CASE DeliverBatch(p)
    <3>1. Same
      BY <2>7 DEF DeliverBatch, TypeOK
    <3> QED
      BY <3>1, SemKeeps
  <2> QED
    BY <1>8, <2>1, <2>2, <2>3, <2>4, <2>5, <2>6, <2>7 DEF LoopStep
<1>9. ASSUME NEW p \in Portals, LoseResync(p) PROVE Same
  BY <1>9 DEF LoseResync
<1>10. ASSUME NEW p \in Portals, FetchCancelled(p) PROVE Same
  BY <1>10 DEF FetchCancelled, TypeOK
<1>11. ASSUME Disconnect PROVE Same
  BY <1>11 DEF Disconnect
<1>12. ASSUME UNCHANGED vars PROVE Same
  BY <1>12 DEF vars
<1>13. CASE Same
  BY <1>13, SemKeeps
<1> QED
  BY <1>1, <1>2, <1>3, <1>4, <1>5, <1>6, <1>7, <1>8, <1>9, <1>10, <1>11, <1>12, <1>13 DEF Next

-----------------------------------------------------------------------------
(* What one step does to the gate, to a room and to a queue, whoever takes *)
(* it.                                                                     *)

\* A message at the head of q has no room and may not create one.
Homeless(q) ==
    /\ queue[q] # <<>> /\ Head(queue[q]).msg # History
    /\ ~Head(queue[q]).create /\ q \notin rooms

\* The gate and the rooms stay; candidates are only queued; only a homeless
\* message is dropped.
Forward ==
    /\ rooms \subseteq rooms'
    /\ syncDone => syncDone'
    /\ toQueue' \subseteq toQueue
    /\ dropped' = dropped \/ \E q \in Portals : Homeless(q)

\* Nothing of portal p changes, but that may be queued for it.
Untouched(p) == rooms' = rooms /\ loop'[p] = loop[p] /\ shown'[p] = shown[p]

\* A message of portal p is queued by the flush of a.
Queues(a, m, p) ==
    /\ Dispatches(a, m) /\ flush[a].step = "act" /\ PortalOf[m] = p
    /\ flush[a].create \/ ~flush[a].missing
    /\ queue'[p] = Append(queue[p], [msg |-> m, create |-> flush[a].create])

PortalMoves(p) ==
    \/ Untouched(p) /\ queue'[p] = queue[p]
    \/ /\ Untouched(p) /\ p \in toQueue /\ p \notin toQueue' /\ ~(ctl \in {"gate", "load", "done"})
       /\ queue'[p] = Append(queue[p], [msg |-> History, create |-> TRUE])
    \/ Untouched(p) /\ \E a \in Agents, m \in Msgs : Queues(a, m, p)
    \* The ChatResync at the head is handled, or lost.
    \/ /\ queue[p] # <<>> /\ Head(queue[p]).msg = History
       /\ queue'[p] = Tail(queue[p]) /\ shown'[p] = shown[p] /\ loop[p] = "idle"
       /\ \/ rooms' = rooms \cup {p} /\ (loop'[p] = "idle" \/ p \notin rooms \/ NeedsBackfill(p))
          \/ rooms' = rooms /\ loop'[p] = "idle"
    \* The message at the head is sent.
    \/ /\ queue[p] # <<>> /\ Head(queue[p]).msg # History
       /\ p \in rooms \/ ~Head(queue[p]).create
       /\ queue'[p] = Tail(queue[p]) /\ rooms' = rooms
       /\ shown'[p] = IF p \in rooms THEN Append(shown[p], Head(queue[p]).msg) ELSE shown[p]
       /\ loop[p] = "idle" /\ loop'[p] = "idle"
    \* The message at the head creates the room.
    \/ /\ queue[p] # <<>> /\ Head(queue[p]).msg # History /\ Head(queue[p]).create
       /\ p \notin rooms /\ rooms' = rooms \cup {p}
       /\ queue'[p] = queue[p] /\ shown'[p] = shown[p] /\ loop[p] = "idle"
    \* A backfill of p moves on.
    \/ /\ loop[p] # "idle" /\ rooms' = rooms /\ queue'[p] = queue[p]
       /\ \/ shown'[p] = shown[p]
          \/ loop'[p] = "idle" /\ shown'[p] = Append(shown[p], History)
    \* Another portal gets its room.
    \/ /\ \E q \in Portals : q # p /\ rooms' = rooms \cup {q}
       /\ loop'[p] = loop[p] /\ shown'[p] = shown[p] /\ queue'[p] = queue[p]

LEMMA MovesStep ==
    ASSUME TypeOK, [Next]_vars, NEW p \in Portals
    PROVE  Forward /\ PortalMoves(p)
<1> USE DEF gateVars, ctlVars, bufVars, loopVars, logVars
<1>1. ASSUME NEW m \in Msgs, OnMessage(m) PROVE Forward /\ PortalMoves(p)
  BY <1>1 DEF OnMessage, Forward, PortalMoves, Untouched
<1>2. ASSUME NEW a \in Flushers, TimerFires(a) PROVE Forward /\ PortalMoves(p)
  BY <1>2 DEF TimerFires, Forward, PortalMoves, Untouched
<1>3. ASSUME NEW a \in Deleters, HandleMatrixDeleteChat(a) PROVE Forward /\ PortalMoves(p)
  BY <1>3 DEF HandleMatrixDeleteChat, Forward, PortalMoves, Untouched
<1>4. ASSUME NEW a \in Agents, FlushStep(a) PROVE Forward /\ PortalMoves(p)
  <2>1. ASSUME NEW m \in Msgs, QueueMessage(a, m) PROVE Forward /\ PortalMoves(p)
    <3>1. Forward /\ Untouched(p)
      BY <2>1 DEF QueueMessage, Forward, Untouched
    <3>2. CASE PortalOf[m] = p
      <4>1. Queues(a, m, p)
        BY <2>1, <3>2 DEF QueueMessage, Queues, TypeOK
      <4> QED
        BY <3>1, <4>1 DEF PortalMoves
    <3>3. CASE PortalOf[m] # p
      <4>1. queue'[p] = queue[p]
        BY <2>1, <3>3 DEF QueueMessage, TypeOK
      <4> QED
        BY <3>1, <4>1 DEF PortalMoves
    <3> QED
      BY <3>2, <3>3
  <2>2. CASE TakeBuffer(a) \/ TakeHeld(a) \/ FlushReturns(a) \/ ReadGate(a)
    BY <2>2 DEF TakeBuffer, TakeHeld, FlushReturns, ReadGate, Forward, PortalMoves, Untouched
  <2>3. ASSUME NEW m \in Msgs, LookUpPortal(a, m) \/ HoldMessage(a, m) PROVE Forward /\ PortalMoves(p)
    BY <2>3 DEF LookUpPortal, HoldMessage, Forward, PortalMoves, Untouched
  <2> QED
    BY <1>4, <2>1, <2>2, <2>3 DEF FlushStep
<1>5. CASE ControllerStep
  <2>1. ASSUME NEW q \in Portals, QueueResync(q) PROVE Forward /\ PortalMoves(p)
    <3>1. Forward /\ Untouched(p)
      BY <2>1 DEF QueueResync, Forward, Untouched
    <3>2. q # p => queue'[p] = queue[p]
      BY <2>1 DEF QueueResync, TypeOK
    <3>3. q = p => queue'[p] = Append(queue[p], [msg |-> History, create |-> TRUE])
      BY <2>1 DEF QueueResync, TypeOK
    <3> QED
      BY <2>1, <3>1, <3>2, <3>3 DEF QueueResync, PortalMoves
  <2>2. ASSUME ~\E q \in Portals : QueueResync(q) PROVE Forward /\ PortalMoves(p)
    BY <1>5, <2>2 DEF ControllerStep, ContactsReady, SyncAbandoned, CountPortals, ScanFails,
                      AllQueued, OpenGate, LoadPending, Forward, PortalMoves, Untouched
  <2> QED
    BY <2>1, <2>2
<1>6. CASE SyncSucceeds
  BY <1>6 DEF SyncSucceeds, Forward, PortalMoves, Untouched
<1>7. CASE NetStep
  BY <1>7 DEF NetStep, NetLeaves, NetForcesFlush, Forward, PortalMoves, Untouched
<1>8. ASSUME NEW q \in Portals, LoopStep(q) PROVE Forward /\ PortalMoves(p)
  <2>1. CASE HandleResync(q)
    BY <2>1 DEF HandleResync, Forward, PortalMoves, Untouched, TypeOK, NextEvent, Free
  <2>2. CASE HandleMessageEvent(q)
    <3>1. Forward
      BY <2>2 DEF HandleMessageEvent, Forward, Homeless, NextEvent
    <3>2. PortalMoves(p)
      BY <2>2 DEF HandleMessageEvent, PortalMoves, Untouched, TypeOK, NextEvent, Free
    <3> QED
      BY <3>1, <3>2
  <2>3. CASE CreateRoom(q)
    BY <2>3 DEF CreateRoom, Forward, PortalMoves, Untouched, TypeOK, NextEvent, Free
  <2>4. CASE AcquireSlot(q)
    BY <2>4 DEF AcquireSlot, Forward, PortalMoves, Untouched, TypeOK
  <2>5. CASE FetchReturnsNothing(q)
    BY <2>5 DEF FetchReturnsNothing, Forward, PortalMoves, Untouched, TypeOK, OnForwardBackfillDone
  <2>6. CASE FetchReturnsBatch(q)
    BY <2>6 DEF FetchReturnsBatch, Forward, PortalMoves, Untouched, TypeOK
  <2>7. CASE DeliverBatch(q)
    BY <2>7 DEF DeliverBatch, Forward, PortalMoves, Untouched, TypeOK, OnForwardBackfillDone
  <2> QED
    BY <1>8, <2>1, <2>2, <2>3, <2>4, <2>5, <2>6, <2>7 DEF LoopStep
<1>9. ASSUME NEW q \in Portals, LoseResync(q) PROVE Forward /\ PortalMoves(p)
  BY <1>9 DEF LoseResync, NextEvent, Free, Forward, PortalMoves, Untouched, TypeOK
<1>10. ASSUME NEW q \in Portals, FetchCancelled(q) PROVE Forward /\ PortalMoves(p)
  BY <1>10 DEF FetchCancelled, OnForwardBackfillDone, Forward, PortalMoves, Untouched, TypeOK
<1>11. CASE Disconnect
  BY <1>11 DEF Disconnect, Forward, PortalMoves, Untouched
<1>12. CASE UNCHANGED vars
  BY <1>12 DEF vars, Forward, PortalMoves, Untouched
<1> QED
  BY <1>1, <1>2, <1>3, <1>4, <1>5, <1>6, <1>7, <1>8, <1>9, <1>10, <1>11, <1>12 DEF Next

-----------------------------------------------------------------------------
(* Each part of the inductive invariant is kept by every step.             *)

LEMMA ControlStep ==
    ASSUME TypeOK, ControlInv, [Next]_vars
    PROVE  ControlInv'
<1> USE DEF gateVars, ctlVars, bufVars, loopVars, logVars
<1> DEFINE Same == UNCHANGED <<syncDone, ctl, toQueue>>
<1>1. ASSUME NEW m \in Msgs, OnMessage(m) PROVE Same
  BY <1>1 DEF OnMessage
<1>2. ASSUME NEW a \in Flushers, TimerFires(a) PROVE Same
  BY <1>2 DEF TimerFires
<1>3. ASSUME NEW a \in Deleters, HandleMatrixDeleteChat(a) PROVE Same
  BY <1>3 DEF HandleMatrixDeleteChat
<1>4. ASSUME NEW a \in Agents, FlushStep(a) PROVE Same
  BY <1>4 DEF FlushStep, TakeBuffer, TakeHeld, FlushReturns, ReadGate, LookUpPortal,
              HoldMessage, QueueMessage
<1>5. CASE ControllerStep
  BY <1>5 DEF ControllerStep, ContactsReady, SyncAbandoned, CountPortals, ScanFails,
              QueueResync, AllQueued, OpenGate, LoadPending, CtlGoes, ControlInv
<1>6. CASE SyncSucceeds
  BY <1>6 DEF SyncSucceeds, CtlGoes, ControlInv
<1>7. ASSUME NetStep PROVE Same
  BY <1>7 DEF NetStep, NetLeaves, NetForcesFlush
<1>8. ASSUME NEW p \in Portals, LoopStep(p) PROVE Same
  BY <1>8 DEF LoopStep, HandleResync, HandleMessageEvent, CreateRoom, AcquireSlot,
              FetchReturnsNothing, FetchReturnsBatch, DeliverBatch
<1>9. ASSUME NEW p \in Portals, LoseResync(p) \/ FetchCancelled(p) PROVE Same
  BY <1>9 DEF LoseResync, FetchCancelled
<1>10. ASSUME Disconnect PROVE Same
  BY <1>10 DEF Disconnect
<1>11. ASSUME UNCHANGED vars PROVE Same
  BY <1>11 DEF vars
<1>12. CASE Same
  BY <1>12 DEF ControlInv, Candidates
<1> QED
  BY <1>1, <1>2, <1>3, <1>4, <1>5, <1>6, <1>7, <1>8, <1>9, <1>10, <1>11, <1>12 DEF Next

\* Before the gate opens a candidate that is still to be queued has no event.
LEMMA AllQueuedFirst ==
    ASSUME TypeOK, ControlInv, NEW p \in Portals, p \in toQueue
    PROVE  ~syncDone /\ Kind[p] # "unknown"
BY DEF ControlInv, Candidates

LEMMA EventStep ==
    ASSUME TypeOK, ControlInv, AllAgents, AllEvents, [Next]_vars
    PROVE  AllEvents'
<1> SUFFICES ASSUME NEW p \in Portals PROVE EventInv(p)'
  BY DEF AllEvents
<1>1. Forward /\ PortalMoves(p)
  BY MovesStep
<1>2. EventInv(p) /\ queue[p] \in Seq(Event)
  BY DEF AllEvents, TypeOK
<1>3. ASSUME queue'[p] = queue[p] PROVE EventInv(p)'
  BY <1>1, <1>2, <1>3 DEF EventInv, Forward
<1>4. ASSUME queue[p] # <<>>, queue'[p] = Tail(queue[p]) PROVE EventInv(p)'
  <2> SUFFICES ASSUME NEW i \in 1..Len(queue'[p])
               PROVE  IF queue'[p][i].msg = History
                      THEN Kind[p] # "unknown" /\ p \notin toQueue'
                      ELSE p \in rooms' \/ (queue'[p][i].create /\ syncDone')
    BY DEF EventInv
  <2>1. i + 1 \in 1..Len(queue[p]) /\ queue'[p][i] = queue[p][i + 1]
    BY <1>2, <1>4, HeadEventType
  <2> QED
    BY <1>1, <1>2, <2>1 DEF EventInv, Forward
<1>5. ASSUME NEW e \in Event, queue'[p] = Append(queue[p], e),
             IF e.msg = History
             THEN Kind[p] # "unknown" /\ p \notin toQueue'
             ELSE p \in rooms' \/ (e.create /\ syncDone')
      PROVE  EventInv(p)'
  <2> SUFFICES ASSUME NEW i \in 1..Len(queue'[p])
               PROVE  IF queue'[p][i].msg = History
                      THEN Kind[p] # "unknown" /\ p \notin toQueue'
                      ELSE p \in rooms' \/ (queue'[p][i].create /\ syncDone')
    BY DEF EventInv
  <2>1. CASE i = Len(queue[p]) + 1
    BY <1>2, <1>5, <2>1
  <2>2. CASE i # Len(queue[p]) + 1
    <3>1. i \in 1..Len(queue[p]) /\ queue'[p][i] = queue[p][i]
      BY <1>2, <1>5, <2>2
    <3> QED
      BY <1>1, <1>2, <3>1 DEF EventInv, Forward
  <2> QED
    BY <2>1, <2>2
<1>6. ASSUME p \in toQueue, p \notin toQueue',
             queue'[p] = Append(queue[p], [msg |-> History, create |-> TRUE])
      PROVE  EventInv(p)'
  BY <1>5, <1>6, AllQueuedFirst DEF Event
<1>7. ASSUME NEW a \in Agents, NEW m \in Msgs, Queues(a, m, p) PROVE EventInv(p)'
  <2>1. [msg |-> m, create |-> flush[a].create] \in Event
    BY DEF TypeOK, Flush, Event
  <2>2. AgentInv(a)
    BY DEF AllAgents
  <2>3. p \in rooms \/ (flush[a].create /\ syncDone)
    BY <1>7, <2>2 DEF Queues, AgentInv
  <2> QED
    BY <1>1, <1>5, <1>7, <2>1, <2>3, GateAssumption DEF Queues, Forward
<1> QED
  BY <1>1, <1>3, <1>4, <1>6, <1>7 DEF PortalMoves

LEMMA RoomStep ==
    ASSUME TypeOK, AllRooms, [Next]_vars
    PROVE  AllRooms'
<1> SUFFICES ASSUME NEW p \in Portals PROVE RoomInv(p)'
  BY DEF AllRooms
<1>1. Forward /\ PortalMoves(p) /\ RoomInv(p)
  BY MovesStep DEF AllRooms
<1> QED
  BY <1>1 DEF Forward, PortalMoves, Untouched, RoomInv

LEMMA EarlyStep ==
    ASSUME TypeOK, TypeOK', ControlInv, AllEvents, NoEarlyRoom, [Next]_vars
    PROVE  NoEarlyRoom'
<1> SUFFICES ASSUME ~syncDone', NEW p \in Portals, p \in rooms'
             PROVE  Kind[p] # "unknown" /\ (Kind[p] = "new" => p \notin toQueue')
  <2>1. rooms' \subseteq Portals
    BY DEF TypeOK
  <2> QED
    BY <2>1 DEF NoEarlyRoom
<1>1. Forward /\ PortalMoves(p) /\ EventInv(p)
  BY MovesStep DEF AllEvents
<1>2. CASE p \in rooms
  BY <1>1, <1>2 DEF Forward, NoEarlyRoom
<1>3. CASE p \notin rooms
  <2>1. queue[p] # <<>>
    BY <1>1, <1>3 DEF PortalMoves, Untouched
  <2>2. Head(queue[p]) = queue[p][1] /\ 1 \in 1..Len(queue[p])
    BY <2>1, HeadEventType
  <2>3. ~syncDone
    BY <1>1 DEF Forward
  <2>4. Head(queue[p]).msg = History
    BY <1>1, <1>3, <2>2, <2>3 DEF EventInv
  <2> QED
    BY <1>1, <2>2, <2>4 DEF EventInv, Forward
<1> QED
  BY <1>2, <1>3

LEMMA DroppedStep ==
    ASSUME TypeOK, AllEvents, NotDropped, [Next]_vars
    PROVE  NotDropped'
<1>1. ASSUME NEW q \in Portals, Homeless(q) PROVE FALSE
  <2>1. Head(queue[q]) = queue[q][1] /\ 1 \in 1..Len(queue[q])
    BY <1>1, HeadEventType DEF Homeless
  <2> QED
    BY <1>1, <2>1 DEF Homeless, AllEvents, EventInv
<1>2. Forward
  BY MovesStep, GateAssumption
<1> QED
  BY <1>1, <1>2 DEF Forward, NotDropped

\* A flush that is not dispatching, or that nobody advances, keeps its invariant.
LEMMA AgentKeeps ==
    ASSUME TypeOK, Forward, NEW b \in Agents, AgentInv(b),
           flush'[b] = flush[b] \/ flush'[b] = [NoFlush EXCEPT !.phase = "take"]
    PROVE  AgentInv(b)'
<1>1. CASE flush'[b] = flush[b]
  BY <1>1 DEF AgentInv, Forward, Dispatches
<1>2. CASE flush'[b] = [NoFlush EXCEPT !.phase = "take"]
  BY <1>2 DEF AgentInv, NoFlush
<1> QED
  BY <1>1, <1>2

LEMMA FlushFromAt ==
    ASSUME TypeOK, NEW a \in Agents, NEW b \in Agents, flush' = FlushFrom(a) \/ flush' = flush
    PROVE  flush'[b] = flush[b] \/ flush'[b] = [NoFlush EXCEPT !.phase = "take"]
BY DEF FlushFrom, TypeOK

LEMMA AgentStep ==
    ASSUME TypeOK, AllAgents, [Next]_vars
    PROVE  AllAgents'
<1> USE DEF gateVars, ctlVars, bufVars, loopVars, logVars
<1> SUFFICES ASSUME NEW b \in Agents PROVE AgentInv(b)'
  BY DEF AllAgents
<1> DEFINE Kept == flush'[b] = flush[b] \/ flush'[b] = [NoFlush EXCEPT !.phase = "take"]
<1>0. Forward /\ AgentInv(b)
  BY MovesStep, GateAssumption DEF AllAgents
<1>1. ASSUME NEW m \in Msgs, OnMessage(m) PROVE Kept
  BY <1>1, FlushFromAt DEF OnMessage, Agents
<1>2. ASSUME NEW a \in Flushers, TimerFires(a) PROVE Kept
  BY <1>2, FlushFromAt DEF TimerFires, Agents
<1>3. ASSUME NEW a \in Deleters, HandleMatrixDeleteChat(a) PROVE Kept
  BY <1>3, FlushFromAt DEF HandleMatrixDeleteChat, Agents
<1>4. ASSUME NEW a \in Agents, FlushStep(a) PROVE AgentInv(b)'
  <2>1. CASE a # b
    <3>1. flush'[b] = flush[b]
      BY <1>4, <2>1 DEF FlushStep, TakeBuffer, TakeHeld, FlushReturns, ReadGate, LookUpPortal,
                        HoldMessage, QueueMessage, Dispatched, TypeOK
    <3> QED
      BY <1>0, <3>1, AgentKeeps
  <2>2. CASE a = b
    <3>0. flush[b] \in Flush /\ \A f : flush' = [flush EXCEPT ![b] = f] => flush'[b] = f
      BY DEF TypeOK
    <3>1. CASE TakeBuffer(b)
      <4>1. flush'[b] = [flush[b] EXCEPT !.phase = "buffer", !.todo = buffer]
        BY <3>0, <3>1 DEF TakeBuffer
      <4> QED
        BY <1>0, <3>0, <3>1, <4>1 DEF TakeBuffer, AgentInv, Flush, Forward
    <3>2. CASE TakeHeld(b)
      <4>1. flush'[b] = [flush[b] EXCEPT !.phase = "held", !.todo = held]
        BY <3>0, <3>2 DEF TakeHeld
      <4> QED
        BY <1>0, <3>0, <3>2, <4>1 DEF TakeHeld, AgentInv, Flush, Forward
    <3>3. CASE FlushReturns(b)
      <4>1. flush'[b] = [flush[b] EXCEPT !.phase = IF b \in Deleters THEN "over" ELSE "idle"]
        BY <3>0, <3>3 DEF FlushReturns
      <4> QED
        BY <1>0, <3>0, <3>3, <4>1 DEF FlushReturns, AgentInv, Flush, Forward
    <3>4. CASE ReadGate(b)
      <4>1. flush'[b] = [flush[b] EXCEPT !.step = "room", !.create = syncDone]
        BY <3>0, <3>4 DEF ReadGate
      <4> QED
        BY <1>0, <3>0, <3>4, <4>1 DEF ReadGate, AgentInv, Flush, Forward
    <3>5. ASSUME NEW m \in Msgs, LookUpPortal(b, m) PROVE AgentInv(b)'
      <4>1. flush'[b] = [flush[b] EXCEPT !.step = "act", !.missing = PortalOf[m] \notin rooms]
        BY <3>0, <3>5 DEF LookUpPortal
      <4>2. flush'[b].todo = flush[b].todo /\ flush'[b].phase = flush[b].phase
            /\ flush'[b].create = flush[b].create
            /\ (flush'[b].missing <=> PortalOf[m] \notin rooms)
        BY <3>0, <4>1 DEF Flush
      <4>3. \A n \in Msgs : Dispatches(b, n)' => n = m
        BY <3>0, <3>5, <4>2, GateAssumption DEF LookUpPortal, Dispatches, Flush
      <4>4. m \in flush[b].todo
        BY <3>5 DEF LookUpPortal, Dispatches
      <4> QED
        BY <1>0, <3>5, <4>2, <4>3, <4>4 DEF LookUpPortal, AgentInv, Forward
    <3>6. ASSUME NEW m \in Msgs, HoldMessage(b, m) \/ QueueMessage(b, m) PROVE AgentInv(b)'
      <4>1. flush'[b] = [NoFlush EXCEPT !.phase = flush[b].phase, !.todo = flush[b].todo \ {m}]
        BY <3>0, <3>6 DEF HoldMessage, QueueMessage, Dispatched
      <4>2. flush'[b].phase = flush[b].phase /\ flush'[b].step = "gate"
            /\ flush'[b].create = FALSE
        BY <4>1 DEF NoFlush
      <4>3. flush[b].phase \in {"buffer", "held"}
        BY <3>6 DEF HoldMessage, QueueMessage, Dispatches
      <4> QED
        BY <4>2, <4>3 DEF AgentInv
    <3> QED
      BY <1>4, <2>2, <3>1, <3>2, <3>3, <3>4, <3>5, <3>6 DEF FlushStep
  <2> QED
    BY <2>1, <2>2
<1>5. ASSUME ControllerStep PROVE Kept
  <2>1. Ctl \in Agents
    BY DEF Agents
  <2>2. flush' = FlushFrom(Ctl) \/ flush' = flush
    BY <1>5 DEF ControllerStep, ContactsReady, SyncAbandoned, CountPortals, ScanFails,
                QueueResync, AllQueued, OpenGate, LoadPending
  <2> QED
    BY <2>1, <2>2, FlushFromAt
<1>6. ASSUME SyncSucceeds \/ Disconnect \/ UNCHANGED vars PROVE Kept
  BY <1>6 DEF SyncSucceeds, Disconnect, vars
<1>7. ASSUME NetStep PROVE Kept
  <2>1. Net \in Agents
    BY DEF Agents
  <2>2. flush' = FlushFrom(Net) \/ flush' = flush
    BY <1>7 DEF NetStep, NetLeaves, NetForcesFlush
  <2> QED
    BY <2>1, <2>2, FlushFromAt
<1>8. ASSUME NEW p \in Portals, LoopStep(p) \/ LoseResync(p) \/ FetchCancelled(p) PROVE Kept
  <2>1. p \in Agents
    BY DEF Agents
  <2>2. flush' = FlushFrom(p) \/ flush' = flush
    BY <1>8 DEF LoopStep, HandleResync, HandleMessageEvent, CreateRoom, AcquireSlot,
                FetchReturnsNothing, FetchReturnsBatch, DeliverBatch, LoseResync,
                FetchCancelled, OnForwardBackfillDone
  <2> QED
    BY <2>1, <2>2, FlushFromAt
<1>9. CASE Kept
  BY <1>0, <1>9, AgentKeeps
<1> QED
  BY <1>1, <1>2, <1>3, <1>4, <1>5, <1>6, <1>7, <1>8, <1>9 DEF Next

LEMMA NewStep ==
    ASSUME TypeOK, ControlInv, AllEvents, AllRooms, AllNew, [Next]_vars
    PROVE  AllNew'
<1> SUFFICES ASSUME NEW p \in Portals, Kind[p] = "new" PROVE NewInv(p)'
  BY DEF AllNew, NewInv
<1> DEFINE Resyncs == \A i \in 1..Len(queue'[p]) :
                          queue'[p][i].msg = History => i = 1 /\ p \notin rooms'
           Waiting == p \in toQueue' => p \notin rooms'
           Filling == loop'[p] # "idle" => ~LiveShown(p)'
<1>0. Forward /\ EventInv(p) /\ RoomInv(p) /\ NewInv(p) /\ queue[p] \in Seq(Event)
  BY MovesStep DEF AllEvents, AllRooms, AllNew, TypeOK
<1>a. p \notin rooms => ~LiveShown(p)
  BY <1>0 DEF RoomInv, LiveShown
<1>b. queue[p] # <<>> => /\ Head(queue[p]) = queue[p][1]
                         /\ 1 \in 1..Len(queue[p])
                         /\ \A i \in 1..Len(Tail(queue[p])) :
                                i + 1 \in 1..Len(queue[p]) /\ i + 1 # 1
                                /\ Tail(queue[p])[i] = queue[p][i + 1]
  BY <1>0, HeadEventType
<1>1. CASE Untouched(p) /\ queue'[p] = queue[p]
  BY <1>0, <1>1 DEF Untouched, Forward, NewInv, LiveShown
<1>2. CASE /\ Untouched(p) /\ p \in toQueue /\ p \notin toQueue'
           /\ queue'[p] = Append(queue[p], [msg |-> History, create |-> TRUE])
  <2>1. ~syncDone /\ p \notin rooms
    BY <1>0, <1>2, AllQueuedFirst DEF NewInv
  <2>2. \A i \in 1..Len(queue[p]) : FALSE
    BY <1>0, <1>2, <2>1 DEF EventInv
  <2>3. Len(queue[p]) = 0
    BY <1>0, <2>2
  <2>4. Resyncs
    BY <1>0, <1>2, <2>1, <2>3 DEF Untouched
  <2> QED
    BY <1>0, <1>2, <2>4 DEF Untouched, NewInv, LiveShown
<1>3. ASSUME Untouched(p), NEW a \in Agents, NEW m \in Msgs, Queues(a, m, p)
      PROVE  NewInv(p)'
  <2>1. Resyncs
    <3> SUFFICES ASSUME NEW i \in 1..Len(queue'[p]), queue'[p][i].msg = History
                 PROVE  i = 1 /\ p \notin rooms'
      OBVIOUS
    <3>1. CASE i = Len(queue[p]) + 1
      BY <1>0, <1>3, <3>1, GateAssumption DEF Queues
    <3>2. CASE i # Len(queue[p]) + 1
      <4>1. i \in 1..Len(queue[p]) /\ queue'[p][i] = queue[p][i]
        BY <1>0, <1>3, <3>2 DEF Queues
      <4> QED
        BY <1>0, <1>3, <4>1 DEF NewInv, Untouched
    <3> QED
      BY <3>1, <3>2
  <2> QED
    BY <1>0, <1>3, <2>1 DEF Untouched, Forward, NewInv, LiveShown
<1>4. CASE /\ queue[p] # <<>> /\ Head(queue[p]).msg = History
           /\ queue'[p] = Tail(queue[p]) /\ shown'[p] = shown[p] /\ loop[p] = "idle"
  <2>1. p \notin rooms /\ p \notin toQueue
    BY <1>0, <1>4, <1>b DEF NewInv, EventInv
  <2>2. Resyncs
    BY <1>0, <1>4, <1>b DEF NewInv
  <2>3. ~LiveShown(p)'
    BY <1>4, <1>a, <2>1 DEF LiveShown
  <2> QED
    BY <1>0, <2>1, <2>2, <2>3 DEF NewInv, Forward
<1>5. CASE /\ queue[p] # <<>> /\ queue'[p] = Tail(queue[p]) /\ rooms' = rooms
           /\ loop'[p] = "idle"
  <2>1. Resyncs
    BY <1>0, <1>5, <1>b DEF NewInv
  <2> QED
    BY <1>0, <1>5, <2>1 DEF NewInv, Forward
<1>6. CASE /\ queue[p] # <<>> /\ Head(queue[p]).msg # History /\ p \notin rooms
           /\ queue'[p] = queue[p] /\ shown'[p] = shown[p]
  <2>1. Resyncs
    BY <1>0, <1>6, <1>b DEF NewInv
  <2>2. syncDone
    BY <1>0, <1>6, <1>b DEF EventInv
  <2>3. Waiting
    BY <1>0, <2>2, AllQueuedFirst DEF Forward
  <2>4. ~LiveShown(p)'
    BY <1>6, <1>a DEF LiveShown
  <2> QED
    BY <2>1, <2>3, <2>4 DEF NewInv
<1>7. CASE /\ loop[p] # "idle" /\ rooms' = rooms /\ queue'[p] = queue[p]
           /\ shown'[p] = shown[p] \/ loop'[p] = "idle"
  BY <1>0, <1>7 DEF Forward, NewInv, LiveShown
<1>8. CASE /\ \E q \in Portals : q # p /\ rooms' = rooms \cup {q}
           /\ loop'[p] = loop[p] /\ shown'[p] = shown[p] /\ queue'[p] = queue[p]
  BY <1>0, <1>8 DEF Forward, NewInv, LiveShown
<1> QED
  <2>1. PortalMoves(p)
    BY MovesStep
  <2> QED
    BY <2>1, <1>1, <1>2, <1>3, <1>4, <1>5, <1>6, <1>7, <1>8 DEF PortalMoves

-----------------------------------------------------------------------------
(* The theorems.                                                           *)

LEMMA InitInv == Init => IInv
<1> SUFFICES ASSUME Init PROVE IInv
  OBVIOUS
<1>1. TypeOK
  BY InitType
<1>2. SemInv
  <2>1. {p \in Portals : loop[p] = "fetch"} = {}
    BY DEF Init
  <2> QED
    BY <2>1, FS_EmptySet DEF SemInv, Init
<1>3. ControlInv
  BY DEF Init, ControlInv
<1>4. AllAgents
  BY DEF Init, AllAgents, AgentInv, NoFlush
<1>5. AllEvents /\ AllRooms
  BY DEF Init, AllEvents, EventInv, AllRooms, RoomInv
<1>6. AllNew
  BY DEF Init, AllNew, NewInv, LiveShown
<1>7. NoEarlyRoom /\ NotDropped
  BY DEF Init, NoEarlyRoom, NotDropped
<1> QED
  BY <1>1, <1>2, <1>3, <1>4, <1>5, <1>6, <1>7 DEF IInv

LEMMA StepInv == IInv /\ [Next]_vars => IInv'
<1> SUFFICES ASSUME IInv, [Next]_vars PROVE IInv'
  OBVIOUS
<1> USE DEF IInv
<1>1. TypeOK' /\ SemInv'
  BY TypeStep, SemStep
<1>2. ControlInv' /\ AllAgents'
  BY ControlStep, AgentStep
<1>3. AllEvents' /\ AllRooms'
  BY EventStep, RoomStep
<1>4. AllNew'
  BY NewStep
<1>5. NoEarlyRoom' /\ NotDropped'
  BY <1>1, EarlyStep, DroppedStep
<1> QED
  BY <1>1, <1>2, <1>3, <1>4, <1>5

LEMMA NewHistoryFirst == IInv => HistoryFirstInNewRooms
<1> SUFFICES ASSUME IInv, NEW p \in Portals, Kind[p] = "new", LiveShown(p)
             PROVE  ~BackfillAhead(p)
  BY DEF HistoryFirstInNewRooms
<1>1. RoomInv(p) /\ NewInv(p)
  BY DEF IInv, AllRooms, AllNew
<1>2. p \in rooms
  BY <1>1 DEF RoomInv, LiveShown
<1> QED
  BY <1>1, <1>2 DEF NewInv, BackfillAhead

\* IInv is inductive: it holds initially and every step keeps it.
THEOREM Invariance == Spec => []IInv
<1> QED
  BY InitInv, StepInv, PTL DEF Spec

\* The types of the state, forwardBackfillSem within its capacity included: no
\* path of FetchMessages returns a slot it does not hold.
THEOREM TypeCorrect == Spec => []TypeOK
<1>1. IInv => TypeOK
  BY DEF IInv
<1> QED
  BY <1>1, Invariance, PTL

\* forwardBackfillSem is exact: a slot is taken exactly while a forward
\* FetchMessages works, on every return path.
THEOREM SlotsExact == Spec => []SemInv
<1>1. IInv => SemInv
  BY DEF IInv
<1> QED
  BY <1>1, Invariance, PTL

\* handleMessage never hands the framework a message that it has to drop, however
\* flushes, room creation and the opening of the gate interleave.
THEOREM NothingDropped == Spec => []NotDropped
<1>1. IInv => NotDropped
  BY DEF IInv
<1> QED
  BY <1>1, Invariance, PTL

\* No live message creates a room before setCloudSyncDone.
THEOREM GateHolds == Spec => []NoEarlyRoom
<1>1. IInv => NoEarlyRoom
  BY DEF IInv
<1> QED
  BY <1>1, Invariance, PTL

\* Rooms that the sync creates show their CloudKit history before live messages,
\* whatever flushes the buffer early.
THEOREM HistoryBeforeLive == Spec => []HistoryFirstInNewRooms
<1> QED
  BY NewHistoryFirst, Invariance, PTL

-----------------------------------------------------------------------------
(* The refinement.  A step of the gate moves a message from one place to   *)
(* the next, and the mapping hides all of these moves but three: the       *)
(* arrival, the room and the shutdown.  That a hidden move is a stutter,   *)
(* and that a message that is shown waits no longer, needs that it was in  *)
(* one place only; that no flush is overwritten needs that an agent starts *)
(* one only when it has none, which the code owes to its order of steps    *)
(* and not to a lock.                                                      *)

Flushing(m) == \E a \in Agents : m \in flush[a].todo
Queued(m)   == \E i \in 1..Len(queue[PortalOf[m]]) : queue[PortalOf[m]][i].msg = m
OnScreen(m) == \E i \in 1..Len(shown[PortalOf[m]]) : shown[PortalOf[m]][i] = m

QueuedOnce(m) ==
    \A i, j \in 1..Len(queue[PortalOf[m]]) :
        queue[PortalOf[m]][i].msg = m /\ queue[PortalOf[m]][j].msg = m => i = j

ShownOnce(m) ==
    \A i, j \in 1..Len(shown[PortalOf[m]]) :
        shown[PortalOf[m]][i] = m /\ shown[PortalOf[m]][j] = m => i = j

\* No two of the six places have message m, and none has it twice.
Apart(m) ==
    /\ m \in buffer => m \notin held /\ m \notin discarded /\ ~Flushing(m) /\ ~Queued(m) /\ ~OnScreen(m)
    /\ m \in held => m \notin discarded /\ ~Flushing(m) /\ ~Queued(m) /\ ~OnScreen(m)
    /\ m \in discarded => ~Flushing(m) /\ ~Queued(m) /\ ~OnScreen(m)
    /\ Flushing(m) => ~Queued(m) /\ ~OnScreen(m)
    /\ Queued(m) => ~OnScreen(m)
    /\ \A a, b \in Agents : m \in flush[a].todo /\ m \in flush[b].todo => a = b
    /\ QueuedOnce(m) /\ ShownOnce(m)

\* A message is somewhere exactly when APNs has delivered it.
Somewhere(m) ==
    m \in arrived <=> \/ m \in buffer \/ m \in held \/ m \in discarded
                      \/ Flushing(m) \/ Queued(m) \/ OnScreen(m)

\* A portal's queue has messages of its own.
OwnQueue(p) ==
    \A i \in 1..Len(queue[p]) : queue[p][i].msg # History => PortalOf[queue[p][i].msg] = p

\* Whoever is about to start a flush runs none.
StartersFree ==
    /\ ctl # "done" => net = "off" /\ flush[Ctl].phase = "idle" /\ flush[Net].phase = "idle"
    /\ net = "watch" => flush[Net].phase = "idle"
    /\ \A p \in Portals : loop[p] # "idle" => flush[p].phase = "idle"

OneCopy   == \A m \in Msgs : Apart(m) /\ Somewhere(m)
OwnQueues == \A p \in Portals : OwnQueue(p)

PlaceInv == IInv /\ StartersFree /\ OwnQueues /\ OneCopy

-----------------------------------------------------------------------------
(* The ways in which a step moves messages, whoever takes it.              *)

TodoSame == \A b \in Agents : flush'[b].todo = flush[b].todo

TodoBecomes(a, s) ==
    flush'[a].todo = s /\ \A b \in Agents \ {a} : flush'[b].todo = flush[b].todo

Enqueues(p, e) == queue' = [queue EXCEPT ![p] = Append(@, e)]
Dequeues(p)    == queue[p] # <<>> /\ queue' = [queue EXCEPT ![p] = Tail(@)]

Quiet ==
    /\ TodoSame /\ UNCHANGED <<buffer, held, discarded, arrived, shown, stopped>>
    /\ \/ queue' = queue
       \/ \E p \in Portals : Enqueues(p, [msg |-> History, create |-> TRUE])
       \/ \E p \in Portals : Dequeues(p) /\ Head(queue[p]).msg = History

Arrives(m) ==
    /\ ~stopped /\ m \notin arrived
    /\ arrived' = arrived \cup {m} /\ buffer' = buffer \cup {m}
    /\ TodoSame /\ UNCHANGED <<held, discarded, shown, stopped, queue>>

BufferTaken(a) ==
    /\ flush[a].todo = {} /\ TodoBecomes(a, buffer) /\ buffer' = {}
    /\ UNCHANGED <<held, discarded, arrived, shown, stopped, queue>>

HeldTaken(a) ==
    /\ flush[a].todo = {} /\ TodoBecomes(a, held) /\ held' = {}
    /\ UNCHANGED <<buffer, discarded, arrived, shown, stopped, queue>>

PutBack(a, m) ==
    /\ m \in flush[a].todo /\ TodoBecomes(a, flush[a].todo \ {m}) /\ held' = held \cup {m}
    /\ UNCHANGED <<buffer, discarded, arrived, shown, stopped, queue>>

Passed(a, m) ==
    /\ m \in flush[a].todo /\ TodoBecomes(a, flush[a].todo \ {m})
    /\ Enqueues(PortalOf[m], [msg |-> m, create |-> flush[a].create])
    /\ UNCHANGED <<buffer, held, discarded, arrived, shown, stopped>>

HeadShown(p) ==
    /\ Dequeues(p) /\ Head(queue[p]).msg # History
    /\ shown' = [shown EXCEPT ![p] = Append(@, Head(queue[p]).msg)]
    /\ TodoSame /\ UNCHANGED <<buffer, held, discarded, arrived, stopped>>

BatchShown(p) ==
    /\ shown' = [shown EXCEPT ![p] = Append(@, History)]
    /\ TodoSame /\ UNCHANGED <<buffer, held, discarded, arrived, stopped, queue>>

Discards ==
    /\ ~stopped /\ stopped' = TRUE
    /\ discarded' = discarded \cup buffer /\ buffer' = {}
    /\ TodoSame /\ UNCHANGED <<held, arrived, shown, queue>>

Movement ==
    \/ Quiet \/ Discards
    \/ \E m \in Msgs : Arrives(m)
    \/ \E a \in Agents : BufferTaken(a) \/ HeldTaken(a) \/ \E m \in Msgs : PutBack(a, m) \/ Passed(a, m)
    \/ \E p \in Portals : HeadShown(p) \/ BatchShown(p)

\* An agent without a flush starts one: nothing is lost.
LEMMA StartKeepsTodo ==
    ASSUME TypeOK, AllAgents, NEW a \in Agents, flush[a].phase = "idle",
           flush' = FlushFrom(a) \/ flush' = flush
    PROVE  TodoSame
<1>1. flush[a].todo = {}
  BY DEF AllAgents, AgentInv
<1> QED
  BY <1>1 DEF FlushFrom, NoFlush, TodoSame, TypeOK

LEMMA MovementStep ==
    ASSUME IInv, StartersFree, [Next]_vars
    PROVE  Movement
<1> USE DEF gateVars, ctlVars, bufVars, loopVars, logVars
<1>0. TypeOK /\ AllAgents /\ AllEvents
  BY DEF IInv
<1>1. ASSUME NEW m \in Msgs, OnMessage(m) PROVE Movement
  <2>1. TodoSame
    BY <1>0, <1>1, StartKeepsTodo DEF OnMessage, Agents, TodoSame
  <2>2. Arrives(m)
    BY <1>1, <2>1 DEF OnMessage, Arrives
  <2> QED
    BY <2>2 DEF Movement
<1>2. ASSUME NEW a \in Flushers \cup Deleters, TimerFires(a) \/ HandleMatrixDeleteChat(a)
      PROVE  Movement
  <2>1. TodoSame
    BY <1>0, <1>2, StartKeepsTodo DEF TimerFires, HandleMatrixDeleteChat, Agents
  <2> QED
    BY <1>2, <2>1 DEF TimerFires, HandleMatrixDeleteChat, Movement, Quiet
<1>3. ASSUME NEW a \in Agents, FlushStep(a) PROVE Movement
  <2>0. flush[a] \in Flush /\ AgentInv(a)
    BY <1>0 DEF TypeOK, AllAgents
  <2>1. CASE TakeBuffer(a)
    <3>1. TodoBecomes(a, buffer)
      BY <1>0, <2>0, <2>1 DEF TakeBuffer, Flush, TodoBecomes, TypeOK
    <3>2. BufferTaken(a)
      BY <2>0, <2>1, <3>1 DEF TakeBuffer, BufferTaken, AgentInv
    <3> QED
      BY <3>2 DEF Movement
  <2>2. CASE TakeHeld(a)
    <3>1. TodoBecomes(a, held)
      BY <1>0, <2>0, <2>2 DEF TakeHeld, Flush, TodoBecomes, TypeOK
    <3>2. HeldTaken(a)
      BY <2>0, <2>2, <3>1 DEF TakeHeld, HeldTaken, AgentInv
    <3> QED
      BY <3>2 DEF Movement
  <2>3. CASE FlushReturns(a) \/ ReadGate(a) \/ \E m \in Msgs : LookUpPortal(a, m)
    <3>1. ASSUME FlushReturns(a) PROVE TodoSame
      BY <1>0, <2>0, <3>1 DEF FlushReturns, Flush, TodoSame, TypeOK
    <3>2. ASSUME ReadGate(a) PROVE TodoSame
      BY <1>0, <2>0, <3>2 DEF ReadGate, Flush, TodoSame, TypeOK
    <3>3. ASSUME NEW m \in Msgs, LookUpPortal(a, m) PROVE TodoSame
      BY <1>0, <2>0, <3>3 DEF LookUpPortal, Flush, TodoSame, TypeOK
    <3>4. TodoSame
      BY <2>3, <3>1, <3>2, <3>3
    <3> QED
      BY <2>3, <3>4 DEF FlushReturns, ReadGate, LookUpPortal, Movement, Quiet
  <2>4. ASSUME NEW m \in Msgs, HoldMessage(a, m) PROVE Movement
    <3>1. TodoBecomes(a, flush[a].todo \ {m})
      BY <1>0, <2>0, <2>4 DEF HoldMessage, Dispatched, NoFlush, TodoBecomes, TypeOK
    <3>2. PutBack(a, m)
      BY <2>4, <3>1 DEF HoldMessage, PutBack, Dispatches
    <3> QED
      BY <3>2 DEF Movement
  <2>5. ASSUME NEW m \in Msgs, QueueMessage(a, m) PROVE Movement
    <3>1. TodoBecomes(a, flush[a].todo \ {m})
      BY <1>0, <2>0, <2>5 DEF QueueMessage, Dispatched, NoFlush, TodoBecomes, TypeOK
    <3>2. Passed(a, m)
      BY <2>5, <3>1 DEF QueueMessage, Passed, Dispatches, Enqueues
    <3> QED
      BY <3>2 DEF Movement
  <2> QED
    BY <1>3, <2>1, <2>2, <2>3, <2>4, <2>5 DEF FlushStep
<1>4. CASE ControllerStep
  <2>1. ASSUME NEW p \in Portals, QueueResync(p) PROVE Movement
    BY <2>1 DEF QueueResync, Movement, Quiet, Enqueues, TodoSame
  <2>2. CASE LoadPending
    <3>1. Ctl \in Agents /\ flush[Ctl].phase = "idle"
      BY <2>2 DEF LoadPending, CtlGoes, StartersFree, Agents
    <3>2. TodoSame
      BY <1>0, <2>2, <3>1, StartKeepsTodo DEF LoadPending
    <3> QED
      BY <2>2, <3>2 DEF LoadPending, Movement, Quiet
  <2>3. CASE ContactsReady \/ SyncAbandoned \/ CountPortals \/ ScanFails \/ AllQueued \/ OpenGate
    BY <2>3 DEF ContactsReady, SyncAbandoned, CountPortals, ScanFails, AllQueued, OpenGate,
                Movement, Quiet, TodoSame
  <2> QED
    BY <1>4, <2>1, <2>2, <2>3 DEF ControllerStep
<1>5. CASE SyncSucceeds \/ UNCHANGED vars
  BY <1>5 DEF SyncSucceeds, vars, Movement, Quiet, TodoSame
<1>6. CASE NetStep
  <2>1. Net \in Agents /\ flush[Net].phase = "idle"
    BY <1>6 DEF NetStep, NetLeaves, NetForcesFlush, StartersFree, Agents
  <2>2. TodoSame
    BY <1>0, <1>6, <2>1, StartKeepsTodo DEF NetStep, NetLeaves, NetForcesFlush
  <2> QED
    BY <1>6, <2>2 DEF NetStep, NetLeaves, NetForcesFlush, Movement, Quiet
<1>7. ASSUME NEW p \in Portals, LoopStep(p) \/ LoseResync(p) \/ FetchCancelled(p) PROVE Movement
  <2>1. CASE HandleResync(p) \/ LoseResync(p)
    <3>1. Dequeues(p) /\ Head(queue[p]).msg = History
      BY <2>1 DEF HandleResync, LoseResync, NextEvent, Dequeues
    <3> QED
      BY <2>1, <3>1 DEF HandleResync, LoseResync, Movement, Quiet, TodoSame
  <2>2. CASE HandleMessageEvent(p)
    <3>1. p \in rooms
      <4>1. Head(queue[p]) = queue[p][1] /\ 1 \in 1..Len(queue[p])
        BY <1>0, <2>2, HeadEventType DEF HandleMessageEvent, NextEvent
      <4> QED
        BY <1>0, <2>2, <4>1 DEF HandleMessageEvent, AllEvents, EventInv
    <3>2. HeadShown(p)
      BY <2>2, <3>1 DEF HandleMessageEvent, NextEvent, HeadShown, Dequeues, TodoSame
    <3> QED
      BY <3>2 DEF Movement
  <2>3. CASE CreateRoom(p) \/ AcquireSlot(p) \/ FetchReturnsBatch(p)
    BY <2>3 DEF CreateRoom, AcquireSlot, FetchReturnsBatch, Movement, Quiet, TodoSame
  <2>4. CASE FetchReturnsNothing(p) \/ FetchCancelled(p) \/ DeliverBatch(p)
    <3>1. p \in Agents /\ flush[p].phase = "idle"
      BY <2>4 DEF FetchReturnsNothing, FetchCancelled, DeliverBatch, StartersFree, Agents
    <3>2. TodoSame
      BY <1>0, <2>4, <3>1, StartKeepsTodo
         DEF FetchReturnsNothing, FetchCancelled, DeliverBatch, OnForwardBackfillDone
    <3>3. Quiet \/ BatchShown(p)
      BY <2>4, <3>2 DEF FetchReturnsNothing, FetchCancelled, DeliverBatch, Quiet, BatchShown
    <3> QED
      BY <3>3 DEF Movement
  <2> QED
    BY <1>7, <2>1, <2>2, <2>3, <2>4 DEF LoopStep
<1>8. CASE Disconnect
  <2>1. Discards
    BY <1>8 DEF Disconnect, Discards, TodoSame
  <2> QED
    BY <2>1 DEF Movement
<1> QED
  BY <1>1, <1>2, <1>3, <1>4, <1>5, <1>6, <1>7, <1>8 DEF Next

-----------------------------------------------------------------------------
(* Queues and rooms.                                                       *)

LEMMA AfterEnqueue ==
    ASSUME TypeOK, NEW p \in Portals, NEW e \in Event, Enqueues(p, e), NEW m \in Msgs
    PROVE  /\ Queued(m)' <=> Queued(m) \/ (PortalOf[m] = p /\ e.msg = m)
           /\ QueuedOnce(m) /\ ~(PortalOf[m] = p /\ e.msg = m /\ Queued(m)) => QueuedOnce(m)'
<1>0. PortalOf[m] \in Portals /\ queue[p] \in Seq(Event)
  BY GateAssumption DEF TypeOK
<1>1. CASE PortalOf[m] # p
  <2>1. queue'[PortalOf[m]] = queue[PortalOf[m]]
    BY <1>0, <1>1 DEF Enqueues, TypeOK
  <2> QED
    BY <1>1, <2>1 DEF Queued, QueuedOnce
<1>2. CASE PortalOf[m] = p
  <2>1. queue'[p] = Append(queue[p], e)
    BY DEF Enqueues, TypeOK
  <2>2. /\ Len(queue'[p]) = Len(queue[p]) + 1
        /\ queue'[p][Len(queue[p]) + 1] = e
        /\ \A i \in 1..Len(queue[p]) : queue'[p][i] = queue[p][i]
        /\ Len(queue[p]) \in Nat
    BY <1>0, <2>1
  <2>3. Queued(m)' <=> Queued(m) \/ e.msg = m
    BY <1>2, <2>2, SMTT(30) DEF Queued
  <2>4. ASSUME QueuedOnce(m), ~(e.msg = m /\ Queued(m)) PROVE QueuedOnce(m)'
    <3> SUFFICES ASSUME NEW i \in 1..Len(queue'[p]), NEW j \in 1..Len(queue'[p]),
                        queue'[p][i].msg = m, queue'[p][j].msg = m
                 PROVE  i = j
      BY <1>2 DEF QueuedOnce
    <3>1. CASE e.msg = m
      <4>1. \A k \in 1..Len(queue[p]) : queue'[p][k].msg # m
        BY <1>2, <2>2, <2>4, <3>1 DEF Queued
      <4>2. i \notin 1..Len(queue[p]) /\ j \notin 1..Len(queue[p])
        BY <4>1
      <4>3. i = Len(queue[p]) + 1 /\ j = Len(queue[p]) + 1
        <5>1. \A n \in Nat : \A k \in 1..(n + 1) : k \notin 1..n => k = n + 1
          OBVIOUS
        <5> QED
          BY <2>2, <4>2, <5>1
      <4> QED
        BY <4>3
    <3>2. CASE e.msg # m
      <4>1. i \in 1..Len(queue[p]) /\ j \in 1..Len(queue[p])
        <5>1. i # Len(queue[p]) + 1 /\ j # Len(queue[p]) + 1
          BY <2>2, <3>2
        <5>2. \A n \in Nat : \A k \in 1..(n + 1) : k # n + 1 => k \in 1..n
          OBVIOUS
        <5> QED
          BY <2>2, <5>1, <5>2
      <4>2. queue[p][i].msg = m /\ queue[p][j].msg = m
        BY <2>2, <4>1
      <4> QED
        BY <1>2, <2>4, <4>1, <4>2 DEF QueuedOnce
    <3> QED
      BY <3>1, <3>2
  <2> QED
    BY <1>2, <2>3, <2>4
<1> QED
  BY <1>1, <1>2

LEMMA AfterDequeue ==
    ASSUME TypeOK, NEW p \in Portals, Dequeues(p), NEW m \in Msgs, QueuedOnce(m)
    PROVE  /\ Queued(m)' <=> Queued(m) /\ ~(PortalOf[m] = p /\ Head(queue[p]).msg = m)
           /\ QueuedOnce(m)'
<1>0. PortalOf[m] \in Portals /\ queue[p] # <<>>
  BY GateAssumption DEF Dequeues
<1>1. CASE PortalOf[m] # p
  <2>1. queue'[PortalOf[m]] = queue[PortalOf[m]]
    BY <1>0, <1>1 DEF Dequeues, TypeOK
  <2> QED
    BY <1>1, <2>1 DEF Queued, QueuedOnce
<1>2. CASE PortalOf[m] = p
  <2>1. queue'[p] = Tail(queue[p]) /\ Len(queue[p]) \in Nat
    BY DEF Dequeues, TypeOK
  <2>2. /\ Head(queue[p]) = queue[p][1]
        /\ Len(queue'[p]) = Len(queue[p]) - 1
        /\ Len(queue[p]) >= 1
        /\ \A i \in 1..Len(queue'[p]) : queue'[p][i] = queue[p][i + 1]
    BY <1>0, <2>1, HeadEventType
  <2>3. QueuedOnce(m)'
    BY <1>2, <2>1, <2>2 DEF QueuedOnce
  <2>4. ASSUME Queued(m)' PROVE Queued(m) /\ Head(queue[p]).msg # m
    <3>1. PICK i \in 1..Len(queue'[p]) : queue'[p][i].msg = m
      BY <1>2, <2>4 DEF Queued
    <3>2. i + 1 \in 1..Len(queue[p]) /\ queue[p][i + 1].msg = m /\ i + 1 # 1 /\ 1 \in 1..Len(queue[p])
      BY <2>1, <2>2, <3>1
    <3> QED
      BY <1>2, <2>2, <3>2 DEF Queued, QueuedOnce
  <2>5. ASSUME Queued(m), Head(queue[p]).msg # m PROVE Queued(m)'
    <3>1. PICK i \in 1..Len(queue[p]) : queue[p][i].msg = m
      BY <1>2, <2>5 DEF Queued
    <3>2. i - 1 \in 1..Len(queue'[p]) /\ queue'[p][i - 1].msg = m
      BY <2>1, <2>2, <2>5, <3>1
    <3> QED
      BY <1>2, <3>2 DEF Queued
  <2> QED
    BY <1>2, <2>3, <2>4, <2>5
<1> QED
  BY <1>1, <1>2

LEMMA AfterShow ==
    ASSUME TypeOK, NEW p \in Portals, NEW x \in Msgs \cup {History},
           shown' = [shown EXCEPT ![p] = Append(@, x)], NEW m \in Msgs
    PROVE  /\ OnScreen(m)' <=> OnScreen(m) \/ (PortalOf[m] = p /\ x = m)
           /\ ShownOnce(m) /\ ~(PortalOf[m] = p /\ x = m /\ OnScreen(m)) => ShownOnce(m)'
<1>0. PortalOf[m] \in Portals /\ shown[p] \in Seq(Msgs \cup {History})
  BY GateAssumption DEF TypeOK
<1>1. CASE PortalOf[m] # p
  <2>1. shown'[PortalOf[m]] = shown[PortalOf[m]]
    BY <1>0, <1>1 DEF TypeOK
  <2> QED
    BY <1>1, <2>1 DEF OnScreen, ShownOnce
<1>2. CASE PortalOf[m] = p
  <2>1. shown'[p] = Append(shown[p], x)
    BY DEF TypeOK
  <2>2. /\ Len(shown'[p]) = Len(shown[p]) + 1
        /\ shown'[p][Len(shown[p]) + 1] = x
        /\ \A i \in 1..Len(shown[p]) : shown'[p][i] = shown[p][i]
        /\ Len(shown[p]) \in Nat
    BY <1>0, <2>1
  <2>3. OnScreen(m)' <=> OnScreen(m) \/ x = m
    BY <1>2, <2>2 DEF OnScreen
  <2>4. ASSUME ShownOnce(m), ~(x = m /\ OnScreen(m)) PROVE ShownOnce(m)'
    BY <1>2, <2>2, <2>4 DEF OnScreen, ShownOnce
  <2> QED
    BY <1>2, <2>3, <2>4
<1> QED
  BY <1>1, <1>2

LEMMA SameQueue ==
    ASSUME queue' = queue, NEW m
    PROVE  (Queued(m)' <=> Queued(m)) /\ (QueuedOnce(m)' <=> QueuedOnce(m))
BY DEF Queued, QueuedOnce

LEMMA SameScreen ==
    ASSUME shown' = shown, NEW m
    PROVE  (OnScreen(m)' <=> OnScreen(m)) /\ (ShownOnce(m)' <=> ShownOnce(m))
BY DEF OnScreen, ShownOnce

\* The message at the head of a queue is queued, and in its own portal.
LEMMA HeadIsQueued ==
    ASSUME TypeOK, OwnQueues, NEW p \in Portals, queue[p] # <<>>, Head(queue[p]).msg # History
    PROVE  LET m == Head(queue[p]).msg IN m \in Msgs /\ PortalOf[m] = p /\ Queued(m)
<1>1. Head(queue[p]) = queue[p][1] /\ 1 \in 1..Len(queue[p]) /\ Head(queue[p]) \in Event
  BY HeadEventType
<1>2. PortalOf[Head(queue[p]).msg] = p /\ Head(queue[p]).msg \in Msgs
  BY <1>1 DEF OwnQueues, OwnQueue, Event
<1> QED
  BY <1>1, <1>2 DEF Queued

-----------------------------------------------------------------------------
(* The invariant is kept.                                                  *)

LEMMA StartersStep ==
    ASSUME IInv, StartersFree, [Next]_vars
    PROVE  StartersFree'
<1> USE DEF gateVars, ctlVars, bufVars, loopVars, logVars
<1> DEFINE Steady == UNCHANGED <<ctl, net, loop>>
           IdleStays(b) == flush[b].phase = "idle" => flush'[b].phase = "idle"
<1>0. TypeOK
  BY DEF IInv
<1>a. \A p \in Portals : p # Ctl /\ p # Net
  BY AgentsDistinct
<1>b. {Ctl, Net} \cup Portals \subseteq Agents
  BY DEF Agents
<1>1. ASSUME NEW a \in Flushers \cup Deleters, flush' = FlushFrom(a) \/ flush' = flush, Steady
      PROVE  StartersFree'
  <2>1. a # Ctl /\ a # Net /\ a \notin Portals /\ a \in Agents
    BY AgentsDistinct DEF Agents
  <2>2. \A b \in {Ctl, Net} \cup Portals : flush'[b] = flush[b]
    BY <1>0, <1>1, <1>b, <2>1 DEF FlushFrom, TypeOK
  <2> QED
    BY <1>1, <2>2 DEF StartersFree
<1>2. ASSUME NEW m \in Msgs, OnMessage(m) PROVE StartersFree'
  BY <1>1, <1>2 DEF OnMessage, StartersFree
<1>3. ASSUME NEW a \in Flushers \cup Deleters, TimerFires(a) \/ HandleMatrixDeleteChat(a)
      PROVE  StartersFree'
  BY <1>1, <1>3 DEF TimerFires, HandleMatrixDeleteChat
<1>4. ASSUME NEW a \in Agents, FlushStep(a) PROVE StartersFree'
  <2>0. flush[a] \in Flush
    BY <1>0 DEF TypeOK
  <2>1. \A b \in Agents : IdleStays(b)
    <3>1. CASE TakeBuffer(a) \/ TakeHeld(a)
      BY <1>0, <2>0, <3>1 DEF TakeBuffer, TakeHeld, Flush, TypeOK
    <3>2. CASE FlushReturns(a)
      BY <1>0, <2>0, <3>2 DEF FlushReturns, Flush, TypeOK
    <3>3. CASE ReadGate(a)
      BY <1>0, <2>0, <3>3 DEF ReadGate, Flush, TypeOK
    <3>4. ASSUME NEW m \in Msgs, LookUpPortal(a, m) PROVE \A b \in Agents : IdleStays(b)
      BY <1>0, <2>0, <3>4 DEF LookUpPortal, Flush, TypeOK
    <3>5. ASSUME NEW m \in Msgs, HoldMessage(a, m) \/ QueueMessage(a, m)
          PROVE  \A b \in Agents : IdleStays(b)
      <4>1. flush' = [flush EXCEPT ![a] = [NoFlush EXCEPT !.phase = flush[a].phase,
                                                          !.todo = flush[a].todo \ {m}]]
        BY <3>5 DEF HoldMessage, QueueMessage, Dispatched
      <4>2. flush'[a].phase = flush[a].phase
        BY <1>0, <4>1 DEF NoFlush, TypeOK
      <4> QED
        BY <1>0, <4>1, <4>2 DEF TypeOK
    <3> QED
      BY <1>4, <3>1, <3>2, <3>3, <3>4, <3>5 DEF FlushStep
  <2>2. Steady
    BY <1>4 DEF FlushStep, TakeBuffer, TakeHeld, FlushReturns, ReadGate, LookUpPortal,
                HoldMessage, QueueMessage
  <2> QED
    BY <1>b, <2>1, <2>2 DEF StartersFree
<1>5. CASE ControllerStep
  <2>1. CASE LoadPending
    <3>1. \A b \in {Net} \cup Portals : flush'[b] = flush[b]
      BY <1>0, <1>a, <1>b, <2>1, AgentsDistinct DEF LoadPending, FlushFrom, TypeOK
    <3> QED
      BY <2>1, <3>1 DEF LoadPending, CtlGoes, StartersFree
  <2>2. CASE ContactsReady \/ SyncAbandoned \/ CountPortals \/ ScanFails \/ AllQueued \/ OpenGate
             \/ \E p \in Portals : QueueResync(p)
    BY <2>2 DEF ContactsReady, SyncAbandoned, CountPortals, ScanFails, AllQueued, OpenGate,
                QueueResync, CtlGoes, StartersFree
  <2> QED
    BY <1>5, <2>1, <2>2 DEF ControllerStep
<1>6. CASE SyncSucceeds
  BY <1>6 DEF SyncSucceeds, CtlGoes, StartersFree
<1>7. CASE NetStep
  <2>1. CASE NetLeaves
    BY <2>1 DEF NetLeaves, StartersFree
  <2>2. CASE NetForcesFlush
    <3>1. ctl = "done" /\ \A b \in Portals : flush'[b] = flush[b]
      BY <1>0, <1>a, <1>b, <2>2 DEF NetForcesFlush, FlushFrom, TypeOK, StartersFree
    <3> QED
      BY <2>2, <3>1 DEF NetForcesFlush, StartersFree
  <2> QED
    BY <1>7, <2>1, <2>2 DEF NetStep
<1>8. ASSUME NEW p \in Portals, LoopStep(p) \/ LoseResync(p) \/ FetchCancelled(p) PROVE StartersFree'
  <2>1. ctl' = ctl /\ net' = net /\ \A q \in Portals \ {p} : loop'[q] = loop[q]
    BY <1>0, <1>8 DEF LoopStep, HandleResync, LoseResync, HandleMessageEvent, CreateRoom, AcquireSlot,
       FetchReturnsNothing, FetchReturnsBatch, DeliverBatch, FetchCancelled, TypeOK
  <2>2. CASE HandleResync(p) \/ LoseResync(p) \/ HandleMessageEvent(p) \/ CreateRoom(p)
             \/ AcquireSlot(p) \/ FetchReturnsBatch(p)
    <3>1. flush' = flush /\ flush[p].phase = "idle"
      BY <2>2 DEF HandleResync, LoseResync, HandleMessageEvent, CreateRoom, AcquireSlot,
                  FetchReturnsBatch, NextEvent, Free, StartersFree
    <3> QED
      BY <2>1, <3>1 DEF StartersFree
  <2>3. CASE FetchReturnsNothing(p) \/ FetchCancelled(p) \/ DeliverBatch(p)
    <3>1. \A b \in Agents \ {p} : flush'[b] = flush[b]
      BY <1>0, <1>b, <2>3 DEF FetchReturnsNothing, FetchCancelled, DeliverBatch,
                              OnForwardBackfillDone, FlushFrom, TypeOK
    <3>2. loop'[p] = "idle"
      BY <1>0, <2>3 DEF FetchReturnsNothing, FetchCancelled, DeliverBatch, TypeOK
    <3> QED
      BY <1>a, <1>b, <2>1, <3>1, <3>2 DEF StartersFree
  <2> QED
    BY <1>8, <2>2, <2>3 DEF LoopStep
<1>9. CASE Disconnect \/ UNCHANGED vars
  BY <1>9 DEF Disconnect, vars, StartersFree
<1> QED
  BY <1>2, <1>3, <1>4, <1>5, <1>6, <1>7, <1>8, <1>9 DEF Next

LEMMA OwnQueueStep ==
    ASSUME TypeOK, OwnQueues, Movement
    PROVE  OwnQueues'
<1> SUFFICES ASSUME NEW p \in Portals PROVE OwnQueue(p)'
  BY DEF OwnQueues
<1>0. queue[p] \in Seq(Event) /\ OwnQueue(p)
  BY DEF TypeOK, OwnQueues
<1>1. ASSUME queue'[p] = queue[p] PROVE OwnQueue(p)'
  BY <1>0, <1>1 DEF OwnQueue
<1>2. ASSUME NEW e \in Event, queue'[p] = Append(queue[p], e), e.msg # History => PortalOf[e.msg] = p
      PROVE  OwnQueue(p)'
  BY <1>0, <1>2 DEF OwnQueue
<1>3. ASSUME queue[p] # <<>>, queue'[p] = Tail(queue[p]) PROVE OwnQueue(p)'
  <2>1. /\ Len(queue'[p]) = Len(queue[p]) - 1 /\ Len(queue[p]) \in Nat
        /\ \A i \in 1..Len(queue'[p]) : queue'[p][i] = queue[p][i + 1]
    BY <1>0, <1>3, HeadEventType
  <2> QED
    BY <1>0, <2>1 DEF OwnQueue
<1>4. ASSUME NEW q \in Portals, NEW e \in Event, Enqueues(q, e), e.msg # History => PortalOf[e.msg] = q
      PROVE  OwnQueue(p)'
  <2>1. queue'[p] = IF p = q THEN Append(queue[p], e) ELSE queue[p]
    BY <1>4 DEF Enqueues, TypeOK
  <2> QED
    BY <1>1, <1>2, <1>4, <2>1
<1>5. ASSUME NEW q \in Portals, Dequeues(q) PROVE OwnQueue(p)'
  <2>1. queue'[p] = (IF p = q THEN Tail(queue[p]) ELSE queue[p]) /\ queue[q] # <<>>
    BY <1>5 DEF Dequeues, TypeOK
  <2> QED
    BY <1>1, <1>3, <2>1
<1>6. [msg |-> History, create |-> TRUE] \in Event
  BY DEF Event
<1>7. \A a \in Agents, m \in Msgs : [msg |-> m, create |-> flush[a].create] \in Event
  BY DEF TypeOK, Flush, Event
<1>8. CASE queue' = queue
  BY <1>1, <1>8
<1>9. ASSUME NEW q \in Portals, Enqueues(q, [msg |-> History, create |-> TRUE]) PROVE OwnQueue(p)'
  BY <1>4, <1>6, <1>9
<1>10. ASSUME NEW a \in Agents, NEW m \in Msgs, Passed(a, m) PROVE OwnQueue(p)'
  <2>1. PortalOf[m] \in Portals
    BY GateAssumption
  <2> QED
    BY <1>4, <1>7, <1>10, <2>1 DEF Passed
<1> QED
  BY <1>5, <1>8, <1>9, <1>10 DEF Movement, Quiet, Discards, Arrives, BufferTaken, HeldTaken, PutBack,
                                 HeadShown, BatchShown

\* Every way of moving keeps every message in one place.
LEMMA OneCopyStep ==
    ASSUME TypeOK, OwnQueues, OneCopy, Movement
    PROVE  OneCopy'
<1> SUFFICES ASSUME NEW m \in Msgs PROVE Apart(m)' /\ Somewhere(m)'
  BY DEF OneCopy
<1>0. Apart(m) /\ Somewhere(m)
  BY DEF OneCopy
<1>a. ASSUME TodoSame
      PROVE  /\ Flushing(m)' <=> Flushing(m)
             /\ \A a, b \in Agents : m \in flush'[a].todo /\ m \in flush'[b].todo => a = b
  BY <1>0, <1>a DEF TodoSame, Flushing, Apart
<1>b. [msg |-> History, create |-> TRUE] \in Event
  BY DEF Event
<1>1. CASE Quiet
  <2>1. (Queued(m)' <=> Queued(m)) /\ QueuedOnce(m)'
    <3>1. CASE queue' = queue
      BY <1>0, <3>1, SameQueue DEF Apart
    <3>2. ASSUME NEW p \in Portals, Enqueues(p, [msg |-> History, create |-> TRUE])
          PROVE  (Queued(m)' <=> Queued(m)) /\ QueuedOnce(m)'
      BY <1>0, <1>b, <3>2, AfterEnqueue, GateAssumption DEF Apart
    <3>3. ASSUME NEW p \in Portals, Dequeues(p), Head(queue[p]).msg = History
          PROVE  (Queued(m)' <=> Queued(m)) /\ QueuedOnce(m)'
      BY <1>0, <3>3, AfterDequeue, GateAssumption DEF Apart
    <3> QED
      BY <1>1, <3>1, <3>2, <3>3 DEF Quiet
  <2>2. (OnScreen(m)' <=> OnScreen(m)) /\ ShownOnce(m)'
    BY <1>0, <1>1, SameScreen DEF Quiet, Apart
  <2> QED
    BY <1>0, <1>1, <1>a, <2>1, <2>2 DEF Quiet, Apart, Somewhere
<1>2. CASE Discards
  <2>1. (Queued(m)' <=> Queued(m)) /\ QueuedOnce(m)' /\ (OnScreen(m)' <=> OnScreen(m)) /\ ShownOnce(m)'
    BY <1>0, <1>2, SameQueue, SameScreen DEF Discards, Apart
  <2> QED
    BY <1>0, <1>2, <1>a, <2>1 DEF Discards, Apart, Somewhere
<1>3. ASSUME NEW n \in Msgs, Arrives(n) PROVE Apart(m)' /\ Somewhere(m)'
  <2>1. (Queued(m)' <=> Queued(m)) /\ QueuedOnce(m)' /\ (OnScreen(m)' <=> OnScreen(m)) /\ ShownOnce(m)'
    BY <1>0, <1>3, SameQueue, SameScreen DEF Arrives, Apart
  <2> QED
    BY <1>0, <1>3, <1>a, <2>1 DEF Arrives, Apart, Somewhere
<1>4. ASSUME NEW a \in Agents, BufferTaken(a) \/ HeldTaken(a) PROVE Apart(m)' /\ Somewhere(m)'
  <2>1. (Queued(m)' <=> Queued(m)) /\ QueuedOnce(m)' /\ (OnScreen(m)' <=> OnScreen(m)) /\ ShownOnce(m)'
    BY <1>0, <1>4, SameQueue, SameScreen DEF BufferTaken, HeldTaken, Apart
  <2>2. ASSUME NEW s, TodoBecomes(a, s), flush[a].todo = {}, m \in s => ~Flushing(m)
        PROVE  /\ Flushing(m)' <=> Flushing(m) \/ m \in s
               /\ \A c, b \in Agents : m \in flush'[c].todo /\ m \in flush'[b].todo => c = b
    BY <1>0, <2>2 DEF TodoBecomes, Flushing, Apart
  <2>3. CASE BufferTaken(a)
    BY <1>0, <2>1, <2>2, <2>3 DEF BufferTaken, Apart, Somewhere
  <2>4. CASE HeldTaken(a)
    BY <1>0, <2>1, <2>2, <2>4 DEF HeldTaken, Apart, Somewhere
  <2> QED
    BY <1>4, <2>3, <2>4
<1>5. ASSUME NEW a \in Agents, NEW n \in Msgs, n \in flush[a].todo, TodoBecomes(a, flush[a].todo \ {n})
      PROVE  /\ Flushing(m)' <=> Flushing(m) /\ m # n
             /\ \A c, b \in Agents : m \in flush'[c].todo /\ m \in flush'[b].todo => c = b
  <2>1. \A b \in Agents : m \in flush'[b].todo <=> m \in flush[b].todo /\ m # n
    BY <1>0, <1>5 DEF TodoBecomes, Apart
  <2> QED
    BY <1>0, <2>1 DEF Flushing, Apart
<1>6. ASSUME NEW a \in Agents, NEW n \in Msgs, PutBack(a, n) PROVE Apart(m)' /\ Somewhere(m)'
  <2>1. (Queued(m)' <=> Queued(m)) /\ QueuedOnce(m)' /\ (OnScreen(m)' <=> OnScreen(m)) /\ ShownOnce(m)'
    BY <1>0, <1>6, SameQueue, SameScreen DEF PutBack, Apart
  <2>2. /\ Flushing(m)' <=> Flushing(m) /\ m # n
        /\ \A c, b \in Agents : m \in flush'[c].todo /\ m \in flush'[b].todo => c = b
    BY <1>5, <1>6 DEF PutBack
  <2>3. m = n => Flushing(m)
    BY <1>6 DEF PutBack, Flushing
  <2> QED
    BY <1>0, <1>6, <2>1, <2>2, <2>3 DEF PutBack, Apart, Somewhere
<1>7. ASSUME NEW a \in Agents, NEW n \in Msgs, Passed(a, n) PROVE Apart(m)' /\ Somewhere(m)'
  <2>0. PortalOf[n] \in Portals /\ [msg |-> n, create |-> flush[a].create] \in Event
    BY GateAssumption DEF TypeOK, Flush, Event
  <2>1. m = n => Flushing(m)
    BY <1>7 DEF Passed, Flushing
  <2>2. (Queued(m)' <=> Queued(m) \/ m = n) /\ QueuedOnce(m)'
    BY <1>0, <1>7, <2>0, <2>1, AfterEnqueue DEF Passed, Apart
  <2>3. (OnScreen(m)' <=> OnScreen(m)) /\ ShownOnce(m)'
    BY <1>0, <1>7, SameScreen DEF Passed, Apart
  <2>4. /\ Flushing(m)' <=> Flushing(m) /\ m # n
        /\ \A c, b \in Agents : m \in flush'[c].todo /\ m \in flush'[b].todo => c = b
    BY <1>5, <1>7 DEF Passed
  <2> QED
    BY <1>0, <1>7, <2>1, <2>2, <2>3, <2>4 DEF Passed, Apart, Somewhere
<1>8. ASSUME NEW p \in Portals, HeadShown(p) PROVE Apart(m)' /\ Somewhere(m)'
  <2> DEFINE h == Head(queue[p]).msg
  <2>1. h \in Msgs /\ PortalOf[h] = p /\ Queued(h)
    BY <1>8, HeadIsQueued DEF HeadShown, Dequeues
  <2>2. (Queued(m)' <=> Queued(m) /\ m # h) /\ QueuedOnce(m)'
    BY <1>0, <1>8, <2>1, AfterDequeue DEF HeadShown, Apart
  <2>3. (OnScreen(m)' <=> OnScreen(m) \/ m = h) /\ ShownOnce(m)'
    <3>1. /\ OnScreen(m)' <=> OnScreen(m) \/ (PortalOf[m] = p /\ h = m)
          /\ ShownOnce(m) /\ ~(PortalOf[m] = p /\ h = m /\ OnScreen(m)) => ShownOnce(m)'
      BY <1>8, <2>1, AfterShow DEF HeadShown
    <3> QED
      BY <1>0, <2>1, <3>1 DEF Apart
  <2> QED
    BY <1>0, <1>8, <1>a, <2>1, <2>2, <2>3 DEF HeadShown, Apart, Somewhere
<1>9. ASSUME NEW p \in Portals, BatchShown(p) PROVE Apart(m)' /\ Somewhere(m)'
  <2>1. (Queued(m)' <=> Queued(m)) /\ QueuedOnce(m)'
    BY <1>0, <1>9, SameQueue DEF BatchShown, Apart
  <2>2. (OnScreen(m)' <=> OnScreen(m)) /\ ShownOnce(m)'
    BY <1>0, <1>9, AfterShow, GateAssumption DEF BatchShown, Apart
  <2> QED
    BY <1>0, <1>9, <1>a, <2>1, <2>2 DEF BatchShown, Apart, Somewhere
<1> QED
  BY <1>1, <1>2, <1>3, <1>4, <1>6, <1>7, <1>8, <1>9 DEF Movement

LEMMA InitPlaces == Init => PlaceInv
<1> SUFFICES ASSUME Init PROVE PlaceInv
  OBVIOUS
<1>1. IInv
  BY InitInv
<1>2. StartersFree
  BY DEF Init, StartersFree, NoFlush, Agents
<1>3. OwnQueues
  BY DEF Init, OwnQueues, OwnQueue
<1>4. ASSUME NEW m \in Msgs PROVE Apart(m) /\ Somewhere(m)
  <2>1. PortalOf[m] \in Portals
    BY GateAssumption
  <2>2. queue[PortalOf[m]] = <<>> /\ shown[PortalOf[m]] = <<>>
    BY <2>1 DEF Init
  <2>3. ~Queued(m) /\ ~OnScreen(m) /\ QueuedOnce(m) /\ ShownOnce(m)
    BY <2>2 DEF Queued, OnScreen, QueuedOnce, ShownOnce
  <2>4. \A a \in Agents : m \notin flush[a].todo
    BY DEF Init, NoFlush
  <2> QED
    BY <2>3, <2>4 DEF Init, Apart, Somewhere, Flushing
<1> QED
  BY <1>1, <1>2, <1>3, <1>4 DEF PlaceInv, OneCopy

LEMMA StepPlaces == PlaceInv /\ [Next]_vars => PlaceInv'
<1> SUFFICES ASSUME PlaceInv, [Next]_vars PROVE PlaceInv'
  OBVIOUS
<1>1. IInv /\ TypeOK /\ StartersFree /\ OwnQueues /\ OneCopy
  BY DEF PlaceInv, IInv
<1>2. Movement
  BY <1>1, MovementStep
<1>3. IInv' /\ StartersFree'
  BY <1>1, StepInv, StartersStep
<1>4. OwnQueues' /\ OneCopy'
  BY <1>1, <1>2, OwnQueueStep, OneCopyStep
<1> QED
  BY <1>3, <1>4 DEF PlaceInv

-----------------------------------------------------------------------------
(* The theorems.                                                           *)

LEMMA WaitsWhere ==
    TypeOK => /\ UnderWay \subseteq Msgs
              /\ \A m \in Msgs : m \in UnderWay <=> m \in buffer \/ m \in held \/ Flushing(m) \/ Queued(m)
<1> SUFFICES ASSUME TypeOK
             PROVE  /\ UnderWay \subseteq Msgs
                    /\ \A m \in Msgs : m \in UnderWay <=> m \in buffer \/ m \in held \/ Flushing(m) \/ Queued(m)
  OBVIOUS
<1>1. \A a \in Agents : flush[a].todo \subseteq Msgs
  BY DEF TypeOK, Flush
<1> DEFINE U == UNION {flush[a].todo : a \in Agents}
           Q == {m \in Msgs : \E i \in 1..Len(queue[PortalOf[m]]) : queue[PortalOf[m]][i].msg = m}
<1>2. U \subseteq Msgs /\ \A m : m \in U <=> Flushing(m)
  BY <1>1 DEF Flushing
<1>3. Q \subseteq Msgs /\ \A m \in Msgs : m \in Q <=> Queued(m)
  BY DEF Queued
<1>4. buffer \subseteq Msgs /\ held \subseteq Msgs
  BY DEF TypeOK
<1>5. UnderWay = buffer \cup held \cup U \cup Q
  BY DEF UnderWay
<1> HIDE DEF U, Q
<1> QED
  BY <1>2, <1>3, <1>4, <1>5

\* A step that leaves messages where they are, or in another of the places where
\* they wait, is a stutter of HandOver.
LEMMA HiddenMove ==
    ASSUME TypeOK, TypeOK', UNCHANGED <<shown, discarded, stopped>>,
           \A m \in Msgs : m \in UnderWay' <=> m \in UnderWay
    PROVE  UNCHANGED Promise!handOverVars
<1>1. UnderWay \subseteq Msgs /\ (UnderWay \subseteq Msgs)'
  BY WaitsWhere, PTL
<1>2. UnderWay' = UnderWay
  BY <1>1
<1> QED
  BY <1>2 DEF Promise!handOverVars

LEMMA RefinementStep ==
    ASSUME PlaceInv, PlaceInv', [Next]_vars
    PROVE  [Promise!Next]_(Promise!handOverVars)
<1>0. TypeOK /\ OwnQueues /\ OneCopy /\ Movement
  BY MovementStep DEF PlaceInv, IInv
<1>1. TypeOK'
  BY DEF PlaceInv, IInv
<1> DEFINE Waits(m) == m \in buffer \/ m \in held \/ Flushing(m) \/ Queued(m)
<1>2. /\ UnderWay \subseteq Msgs
      /\ \A m \in Msgs : m \in UnderWay <=> Waits(m)
  BY <1>0, WaitsWhere
<1>3. /\ (UnderWay \subseteq Msgs)'
      /\ (\A m \in Msgs : m \in UnderWay <=> m \in buffer \/ m \in held \/ Flushing(m) \/ Queued(m))'
  BY <1>1, WaitsWhere, PTL
<1>4. \A m \in Msgs : Apart(m) /\ Somewhere(m)
  BY <1>0 DEF OneCopy
<1>5. ASSUME UNCHANGED <<shown, discarded, stopped>>,
             \A m \in Msgs : Waits(m)' <=> Waits(m)
      PROVE  UNCHANGED Promise!handOverVars
  BY <1>0, <1>1, <1>2, <1>3, <1>5, HiddenMove
<1>a. [msg |-> History, create |-> TRUE] \in Event
  BY DEF Event
<1>b. ASSUME TodoSame, NEW m PROVE Flushing(m)' <=> Flushing(m)
  BY <1>b DEF TodoSame, Flushing
<1>6. CASE Quiet
  <2>1. ASSUME NEW m \in Msgs PROVE Queued(m)' <=> Queued(m)
    <3>1. CASE queue' = queue
      BY <3>1, SameQueue
    <3>2. ASSUME NEW p \in Portals, Enqueues(p, [msg |-> History, create |-> TRUE])
          PROVE  Queued(m)' <=> Queued(m)
      BY <1>0, <1>a, <3>2, AfterEnqueue, GateAssumption
    <3>3. ASSUME NEW p \in Portals, Dequeues(p), Head(queue[p]).msg = History
          PROVE  Queued(m)' <=> Queued(m)
      BY <1>0, <1>4, <3>3, AfterDequeue, GateAssumption DEF Apart
    <3> QED
      BY <1>6, <3>1, <3>2, <3>3 DEF Quiet
  <2> QED
    BY <1>5, <1>6, <1>b, <2>1 DEF Quiet
<1>7. CASE Discards
  <2>1. ASSUME NEW m \in Msgs PROVE Waits(m)' <=> Waits(m) /\ m \notin buffer
    BY <1>4, <1>7, <1>b, SameQueue DEF Discards, Apart
  <2>2. UnderWay' = UnderWay \ buffer /\ buffer \in SUBSET UnderWay
    BY <1>0, <1>2, <1>3, <2>1 DEF TypeOK
  <2>3. Promise!Close
    BY <1>7, <2>2 DEF Discards, Promise!Close
  <2> QED
    BY <2>3 DEF Promise!Next
<1>8. ASSUME NEW n \in Msgs, Arrives(n) PROVE Promise!Next
  <2>1. ASSUME NEW m \in Msgs PROVE Waits(m)' <=> Waits(m) \/ m = n
    BY <1>8, <1>b, <2>1, SameQueue DEF Arrives
  <2>2. UnderWay' = UnderWay \cup {n}
    BY <1>2, <1>3, <2>1
  <2>3. n \notin UnderWay /\ n \notin discarded /\ ~OnScreen(n)
    BY <1>2, <1>4, <1>8 DEF Arrives, Somewhere
  <2>4. n \notin Promise!Known
    BY <2>3 DEF Promise!Known, Promise!Seen, OnScreen
  <2>5. Promise!Accept(n)
    BY <1>8, <2>2, <2>4 DEF Arrives, Promise!Accept
  <2> QED
    BY <2>5 DEF Promise!Next
<1>9. ASSUME NEW a \in Agents, BufferTaken(a) \/ HeldTaken(a) PROVE UNCHANGED Promise!handOverVars
  <2>1. ASSUME NEW m \in Msgs PROVE Queued(m)' <=> Queued(m)
    BY <1>9, SameQueue DEF BufferTaken, HeldTaken
  <2>2. ASSUME NEW s, TodoBecomes(a, s), flush[a].todo = {}, NEW m
        PROVE  Flushing(m)' <=> Flushing(m) \/ m \in s
    BY <2>2 DEF TodoBecomes, Flushing
  <2>3. CASE BufferTaken(a)
    BY <1>5, <2>1, <2>2, <2>3 DEF BufferTaken
  <2>4. CASE HeldTaken(a)
    BY <1>5, <2>1, <2>2, <2>4 DEF HeldTaken
  <2> QED
    BY <1>9, <2>3, <2>4
<1>10. ASSUME NEW a \in Agents, NEW n \in Msgs, n \in flush[a].todo, TodoBecomes(a, flush[a].todo \ {n}),
              NEW m \in Msgs
       PROVE  Flushing(m)' <=> Flushing(m) /\ m # n
  <2>1. \A b \in Agents : m \in flush'[b].todo <=> m \in flush[b].todo /\ m # n
    BY <1>4, <1>10 DEF TodoBecomes, Apart
  <2> QED
    BY <2>1 DEF Flushing
<1>11. ASSUME NEW a \in Agents, NEW n \in Msgs, PutBack(a, n) PROVE UNCHANGED Promise!handOverVars
  <2>1. ASSUME NEW m \in Msgs PROVE Waits(m)' <=> Waits(m)
    <3>1. (Queued(m)' <=> Queued(m)) /\ (Flushing(m)' <=> Flushing(m) /\ m # n)
      BY <1>10, <1>11, SameQueue DEF PutBack
    <3>2. m = n => Flushing(m)
      BY <1>11 DEF PutBack, Flushing
    <3> QED
      BY <1>11, <3>1, <3>2 DEF PutBack
  <2> QED
    BY <1>5, <1>11, <2>1 DEF PutBack
<1>12. ASSUME NEW a \in Agents, NEW n \in Msgs, Passed(a, n) PROVE UNCHANGED Promise!handOverVars
  <2>1. ASSUME NEW m \in Msgs PROVE Waits(m)' <=> Waits(m)
    <3>0. PortalOf[n] \in Portals /\ [msg |-> n, create |-> flush[a].create] \in Event
      BY <1>0, GateAssumption DEF TypeOK, Flush, Event
    <3>1. (Queued(m)' <=> Queued(m) \/ m = n) /\ (Flushing(m)' <=> Flushing(m) /\ m # n)
      BY <1>0, <1>10, <1>12, <3>0, AfterEnqueue DEF Passed
    <3>2. m = n => Flushing(m)
      BY <1>12 DEF Passed, Flushing
    <3> QED
      BY <1>12, <3>1, <3>2 DEF Passed
  <2> QED
    BY <1>5, <1>12, <2>1 DEF Passed
<1>13. ASSUME NEW p \in Portals, HeadShown(p) PROVE Promise!Next
  <2> DEFINE h == Head(queue[p]).msg
  <2>1. h \in Msgs /\ PortalOf[h] = p /\ Queued(h)
    BY <1>0, <1>13, HeadIsQueued DEF HeadShown, Dequeues
  <2>2. ASSUME NEW m \in Msgs PROVE Waits(m)' <=> Waits(m) /\ m # h
    <3>1. Queued(m)' <=> Queued(m) /\ m # h
      BY <1>0, <1>4, <1>13, <2>1, AfterDequeue DEF HeadShown, Apart
    <3>2. m = h => m \notin buffer /\ m \notin held /\ ~Flushing(m)
      BY <1>4, <2>1 DEF Apart
    <3> QED
      BY <1>13, <1>b, <3>1, <3>2 DEF HeadShown
  <2>3. UnderWay' = UnderWay \ {h} /\ h \in UnderWay
    BY <1>2, <1>3, <2>1, <2>2
  <2>4. Promise!Show(h)
    BY <1>13, <2>1, <2>3 DEF HeadShown, Promise!Show
  <2> QED
    BY <2>1, <2>4 DEF Promise!Next
<1>14. ASSUME NEW p \in Portals, BatchShown(p) PROVE Promise!Next
  <2>1. ASSUME NEW m \in Msgs PROVE Waits(m)' <=> Waits(m)
    BY <1>14, <1>b, SameQueue DEF BatchShown
  <2>2. UnderWay' = UnderWay
    BY <1>2, <1>3, <2>1
  <2>3. Promise!Backfill(p)
    BY <1>14, <2>2 DEF BatchShown, Promise!Backfill
  <2> QED
    BY <2>3 DEF Promise!Next
<1> QED
  BY <1>0, <1>6, <1>7, <1>8, <1>9, <1>11, <1>12, <1>13, <1>14 DEF Movement

LEMMA InitRefines == Init => Promise!Init
<1> SUFFICES ASSUME Init PROVE Promise!Init
  OBVIOUS
<1>1. TypeOK /\ PlaceInv
  BY InitPlaces DEF PlaceInv, IInv
<1>2. \A m \in Msgs : m \notin UnderWay
  BY <1>1, WaitsWhere DEF PlaceInv, OneCopy, Somewhere, Init
<1>3. UnderWay = {}
  BY <1>1, <1>2, WaitsWhere
<1> QED
  BY <1>3 DEF Init, Promise!Init

LEMMA AtMostOne ==
    ASSUME NEW S, \A x, y \in S : x = y
    PROVE  Cardinality(S) = IF S = {} THEN 0 ELSE 1
<1>1. CASE S = {}
  BY <1>1, FS_EmptySet
<1>2. CASE S # {}
  <2>1. PICK x \in S : TRUE
    BY <1>2
  <2>2. S = {x}
    BY <2>1
  <2> QED
    BY <1>2, <2>2, FS_Singleton
<1> QED
  BY <1>1, <1>2

LEMMA OneOccurrence == PlaceInv => InOnePlace
<1> SUFFICES ASSUME PlaceInv, NEW m \in Msgs PROVE Occurrences(m) = IF m \in arrived THEN 1 ELSE 0
  BY DEF InOnePlace
<1> DEFINE F == {a \in Agents : m \in flush[a].todo}
           Q == {i \in 1..Len(queue[PortalOf[m]]) : queue[PortalOf[m]][i].msg = m}
           S == {i \in 1..Len(shown[PortalOf[m]]) : shown[PortalOf[m]][i] = m}
<1>0. Apart(m) /\ Somewhere(m) /\ m \notin dropped
  BY DEF PlaceInv, OneCopy, IInv, NotDropped
<1>1. Cardinality(F) = IF Flushing(m) THEN 1 ELSE 0
  BY <1>0, AtMostOne DEF Apart, Flushing
<1>2. Cardinality(Q) = IF Queued(m) THEN 1 ELSE 0
  BY <1>0, AtMostOne DEF Apart, Queued, QueuedOnce
<1>3. Cardinality(S) = IF OnScreen(m) THEN 1 ELSE 0
  BY <1>0, AtMostOne DEF Apart, OnScreen, ShownOnce
<1>4. Occurrences(m) = (IF m \in buffer THEN 1 ELSE 0) + (IF m \in held THEN 1 ELSE 0)
                       + (IF m \in discarded THEN 1 ELSE 0) + (IF m \in dropped THEN 1 ELSE 0)
                       + Cardinality(F) + Cardinality(Q) + Cardinality(S)
  BY DEF Occurrences
<1> HIDE DEF F, Q, S
<1> QED
  BY <1>0, <1>1, <1>2, <1>3, <1>4 DEF Apart, Somewhere

\* However the flushes of the controller, the safety net, the timers, chat
\* deletions and event loops interleave, a message that APNs delivered is in
\* exactly one place (messageBuffer, flushPendingPortalMsgs, handleMessage).
THEOREM OnePlace == Spec => []InOnePlace
<1>1. Spec => []PlaceInv
  BY InitPlaces, StepPlaces, PTL DEF Spec
<1> QED
  BY <1>1, OneOccurrence, PTL

\* The gate implements HandOver: every live message is shown at most once, in its
\* own room, and given up only by Disconnect.
THEOREM Refinement == Spec => HandsOverOnce
<1>1. Spec => []PlaceInv
  BY InitPlaces, StepPlaces, PTL DEF Spec
<1>2. PlaceInv /\ PlaceInv' /\ [Next]_vars => [Promise!Next]_(Promise!handOverVars)
  BY RefinementStep
<1> QED
  BY <1>1, <1>2, InitRefines, PTL DEF Spec, HandsOverOnce, Promise!Spec

=============================================================================
