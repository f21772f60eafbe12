---------------------------- MODULE GateHandOver ----------------------------
(* LiveGate as an implementation of HandOver.                              *)
EXTENDS LiveGate

\* A message waits in the buffer, in the hands of a flush, in pendingPortalMsgs
\* or in the event queue of its portal.
UnderWay ==
    buffer \cup held \cup (UNION {flush[a].todo : a \in Agents}) \cup
    {m \in Msgs : \E i \in 1..Len(queue[PortalOf[m]]) : queue[PortalOf[m]][i].msg = m}

Promise == INSTANCE HandOver WITH
    Messages <- Msgs, Conversations <- Portals, ConversationOf <- PortalOf, Batch <- History,
    waiting <- UnderWay, screen <- shown, givenUp <- discarded, closed <- stopped

\* Whatever flushes interleave with the gate, the sync and each other, the
\* buffer, pendingPortalMsgs and the portal queues hand every message over at
\* most once, to its own room, and only Disconnect gives messages up
\* (messageBuffer, flushPendingPortalMsgs, handleMessage).
HandsOverOnce == Promise!Spec

=============================================================================
