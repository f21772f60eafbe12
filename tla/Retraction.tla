------------------------------ MODULE Retraction ------------------------------
(* Messages that are taken back.  A Matrix message goes out as one or more   *)
(* iMessages (chunks of an oversized text, or an attachment and its caption) *)
(* and is redacted later; a peer unsends a message of his.  Apple returns    *)
(* every message and every unsend to the bridge, at any time, and the two    *)
(* trackers recentUnsends and recentOutboundUnsends live in memory only.     *)
EXTENDS Integers, Sequences, FiniteSets, SequencesExt

CONSTANTS
    Splits,          \* ways the Matrix message is split: chunks, caption, puppet;
                     \* or inbound: there is none, and the peer writes
    Chunks,          \* splitTextChunks: chunks of an oversized text
    Peer,            \* UUIDs of messages a peer sends
    MaxSendFaults    \* bound: failing calls, expiries, restarts

ASSUME RetractionAssumption ==
    /\ Splits \subseteq {"chunks", "caption", "puppet", "inbound"}
    /\ Chunks \in Nat \ {0, 1} /\ Peer \cap (1..Chunks) = {} /\ MaxSendFaults \in Nat

VARIABLES
    split,      \* how this Matrix message is split
    out,        \* HandleMatrixMessage: stage and the iMessage it works on
    onDevice,   \* what the recipient's device shows of an iMessage
    stub,       \* its cloud_message row
    sentRows,   \* bridge rows: ID and the UUIDs its metadata names
    fromApple,  \* APNs messages and unsends on their way to the bridge
    loop,       \* the portal's remote events
    track,      \* recentOutboundUnsends
    recentUnsends,
    remove,     \* HandleMatrixMessageRemove: stage, UUIDs left, errors
    redacted,   \* history: rows whose redaction succeeded
    refused,    \* history: UUIDs whose SendUnsend returned an error
    lost,       \* history: UUIDs for which a fault hit a write or an event
    sendFaults

outVars == <<split, out>>
sentVars == <<sentRows, loop>>
trackVars == <<track, recentUnsends>>
faultVars == <<redacted, refused, lost, sendFaults>>
retractionVars == <<split, out, onDevice, stub, sentRows, fromApple, loop, track,
                    recentUnsends, remove, redacted, refused, lost, sendFaults>>

Own == 1..Chunks
Uuids == Own \cup Peer
\* The last iMessage of the Matrix message: an attachment has one caption.
LastPiece == IF split = "chunks" THEN Chunks ELSE 2

Idle == [pc |-> "idle", todo |-> <<>>, row |-> 0, err |-> FALSE, scrubErr |-> FALSE]

RetractionInit ==
    /\ split \in Splits
    /\ out = [pc |-> "idle", next |-> 1]
    /\ onDevice = [u \in Uuids |-> IF u \in Peer /\ split = "inbound" THEN "shown" ELSE "no"]
    /\ stub = [u \in Uuids |-> "none"]
    /\ sentRows = {} /\ loop = <<>>
    /\ fromApple = {<<"message", u>> : u \in {p \in Peer : split = "inbound"}}
    /\ track = [u \in Uuids |-> "no"] /\ recentUnsends = {}
    /\ remove = Idle
    /\ redacted = {} /\ refused = {} /\ lost = {} /\ sendFaults = 0

SendFault == sendFaults < MaxSendFaults /\ sendFaults' = sendFaults + 1

\* The portal's event loop runs Matrix handlers and remote events one by one.
LoopFree == out.pc \in {"idle", "done"} /\ remove.pc = "idle"

HasRow(u) == \E r \in sentRows : r.id = u

\* persistMessageUUID: a row that exists is left alone.
PersistMessageUUID(u) == [stub EXCEPT ![u] = IF @ = "none" THEN "live" ELSE @]

-----------------------------------------------------------------------------
(* HandleMatrixMessage, handleMatrixFile *)

\* SendMessage / SendAttachment.  An error of the first iMessage fails the
\* send; an error of a later one ends it with what was sent.
SendPiece ==
    /\ \/ out.pc = "idle" /\ LoopFree /\ split # "inbound"
       \/ out.pc = "send"
    /\ \/ /\ out' = [out EXCEPT !.pc = "store"]
          /\ onDevice' = [onDevice EXCEPT ![out.next] = "shown"]
          /\ fromApple' = fromApple \cup {<<"message", out.next>>}
          /\ UNCHANGED <<lost, sendFaults>>
       \/ /\ SendFault
          /\ out' = [pc |-> IF out.next = 1 THEN "done" ELSE "save", next |-> out.next]
          /\ UNCHANGED <<onDevice, fromApple, lost>>
    /\ UNCHANGED <<split, stub, sentVars, trackVars, remove, redacted, refused>>

Advance == [pc |-> IF out.next = LastPiece THEN "save" ELSE "send", next |-> out.next + 1]

\* persistMessageUUID of a sent iMessage; its error is only logged.
StorePiece ==
    /\ out.pc = "store"
    /\ out' = IF split = "chunks" /\ out.next > 1 THEN [out EXCEPT !.pc = "mark"] ELSE Advance
    /\ \/ stub' = PersistMessageUUID(out.next) /\ UNCHANGED <<lost, sendFaults>>
       \/ SendFault /\ lost' = lost \cup {out.next} /\ UNCHANGED stub
    /\ UNCHANGED <<split, onDevice, fromApple, sentVars, trackVars, remove, redacted, refused>>

\* Mutation: the chunk's row is marked only when CloudKit already knows it.
MarkContinuationChunkNot ==
    /\ out.pc = "mark" /\ out' = Advance
    /\ UNCHANGED <<split, onDevice, stub, fromApple, sentVars, trackVars, remove, faultVars>>

\* markContinuationChunk: the chunk's text is part of the head's event.
MarkContinuationChunk ==
    /\ out.pc = "mark"
    /\ out' = Advance
    /\ \/ stub' = [stub EXCEPT ![out.next] = "deleted"] /\ UNCHANGED <<lost, sendFaults>>
       \/ SendFault /\ lost' = lost \cup {out.next} /\ UNCHANGED stub
    /\ UNCHANGED <<split, onDevice, fromApple, sentVars, trackVars, remove, redacted, refused>>

\* Mutation: metadata forgets the last chunk that was sent.
ResponseRowsShort(k) ==
    IF split = "chunks" THEN {[id |-> 1, others |-> [i \in 1..(IF k > 2 THEN k - 2 ELSE 0) |-> i + 1]]}
    ELSE IF k = 1 THEN {[id |-> 1, others |-> <<>>]}
    ELSE IF split = "caption" THEN {[id |-> 2, others |-> <<1>>]}
    ELSE {[id |-> 1, others |-> <<>>], [id |-> 2, others |-> <<>>]}

\* The rows of a response after k iMessages went out: ContinuationUUIDs, or
\* the caption's row with its SiblingUUID, or two rows when the double puppet
\* sent the caption as an event of its own (PostSave).
ResponseRows(k) ==
    IF split = "chunks" THEN {[id |-> 1, others |-> [i \in 1..(k - 1) |-> i + 1]]}
    ELSE IF k = 1 THEN {[id |-> 1, others |-> <<>>]}
    ELSE IF split = "caption" THEN {[id |-> 2, others |-> <<1>>]}
    ELSE {[id |-> 1, others |-> <<>>], [id |-> 2, others |-> <<>>]}

SaveRows ==
    /\ out.pc = "save"
    /\ out' = [out EXCEPT !.pc = "done"]
    /\ sentRows' = sentRows \cup ResponseRows(out.next - 1)
    /\ UNCHANGED <<split, onDevice, stub, fromApple, loop, trackVars, remove, faultVars>>

-----------------------------------------------------------------------------
(* What Apple delivers *)

Arrives(kind, u) ==
    /\ <<kind, u>> \in fromApple
    /\ fromApple' = fromApple \ {<<kind, u>>}

\* handleMessage: dropped when it was unsent or bridged; otherwise stored and,
\* unless its row says deleted, queued.
HandleMessage(u) ==
    /\ Arrives("message", u)
    /\ IF u \in recentUnsends \/ HasRow(u)
       THEN UNCHANGED <<stub, loop>>
       ELSE /\ stub' = PersistMessageUUID(u)
            /\ loop' = IF stub[u] = "deleted" THEN loop ELSE Append(loop, <<"message", u>>)
    /\ UNCHANGED <<outVars, onDevice, sentRows, trackVars, remove, faultVars>>

\* The framework drops a message it has a row for; deletedMessagePostHandle
\* takes a new row back when the message was deleted meanwhile.
HandleQueuedMessage ==
    /\ LoopFree /\ loop # <<>> /\ Head(loop)[1] = "message"
    /\ LET u == Head(loop)[2]
       IN sentRows' = IF HasRow(u) \/ stub[u] = "deleted" THEN sentRows
                      ELSE sentRows \cup {[id |-> u, others |-> <<>>]}
    /\ loop' = Tail(loop)
    /\ UNCHANGED <<outVars, onDevice, stub, fromApple, trackVars, remove, faultVars>>

\* MessageRemove: the rows of the ID and their events go.
HandleQueuedRemove ==
    /\ LoopFree /\ loop # <<>> /\ Head(loop)[1] = "remove"
    /\ sentRows' = {r \in sentRows : r.id # Head(loop)[2]}
    /\ loop' = Tail(loop)
    /\ UNCHANGED <<outVars, onDevice, stub, fromApple, trackVars, remove, faultVars>>

\* CloudKit returns the message's record and a backfill bridges its row.
CloudBackfill(u) ==
    /\ LoopFree /\ onDevice[u] # "no" /\ ~HasRow(u) /\ stub[u] # "deleted"
    /\ stub' = [stub EXCEPT ![u] = "live"]
    /\ sentRows' = sentRows \cup {[id |-> u, others |-> <<>>]}
    /\ UNCHANGED <<outVars, onDevice, fromApple, loop, trackVars, remove, faultVars>>

\* wasOutboundUnsend: the echo of an unsend of ours is noted and ends there.
SuppressEcho(u) ==
    /\ Arrives("unsend", u) /\ track[u] # "no"
    /\ track' = [track EXCEPT ![u] = "echoed"]
    /\ UNCHANGED <<outVars, onDevice, stub, sentVars, recentUnsends, remove, faultVars>>

\* Mutation: an unsend only redacts what the room shows.
HandleUnsendUnstored(u) ==
    /\ Arrives("unsend", u) /\ track[u] = "no"
    /\ recentUnsends' = recentUnsends \cup {u}
    /\ loop' = Append(loop, <<"remove", u>>)
    /\ UNCHANGED <<outVars, onDevice, stub, sentRows, track, remove, faultVars>>

\* handleUnsend: the tombstone first; without it no redaction is queued.
HandleUnsend(u) ==
    /\ Arrives("unsend", u) /\ track[u] = "no"
    /\ recentUnsends' = recentUnsends \cup {u}
    /\ \/ stub' = [stub EXCEPT ![u] = "deleted"] /\ loop' = Append(loop, <<"remove", u>>)
          /\ UNCHANGED <<lost, sendFaults>>
       \/ SendFault /\ lost' = lost \cup {u} /\ UNCHANGED <<stub, loop>>
    /\ UNCHANGED <<outVars, onDevice, sentRows, track, remove, redacted, refused>>

PeerUnsends(u) ==
    /\ u \in Peer /\ onDevice[u] = "shown"
    /\ onDevice' = [onDevice EXCEPT ![u] = "retracted"]
    /\ fromApple' = fromApple \cup {<<"unsend", u>>}
    /\ UNCHANGED <<outVars, stub, sentVars, trackVars, remove, faultVars>>

-----------------------------------------------------------------------------
(* HandleMatrixMessageRemove *)

\* The user redacts the event of row r of his own: the sibling first, the
\* continuations from the last, then the row's own message.
RemoveStart(r) ==
    /\ LoopFree /\ r \in sentRows /\ r.id \in Own
    /\ remove' = [Idle EXCEPT !.pc = "track", !.row = r.id, !.todo = Append(Reverse(r.others), r.id)]
    /\ UNCHANGED <<outVars, onDevice, stub, sentVars, fromApple, trackVars, faultVars>>

Current == Head(remove.todo)

TrackOutboundUnsend ==
    /\ remove.pc = "track"
    /\ track' = [track EXCEPT ![Current] = "open"]
    /\ remove' = [remove EXCEPT !.pc = "send", !.err = FALSE]
    /\ UNCHANGED <<outVars, onDevice, stub, sentVars, fromApple, recentUnsends, faultVars>>

\* Apple takes the unsend; SendUnsend has not returned yet.
AppleAccepts ==
    /\ remove.pc = "send" /\ onDevice[Current] = "shown"
    /\ onDevice' = [onDevice EXCEPT ![Current] = "retracted"]
    /\ fromApple' = fromApple \cup {<<"unsend", Current>>}
    /\ UNCHANGED <<outVars, stub, sentVars, trackVars, remove, faultVars>>

\* SendUnsend returns: without an error only when Apple took it, with one
\* (SendTimedOut) in either case.
SendUnsendReturns ==
    /\ remove.pc = "send"
    /\ \/ onDevice[Current] = "retracted" /\ remove' = [remove EXCEPT !.pc = "settle"]
          /\ UNCHANGED <<refused, sendFaults>>
       \/ SendFault /\ remove' = [remove EXCEPT !.pc = "settle", !.err = TRUE]
          /\ refused' = refused \cup {Current}
    /\ UNCHANGED <<outVars, onDevice, stub, sentVars, fromApple, trackVars, redacted, lost>>

\* Mutation: tracking outlives a send that failed.
SettledTrackKept(t, err) == IF t = "echoed" THEN "no" ELSE t

\* recentOutboundUnsends after settleOutboundUnsend.
SettledTrack(t, err) == IF t = "echoed" \/ err THEN "no" ELSE t

\* settleOutboundUnsend: an echo seen meanwhile proves that Apple took it.
SettleOutboundUnsend ==
    LET accepted == track[Current] = "echoed" \/ ~remove.err
    IN /\ remove.pc = "settle"
       /\ track' = [track EXCEPT ![Current] = SettledTrack(@, remove.err)]
       /\ remove' = [remove EXCEPT !.pc = IF accepted THEN "scrub" ELSE "next", !.err = ~accepted]
       /\ UNCHANGED <<outVars, onDevice, stub, sentVars, fromApple, recentUnsends, faultVars>>

\* softDeleteMessageByGUID; an error is kept until every unsend was tried.
ScrubUnsent ==
    /\ remove.pc = "scrub"
    /\ \/ /\ stub' = [stub EXCEPT ![Current] = "deleted"]
          /\ remove' = [remove EXCEPT !.pc = "next"]
          /\ UNCHANGED <<lost, sendFaults>>
       \/ /\ SendFault /\ lost' = lost \cup {Current}
          /\ remove' = [remove EXCEPT !.pc = "next", !.scrubErr = TRUE]
          /\ UNCHANGED stub
    /\ UNCHANGED <<outVars, onDevice, sentVars, fromApple, trackVars, redacted, refused>>

RemoveNext ==
    /\ remove.pc = "next" /\ Len(remove.todo) > 1
    /\ remove' = [remove EXCEPT !.pc = "track", !.todo = Tail(@)]
    /\ UNCHANGED <<outVars, onDevice, stub, sentVars, fromApple, trackVars, faultVars>>

\* The framework deletes the row only when the handler returned no error.
RemoveReturns ==
    /\ remove.pc = "next" /\ Len(remove.todo) = 1
    /\ remove' = Idle
    /\ IF remove.err \/ remove.scrubErr
       THEN UNCHANGED <<sentRows, redacted>>
       ELSE /\ sentRows' = {r \in sentRows : r.id # remove.row}
            /\ redacted' = redacted \cup {remove.row}
    /\ UNCHANGED <<outVars, onDevice, stub, fromApple, loop, trackVars, refused, lost, sendFaults>>

-----------------------------------------------------------------------------

\* Five minutes pass: both trackers forget the UUID.
ExpireTracking(u) ==
    /\ track[u] # "no" \/ u \in recentUnsends
    /\ remove.pc = "idle" /\ SendFault
    /\ track' = [track EXCEPT ![u] = "no"]
    /\ recentUnsends' = recentUnsends \ {u}
    /\ UNCHANGED <<outVars, onDevice, stub, sentVars, fromApple, remove, redacted, refused, lost>>

\* A restart: queues, handlers and trackers are gone.  What it loses for good:
\* the rows of a send, a queued redaction, the proof that an echo was seen.
RetractionRestart ==
    /\ SendFault
    /\ out' = IF out.pc = "idle" THEN out ELSE [out EXCEPT !.pc = "done"]
    /\ remove' = Idle /\ loop' = <<>>
    /\ track' = [u \in Uuids |-> "no"] /\ recentUnsends' = {}
    /\ lost' = lost \cup {e[2] : e \in ToSet(loop)}
                    \cup {u \in Uuids : track[u] = "echoed"}
                    \cup (IF remove.pc = "scrub" THEN {Current} ELSE {})
                    \cup (IF out.pc \in {"idle", "done"} THEN {} ELSE Own)
    /\ UNCHANGED <<split, onDevice, stub, sentRows, fromApple, redacted, refused>>

RetractionNext ==
    \/ SendPiece \/ StorePiece \/ MarkContinuationChunk \/ SaveRows
    \/ HandleQueuedMessage \/ HandleQueuedRemove
    \/ \E u \in Uuids : \/ HandleMessage(u) \/ SuppressEcho(u) \/ HandleUnsend(u)
                        \/ CloudBackfill(u) \/ PeerUnsends(u) \/ ExpireTracking(u)
    \/ \E r \in sentRows : RemoveStart(r)
    \/ TrackOutboundUnsend \/ AppleAccepts \/ SendUnsendReturns \/ SettleOutboundUnsend
    \/ ScrubUnsent \/ RemoveNext \/ RemoveReturns
    \/ RetractionRestart

SendGoesOn == SendPiece \/ StorePiece \/ MarkContinuationChunk \/ SaveRows

QueueGoesOn == HandleQueuedMessage \/ HandleQueuedRemove

UnsendGoesOn ==
    \/ TrackOutboundUnsend \/ AppleAccepts \/ SettleOutboundUnsend \/ ScrubUnsent
    \/ RemoveNext \/ RemoveReturns \/ SendUnsendReturns

AppleDelivers == \E u \in Uuids : HandleMessage(u) \/ SuppressEcho(u) \/ HandleUnsend(u)

\* Handlers end, the loop empties, Apple delivers.
RetractionFairness ==
    /\ WF_retractionVars(SendGoesOn) /\ WF_retractionVars(QueueGoesOn)
    /\ WF_retractionVars(UnsendGoesOn) /\ WF_retractionVars(AppleDelivers)

RetractionSpec == RetractionInit /\ [][RetractionNext]_retractionVars /\ RetractionFairness

-----------------------------------------------------------------------------

\* A redaction reaches every iMessage of its event: after one that succeeded,
\* what the recipient still sees is a message whose own unsend came back with
\* an error, or one a restart cut off from its event (ContinuationUUIDs and
\* SiblingUUID name all that was sent).
RedactionReachesAll ==
    \A h \in redacted : \A u \in Own :
        /\ \/ u = h
           \/ split = "chunks" /\ h = 1
           \/ split = "caption" /\ h = 2
        /\ onDevice[u] = "shown"
        => u \in refused \cup lost

\* The tail of an oversized message is never bridged back under its head,
\* neither by an echo nor by CloudKit, unless a store write or the send itself
\* was cut off (markContinuationChunk, deletedMessagePostHandle).
TailNotRepeated ==
    split = "chunks" => \A u \in 2..Chunks : HasRow(u) => u \in lost

\* The iMessages that one Matrix event became stay tied to it: a redaction
\* finds them all and none of them comes back as a message of its own.
SplitSendsTracked == RedactionReachesAll /\ TailNotRepeated

\* What was taken back ends with a tombstone and without a row, whichever of
\* the message, its unsend, the send's error and a restart comes first
\* (settleOutboundUnsend, handleUnsend, wasUnsent).
RetractedGoesAway ==
    <>[](\A u \in Uuids : onDevice[u] = "retracted" =>
            \/ u \in lost
            \/ stub[u] = "deleted" /\ (u \in Peer => ~HasRow(u)))

=============================================================================
