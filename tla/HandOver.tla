------------------------------ MODULE HandOver ------------------------------
(***************************************************************************)
(* What the message path promises between APNs and the rooms, whatever     *)
(* buffers, flushes and portal loops lie in between: a message that APNs   *)
(* delivered waits, is shown once in the room of its conversation, and is  *)
(* given up only by the shutdown of the client.  Batches of history may    *)
(* come between the messages.                                              *)
(***************************************************************************)
EXTENDS Naturals, Sequences

CONSTANTS Messages, Conversations, ConversationOf, Batch

VARIABLES
    waiting,    \* delivered by APNs and not yet shown
    screen,     \* what each conversation shows, in order
    givenUp,    \* thrown away by the shutdown
    closed      \* the client was shut down

handOverVars == <<waiting, screen, givenUp, closed>>

Seen(m) == \E i \in 1..Len(screen[ConversationOf[m]]) : screen[ConversationOf[m]][i] = m

Known == waiting \cup givenUp \cup {m \in Messages : Seen(m)}

Init ==
    /\ waiting = {} /\ givenUp = {} /\ closed = FALSE
    /\ screen = [c \in Conversations |-> <<>>]

Accept(m) ==
    /\ ~closed /\ m \notin Known
    /\ waiting' = waiting \cup {m}
    /\ UNCHANGED <<screen, givenUp, closed>>

Show(m) ==
    /\ m \in waiting
    /\ waiting' = waiting \ {m}
    /\ screen' = [screen EXCEPT ![ConversationOf[m]] = Append(@, m)]
    /\ UNCHANGED <<givenUp, closed>>

Backfill(c) ==
    /\ screen' = [screen EXCEPT ![c] = Append(@, Batch)]
    /\ UNCHANGED <<waiting, givenUp, closed>>

Close ==
    /\ ~closed /\ closed' = TRUE
    /\ \E lost \in SUBSET waiting : waiting' = waiting \ lost /\ givenUp' = givenUp \cup lost
    /\ UNCHANGED screen

Next ==
    \/ \E m \in Messages : Accept(m) \/ Show(m)
    \/ \E c \in Conversations : Backfill(c)
    \/ Close

Spec == Init /\ [][Next]_handOverVars

=============================================================================
