--------------------------- MODULE MCDeleteHandoff ---------------------------
(* DeleteHandoff on two portals.  The configurations choose the copies: the *)
(* text and the attachment of m1 in p1, and a reuse of its UUID in p2.      *)
EXTENDS DeleteHandoff

CONSTANTS m1, p1, p2, text, att, reuse

MCPortal == {p1, p2}
MCMsgOf == [c \in Copy |-> m1]
MCPortalOf == [c \in Copy |-> IF c = reuse THEN p2 ELSE p1]

=============================================================================
