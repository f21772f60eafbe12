------------------------------ MODULE MCPlaces ------------------------------
(***************************************************************************)
(* The components that decide which room a message belongs to and whether  *)
(* a chat has one (groups, direct chats, the recycle bin), and the session *)
(* everything rests on, on small instances and in one run.  A behaviour is *)
(* a behaviour of one of them, named by component, while the others rest   *)
(* in their initial state.                                                 *)
(***************************************************************************)
EXTENDS GroupRouting, DMRouting, RecycleBin, Session

VARIABLE component

\* Three GUIDs for two groups that share a member; the second has an old room.
MCGroupOf == [g \in Guids |-> IF g = "g3" THEN "g1" ELSE g]
MCFirstMembers == [g1 |-> {"a", "b"}, g2 |-> {"a", "c"}]

\* A contact with a phone, known under two spellings, and a mail address.
MCCard == <<"tel", "mail">>
MCSpellings == [tel |-> <<"tel", "telsms">>, mail |-> <<"mail">>]
MCChatDB == <<<<"tel", "tel">>>>

MCSent0 == [x |-> 1, y |-> 2]

placesVars == <<component, routingVars, dmVars, binVars, sessionVars>>

\* A Mac that is new or lost its database, another host that was given CloudKit
\* after its login, or one of the first version without it.
Installation ==
    /\ host.darwin <=> ~legacy /\ ~hasRow
    /\ host.cloudkit <=> ~legacy
    /\ ~clique /\ host.admin

\* A component that rests does so in one of its initial states.
MCInit ==
    /\ component \in {"groups", "direct", "bin", "session"}
    /\ RoutingInit /\ DMInit /\ BinInit /\ SessionInit
    /\ Installation
    /\ component # "direct" => known /\ registered = {} /\ hasRelay
    /\ component # "session" => legacy

Runs(c, rest) == component = c /\ UNCHANGED <<component, rest>>

MCNext ==
    \/ Runs("groups", <<dmVars, binVars, sessionVars>>) /\ RoutingNext
    \/ Runs("direct", <<routingVars, binVars, sessionVars>>) /\ DMNext
    \/ Runs("bin", <<routingVars, dmVars, sessionVars>>) /\ BinNext
    \/ Runs("session", <<routingVars, dmVars, binVars>>) /\ SessionNext

=============================================================================
