---------------------------- MODULE MCCloudStore -----------------------------
(* CloudStore on up to three messages, two portals and two Apple chats.  g3 *)
(* is the oldest message and g1 the newest.                                 *)
EXTENDS CloudStore

CONSTANTS g1, g2, g3, p1, p2, c1, c2, MaxOutside

\* The bound on what the outside world does: at most MaxOutside records,
\* deletes, restores, backfill requests, failures and crashes.
VARIABLE budget

MCInit == Init /\ budget = MaxOutside

MCNext ==
    \/ Outside /\ budget > 0 /\ budget' = budget - 1
    \/ Inside /\ UNCHANGED budget

MCSpec == MCInit /\ [][MCNext]_<<vars, budget>>

MCFairSpec == MCSpec /\ Fairness

\* g1 and g2 come from chat c1, g3 from its sibling c2.
MCSiblings == [g \in Guid |-> IF g = g3 THEN c2 ELSE c1]

\* g1 comes from chat c1, the others carry no chat_id.
MCLegacy == [g \in Guid |-> IF g = g1 THEN c1 ELSE NoChat]

MCHome == [g \in Guid |-> p1]
MCElsewhere == [g \in Guid |-> p2]

MCOnePortal == [k \in AppleChat |-> {p1}]
MCAnyPortal == [k \in AppleChat |-> Portal]

\* A restore of p1 may name c1, or no chat of Apple's.
MCSeeds == {c1, <<"recycle", p1>>}

MCSent == [g \in Guid |-> IF g = g1 THEN 3 ELSE IF g = g2 THEN 2 ELSE 1]

=============================================================================
