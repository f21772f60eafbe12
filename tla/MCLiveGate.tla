----------------------------- MODULE MCLiveGate -----------------------------
(* LiveGate on portals named for what the sync finds for them.             *)
EXTENDS GateHandOver

CONSTANTS new, forced, offline, unknown

MCKind == [p \in Portals |-> CASE p = new     -> "new"
                               [] p = forced  -> "forced"
                               [] p = offline -> "offline"
                               [] OTHER       -> "unknown"]

\* One message per portal.
MCPortalOf ==
    [m \in Msgs |-> CASE m = 1 -> new [] m = 2 -> unknown [] m = 3 -> offline [] m = 4 -> forced]

=============================================================================
