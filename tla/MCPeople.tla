------------------------------ MODULE MCPeople ------------------------------
(***************************************************************************)
(* The components that keep up with contacts: presence keys, focus, shared *)
(* profiles and address books, on small instances and in one run.  A       *)
(* behaviour is a behaviour of one of them, named by component, while the  *)
(* others rest in their initial state.                                     *)
(***************************************************************************)
EXTENDS KeyPull, Presence, SharedProfiles, Contacts

CONSTANT Components    \* the ones that a run looks at

VARIABLE component

ZonePage(c, i) == [chans |-> c, invs |-> i]

\* a's invitation is listed before its channel; the last page comes late.
MCZone == <<ZonePage({"b"}, {}), ZonePage({}, {"a"}), ZonePage({"a"}, {}), ZonePage({"c"}, {"c"})>>

peopleVars == <<component, pullVars, presenceVars, profileVars, contactVars>>

\* A component that rests does so in one of its initial states.
MCInit ==
    /\ component \in Components
    /\ PullInit /\ PresenceInit /\ ProfileInit /\ ContactsInit
    /\ component # "contacts" => delegate /\ setup = [kind |-> "icloud", apple |-> TRUE]

Runs(c, rest) == component = c /\ UNCHANGED <<component, rest>>

MCNext ==
    \/ Runs("keys", <<presenceVars, profileVars, contactVars>>) /\ PullNext
    \/ Runs("presence", <<pullVars, profileVars, contactVars>>) /\ PresenceNext
    \/ Runs("profiles", <<pullVars, presenceVars, contactVars>>) /\ ProfileNext
    \/ Runs("contacts", <<pullVars, presenceVars, profileVars>>) /\ ContactsNext

\* The fairness of each component, while it is the one that runs.
PullFair ==
    /\ WF_pullVars(component = "keys" /\ PullTick) /\ WF_pullVars(component = "keys" /\ TimePasses)
    /\ WF_pullVars(component = "keys" /\ Settle) /\ WF_pullVars(component = "keys" /\ PullPage)
    /\ WF_pullVars(component = "keys" /\ PassGoesOn) /\ WF_pullVars(component = "keys" /\ FinishPass)
    /\ WF_pullVars(component = "keys" /\ SubscribeTimer)

PresenceFair ==
    /\ \A h \in Aliases : WF_presenceVars(component = "presence" /\ OnStatusUpdate(h))
    /\ WF_presenceVars(component = "presence" /\ JobsGoOn)
    /\ WF_presenceVars(component = "presence" /\ ApplyTitle)
    /\ WF_presenceVars(component = "presence" /\ RefreshTitle)

ProfileFair ==
    /\ \A n \in 1 .. MaxShares : WF_profileVars(component = "profiles" /\ ShareStep(n))
    /\ \A w \in Workers : WF_profileVars(component = "profiles" /\ WorkerStep(w))
    /\ WF_profileVars(component = "profiles" /\ ProfileAges)
    /\ WF_profileVars(component = "profiles" /\ WaitEnds)
    /\ WF_profileVars(component = "profiles" /\ ProfileConnects)

ContactsFair ==
    /\ WF_contactVars(component = "contacts" /\ SyncStep)
    /\ \A u \in 1 .. MaxCardEdits + 1 : WF_contactVars(component = "contacts" /\ ForgetDead(u))
    /\ \A r \in Refreshers : WF_contactVars(component = "contacts" /\ Reconcile(r))
    /\ WF_contactVars(component = "contacts" /\ ~delegate /\ DelegateChanges)
    /\ WF_contactVars(component = "contacts" /\ panicked /\ ContactsRestart)
    /\ WF_contactVars(component = "contacts" /\ GhostAppears)

People ==
    /\ MCInit /\ [][MCNext]_peopleVars
    /\ PullFair /\ PresenceFair /\ ProfileFair /\ ContactsFair

-----------------------------------------------------------------------------
(* Keys that wait in CloudKit do not arrive while the loop rests, so this  *)
(* property is asked for of the behaviours in which KeyPull runs.          *)

\* KeysSettle, when the pull loop of KeyPull runs: a presence key that a contact
\* published in CloudKit ends up as a subscription (syncCloudStatusKitPeers,
\* schedulePresenceSubscribe).
PublishedKeysSettle == <>[](component = "keys") => KeysSettle

=============================================================================
