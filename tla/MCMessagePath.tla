--------------------------- MODULE MCMessagePath ----------------------------
(***************************************************************************)
(* The components a message passes, and shared albums, on small instances  *)
(* and in one run: a behaviour is a behaviour of one of them, named by     *)
(* component, while the others rest in their initial state.  The watcher   *)
(* of shared albums and the commands share the albums and nothing else, so *)
(* notices runs the one and albums the other.                              *)
(***************************************************************************)
EXTENDS CloudMedia, AttachmentRetry, Retraction, CloudSync, History, Annotations,
        SharedStreams

CONSTANTS
    Components,    \* the ones that a run looks at
    BrowseEdits    \* bound: changes of the albums while somebody browses

VARIABLE component

MCRealSize == [r \in Records |-> 12]

\* Two pages a zone; of the chats and the messages one is there at the start.
MCFeed == [atts  |-> <<{"a1"}, {"a2"}>>,
           chats |-> <<{"x"}, {"y"}>>,
           msgs  |-> <<{"m1"}, {"m2"}>>]
MCEarly == [atts |-> 2, chats |-> 1, msgs |-> 1]
MCChatOf == [m1 |-> "x", m2 |-> "y"]
MCAttsOf == [m1 |-> {"a1"}, m2 |-> {"a1", "a2"}]

\* Four rows, two of them of the same second.
MCStamp == <<1, 2, 2, 3>>

MCPlans == {[taps |-> 3, edits |-> 0, sends |-> FALSE],
            [taps |-> 1, edits |-> 1, sends |-> TRUE],
            [taps |-> 0, edits |-> 2, sends |-> FALSE]}

\* One asset, the one below it, and two ranges of which one is past the end.
MCReplies == {<<<<1, 1>>>>, <<<<2, 1>>>>, <<<<1, 1>>, <<3, 3>>>>}

messageVars == <<mediaVars, retryVars, retractionVars, syncVars, historyVars, annotationVars>>
pathVars == <<component, messageVars, albumVars>>

\* A component that rests does so in one of its initial states.
MCInit ==
    /\ component \in Components
    /\ MediaInit /\ RetryInit /\ RetractionInit /\ CloudSyncInit /\ HistoryInit /\ AnnotationsInit
    /\ StreamsInit
    /\ component # "retraction" => split = "inbound"
    /\ component # "history" => stored = {}
    /\ component # "annotations" => plan.edits = 2

Runs(c, rest) == component = c /\ UNCHANGED <<component, rest>>

MCNext ==
    \/ /\ Runs("media", <<retryVars, retractionVars, syncVars, historyVars, annotationVars,
                          albumVars>>)
       /\ MediaNext
    \/ /\ Runs("retry", <<mediaVars, retractionVars, syncVars, historyVars, annotationVars,
                          albumVars>>)
       /\ RetryNext
    \/ /\ Runs("retraction", <<mediaVars, retryVars, syncVars, historyVars, annotationVars,
                               albumVars>>)
       /\ RetractionNext
    \/ /\ Runs("sync", <<mediaVars, retryVars, retractionVars, historyVars, annotationVars,
                         albumVars>>)
       /\ CloudSyncNext
    \/ /\ Runs("history", <<mediaVars, retryVars, retractionVars, syncVars, annotationVars,
                            albumVars>>)
       /\ HistoryNext
    \/ /\ Runs("annotations", <<mediaVars, retryVars, retractionVars, syncVars, historyVars,
                                albumVars>>)
       /\ AnnotationsNext
    \/ /\ Runs("albums", messageVars) /\ UNCHANGED poll
       /\ StreamsNext /\ albumEdits' <= BrowseEdits
    \/ /\ Runs("notices", messageVars) /\ UNCHANGED browses
       /\ StreamsNext

\* The fairness of each component, while it is the one that runs.
MediaFair ==
    /\ WF_mediaVars(component = "media" /\ (SyncPassDone \/ ConvertChunk \/ SendMediaBatch))
    /\ \A j \in Jobs : /\ WF_mediaVars(component = "media" /\ JobStep(j))
                      /\ WF_mediaVars(component = "media" /\ TakeBytes(j))

RetryFair ==
    /\ \A a \in Atts : WF_retryVars(component = "retry" /\ RetryHandles(a))
    /\ \A a \in Atts : WF_retryVars(component = "retry" /\ HandleEdit(a))
    /\ \A a \in Atts : WF_retryVars(component = "retry" /\ Tick(a))
    /\ WF_retryVars(component = "retry" /\ RetryWorks)

RetractionFair ==
    /\ WF_retractionVars(component = "retraction" /\ SendGoesOn)
    /\ WF_retractionVars(component = "retraction" /\ QueueGoesOn)
    /\ WF_retractionVars(component = "retraction" /\ UnsendGoesOn)
    /\ WF_retractionVars(component = "retraction" /\ AppleDelivers)

SyncFair == WF_syncVars(component = "sync" /\ ControllerRuns)

HistoryFair ==
    /\ WF_historyVars(component = "history" /\ Boots)
    /\ WF_historyVars(component = "history" /\ Forwards)
    /\ \A l \in Loops : WF_historyVars(component = "history" /\ Drains(l))

AnnotationsFair ==
    /\ WF_annotationVars(component = "annotations" /\ Pushes)
    /\ WF_annotationVars(component = "annotations" /\ PortalHandles)
    /\ WF_annotationVars(component = "annotations" /\ tryLookup)
    /\ WF_annotationVars(component = "annotations" /\ InsertOwn)
    /\ WF_annotationVars(component = "annotations" /\ cloudTapbackToBackfill)
    /\ WF_annotationVars(component = "annotations" /\ StartBridge)
    /\ WF_annotationVars(component = "annotations" /\ ImportAll)

AlbumsFair == \A d \in Downloads : WF_albumVars(component = "albums" /\ DownloadStep(d))

Path ==
    /\ MCInit /\ [][MCNext]_pathVars
    /\ MediaFair /\ RetryFair /\ RetractionFair /\ SyncFair /\ HistoryFair /\ AnnotationsFair
    /\ AlbumsFair

-----------------------------------------------------------------------------
(* A controller that rests does not open the gate, so this property is     *)
(* asked for of the behaviours in which CloudSync runs.                    *)

\* The bootstrap comes to an end with the gate open and no room forgotten:
\* RoomsNotForgotten, and GateOpens when the controller of CloudSync runs
\* (runCloudSyncController).
FirstSyncFinishes == RoomsNotForgotten /\ (<>[](component = "sync") => GateOpens)

=============================================================================
