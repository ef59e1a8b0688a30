------------------------------ MODULE MCRuntime ------------------------------
(***************************************************************************)
(* The components that live in one process, on small instances.  They      *)
(* share nothing here, so a behaviour is one of the component in focus and *)
(* the others stay as they began.                                          *)
(***************************************************************************)
EXTENDS ProbeLifecycle, LibraryScan, StatusSnapshot, SessionStreams, EmbySockets, ChangeFeed, Operations,
        LatestFeed

VARIABLE focus
runtimeVars == <<focus, lifeVars, scanVars, snapVars, streamVars, socketVars, feedVars, opVars, filmVars>>

RuntimeInit ==
  /\ focus \in {"lifecycle", "scans", "snapshots", "streams", "sockets", "feed", "operations",
               "latest"}
  /\ LifeInit /\ ScanInit /\ SnapInit /\ StreamInit /\ SocketInit /\ FeedInit /\ OperationsInit
  /\ FeedOfFilmInit

\* The components out of focus stay as they are.
OthersStay ==
  /\ UNCHANGED focus
  /\ IF focus # "lifecycle" THEN UNCHANGED lifeVars ELSE TRUE
  /\ IF focus # "scans" THEN UNCHANGED scanVars ELSE TRUE
  /\ IF focus # "snapshots" THEN UNCHANGED snapVars ELSE TRUE
  /\ IF focus # "streams" THEN UNCHANGED streamVars ELSE TRUE
  /\ IF focus # "sockets" THEN UNCHANGED socketVars ELSE TRUE
  /\ IF focus # "feed" THEN UNCHANGED feedVars ELSE TRUE
  /\ IF focus # "operations" THEN UNCHANGED opVars ELSE TRUE
  /\ IF focus # "latest" THEN UNCHANGED filmVars ELSE TRUE

RuntimeNext ==
  /\ \/ focus = "lifecycle" /\ LifeNext
     \/ focus = "scans" /\ ScanNext
     \/ focus = "snapshots" /\ SnapNext
     \/ focus = "streams" /\ StreamNext
     \/ focus = "sockets" /\ SocketNext
     \/ focus = "feed" /\ FeedNext
     \/ focus = "operations" /\ OperationsNext
     \/ focus = "latest" /\ FeedOfFilmNext
  /\ OthersStay

RuntimeSpec == RuntimeInit /\ [][RuntimeNext]_runtimeVars

\* What each component declares of its state; the others are as in the initial state.
RuntimeTypeOK ==
  CASE focus = "lifecycle" -> LifeTypeOK
    [] focus = "scans" -> ScanTypeOK
    [] focus = "snapshots" -> SnapTypeOK
    [] focus = "streams" -> StreamTypeOK
    [] focus = "sockets" -> SocketTypeOK
    [] focus = "feed" -> FeedTypeOK
    [] focus = "operations" -> OperationsTypeOK
    [] focus = "latest" -> FeedOfFilmTypeOK

\* A combo of a discovery and a processing, and a sequence of one processing a server.
RecentChild == [c \in ComboKeys |-> <<"recent_discovery", "recent_processing">>]
RecentStep == [q \in Sequences |-> "recent_processing"]
=============================================================================
