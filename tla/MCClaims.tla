------------------------------ MODULE MCClaims ------------------------------
(***************************************************************************)
(* The components that hold claims or workers, on small instances.  They   *)
(* share nothing here, so a behaviour is one of the component in focus and *)
(* the others stay as they began.                                          *)
(***************************************************************************)
EXTENDS SchedulerOccurrence, NotificationDelivery, EventBridgeRotation, ProbeQueue,
        ProbeLifecycle, UserSync

VARIABLE focus
claimsVars == <<focus, occVars, vars, bridgeVars, probeVars, lifeVars, userVars>>

ClaimsInit ==
  /\ focus \in {"scheduler", "notifications", "bridge", "probe", "lifecycle", "users"}
  /\ OccInit /\ Init /\ BridgeInit /\ ProbeInit /\ LifeInit /\ UserInit
  /\ focus # "users" => group = Members /\ \A m \in Members : favorites[m] = {}

\* The components out of focus stay as they are.
OthersStay ==
  /\ UNCHANGED focus
  /\ IF focus # "scheduler" THEN UNCHANGED occVars ELSE TRUE
  /\ IF focus # "notifications" THEN UNCHANGED vars ELSE TRUE
  /\ IF focus # "bridge" THEN UNCHANGED bridgeVars ELSE TRUE
  /\ IF focus # "probe" THEN UNCHANGED probeVars ELSE TRUE
  /\ IF focus # "lifecycle" THEN UNCHANGED lifeVars ELSE TRUE
  /\ IF focus # "users" THEN UNCHANGED userVars ELSE TRUE

ClaimsNext ==
  /\ \/ focus = "scheduler" /\ OccNext
     \/ focus = "notifications" /\ Next
     \/ focus = "bridge" /\ BridgeNext
     \/ focus = "probe" /\ ProbeNext
     \/ focus = "lifecycle" /\ LifeNext
     \/ focus = "users" /\ UserNext
  /\ OthersStay

ClaimsSpec == ClaimsInit /\ [][ClaimsNext]_claimsVars

\* What the component in focus declares of its state.
ClaimsTypeOK ==
  CASE focus = "scheduler" -> OccTypeOK
    [] focus = "notifications" -> TypeOK
    [] focus = "bridge" -> BridgeTypeOK
    [] focus = "probe" -> ProbeTypeOK
    [] focus = "lifecycle" -> LifeTypeOK
    [] focus = "users" -> UserTypeOK

\* No combo, and a sequence of one processing a server.
EmptyCombos == [c \in ComboKeys |-> <<>>]
RecentStep == [q \in Sequences |-> "recent_processing"]

\* Sources of the probe: one with an id beside the one without, or one alone.
GenericAndConcrete == [s \in Sources |-> IF s = "concrete" THEN "generic" ELSE NoSource]
OneAndTwoSlots == [w \in Workers |-> IF w = "w1" THEN 1 ELSE 2]

\* The server of the third user lacks the items.
TwoHaveThem == [m \in Members |-> IF m = "c" THEN {} ELSE Items]
=============================================================================
