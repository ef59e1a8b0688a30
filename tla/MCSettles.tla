----------------------------- MODULE MCSettles -----------------------------
(***************************************************************************)
(* What must end, on small instances.  The components share nothing, so a  *)
(* behaviour is one of the component in focus and the others stay as they  *)
(* began.                                                                  *)
(***************************************************************************)
EXTENDS NotificationDelivery, EventBridgeRotation, ProbeQueue, ProbeLifecycle, EmbySockets

VARIABLE focus
settlesVars == <<focus, vars, bridgeVars, probeVars, lifeVars, socketVars>>

SettlesInit ==
  /\ focus \in {"notifications", "bridge", "probe", "lifecycle", "sockets"}
  /\ Init /\ BridgeInit /\ ProbeInit /\ LifeInit /\ SocketInit

\* The components out of focus stay as they are.
OthersStay ==
  /\ UNCHANGED focus
  /\ IF focus # "notifications" THEN UNCHANGED vars ELSE TRUE
  /\ IF focus # "bridge" THEN UNCHANGED bridgeVars ELSE TRUE
  /\ IF focus # "probe" THEN UNCHANGED probeVars ELSE TRUE
  /\ IF focus # "lifecycle" THEN UNCHANGED lifeVars ELSE TRUE
  /\ IF focus # "sockets" THEN UNCHANGED socketVars ELSE TRUE

SettlesNext ==
  /\ \/ focus = "notifications" /\ Next
     \/ focus = "bridge" /\ BridgeNext
     \/ focus = "probe" /\ ProbeNext
     \/ focus = "lifecycle" /\ LifeNext
     \/ focus = "sockets" /\ SocketNext
  /\ OthersStay

\* The fair actions of every component, by number: since focus never changes, fairness of
\* the i-th of all of them is fairness of the i-th of the one in focus.
Weak(i) ==
  \/ focus = "notifications" /\ i \in Pub /\ Expire(i)
  \/ focus = "bridge"
     /\ \/ i = 1 /\ Push
        \/ i = 2 /\ Answer
        \/ i = 3 /\ Settle
        \/ i = 4 /\ (Apply \/ Drop)
        \/ i = 5 /\ Send
        \/ i = 6 /\ Handle
  \/ focus = "probe"
     /\ \/ \E w \in Workers : i = Slots[w] /\ WorkerStep(w)
        \/ \E w \in Workers, s \in Sources : i = 2 + Slots[w] /\ RowStep(w, s)
        \/ \E s \in Sources : i = 5 /\ RowExpires(s)
  \/ focus = "lifecycle"
     /\ \E s \in Servers, k \in Keys :
          LET n == CASE k = "recent_discovery" -> 1 [] k = "recent_processing" -> 2 [] OTHER -> 3
          IN  \/ i = n /\ ThreadEnds(s, k)
              \/ i = 3 + n /\ thread[s][k].stop /\ WorkEnds(s, k)
              \/ i = 7 /\ k \in ComboKeys /\ ComboStep(s, k)
  \/ focus = "sockets"
     /\ \/ i \in Connections /\ ConnStep(i)
        \/ \E c \in Connections : i = 2 + c /\ Closes(c)
        \/ i = 5 /\ OpStep
        \/ i = 6 /\ ending /\ \E forGood \in BOOLEAN : BeginRemove(forGood)

Strong(i) ==
  \/ focus = "notifications" /\ \E p \in Proc :
       \/ i = 1 /\ Begin(p)
       \/ i = 2 /\ Plan(p)
       \/ i = 3 /\ Checkpoint(p)
       \/ i = 4 /\ SendAccepted(p)
       \/ i = 5 /\ Records(p)
       \/ \E d \in Pub : i = 5 + d /\ Chooses(p, d)
  \/ focus = "bridge"
     /\ \/ i = 1 /\ Age
        \/ i = 2 /\ Authenticate(journal)
        \/ i = 3 /\ PromoteByEvent /\ pending' = NoGen
        \/ i = 4 /\ Reconcile /\ pending' = NoGen
  \/ focus = "sockets" /\ i \in Connections /\ op.at \in {"joins", "waits"} /\ Closes(i)

focusVars == CASE focus = "notifications" -> vars
               [] focus = "bridge" -> bridgeVars
               [] focus = "probe" -> probeVars
               [] focus = "lifecycle" -> lifeVars
               [] focus = "sockets" -> socketVars

\* A combo of a discovery and a processing, and a sequence of one processing a server.
RecentChild == [c \in ComboKeys |-> <<"recent_discovery", "recent_processing">>]
RecentStep == [q \in Sequences |-> "recent_processing"]

\* One source alone, and workers with one slot and two.
NoGeneric == [s \in Sources |-> NoSource]
OneAndTwoSlots == [w \in Workers |-> IF w = "w1" THEN 1 ELSE 2]

SettlesSpec ==
  /\ SettlesInit /\ [][SettlesNext]_settlesVars
  /\ \A i \in 1..7 : /\ WF_focusVars(UNCHANGED focus /\ Weak(i))
                    /\ SF_focusVars(UNCHANGED focus /\ Strong(i))
=============================================================================
