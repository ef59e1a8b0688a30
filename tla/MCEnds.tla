------------------------------- MODULE MCEnds -------------------------------
(***************************************************************************)
(* What must end in the update workflow, in the automatic scheduler and in *)
(* the operations centre, on small instances.  They share nothing here: a  *)
(* behaviour is one of the component in focus, the others stay as they     *)
(* began.                                                                  *)
(***************************************************************************)
EXTENDS Workflow, SchedulerOccurrence, Operations

VARIABLE focus
endsVars == <<focus, vars, occVars, opVars>>

EndsInit ==
  /\ focus \in {"workflow", "scheduler", "operations"}
  /\ Init /\ OccInit /\ OperationsInit

EndsNext ==
  /\ UNCHANGED focus
  /\ \/ focus = "workflow" /\ Next /\ UNCHANGED <<occVars, opVars>>
     \/ focus = "scheduler" /\ OccNext /\ UNCHANGED <<vars, opVars>>
     \/ focus = "operations" /\ OperationsNext /\ UNCHANGED <<vars, occVars>>

\* The first process and the second.
Rank(p) == IF p \in {"p1", "w1"} THEN 1 ELSE 2

\* The fair actions of all, by number: since focus never changes, fairness of the i-th of
\* all is fairness of the i-th of the one in focus.
Weak(i) ==
  \/ focus = "workflow"
     /\ \/ \E p \in Proc : i = Rank(p) /\ Start(p)
        \/ \E p \in Proc : i = 2 + Rank(p) /\ Worker(p)
        \/ \E r \in Run : i = 4 + r /\ HeartbeatThread(r)
  \/ focus = "scheduler"
     /\ \/ \E p \in OccProc : i = Rank(p) /\ Scheduler(p)
        \/ \E p \in OccProc : i = 2 + Rank(p) /\ OccWorker(p)
        \/ \E l \in Lease : i = 2 + 2 * Rank(Of(l)) + l[2] /\ LeaseThreads(l)
        \/ i = 9 /\ OccExpire
  \/ focus = "operations"
     /\ \/ i \in Ops /\ JobStep(i)
        \/ \E o \in Ops : i = 2 + o /\ HeartbeatAges(o)
        \/ i = 5 /\ SweeperStep
        \/ i = 6 /\ LifeStep

Strong(i) == focus = "scheduler" /\ \E p \in OccProc : i = Rank(p) /\ TaskSucceeds(p)

focusVars == CASE focus = "workflow" -> vars
               [] focus = "scheduler" -> occVars
               [] focus = "operations" -> opVars

EndsSpec ==
  /\ EndsInit /\ [][EndsNext]_endsVars
  /\ \A i \in 1..9 : WF_focusVars(UNCHANGED focus /\ Weak(i))
  /\ \A i \in 1..2 : SF_focusVars(UNCHANGED focus /\ Strong(i))
=============================================================================
