----------------------------- MODULE MCWorkflow -----------------------------
(***************************************************************************)
(* The update workflow with two sets of faults: errors (calls that raise   *)
(* and heartbeats that are late) and deaths (crashes, stops and shutdowns, *)
(* under heartbeats that are in time).  A behaviour has those in focus.    *)
(***************************************************************************)
EXTENDS Workflow, TLC

CONSTANT ErrorEvents
Errors == INSTANCE Workflow WITH Events <- ErrorEvents

VARIABLE focus
flowVars == <<focus, vars>>

FlowInit == focus \in {"errors", "deaths"} /\ Init

FlowNext ==
  /\ UNCHANGED focus
  /\ \/ focus = "errors" /\ Errors!Next
     \/ focus = "deaths" /\ Next

FlowSpec == FlowInit /\ [][FlowNext]_flowVars

\* NoOverlap, where live heartbeat threads renew in time: a lost advisory lock, a crash or
\* a stop never lets two processes work at once (try_start_workflow_execution).
RenewedNeverOverlap == focus = "deaths" => NoOverlap

Symmetry == Permutations(Proc)
=============================================================================
