--------------------------- MODULE WorkflowLedger ---------------------------
(***************************************************************************)
(* What the workflow tables promise to everybody who reads them, whatever  *)
(* happens to the processes that write them (core/storage/                 *)
(* storage_workflows.py): one execution at most is active, it is replaced  *)
(* only when its heartbeat is stale, its first terminal outcome stands,    *)
(* and nobody is told of a success that the table does not hold.           *)
(***************************************************************************)
CONSTANT Run

VARIABLES
  outcome,  \* [Run -> "unborn", "active" or how the execution ended]
  live,     \* the executions whose heartbeat is fresh
  told      \* [Run -> what the starter was told]

vars == <<outcome, live, told>>

Ended == {"completed", "interrupted", "failed"}

Init ==
  /\ outcome = [r \in Run |-> "unborn"]
  /\ live = {}
  /\ told = [r \in Run |-> "none"]

\* Every active execution but those in `kept' is recovered as failed.
Swept(kept) ==
  [r \in Run |-> IF outcome[r] = "active" /\ r \notin kept THEN "failed" ELSE outcome[r]]

Begin(r) ==
  /\ outcome[r] = "unborn" /\ live = {}
  /\ outcome' = [Swept({}) EXCEPT ![r] = "active"]
  /\ live' = {r}
  /\ UNCHANGED told

Sweep ==
  /\ outcome' = Swept(live)
  /\ UNCHANGED <<live, told>>

Renew(r) ==
  /\ outcome[r] = "active"
  /\ live' = live \cup {r}
  /\ UNCHANGED <<outcome, told>>

Lapse(r) ==
  /\ live' = live \ {r}
  /\ UNCHANGED <<outcome, told>>

End(r, how) ==
  /\ outcome[r] = "active"
  /\ outcome' = [outcome EXCEPT ![r] = how]
  /\ live' = live \ {r}
  /\ UNCHANGED told

Tell(r, what) ==
  /\ told[r] = "none"
  /\ what = "succeeded" => outcome[r] = "completed"
  /\ told' = [told EXCEPT ![r] = what]
  /\ UNCHANGED <<outcome, live>>

Next ==
  \/ Sweep
  \/ \E r \in Run :
       \/ Begin(r) \/ Renew(r) \/ Lapse(r)
       \/ \E how \in Ended : End(r, how)
       \/ \E what \in {"succeeded", "failed"} : Tell(r, what)

Spec == Init /\ [][Next]_vars
=============================================================================
