--------------------------- MODULE WorkflowProofs ---------------------------
(***************************************************************************)
(* Proofs about Workflow for any number of processes, runs and steps, and  *)
(* for every choice of external events.                                    *)
(***************************************************************************)
EXTENDS MCWorkflow, TLAPS

Busy == Pc \ {"idle", "down"}

(***************************************************************************)
(* The inductive invariant.                                                *)
(***************************************************************************)

\* A thread at work is at work on a run of its own, and inside its steps.
Focus ==
  /\ \A p \in Proc : pc[p] \in Busy => cur[p] \in Run
  /\ \A p, q \in Proc : cur[p] = cur[q] /\ cur[p] # NoRun => p = q
  /\ \A p \in Proc : pc[p] \in {"checked", "step"} => step[p] <= StepCount

\* A run has a row exactly from its claim on, and nothing is told before.
Birth ==
  /\ \A p \in Proc : pc[p] = "leased" => outcome[cur[p]] = "unborn"
  /\ \A p \in Proc : pc[p] \in Busy \ {"leased"} => outcome[cur[p]] # "unborn"
  /\ \A p \in Proc : pc[p] \in Busy => told[cur[p]] = "none"
  /\ \A r \in Run : outcome[r] = "unborn" => told[r] = "none" /\ op[r] = "none"

\* The lease is returned before the thread leaves, and a thread that leaves has
\* published how the run ended.
Return ==
  /\ \A p \in Proc : pc[p] \in {"idle", "down", "notify"} => ~mutex[p] /\ advisory # p
  /\ \A p \in Proc : pc[p] \in {"idle", "down", "published", "notify"} =>
       status[p] \notin {"running", "stopping"}

\* A success that is on its way to being published is already in the database.
Durable ==
  /\ \A p \in Proc : pc[p] = "persisted" => outcome[cur[p]] = verdict[p]
  /\ \A p \in Proc : pc[p] \in {"published", "notify"} =>
       status[p] = verdict[p] /\ (verdict[p] = "completed" => outcome[cur[p]] = "completed")
  /\ SuccessIsDurable

\* A step that is begun without the row is counted once: a worker that passed its check
\* has not been late since, and who was late has no row, for ever.
Lateness ==
  /\ OneLateStep
  /\ \A p \in Proc : pc[p] \in Busy \ {"leased"} => owner[cur[p]] = p
  /\ \A r \in Run : late[r] # 0 => r \notin slot /\ outcome[r] # "unborn"
  /\ \A p \in Proc : pc[p] = "checked" /\ cur[p] \notin stopEv => late[cur[p]] = 0

IInv == TypeOK /\ SlotSound /\ Focus /\ Birth /\ Return /\ Durable /\ Lateness

USE DEF Terminal, Pc, Working, Busy

LEMMA NoRunIsNoRun == NoRun \notin Run
  BY DEF Run, NoRun

LEMMA InitIInv == Init => IInv
  BY ProcAssumption, BoundAssumption
  DEF Init, Run, NoRun, IInv, TypeOK, SlotSound, Focus, Birth, Return, Durable, SuccessIsDurable,
      Lateness, OneLateStep

\* Every action keeps the invariant: one step per action.
LEMMA NextIInv == IInv /\ [Next]_vars => IInv'
<1> SUFFICES ASSUME IInv, [Next]_vars PROVE IInv'
  OBVIOUS
<1> USE ProcAssumption, BoundAssumption, NoRunIsNoRun
    DEF IInv, TypeOK, SlotSound, Focus, Birth, Return, Durable, SuccessIsDurable,
      Lateness, OneLateStep
<1>1. ASSUME NEW p \in Proc, AcquireLease(p) PROVE IInv'
  BY <1>1 DEF AcquireLease, CanStart, Unused, db, beat, seen
<1>2. ASSUME NEW p \in Proc, LeaseRefused(p) PROVE IInv'
  BY <1>2 DEF LeaseRefused, CanStart, db, lease, beat, seen
<1>3. ASSUME NEW p \in Proc, ClaimRun(p) PROVE IInv'
  BY SMTT(40), <1>3 DEF ClaimRun, InsertRun, Recovered, lease, beat, seen
<1>4. ASSUME NEW p \in Proc, ClaimRefused(p) PROVE IInv'
  BY <1>4 DEF ClaimRefused, Release, ResetUnstarted, db, beat, seen
<1>5. ASSUME NEW p \in Proc, ClaimForgotten(p) PROVE IInv'
  BY SMTT(40), <1>5 DEF ClaimForgotten, InsertRun, Recovered, Release, ResetUnstarted, beat, seen
<1>6. ASSUME NEW p \in Proc, StartWorker(p) PROVE IInv'
  BY <1>6 DEF StartWorker, db, lease
<1>7. ASSUME NEW p \in Proc, AbortStart(p) PROVE IInv'
  BY <1>7 DEF AbortStart, Conclude, Go, db, lease, seen
<1>8. ASSUME NEW p \in Proc, SyncStop(p) PROVE IInv'
  BY <1>8 DEF SyncStop, Owns, Go, db, lease, beat, seen
<1>9. ASSUME NEW p \in Proc, SkipStep(p) PROVE IInv'
  BY <1>9 DEF SkipStep, Go, db, lease, beat, seen
<1>10. ASSUME NEW p \in Proc, BeginStep(p) PROVE IInv'
  BY <1>10 DEF BeginStep, Owns, Go, db, lease, beat
<1>11. ASSUME NEW p \in Proc, PollStop(p) PROVE IInv'
  BY <1>11 DEF PollStop, Owns, db, lease, local, beat, seen
<1>12. ASSUME NEW p \in Proc, StepDone(p) PROVE IInv'
  BY <1>12 DEF StepDone, Go, db, lease, beat, seen
<1>13. ASSUME NEW p \in Proc, StepRaises(p) PROVE IInv'
  BY <1>13 DEF StepRaises, Conclude, Go, db, lease, seen
<1>14. ASSUME NEW p \in Proc, AllStepsDone(p) PROVE IInv'
  BY <1>14 DEF AllStepsDone, Conclude, Go, db, lease, seen
<1>15. ASSUME NEW p \in Proc, JoinHeartbeat(p) PROVE IInv'
  BY <1>15 DEF JoinHeartbeat, Go, db, lease, beat, seen
<1>16. ASSUME NEW p \in Proc, Persist(p) PROVE IInv'
  BY <1>16 DEF Persist, Finalize, Owns, Go, lease, beat, seen
<1>17. ASSUME NEW p \in Proc, NotPersisted(p) PROVE IInv'
  <2>1. CASE UNCHANGED db
    BY <1>17, <2>1 DEF NotPersisted, Go, db, lease, beat, seen
  <2>2. CASE Finalize(p, cur[p])
    BY <1>17, <2>2 DEF NotPersisted, Finalize, Owns, Go, lease, beat, seen
  <2> QED
    BY <1>17, <2>1, <2>2 DEF NotPersisted
<1>18. ASSUME NEW p \in Proc, PublishOutcome(p) PROVE IInv'
  BY <1>18 DEF PublishOutcome, Go, db, lease, beat, seen
<1>19. ASSUME NEW p \in Proc, CloseRun(p) PROVE IInv'
  BY SMTT(40), <1>19 DEF CloseRun, Release, Go, db, beat
<1>20. ASSUME NEW p \in Proc, Notify(p) PROVE IInv'
  BY <1>20 DEF Notify, Go, db, lease, beat
<1>21. ASSUME NEW p \in Proc, StartAborted(p) PROVE IInv'
  BY <1>21 DEF StartAborted, ResetUnstarted, db, lease, beat, seen
<1>22. ASSUME NEW p \in Proc, StopLocal(p) PROVE IInv'
  BY <1>22 DEF StopLocal, lease, beat, seen
<1>23. ASSUME NEW p \in Proc, StopRemote(p) PROVE IInv'
  BY <1>23 DEF StopRemote, lease, local, beat, seen
<1>24. ASSUME NEW p \in Proc, BeginShutdown(p) PROVE IInv'
  BY <1>24 DEF BeginShutdown, db, lease, beat, seen
<1>25. ASSUME NEW p \in Proc, StartAccepting(p) PROVE IInv'
  BY <1>25 DEF StartAccepting, db, lease, beat, seen
<1>26. ASSUME NEW p \in Proc, LoseConnection(p) PROVE IInv'
  BY <1>26 DEF LoseConnection, db, local, beat, seen
<1>27. ASSUME NEW p \in Proc, Crash(p) PROVE IInv'
  BY <1>27 DEF Crash, Up, Release, db, seen
<1>28. ASSUME NEW p \in Proc, Boot(p) PROVE IInv'
  BY SMTT(40), <1>28 DEF Boot, Recovered, db, lease, beat, seen
<1>29. ASSUME NEW r \in Run, HeartbeatWakes(r) PROVE IInv'
  BY <1>29 DEF HeartbeatWakes, db, lease, local, seen
<1>30. ASSUME NEW r \in Run, HeartbeatExits(r) PROVE IInv'
  BY <1>30 DEF HeartbeatExits, db, lease, local, seen
<1>31. ASSUME NEW r \in Run, Renew(r) PROVE IInv'
  BY <1>31 DEF Renew, lease, local, seen
<1>32. ASSUME NEW r \in Run, NotRenewed(r) PROVE IInv'
  BY <1>32 DEF NotRenewed, db, lease, local, seen
<1>33. ASSUME NEW r \in Run, RenewRaises(r) PROVE IInv'
  BY <1>33 DEF RenewRaises, db, lease, local, seen
<1>34. ASSUME NEW r \in Run, Fence(r) PROVE IInv'
  BY <1>34 DEF Fence, db, lease, local, seen
<1>35. ASSUME NEW r \in Run, Expire(r) PROVE IInv'
  BY <1>35 DEF Expire, lease, local, beat, seen
<1>36. CASE UNCHANGED vars
  BY <1>36 DEF vars, db, lease, local, beat, seen
<1> QED
  BY <1>1, <1>2, <1>3, <1>4, <1>5, <1>6, <1>7, <1>8, <1>9, <1>10, <1>11,
     <1>12, <1>13, <1>14, <1>15, <1>16, <1>17, <1>18, <1>19, <1>20, <1>21,
     <1>22, <1>23, <1>24, <1>25, <1>26, <1>27, <1>28, <1>29, <1>30, <1>31,
     <1>32, <1>33, <1>34, <1>35, <1>36 DEF Next, Start, Worker,
     Heartbeat, HeartbeatThread, HeartbeatCall,
     Request

LEMMA Invariance == Spec => []IInv
  BY InitIInv, NextIInv, PTL DEF Spec

(***************************************************************************)
(* What follows for the code.                                              *)
(***************************************************************************)

\* The tables, locks, managers and threads hold values of their types, however
\* many processes and workflows there are.
THEOREM TypeCorrect == Spec => []TypeOK
  BY Invariance, PTL DEF IInv

\* At most one execution is active, and it is the one with the slot: the
\* takeover in try_start_workflow_execution never leaves two.
THEOREM OneActiveExecution == Spec => []SlotSound
  BY Invariance, PTL DEF IInv

\* No success is shown to the operations centre or told to the scheduler that
\* the database does not hold (_finalize_workflow).
THEOREM SuccessAlwaysDurable == Spec => []SuccessIsDurable
<1>1. IInv => SuccessIsDurable
  BY DEF IInv, Durable
<1> QED
  BY Invariance, <1>1, PTL

\* A manager without a worker holds no lock and does not claim to run: every
\* path out of start() and out of the worker thread cleans up.
THEOREM AlwaysReusable == Spec => []Reusable
<1>1. IInv => Reusable
  BY DEF IInv, Return, Reusable
<1> QED
  BY Invariance, <1>1, PTL

\* A worker whose row was taken over begins at most the one step whose check it had
\* already passed, unless that check itself raised (_sync_persisted_stop).
THEOREM OneStepLate == Spec => []OneLateStep
<1>1. IInv => OneLateStep
  BY DEF IInv, Lateness
<1> QED
  BY Invariance, <1>1, PTL

\* Every step is one the ledger sees, or leaves the ledger alone.
LEMMA LedgerSteps ==
  Next => \/ \E p \in Proc : \/ ClaimRun(p) \/ ClaimForgotten(p) \/ Persist(p)
                             \/ NotPersisted(p) \/ Notify(p) \/ Boot(p)
          \/ \E r \in Run : Renew(r) \/ Expire(r)
          \/ UNCHANGED <<outcome, fresh, told>>
<1>1. ASSUME NEW p \in Proc, AcquireLease(p) \/ LeaseRefused(p) \/ LoseConnection(p) \/ Crash(p)
      PROVE UNCHANGED <<outcome, fresh, told>>
  BY <1>1 DEF AcquireLease, LeaseRefused, LoseConnection, Crash, db, seen
<1>2. ASSUME NEW p \in Proc, ClaimRefused(p) \/ StartWorker(p) \/ AbortStart(p)
      PROVE UNCHANGED <<outcome, fresh, told>>
  BY <1>2 DEF ClaimRefused, StartWorker, AbortStart, db, seen
<1>3. ASSUME NEW p \in Proc, SyncStop(p) \/ SkipStep(p) \/ BeginStep(p) \/ PollStop(p)
      PROVE UNCHANGED <<outcome, fresh, told>>
  BY <1>3 DEF SyncStop, SkipStep, BeginStep, PollStop, db, seen
<1>4. ASSUME NEW p \in Proc, StepDone(p) \/ StepRaises(p) \/ AllStepsDone(p)
      PROVE UNCHANGED <<outcome, fresh, told>>
  BY <1>4 DEF StepDone, StepRaises, AllStepsDone, db, seen
<1>5. ASSUME NEW p \in Proc,
             JoinHeartbeat(p) \/ PublishOutcome(p) \/ CloseRun(p) \/ StartAborted(p)
      PROVE UNCHANGED <<outcome, fresh, told>>
  BY <1>5 DEF JoinHeartbeat, PublishOutcome, CloseRun, StartAborted, db, seen
<1>6. ASSUME NEW p \in Proc,
             StopLocal(p) \/ StopRemote(p) \/ BeginShutdown(p) \/ StartAccepting(p)
      PROVE UNCHANGED <<outcome, fresh, told>>
  BY <1>6 DEF StopLocal, StopRemote, BeginShutdown, StartAccepting, db, seen
<1>7. ASSUME NEW r \in Run,
             HeartbeatWakes(r) \/ HeartbeatExits(r) \/ NotRenewed(r) \/ RenewRaises(r) \/ Fence(r)
      PROVE UNCHANGED <<outcome, fresh, told>>
  BY <1>7 DEF HeartbeatWakes, HeartbeatExits, NotRenewed, RenewRaises, Fence, db, seen
<1> QED
  BY <1>1, <1>2, <1>3, <1>4, <1>5, <1>6, <1>7
  DEF Next, Start, Worker, Heartbeat, HeartbeatThread, HeartbeatCall, Request

\* A terminal outcome is never overwritten: finalize, recovery and takeover
\* touch rows that have the slot, and those are active.
THEOREM FirstOutcomeIsFinal == Spec => TerminalIsFinal
<1> DEFINE Keeps == \A r \in Run : outcome[r] \in Terminal => outcome'[r] = outcome[r]
<1>1. IInv /\ [Next]_vars => [Keeps]_vars
  <2> SUFFICES ASSUME IInv, [Next]_vars PROVE Keeps
    OBVIOUS
  <2> USE DEF IInv, TypeOK, SlotSound, Focus, Birth
  <2>1. ASSUME NEW p \in Proc, ClaimRun(p) PROVE Keeps
    BY <2>1 DEF ClaimRun, InsertRun, Recovered, lease, beat, seen
  <2>2. ASSUME NEW p \in Proc, ClaimForgotten(p) PROVE Keeps
    BY <2>2 DEF ClaimForgotten, InsertRun, Recovered, Release, ResetUnstarted, beat, seen
  <2>3. ASSUME NEW p \in Proc, Persist(p) PROVE Keeps
    BY <2>3 DEF Persist, Finalize, Owns, Go, lease, beat, seen
  <2>4. ASSUME NEW p \in Proc, NotPersisted(p) PROVE Keeps
    BY <2>4 DEF NotPersisted, Finalize, Owns, Go, db, lease, beat, seen
  <2>5. ASSUME NEW p \in Proc, Boot(p) PROVE Keeps
    BY <2>5 DEF Boot, Recovered, db, lease, beat, seen
  <2>6. ASSUME NEW p \in Proc, Notify(p) PROVE Keeps
    BY <2>6 DEF Notify, db
  <2>7. ASSUME NEW r \in Run, Renew(r) \/ Expire(r) PROVE Keeps
    BY <2>7 DEF Renew, Expire
  <2>8. CASE UNCHANGED outcome
    BY <2>8
  <2> QED
    BY <2>1, <2>2, <2>3, <2>4, <2>5, <2>6, <2>7, <2>8, LedgerSteps DEF vars, db
<1> QED
  BY Invariance, <1>1, PTL DEF Spec, TerminalIsFinal

\* The tables keep the promise of WorkflowLedger.
THEOREM LedgerKept == Spec => KeepsLedger
<1>1. Init => Ledger!Init
  BY DEF Init, Ledger!Init
<1>2. IInv /\ [Next]_vars => [Ledger!Next]_(Ledger!vars)
  <2> SUFFICES ASSUME IInv, [Next]_vars PROVE [Ledger!Next]_(Ledger!vars)
    OBVIOUS
  <2> USE NoRunIsNoRun DEF IInv, TypeOK, SlotSound, Focus, Birth, Durable
  <2>1. ASSUME NEW p \in Proc, ClaimRun(p) \/ ClaimForgotten(p)
        PROVE Ledger!Begin(cur[p]) /\ cur[p] \in Run
    <3>1. cur[p] \in Run /\ outcome[cur[p]] = "unborn"
      BY <2>1 DEF ClaimRun, ClaimForgotten
    <3>2. InsertRun(p, cur[p]) /\ UNCHANGED told
      BY <2>1 DEF ClaimRun, ClaimForgotten, seen
    <3>3. fresh = {} /\ fresh' = {cur[p]}
      BY <3>2 DEF InsertRun
    <3>4. Recovered(slot) = Ledger!Swept({})
      BY DEF Recovered, Ledger!Swept
    <3> QED
      BY <3>1, <3>2, <3>3, <3>4 DEF InsertRun, Ledger!Begin
  <2>2. ASSUME NEW p \in Proc, Persist(p) \/ NotPersisted(p)
        PROVE \/ cur[p] \in Run /\ verdict[p] \in Ledger!Ended /\ Ledger!End(cur[p], verdict[p])
              \/ UNCHANGED <<outcome, fresh, told>>
    BY <2>2 DEF Persist, NotPersisted, Finalize, Owns, Go, db, seen, Ledger!End, Ledger!Ended
  <2>3. ASSUME NEW p \in Proc, Notify(p)
        PROVE \E what \in {"succeeded", "failed"} : Ledger!Tell(cur[p], what) /\ cur[p] \in Run
    BY ZenonT(40), <2>3 DEF Notify, Go, db, Ledger!Tell
  <2>4. ASSUME NEW r \in Run, Renew(r)
        PROVE Ledger!Renew(r)
    BY <2>4 DEF Renew, seen, Ledger!Renew
  <2>5. ASSUME NEW r \in Run, Expire(r)
        PROVE Ledger!Lapse(r)
    BY <2>5 DEF Expire, seen, Ledger!Lapse
  <2>6. ASSUME NEW p \in Proc, Boot(p)
        PROVE Ledger!Sweep \/ UNCHANGED <<outcome, fresh, told>>
    BY <2>6 DEF Boot, Recovered, db, seen, Ledger!Sweep, Ledger!Swept
  <2>7. CASE UNCHANGED <<outcome, fresh, told>>
    BY <2>7 DEF Ledger!vars
  <2>8. UNCHANGED vars => UNCHANGED <<outcome, fresh, told>>
    BY DEF vars, db, seen
  <2> QED
    BY <2>1, <2>2, <2>3, <2>4, <2>5, <2>6, <2>7, <2>8, LedgerSteps DEF Ledger!Next, Ledger!vars
<1> QED
  BY Invariance, <1>1, <1>2, PTL DEF Spec, KeepsLedger, Ledger!Spec

(***************************************************************************)
(* Without late heartbeats and without errors of the database, a worker    *)
(* keeps its row: an active row stays fresh as long as its owner renews it.*)
(***************************************************************************)
OnTime == {"lateHeartbeat", "dbError"} \cap Events = {}

\* Who is at work has the row, fresh, and a heartbeat thread that goes on renewing it.
Renewing ==
  /\ \A p \in Proc : pc[p] \in Working \cup {"claimed"} => cur[p] \in slot \cap fresh
  /\ \A p \in Proc : pc[p] \in Working => hb[cur[p]] \in {"waiting", "calling"}
  /\ \A p \in Proc : pc[p] \in Working \cup {"claimed"} => cur[p] \notin hbStop
  /\ \A r \in Run : outcome[r] = "unborn" => r \notin hbStop
  /\ \A r \in Run : misses[r] = 0

LEMMA InitRenewing == Init => Renewing
  BY DEF Init, Renewing

LEMMA NextRenewing == OnTime /\ IInv /\ IInv' /\ Renewing /\ [Next]_vars => Renewing'
<1> SUFFICES ASSUME OnTime, IInv, IInv', Renewing, [Next]_vars PROVE Renewing'
  OBVIOUS
<1> USE ProcAssumption, NoRunIsNoRun
    DEF OnTime, IInv, TypeOK, SlotSound, Focus, Birth, Lateness, Renewing, DbError
<1>1. ASSUME NEW p \in Proc, AcquireLease(p) PROVE Renewing'
  BY <1>1 DEF AcquireLease, CanStart, Unused, db, beat, seen
<1>2. ASSUME NEW p \in Proc, LeaseRefused(p) PROVE Renewing'
  BY <1>2 DEF LeaseRefused, CanStart, db, lease, beat, seen
<1>3. ASSUME NEW p \in Proc, ClaimRun(p) PROVE Renewing'
  BY <1>3 DEF ClaimRun, InsertRun, Recovered, lease, beat, seen
<1>4. ASSUME NEW p \in Proc, ClaimRefused(p) PROVE Renewing'
  BY <1>4 DEF ClaimRefused, Release, ResetUnstarted, db, beat, seen
<1>5. ASSUME NEW p \in Proc, ClaimForgotten(p) PROVE Renewing'
  BY <1>5 DEF ClaimForgotten, InsertRun, Recovered, Release, ResetUnstarted, beat, seen
<1>6. ASSUME NEW p \in Proc, StartWorker(p) PROVE Renewing'
  BY <1>6 DEF StartWorker, db, lease
<1>7. ASSUME NEW p \in Proc, AbortStart(p) PROVE Renewing'
  BY <1>7 DEF AbortStart, Conclude, Go, db, lease, seen
<1>8. ASSUME NEW p \in Proc, SyncStop(p) PROVE Renewing'
  BY <1>8 DEF SyncStop, Owns, Go, db, lease, beat, seen
<1>9. ASSUME NEW p \in Proc, SkipStep(p) PROVE Renewing'
  BY <1>9 DEF SkipStep, Go, db, lease, beat, seen
<1>10. ASSUME NEW p \in Proc, BeginStep(p) PROVE Renewing'
  BY <1>10 DEF BeginStep, Owns, Go, db, lease, beat
<1>11. ASSUME NEW p \in Proc, PollStop(p) PROVE Renewing'
  BY <1>11 DEF PollStop, Owns, db, lease, local, beat, seen
<1>12. ASSUME NEW p \in Proc, StepDone(p) PROVE Renewing'
  BY <1>12 DEF StepDone, Go, db, lease, beat, seen
<1>13. ASSUME NEW p \in Proc, StepRaises(p) PROVE Renewing'
  BY <1>13 DEF StepRaises, Conclude, Go, db, lease, seen
<1>14. ASSUME NEW p \in Proc, AllStepsDone(p) PROVE Renewing'
  BY <1>14 DEF AllStepsDone, Conclude, Go, db, lease, seen
<1>15. ASSUME NEW p \in Proc, JoinHeartbeat(p) PROVE Renewing'
  BY <1>15 DEF JoinHeartbeat, Go, db, lease, beat, seen
<1>16. ASSUME NEW p \in Proc, Persist(p) PROVE Renewing'
  BY <1>16 DEF Persist, Finalize, Owns, Go, lease, beat, seen
<1>17. ASSUME NEW p \in Proc, NotPersisted(p) PROVE Renewing'
  BY <1>17 DEF NotPersisted, Finalize, Owns, Go, db, lease, beat, seen
<1>18. ASSUME NEW p \in Proc, PublishOutcome(p) PROVE Renewing'
  BY <1>18 DEF PublishOutcome, Go, db, lease, beat, seen
<1>19. ASSUME NEW p \in Proc, CloseRun(p) PROVE Renewing'
  BY <1>19 DEF CloseRun, Release, Go, db, beat
<1>20. ASSUME NEW p \in Proc, Notify(p) PROVE Renewing'
  BY <1>20 DEF Notify, Go, db, lease, beat
<1>21. ASSUME NEW p \in Proc, StartAborted(p) PROVE Renewing'
  BY <1>21 DEF StartAborted, ResetUnstarted, db, lease, beat, seen
<1>22. ASSUME NEW p \in Proc, StopLocal(p) PROVE Renewing'
  BY <1>22 DEF StopLocal, lease, beat, seen
<1>23. ASSUME NEW p \in Proc, StopRemote(p) PROVE Renewing'
  BY <1>23 DEF StopRemote, lease, local, beat, seen
<1>24. ASSUME NEW p \in Proc, BeginShutdown(p) PROVE Renewing'
  BY <1>24 DEF BeginShutdown, db, lease, beat, seen
<1>25. ASSUME NEW p \in Proc, StartAccepting(p) PROVE Renewing'
  BY <1>25 DEF StartAccepting, db, lease, beat, seen
<1>26. ASSUME NEW p \in Proc, LoseConnection(p) PROVE Renewing'
  BY <1>26 DEF LoseConnection, db, local, beat, seen
<1>27. ASSUME NEW p \in Proc, Crash(p) PROVE Renewing'
  BY SMTT(40), <1>27 DEF Crash, Up, Release, db, seen
<1>28. ASSUME NEW p \in Proc, Boot(p) PROVE Renewing'
  BY <1>28 DEF Boot, Recovered, db, lease, beat, seen
<1>29. ASSUME NEW r \in Run, HeartbeatWakes(r) PROVE Renewing'
  BY <1>29 DEF HeartbeatWakes, db, lease, local, seen
<1>30. ASSUME NEW r \in Run, HeartbeatExits(r) PROVE Renewing'
  BY <1>30 DEF HeartbeatExits, db, lease, local, seen
<1>31. ASSUME NEW r \in Run, Renew(r) PROVE Renewing'
  BY <1>31 DEF Renew, lease, local, seen
<1>32. ASSUME NEW r \in Run, NotRenewed(r) PROVE Renewing'
  BY <1>32 DEF NotRenewed, db, lease, local, seen
<1>33. ASSUME NEW r \in Run, RenewRaises(r) PROVE Renewing'
  BY <1>33 DEF RenewRaises, db, lease, local, seen
<1>34. ASSUME NEW r \in Run, Fence(r) PROVE Renewing'
  BY <1>34 DEF Fence, db, lease, local, seen
<1>35. ASSUME NEW r \in Run, Expire(r) PROVE Renewing'
  BY <1>35 DEF Expire, lease, local, beat, seen, Beating
<1>36. CASE UNCHANGED vars
  BY <1>36 DEF vars, db, lease, local, beat, seen
<1> QED
  BY <1>1, <1>2, <1>3, <1>4, <1>5, <1>6, <1>7, <1>8, <1>9, <1>10, <1>11, <1>12, <1>13, <1>14,
     <1>15, <1>16, <1>17, <1>18, <1>19, <1>20, <1>21, <1>22, <1>23, <1>24, <1>25, <1>26, <1>27,
     <1>28, <1>29, <1>30, <1>31, <1>32, <1>33, <1>34, <1>35, <1>36
     DEF Next, Start, Worker,
     Heartbeat, HeartbeatThread, HeartbeatCall,
     Request

\* Whatever else happens (crashes, lost locks, slow calls, stops), two processes that
\* renew in time are never inside a step at once: a lost advisory lock does not let a
\* second process begin while the first one renews its row.
THEOREM RenewedWorkersNeverOverlap ==
  ASSUME OnTime PROVE Spec => []NoOverlap
<1>1. IInv /\ Renewing => NoOverlap
  BY NoRunIsNoRun DEF IInv, SlotSound, Focus, Renewing, NoOverlap
<1>2. Init => IInv /\ Renewing
  BY InitIInv, InitRenewing
<1>3. IInv /\ Renewing /\ [Next]_vars => (IInv /\ Renewing)'
  BY NextIInv, NextRenewing
<1> QED
  BY <1>1, <1>2, <1>3, PTL DEF Spec

\* The same with the faults of the run: where renewals are in time, whatever dies or is stopped.
THEOREM DeathsNeverOverlap ==
  ASSUME OnTime PROVE FlowSpec => []RenewedNeverOverlap
<1> DEFINE InFocus == focus = "deaths" => IInv /\ Renewing
<1>1. FlowInit => InFocus
  BY InitIInv, InitRenewing DEF FlowInit
<1>2. InFocus /\ [FlowNext]_flowVars => InFocus'
  <2> SUFFICES ASSUME InFocus, [FlowNext]_flowVars, focus' = "deaths"
               PROVE  (IInv /\ Renewing)'
    OBVIOUS
  <2>1. focus = "deaths" /\ [Next]_vars
    BY DEF FlowNext, flowVars
  <2>2. IInv /\ Renewing
    BY <2>1
  <2> HIDE DEF InFocus
  <2> QED
    BY <2>1, <2>2, NextIInv, NextRenewing
<1>3. InFocus => RenewedNeverOverlap
  BY NoRunIsNoRun DEF RenewedNeverOverlap, IInv, SlotSound, Focus, Renewing, NoOverlap
<1> QED
  BY <1>1, <1>2, <1>3, PTL DEF FlowSpec
(***************************************************************************)
(* A stop that a boundary check will read cannot end as a success.         *)
(***************************************************************************)

\* A request is made of the active row, and leaves with it.
Requests == stopReq \subseteq slot

\* Run r is over without success, or nobody but a worker that meets its stop is
\* at it: the request is in the row it will read, or its event is set, or it
\* has decided otherwise.
RuledOut(r) ==
  /\ outcome[r] \in {"active", "interrupted", "failed"}
  /\ outcome[r] = "active" => \A p \in Proc : cur[p] = r =>
       \/ r \in stopReq /\ pc[p] = "boundary" /\ step[p] <= StepCount
       \/ r \in stopEv /\ pc[p] \in Working
       \/ pc[p] \in {"joining", "persisting"} /\ verdict[p] # "completed"

LEMMA NextRequests == IInv /\ Requests /\ [Next]_vars => Requests'
<1> SUFFICES ASSUME IInv, Requests, [Next]_vars PROVE Requests'
  OBVIOUS
<1> USE DEF IInv, TypeOK, SlotSound, Requests
<1>1. ASSUME NEW p \in Proc, ClaimRun(p) \/ ClaimForgotten(p) PROVE Requests'
  BY <1>1 DEF ClaimRun, ClaimForgotten, InsertRun
<1>2. ASSUME NEW p \in Proc, Persist(p) \/ NotPersisted(p) PROVE Requests'
  BY <1>2 DEF Persist, NotPersisted, Finalize, db
<1>3. ASSUME NEW p \in Proc, StopLocal(p) \/ StopRemote(p) PROVE Requests'
  BY <1>3 DEF StopLocal, StopRemote
<1>4. ASSUME NEW p \in Proc, Boot(p) PROVE Requests'
  BY <1>4 DEF Boot, db
<1>5. CASE UNCHANGED <<slot, stopReq>>
  BY <1>5
<1> QED
  BY <1>1, <1>2, <1>3, <1>4, <1>5
  DEF Next, Start, Worker, Heartbeat, HeartbeatThread, HeartbeatCall, Request, vars, db, local,
      AcquireLease, LeaseRefused, ClaimRefused, StartWorker, AbortStart, Conclude,
      SyncStop, SkipStep, BeginStep, PollStop, StepDone, StepRaises, AllStepsDone,
      JoinHeartbeat, PublishOutcome, CloseRun, Notify, StartAborted, BeginShutdown,
      StartAccepting, LoseConnection, Crash, HeartbeatWakes, HeartbeatExits, Renew,
      NotRenewed, RenewRaises, Fence, Expire

\* Every step keeps it, unless reading the row raises, which is logged and ignored.
LEMMA NextRuledOut ==
  ASSUME ~DbError, IInv, Requests, [Next]_vars, NEW r \in Run, RuledOut(r)
  PROVE  RuledOut(r)'
<1> USE ProcAssumption, BoundAssumption, NoRunIsNoRun
    DEF IInv, TypeOK, SlotSound, Focus, Birth, Lateness, Requests, RuledOut
<1>1. ASSUME NEW p \in Proc, AcquireLease(p) PROVE RuledOut(r)'
  BY <1>1 DEF AcquireLease, CanStart, Unused, db, beat, seen
<1>2. ASSUME NEW p \in Proc, LeaseRefused(p) PROVE RuledOut(r)'
  BY <1>2 DEF LeaseRefused, CanStart, db, lease, beat, seen
<1>3. ASSUME NEW p \in Proc, ClaimRun(p) PROVE RuledOut(r)'
  BY <1>3 DEF ClaimRun, InsertRun, Recovered, lease, beat, seen
<1>4. ASSUME NEW p \in Proc, ClaimRefused(p) PROVE RuledOut(r)'
  BY <1>4 DEF ClaimRefused, Release, ResetUnstarted, db, beat, seen
<1>5. ASSUME NEW p \in Proc, ClaimForgotten(p) PROVE RuledOut(r)'
  BY <1>5 DEF ClaimForgotten, InsertRun, Recovered, Release, ResetUnstarted, beat, seen
<1>6. ASSUME NEW p \in Proc, StartWorker(p) PROVE RuledOut(r)'
  BY <1>6 DEF StartWorker, db, lease
<1>7. ASSUME NEW p \in Proc, AbortStart(p) PROVE RuledOut(r)'
  BY <1>7 DEF AbortStart, Conclude, Go, db, lease, seen
<1>8. ASSUME NEW p \in Proc, SyncStop(p) PROVE RuledOut(r)'
  BY <1>8 DEF SyncStop, Owns, Go, db, lease, beat, seen
<1>9. ASSUME NEW p \in Proc, SkipStep(p) PROVE RuledOut(r)'
  BY <1>9 DEF SkipStep, Go, db, lease, beat, seen
<1>10. ASSUME NEW p \in Proc, BeginStep(p) PROVE RuledOut(r)'
  BY <1>10 DEF BeginStep, Owns, Go, db, lease, beat
<1>11. ASSUME NEW p \in Proc, PollStop(p) PROVE RuledOut(r)'
  BY <1>11 DEF PollStop, Owns, db, lease, local, beat, seen
<1>12. ASSUME NEW p \in Proc, StepDone(p) PROVE RuledOut(r)'
  BY <1>12 DEF StepDone, Go, db, lease, beat, seen
<1>13. ASSUME NEW p \in Proc, StepRaises(p) PROVE RuledOut(r)'
  BY <1>13 DEF StepRaises, Conclude, Go, db, lease, seen
<1>14. ASSUME NEW p \in Proc, AllStepsDone(p) PROVE RuledOut(r)'
  BY <1>14 DEF AllStepsDone, Conclude, Go, db, lease, seen
<1>15. ASSUME NEW p \in Proc, JoinHeartbeat(p) PROVE RuledOut(r)'
  BY <1>15 DEF JoinHeartbeat, Go, db, lease, beat, seen
<1>16. ASSUME NEW p \in Proc, Persist(p) PROVE RuledOut(r)'
  BY <1>16 DEF Persist, Finalize, Owns, Go, lease, beat, seen
<1>17. ASSUME NEW p \in Proc, NotPersisted(p) PROVE RuledOut(r)'
  BY <1>17 DEF NotPersisted, Finalize, Owns, Go, db, lease, beat, seen
<1>18. ASSUME NEW p \in Proc, PublishOutcome(p) PROVE RuledOut(r)'
  BY <1>18 DEF PublishOutcome, Go, db, lease, beat, seen
<1>19. ASSUME NEW p \in Proc, CloseRun(p) PROVE RuledOut(r)'
  BY <1>19 DEF CloseRun, Release, Go, db, beat
<1>20. ASSUME NEW p \in Proc, Notify(p) PROVE RuledOut(r)'
  BY <1>20 DEF Notify, Go, db, lease, beat
<1>21. ASSUME NEW p \in Proc, StartAborted(p) PROVE RuledOut(r)'
  BY <1>21 DEF StartAborted, ResetUnstarted, db, lease, beat, seen
<1>22. ASSUME NEW p \in Proc, StopLocal(p) PROVE RuledOut(r)'
  BY <1>22 DEF StopLocal, lease, beat, seen
<1>23. ASSUME NEW p \in Proc, StopRemote(p) PROVE RuledOut(r)'
  BY <1>23 DEF StopRemote, lease, local, beat, seen
<1>24. ASSUME NEW p \in Proc, BeginShutdown(p) PROVE RuledOut(r)'
  BY <1>24 DEF BeginShutdown, db, lease, beat, seen
<1>25. ASSUME NEW p \in Proc, StartAccepting(p) PROVE RuledOut(r)'
  BY <1>25 DEF StartAccepting, db, lease, beat, seen
<1>26. ASSUME NEW p \in Proc, LoseConnection(p) PROVE RuledOut(r)'
  BY <1>26 DEF LoseConnection, db, local, beat, seen
<1>27. ASSUME NEW p \in Proc, Crash(p) PROVE RuledOut(r)'
  BY <1>27 DEF Crash, Up, Release, db, seen
<1>28. ASSUME NEW p \in Proc, Boot(p) PROVE RuledOut(r)'
  BY <1>28 DEF Boot, Recovered, db, lease, beat, seen
<1>29. ASSUME NEW s \in Run, HeartbeatWakes(s) PROVE RuledOut(r)'
  BY <1>29 DEF HeartbeatWakes, db, lease, local, seen
<1>30. ASSUME NEW s \in Run, HeartbeatExits(s) PROVE RuledOut(r)'
  BY <1>30 DEF HeartbeatExits, db, lease, local, seen
<1>31. ASSUME NEW s \in Run, Renew(s) PROVE RuledOut(r)'
  BY <1>31 DEF Renew, lease, local, seen
<1>32. ASSUME NEW s \in Run, NotRenewed(s) PROVE RuledOut(r)'
  BY <1>32 DEF NotRenewed, db, lease, local, seen
<1>33. ASSUME NEW s \in Run, RenewRaises(s) PROVE RuledOut(r)'
  BY <1>33 DEF RenewRaises, db, lease, local, seen
<1>34. ASSUME NEW s \in Run, Fence(s) PROVE RuledOut(r)'
  BY <1>34 DEF Fence, db, lease, local, seen
<1>35. ASSUME NEW s \in Run, Expire(s) PROVE RuledOut(r)'
  BY <1>35 DEF Expire, lease, local, beat, seen, Beating
<1>36. CASE UNCHANGED vars
  BY <1>36 DEF vars, db, lease, local, beat, seen
<1> QED
  BY <1>1, <1>2, <1>3, <1>4, <1>5, <1>6, <1>7, <1>8, <1>9, <1>10, <1>11, <1>12, <1>13, <1>14,
     <1>15, <1>16, <1>17, <1>18, <1>19, <1>20, <1>21, <1>22, <1>23, <1>24, <1>25, <1>26, <1>27,
     <1>28, <1>29, <1>30, <1>31, <1>32, <1>33, <1>34, <1>35, <1>36
     DEF Next, Start, Worker,
     Heartbeat, HeartbeatThread, HeartbeatCall,
     Request


\* _sync_persisted_stop: a request that was persisted before a boundary check reads
\* the row is honoured by that run, whatever happens to its process, its heartbeat
\* or its row, if no database call raises.
THEOREM StopAlwaysHonoured ==
  ASSUME ~DbError PROVE Spec => StopHonoured
<1> DEFINE Meets(p, r) == /\ cur[p] = r /\ r \in stopReq
                          /\ pc[p] = "boundary" /\ step[p] <= StepCount
<1>1. ASSUME NEW p \in Proc, NEW r \in Run
      PROVE  Spec => [](Meets(p, r) => [](outcome[r] # "completed"))
  <2>1. IInv /\ Requests /\ Meets(p, r) => RuledOut(r)
    BY NoRunIsNoRun DEF IInv, SlotSound, Focus, Requests, RuledOut
  <2>2. IInv /\ Requests /\ RuledOut(r) /\ [Next]_vars => RuledOut(r)'
    BY NextRuledOut
  <2>3. RuledOut(r) => outcome[r] # "completed"
    BY DEF RuledOut
  <2>4. Init => Requests
    BY DEF Init, Requests
  <2> HIDE DEF Meets
  <2> QED
    BY <2>1, <2>2, <2>3, <2>4, Invariance, NextRequests, PTL DEF Spec
<1> QED
  BY <1>1 DEF StopHonoured

(***************************************************************************)
(* Where every call of a heartbeat thread returns within the join of three *)
(* seconds, no heartbeat thread outlives its workflow.                     *)
(***************************************************************************)
SlowCall == "slowCall" \in Events

\* A heartbeat thread that has not exited belongs to the run its process is at, and that
\* worker is still to join it.
Leashed ==
  /\ \A r \in Run : hb[r] \in {"waiting", "calling", "fencing"} =>
       cur[owner[r]] = r /\ pc[owner[r]] \in Working \cup {"joining"}
  /\ \A r \in Run : outcome[r] = "unborn" => hb[r] = "none"
  /\ \A p \in Proc : pc[p] = "claimed" => hb[cur[p]] = "none"

LEMMA NextLeashed == ~SlowCall /\ IInv /\ Leashed /\ [Next]_vars => Leashed'
<1> SUFFICES ASSUME ~SlowCall, IInv, Leashed, [Next]_vars PROVE Leashed'
  OBVIOUS
<1> USE ProcAssumption, NoRunIsNoRun
    DEF SlowCall, IInv, TypeOK, SlotSound, Focus, Birth, Lateness, Leashed
<1>1. ASSUME NEW p \in Proc, AcquireLease(p) PROVE Leashed'
  BY <1>1 DEF AcquireLease, CanStart, Unused, db, beat, seen
<1>2. ASSUME NEW p \in Proc, LeaseRefused(p) PROVE Leashed'
  BY <1>2 DEF LeaseRefused, CanStart, db, lease, beat, seen
<1>3. ASSUME NEW p \in Proc, ClaimRun(p) PROVE Leashed'
  BY <1>3 DEF ClaimRun, InsertRun, Recovered, lease, beat, seen
<1>4. ASSUME NEW p \in Proc, ClaimRefused(p) PROVE Leashed'
  BY <1>4 DEF ClaimRefused, Release, ResetUnstarted, db, beat, seen
<1>5. ASSUME NEW p \in Proc, ClaimForgotten(p) PROVE Leashed'
  BY <1>5 DEF ClaimForgotten, InsertRun, Recovered, Release, ResetUnstarted, beat, seen
<1>6. ASSUME NEW p \in Proc, StartWorker(p) PROVE Leashed'
  BY <1>6 DEF StartWorker, db, lease
<1>7. ASSUME NEW p \in Proc, AbortStart(p) PROVE Leashed'
  BY <1>7 DEF AbortStart, Conclude, Go, db, lease, seen
<1>8. ASSUME NEW p \in Proc, SyncStop(p) PROVE Leashed'
  BY <1>8 DEF SyncStop, Owns, Go, db, lease, beat, seen
<1>9. ASSUME NEW p \in Proc, SkipStep(p) PROVE Leashed'
  BY <1>9 DEF SkipStep, Go, db, lease, beat, seen
<1>10. ASSUME NEW p \in Proc, BeginStep(p) PROVE Leashed'
  BY <1>10 DEF BeginStep, Owns, Go, db, lease, beat
<1>11. ASSUME NEW p \in Proc, PollStop(p) PROVE Leashed'
  BY <1>11 DEF PollStop, Owns, db, lease, local, beat, seen
<1>12. ASSUME NEW p \in Proc, StepDone(p) PROVE Leashed'
  BY <1>12 DEF StepDone, Go, db, lease, beat, seen
<1>13. ASSUME NEW p \in Proc, StepRaises(p) PROVE Leashed'
  BY <1>13 DEF StepRaises, Conclude, Go, db, lease, seen
<1>14. ASSUME NEW p \in Proc, AllStepsDone(p) PROVE Leashed'
  BY <1>14 DEF AllStepsDone, Conclude, Go, db, lease, seen
<1>15. ASSUME NEW p \in Proc, JoinHeartbeat(p) PROVE Leashed'
  BY <1>15 DEF JoinHeartbeat, Go, db, lease, beat, seen
<1>16. ASSUME NEW p \in Proc, Persist(p) PROVE Leashed'
  BY <1>16 DEF Persist, Finalize, Owns, Go, lease, beat, seen
<1>17. ASSUME NEW p \in Proc, NotPersisted(p) PROVE Leashed'
  BY <1>17 DEF NotPersisted, Finalize, Owns, Go, db, lease, beat, seen
<1>18. ASSUME NEW p \in Proc, PublishOutcome(p) PROVE Leashed'
  BY <1>18 DEF PublishOutcome, Go, db, lease, beat, seen
<1>19. ASSUME NEW p \in Proc, CloseRun(p) PROVE Leashed'
  BY <1>19 DEF CloseRun, Release, Go, db, beat
<1>20. ASSUME NEW p \in Proc, Notify(p) PROVE Leashed'
  BY <1>20 DEF Notify, Go, db, lease, beat
<1>21. ASSUME NEW p \in Proc, StartAborted(p) PROVE Leashed'
  BY <1>21 DEF StartAborted, ResetUnstarted, db, lease, beat, seen
<1>22. ASSUME NEW p \in Proc, StopLocal(p) PROVE Leashed'
  BY <1>22 DEF StopLocal, lease, beat, seen
<1>23. ASSUME NEW p \in Proc, StopRemote(p) PROVE Leashed'
  BY <1>23 DEF StopRemote, lease, local, beat, seen
<1>24. ASSUME NEW p \in Proc, BeginShutdown(p) PROVE Leashed'
  BY <1>24 DEF BeginShutdown, db, lease, beat, seen
<1>25. ASSUME NEW p \in Proc, StartAccepting(p) PROVE Leashed'
  BY <1>25 DEF StartAccepting, db, lease, beat, seen
<1>26. ASSUME NEW p \in Proc, LoseConnection(p) PROVE Leashed'
  BY <1>26 DEF LoseConnection, db, local, beat, seen
<1>27. ASSUME NEW p \in Proc, Crash(p) PROVE Leashed'
  BY SMTT(40), <1>27 DEF Crash, Up, Release, db, seen
<1>28. ASSUME NEW p \in Proc, Boot(p) PROVE Leashed'
  BY <1>28 DEF Boot, Recovered, db, lease, beat, seen
<1>29. ASSUME NEW r \in Run, HeartbeatWakes(r) PROVE Leashed'
  BY <1>29 DEF HeartbeatWakes, db, lease, local, seen
<1>30. ASSUME NEW r \in Run, HeartbeatExits(r) PROVE Leashed'
  BY <1>30 DEF HeartbeatExits, db, lease, local, seen
<1>31. ASSUME NEW r \in Run, Renew(r) PROVE Leashed'
  BY <1>31 DEF Renew, lease, local, seen
<1>32. ASSUME NEW r \in Run, NotRenewed(r) PROVE Leashed'
  BY <1>32 DEF NotRenewed, db, lease, local, seen
<1>33. ASSUME NEW r \in Run, RenewRaises(r) PROVE Leashed'
  BY <1>33 DEF RenewRaises, db, lease, local, seen
<1>34. ASSUME NEW r \in Run, Fence(r) PROVE Leashed'
  BY <1>34 DEF Fence, db, lease, local, seen
<1>35. ASSUME NEW r \in Run, Expire(r) PROVE Leashed'
  BY <1>35 DEF Expire, lease, local, beat, seen, Beating
<1>36. CASE UNCHANGED vars
  BY <1>36 DEF vars, db, lease, local, beat, seen
<1> QED
  BY <1>1, <1>2, <1>3, <1>4, <1>5, <1>6, <1>7, <1>8, <1>9, <1>10, <1>11, <1>12, <1>13, <1>14,
     <1>15, <1>16, <1>17, <1>18, <1>19, <1>20, <1>21, <1>22, <1>23, <1>24, <1>25, <1>26, <1>27,
     <1>28, <1>29, <1>30, <1>31, <1>32, <1>33, <1>34, <1>35, <1>36
     DEF Next, Start, Worker,
     Heartbeat, HeartbeatThread, HeartbeatCall,
     Request

\* A heartbeat thread fences no workflow but its own, although Fence reads the present stop
\* event of the manager: the join of _stop_workflow_heartbeat keeps the manager from going
\* on while the thread runs.  A call that outlasts the join is the one way around it.
THEOREM FencesOwnRunInTime ==
  ASSUME ~SlowCall PROVE Spec => HeartbeatFencesOwnRun
<1> DEFINE Own == \A r, s \in Run :
      hb[r] = "fencing" /\ hb'[r] = "exited" /\ s \in stopEv' \ stopEv => r = s
<1>1. Init => Leashed
  BY DEF Init, Leashed
<1>2. IInv /\ Leashed /\ [Next]_vars => Leashed'
  BY NextLeashed
<1>3. IInv /\ Leashed /\ [Next]_vars => [Own]_vars
  <2> SUFFICES ASSUME IInv, Leashed, [Next]_vars, NEW r \in Run, NEW s \in Run,
                      hb[r] = "fencing", hb'[r] = "exited", s \in stopEv' \ stopEv
               PROVE  r = s
    OBVIOUS
  <2> USE DEF IInv, TypeOK, SlotSound, Focus, Birth, Lateness, Leashed
  <2>1. ASSUME NEW t \in Run, Fence(t) PROVE r = s
    BY <2>1 DEF Fence
  <2>2. hb' = hb \/ stopEv' \subseteq stopEv \/ \E t \in Run : Fence(t)
    <3>1. ASSUME NEW p \in Proc, Crash(p) PROVE stopEv' \subseteq stopEv
      BY <3>1 DEF Crash
    <3>2. ASSUME NEW p \in Proc, StartWorker(p) \/ AbortStart(p) PROVE stopEv' = stopEv
      BY <3>2 DEF StartWorker, AbortStart
    <3>3. ASSUME NEW t \in Run, Heartbeat(t) PROVE stopEv' = stopEv \/ Fence(t)
      BY <3>3 DEF Heartbeat, HeartbeatThread, HeartbeatCall, HeartbeatWakes, HeartbeatExits, Renew, NotRenewed, RenewRaises
    <3> QED
      BY <3>1, <3>2, <3>3
      DEF Next, Start, Worker, Request, vars, beat,
          AcquireLease, LeaseRefused, ClaimRun, ClaimRefused, ClaimForgotten, Conclude,
          SyncStop, SkipStep, BeginStep, PollStop, StepDone, StepRaises, AllStepsDone,
          JoinHeartbeat, Persist, NotPersisted, PublishOutcome, CloseRun, Notify, StartAborted,
          StopLocal, StopRemote, BeginShutdown, StartAccepting, LoseConnection, Boot, Expire
  <2> QED
    BY <2>1, <2>2
<1> QED
  BY <1>1, <1>2, <1>3, Invariance, PTL DEF Spec, HeartbeatFencesOwnRun
=============================================================================
