------------------------------ MODULE Workflow ------------------------------
(***************************************************************************)
(* The singleton update workflow of OctoHubs: core/tasks.py                *)
(* (WorkflowManager) over core/storage/storage_workflows.py.               *)
(*                                                                         *)
(* Several application processes share one PostgreSQL database.  Each has  *)
(* a WorkflowManager that runs at most one workflow in a worker thread,    *)
(* with a heartbeat thread beside it.  Ownership has three layers:         *)
(*   - a process mutex (_workflow_process_lease),                          *)
(*   - a PostgreSQL advisory lock that lives as long as its connection,    *)
(*   - the execution row with active_slot = 1, whose heartbeat_at makes it *)
(*     fresh (at most 15 seconds old) or stale.                            *)
(* Any layer can be lost on its own.  A stale row is taken over by the     *)
(* next start; the worker that lost it finds out at its next boundary.     *)
(*                                                                         *)
(* Abstractions: a workflow id is a number handed out in claim order; time *)
(* is the freshness of a row; the `completed' status with an error text    *)
(* (a stop) is the outcome "interrupted"; step progress is left out.       *)
(***************************************************************************)
EXTENDS Naturals

CONSTANTS
  Proc,             \* application processes
  NoProc,           \* nobody
  MaxRun,           \* bound: workflows claimed in a behaviour
  StepCount,        \* steps of a workflow (4 in the code)
  PollSteps,        \* the steps that poll for completion (scan, probe)
  MaxMisses,        \* heartbeat errors in a row that fence the worker (3)
  Events            \* the external events this instance explores

ASSUME ProcAssumption == NoProc \notin Proc
ASSUME BoundAssumption ==
  /\ MaxRun \in Nat
  /\ StepCount \in Nat \ {0}
  /\ PollSteps \subseteq 1..StepCount
  /\ MaxMisses \in Nat \ {0}
ASSUME EventAssumption ==
  Events \subseteq {"dbError",        \* a database call raises
                    "slowCall",       \* a heartbeat call outlasts the 3 second join
                    "lateHeartbeat",  \* a live heartbeat thread is 15 seconds late
                    "connectionLoss", \* the session of the advisory lock is dropped
                    "crash",          \* a process dies, and may be started again
                    "stop",           \* someone asks for a stop
                    "shutdown"}       \* begin_shutdown, start_accepting

Run == 1..MaxRun
NoRun == 0

VARIABLES
  \* The shared database.
  outcome,   \* [Run -> status column of the execution row]
  owner,     \* [Run -> owner_id]
  slot,      \* the rows with active_slot = 1
  stopReq,   \* the rows with stop_requested
  fresh,     \* the active rows whose heartbeat_at is within the TTL
  advisory,  \* the process whose session holds the advisory lock
  \* Each process: the WorkflowManager and its worker thread.
  mutex,     \* is _workflow_process_lease held?
  accept,    \* _accept_workflows
  status,    \* _status["status"]
  cur,       \* _status["workflow_id"]
  pc,        \* where the worker (or the starting thread) is
  step,      \* the step the worker is at
  verdict,   \* the outcome _run_workflow decided
  \* Each workflow: its threads and what the others are told of it.
  stopEv,    \* the runs whose stop event is set
  hb,        \* [Run -> state of the heartbeat thread]
  hbStop,    \* the runs whose heartbeat was told to stop
  misses,    \* [Run -> heartbeat errors in a row]
  op,        \* [Run -> entry of the operations centre]
  told,      \* [Run -> argument of the completion callback]
  late       \* [Run -> steps begun without the row since a check that failed]

db == <<outcome, owner, slot, stopReq, fresh>>
lease == <<advisory, mutex>>
local == <<accept, status, cur, pc, step, verdict>>
beat == <<hb, hbStop, misses>>
seen == <<op, told, late>>
vars == <<db, lease, local, stopEv, beat, seen>>

Terminal == {"completed", "interrupted", "failed"}
Working == {"boundary", "checked", "step"}
Pc == Working \cup {"down", "idle", "leased", "claimed", "joining",
        "persisting", "persisted", "unpersisted", "published", "notify"}

TypeOK ==
  /\ outcome \in [Run -> {"unborn", "active"} \cup Terminal]
  /\ owner \in [Run -> Proc \cup {NoProc}]
  /\ slot \subseteq Run
  /\ stopReq \subseteq Run
  /\ fresh \subseteq Run
  /\ advisory \in Proc \cup {NoProc}
  /\ mutex \in [Proc -> BOOLEAN]
  /\ accept \in [Proc -> BOOLEAN]
  /\ status \in [Proc -> {"idle", "running", "stopping"} \cup Terminal]
  /\ cur \in [Proc -> Run \cup {NoRun}]
  /\ pc \in [Proc -> Pc]
  /\ step \in [Proc -> 0..(StepCount + 1)]
  /\ verdict \in [Proc -> Terminal]
  /\ stopEv \subseteq Run
  /\ hb \in [Run -> {"none", "waiting", "calling", "fencing", "exited"}]
  /\ hbStop \subseteq Run
  /\ misses \in [Run -> 0..(MaxMisses - 1)]
  /\ op \in [Run -> {"none", "active", "success", "interrupted", "error"}]
  /\ told \in [Run -> {"none", "succeeded", "failed"}]
  /\ late \in [Run -> Nat]

Init ==
  /\ outcome = [r \in Run |-> "unborn"]
  /\ owner = [r \in Run |-> NoProc]
  /\ slot = {} /\ stopReq = {} /\ fresh = {}
  /\ advisory = NoProc
  /\ mutex = [p \in Proc |-> FALSE]
  /\ accept = [p \in Proc |-> TRUE]
  /\ status = [p \in Proc |-> "idle"]
  /\ cur = [p \in Proc |-> NoRun]
  /\ pc = [p \in Proc |-> "idle"]
  /\ step = [p \in Proc |-> 0]
  /\ verdict = [p \in Proc |-> "failed"]
  /\ stopEv = {}
  /\ hb = [r \in Run |-> "none"]
  /\ hbStop = {}
  /\ misses = [r \in Run |-> 0]
  /\ op = [r \in Run |-> "none"]
  /\ told = [r \in Run |-> "none"]
  /\ late = [r \in Run |-> 0]

-----------------------------------------------------------------------------
(* Helpers *)

DbError == "dbError" \in Events

\* heartbeat, stop and finalize address one row by id, owner and active_slot.
Owns(p, r) == r \in slot /\ owner[r] = p

\* Every statement of start() and of its cleanup runs under the manager lock.
Locked(p) ==
  \/ pc[p] \in {"leased", "claimed"}
  \/ step[p] = 0 /\ pc[p] \notin {"idle", "down"}

\* A uuid4 no execution uses yet.
Unused(r) == outcome[r] = "unborn" /\ \A p \in Proc : cur[p] # r

\* _recover_workflow_execution on a set of rows.
Recovered(stale) == [r \in Run |-> IF r \in stale THEN "failed" ELSE outcome[r]]

\* _reset_unstarted_workflow_locked, after release_workflow_lease.  A new start
\* makes a new stop event, so what was set on this one is forgotten.
ResetUnstarted(p) ==
  /\ status' = [status EXCEPT ![p] = "idle"]
  /\ cur' = [cur EXCEPT ![p] = NoRun]
  /\ pc' = [pc EXCEPT ![p] = "idle"]
  /\ stopEv' = stopEv \ {cur[p]}

\* release_workflow_lease: the lock goes with the connection even when the
\* unlock raises, and the mutex is released whatever happens.
Release(p) ==
  /\ advisory' = IF advisory = p THEN NoProc ELSE advisory
  /\ mutex' = [mutex EXCEPT ![p] = FALSE]

Go(p, at) == pc' = [pc EXCEPT ![p] = at]

\* The outcome is decided; _finalize_workflow begins with
\* _stop_workflow_heartbeat.
Conclude(p, v) ==
  /\ verdict' = [verdict EXCEPT ![p] = v]
  /\ hbStop' = hbStop \cup {cur[p]}
  /\ Go(p, "joining")

-----------------------------------------------------------------------------
(* WorkflowManager.start *)

CanStart(p) == pc[p] = "idle" /\ accept[p] /\ status[p] \notin {"running", "stopping"}

\* _publish_workflow_start_locked, then acquire_workflow_lease succeeds.
AcquireLease(p) ==
  /\ CanStart(p)
  /\ ~mutex[p] /\ advisory = NoProc
  /\ \E r \in Run :
       /\ Unused(r) /\ \A s \in Run : s < r => ~Unused(s)
       /\ cur' = [cur EXCEPT ![p] = r]
  /\ status' = [status EXCEPT ![p] = "running"]
  /\ pc' = [pc EXCEPT ![p] = "leased"]
  /\ step' = [step EXCEPT ![p] = 0]
  /\ mutex' = [mutex EXCEPT ![p] = TRUE]
  /\ advisory' = p
  /\ UNCHANGED <<db, accept, verdict, stopEv, beat, seen>>

\* The lease is held elsewhere, or taking it raises: the start is undone.
LeaseRefused(p) ==
  /\ CanStart(p)
  /\ mutex[p] \/ advisory # NoProc \/ DbError
  /\ status' = [status EXCEPT ![p] = "idle"]
  /\ cur' = [cur EXCEPT ![p] = NoRun]
  /\ UNCHANGED <<db, lease, accept, pc, step, verdict, stopEv, beat, seen>>

\* Mutation of InsertRun: the heartbeat of the active row is not looked at.
InsertRunOverFresh(p, r) ==
  /\ outcome' = [Recovered(slot) EXCEPT ![r] = "active"]
  /\ owner' = [owner EXCEPT ![r] = p]
  /\ slot' = {r}
  /\ stopReq' = stopReq \ slot
  /\ fresh' = {r}

\* The transaction of try_start_workflow_execution: stale rows are failed and
\* the new row takes the slot.
InsertRun(p, r) ==
  /\ slot \cap fresh = {}
  /\ outcome' = [Recovered(slot) EXCEPT ![r] = "active"]
  /\ owner' = [owner EXCEPT ![r] = p]
  /\ slot' = {r}
  /\ stopReq' = stopReq \ slot
  /\ fresh' = fresh \cup {r}

ClaimRun(p) ==
  /\ pc[p] = "leased"
  /\ InsertRun(p, cur[p])
  /\ pc' = [pc EXCEPT ![p] = "claimed"]
  /\ UNCHANGED <<lease, accept, status, cur, step, verdict, stopEv, beat, seen>>

\* Mutation of ClaimRefused: the lease is not given back.
ClaimRefusedKeepsLease(p) ==
  /\ pc[p] = "leased"
  /\ slot \cap fresh # {} \/ DbError
  /\ ResetUnstarted(p)
  /\ UNCHANGED <<db, lease, accept, step, verdict, beat, seen>>

\* A fresh row refuses the claim, or the transaction raises and is rolled back.
ClaimRefused(p) ==
  /\ pc[p] = "leased"
  /\ slot \cap fresh # {} \/ DbError
  /\ Release(p)
  /\ UNCHANGED db
  /\ ResetUnstarted(p)
  /\ UNCHANGED <<accept, step, verdict, beat, seen>>

\* The commit raises although it took effect, or the heartbeat thread does not
\* start: the manager forgets a row that stays active until it is stale.
ClaimForgotten(p) ==
  /\ DbError
  /\ pc[p] = "leased"
  /\ InsertRun(p, cur[p])
  /\ Release(p)
  /\ ResetUnstarted(p)
  /\ UNCHANGED <<accept, step, verdict, beat, seen>>

\* The heartbeat thread, the operation and the worker thread start.
StartWorker(p) ==
  /\ pc[p] = "claimed"
  /\ hb' = [hb EXCEPT ![cur[p]] = "waiting"]
  /\ op' = [op EXCEPT ![cur[p]] = "active"]
  /\ pc' = [pc EXCEPT ![p] = "boundary"]
  /\ step' = [step EXCEPT ![p] = 1]
  /\ UNCHANGED <<db, lease, accept, status, cur, verdict, stopEv, hbStop, misses, told, late>>

\* The operation cannot be recorded: the claimed run is finalized as failed by
\* the starting thread, which keeps the manager lock (step 0).
AbortStart(p) ==
  /\ DbError
  /\ pc[p] = "claimed"
  /\ hb' = [hb EXCEPT ![cur[p]] = "waiting"]
  /\ Conclude(p, "failed")
  /\ UNCHANGED <<db, lease, accept, status, cur, step, stopEv, misses, seen>>

-----------------------------------------------------------------------------
(* WorkflowManager._run_workflow *)

\* Mutation of SyncStop: a missing row is not a stop.
SyncStopIgnoresLoss(p) ==
  /\ pc[p] = "boundary" /\ step[p] <= StepCount
  /\ stopEv' = IF cur[p] \in stopReq THEN stopEv \cup {cur[p]} ELSE stopEv
  /\ Go(p, "checked")
  /\ UNCHANGED <<db, lease, accept, status, cur, step, verdict, beat, seen>>

\* Mutation of SyncStop: the stop_requested column is not read.
SyncStopIgnoresRequest(p) ==
  /\ pc[p] = "boundary" /\ step[p] <= StepCount
  /\ stopEv' = IF Owns(p, cur[p]) THEN stopEv ELSE stopEv \cup {cur[p]}
  /\ Go(p, "checked")
  /\ UNCHANGED <<db, lease, accept, status, cur, step, verdict, beat, seen>>

\* _sync_persisted_stop: no read once the event is set, and a read that raises
\* is logged and ignored.
SyncStop(p) ==
  /\ pc[p] = "boundary" /\ step[p] <= StepCount
  /\ \/ /\ stopEv' = IF Owns(p, cur[p]) /\ cur[p] \notin stopReq THEN stopEv
                      ELSE stopEv \cup {cur[p]}
        /\ UNCHANGED late
     \/ /\ DbError
        /\ late' = [late EXCEPT ![cur[p]] = 0]
        /\ UNCHANGED stopEv
  /\ Go(p, "checked")
  /\ UNCHANGED <<db, lease, accept, status, cur, step, verdict, beat, op, told>>

SkipStep(p) ==
  /\ pc[p] = "checked" /\ cur[p] \in stopEv
  /\ Go(p, "boundary")
  /\ step' = [step EXCEPT ![p] = @ + 1]
  /\ UNCHANGED <<db, lease, accept, status, cur, verdict, stopEv, beat, seen>>

BeginStep(p) ==
  /\ pc[p] = "checked" /\ cur[p] \notin stopEv
  /\ Go(p, "step")
  /\ late' = IF Owns(p, cur[p]) THEN late ELSE [late EXCEPT ![cur[p]] = @ + 1]
  /\ UNCHANGED <<db, lease, accept, status, cur, step, verdict, stopEv, beat, op, told>>

\* The polling loop of the scan and probe steps looks at the row again.
PollStop(p) ==
  /\ pc[p] = "step" /\ step[p] \in PollSteps
  /\ ~Owns(p, cur[p]) \/ cur[p] \in stopReq
  /\ stopEv' = stopEv \cup {cur[p]}
  /\ UNCHANGED <<db, lease, local, beat, seen>>

\* A polling step that ends with the event set raises instead.
StepDone(p) ==
  /\ pc[p] = "step"
  /\ step[p] \in PollSteps => cur[p] \notin stopEv
  /\ Go(p, "boundary")
  /\ step' = [step EXCEPT ![p] = @ + 1]
  /\ UNCHANGED <<db, lease, accept, status, cur, verdict, stopEv, beat, seen>>

StepRaises(p) ==
  /\ pc[p] = "step"
  /\ Conclude(p, IF cur[p] \in stopEv THEN "interrupted" ELSE "failed")
  /\ UNCHANGED <<db, lease, accept, status, cur, step, stopEv, hb, misses, seen>>

\* After the last step the event alone is consulted, not the row.
AllStepsDone(p) ==
  /\ pc[p] = "boundary" /\ step[p] = StepCount + 1
  /\ Conclude(p, IF cur[p] \in stopEv THEN "interrupted" ELSE "completed")
  /\ UNCHANGED <<db, lease, accept, status, cur, step, stopEv, hb, misses, seen>>

-----------------------------------------------------------------------------
(* WorkflowManager._finalize_workflow *)

\* Mutation of JoinHeartbeat: the thread is joined without a time limit.
JoinHeartbeatToTheEnd(p) ==
  /\ pc[p] = "joining" /\ hb[cur[p]] = "exited"
  /\ Go(p, "persisting")
  /\ UNCHANGED <<db, lease, accept, status, cur, step, verdict, stopEv, beat, seen>>

\* The join gives up on a thread that is still inside its database call.
JoinHeartbeat(p) ==
  /\ pc[p] = "joining"
  /\ hb[cur[p]] = "exited" \/ ("slowCall" \in Events /\ hb[cur[p]] = "calling")
  /\ Go(p, "persisting")
  /\ UNCHANGED <<db, lease, accept, status, cur, step, verdict, stopEv, beat, seen>>

\* finalize_workflow_execution on a row the process owns.
Finalize(p, r) ==
  /\ Owns(p, r)
  /\ outcome' = [outcome EXCEPT ![r] = verdict[p]]
  /\ slot' = slot \ {r}
  /\ stopReq' = stopReq \ {r}
  /\ fresh' = fresh \ {r}
  /\ UNCHANGED owner

Persist(p) ==
  /\ pc[p] = "persisting"
  /\ Finalize(p, cur[p])
  /\ Go(p, "persisted")
  /\ UNCHANGED <<lease, accept, status, cur, step, verdict, stopEv, beat, seen>>

\* Three attempts found no row to finalize, or raised; one of those may have
\* been committed all the same, and the next attempt then finds no row.
NotPersisted(p) ==
  /\ pc[p] = "persisting"
  /\ \/ (~Owns(p, cur[p]) \/ DbError) /\ UNCHANGED db
     \/ DbError /\ Finalize(p, cur[p])
  /\ Go(p, "unpersisted")
  /\ UNCHANGED <<lease, accept, status, cur, step, verdict, stopEv, beat, seen>>

\* Mutation of PublishOutcome: the decided outcome is published either way.
PublishUnpersisted(p) ==
  /\ pc[p] \in {"persisted", "unpersisted"}
  /\ status' = [status EXCEPT ![p] = verdict[p]]
  /\ Go(p, "published")
  /\ UNCHANGED <<db, lease, accept, cur, step, verdict, stopEv, beat, seen>>

PublishOutcome(p) ==
  LET v == IF pc[p] = "persisted" THEN verdict[p] ELSE "failed" IN
  /\ pc[p] \in {"persisted", "unpersisted"}
  /\ verdict' = [verdict EXCEPT ![p] = v]
  /\ status' = [status EXCEPT ![p] = v]
  /\ Go(p, "published")
  /\ UNCHANGED <<db, lease, accept, cur, step, stopEv, beat, seen>>

\* _complete_workflow_operation: an aborted start has no operation, and an
\* error of the tracker is logged and ignored.
\* Then the lease goes back.
CloseRun(p) ==
  /\ pc[p] = "published"
  /\ \/ /\ op[cur[p]] = "active"
        /\ op' = [op EXCEPT ![cur[p]] =
                    CASE verdict[p] = "completed" -> "success"
                      [] verdict[p] = "interrupted" -> "interrupted"
                      [] OTHER -> "error"]
     \/ (op[cur[p]] = "none" \/ DbError) /\ UNCHANGED op
  /\ Release(p)
  /\ Go(p, "notify")
  /\ UNCHANGED <<db, accept, status, cur, step, verdict, stopEv, beat, told, late>>

\* The end of _run_workflow_and_notify: the completion callback, then the
\* thread exits.
Notify(p) ==
  /\ pc[p] = "notify" /\ step[p] # 0
  /\ told' = [told EXCEPT ![cur[p]] =
       IF status[p] = "completed" /\ cur[p] \notin stopEv
       THEN "succeeded" ELSE "failed"]
  /\ Go(p, "idle")
  /\ UNCHANGED <<db, lease, accept, status, cur, step, verdict, stopEv, beat, op, late>>

\* The end of _cleanup_unstarted_workflow_after_signal.
StartAborted(p) ==
  /\ pc[p] = "notify" /\ step[p] = 0
  /\ ResetUnstarted(p)
  /\ UNCHANGED <<db, lease, accept, step, verdict, beat, seen>>

-----------------------------------------------------------------------------
(* The heartbeat thread: _renew_workflow_heartbeat *)

HeartbeatWakes(r) ==
  /\ hb[r] = "waiting" /\ r \notin hbStop
  /\ hb' = [hb EXCEPT ![r] = "calling"]
  /\ UNCHANGED <<db, lease, local, stopEv, hbStop, misses, seen>>

HeartbeatExits(r) ==
  /\ hb[r] = "waiting" /\ r \in hbStop
  /\ hb' = [hb EXCEPT ![r] = "exited"]
  /\ UNCHANGED <<db, lease, local, stopEv, hbStop, misses, seen>>

Renew(r) ==
  /\ hb[r] = "calling" /\ r \in slot
  /\ fresh' = fresh \cup {r}
  /\ hb' = [hb EXCEPT ![r] = "waiting"]
  /\ misses' = [misses EXCEPT ![r] = 0]
  /\ UNCHANGED <<outcome, owner, slot, stopReq, lease, local, stopEv, hbStop, seen>>

NotRenewed(r) ==
  /\ hb[r] = "calling" /\ r \notin slot
  /\ hb' = [hb EXCEPT ![r] = "fencing"]
  /\ UNCHANGED <<db, lease, local, stopEv, hbStop, misses, seen>>

\* Mutation of RenewRaises: the errors are counted and never fence the worker.
RenewRaisesForever(r) ==
  /\ DbError
  /\ hb[r] = "calling"
  /\ misses' = [misses EXCEPT ![r] = @ + 1]
  /\ hb' = [hb EXCEPT ![r] = "waiting"]
  /\ UNCHANGED <<db, lease, local, stopEv, hbStop, seen>>

RenewRaises(r) ==
  /\ DbError
  /\ hb[r] = "calling"
  /\ misses' = [misses EXCEPT ![r] = (@ + 1) % MaxMisses]
  /\ hb' = [hb EXCEPT ![r] = IF misses'[r] = 0 THEN "fencing" ELSE "waiting"]
  /\ UNCHANGED <<db, lease, local, stopEv, hbStop, seen>>

\* self._stop_event is read now: it is the event of the manager's present run.
Fence(r) ==
  /\ hb[r] = "fencing"
  /\ stopEv' = stopEv \cup {s \in Run : cur[owner[r]] = s}
  /\ hb' = [hb EXCEPT ![r] = "exited"]
  /\ UNCHANGED <<db, lease, local, hbStop, misses, seen>>

-----------------------------------------------------------------------------
(* Requests: stop, begin_shutdown, start_accepting *)

Up(p) == pc[p] # "down"

\* stop() of a workflow this manager runs, and the persisted request.
StopLocal(p) ==
  /\ "stop" \in Events
  /\ Up(p) /\ ~Locked(p)
  /\ status[p] \in {"running", "stopping"}
  /\ stopEv' = stopEv \cup {cur[p]}
  /\ status' = [status EXCEPT ![p] = "stopping"]
  /\ \/ stopReq' = stopReq \cup ({cur[p]} \cap slot)
     \/ DbError /\ UNCHANGED stopReq
  /\ UNCHANGED <<outcome, owner, slot, fresh, lease, accept, cur, pc, step, verdict, beat, seen>>

\* stop() in a process that runs none: the request is for the active row.
StopRemote(p) ==
  /\ "stop" \in Events
  /\ Up(p) /\ ~Locked(p)
  /\ status[p] \notin {"running", "stopping"}
  /\ stopReq' = stopReq \cup slot
  /\ UNCHANGED <<outcome, owner, slot, fresh, lease, local, stopEv, beat, seen>>

BeginShutdown(p) ==
  /\ "shutdown" \in Events
  /\ Up(p) /\ ~Locked(p)
  /\ accept' = [accept EXCEPT ![p] = FALSE]
  /\ stopEv' = stopEv \cup ({cur[p]} \ {NoRun})
  /\ UNCHANGED <<db, lease, status, cur, pc, step, verdict, beat, seen>>

StartAccepting(p) ==
  /\ "shutdown" \in Events
  /\ pc[p] = "idle"
  /\ accept' = [accept EXCEPT ![p] = TRUE]
  /\ UNCHANGED <<db, lease, status, cur, pc, step, verdict, stopEv, beat, seen>>

-----------------------------------------------------------------------------
(* The environment *)

\* A heartbeat thread that can still renew row r.
Beating(r) ==
  /\ misses[r] = 0
  /\ \/ hb[r] \in {"waiting", "calling"}
     \/ cur[owner[r]] = r /\ pc[owner[r]] = "claimed"

\* Fifteen seconds pass without a renewal (_heartbeat_is_fresh).
Expire(r) ==
  /\ r \in fresh
  /\ "lateHeartbeat" \notin Events => ~Beating(r)
  /\ fresh' = fresh \ {r}
  /\ UNCHANGED <<outcome, owner, slot, stopReq, lease, local, stopEv, beat, seen>>

\* PostgreSQL drops the session of the advisory lock; nobody is told.
LoseConnection(p) ==
  /\ "connectionLoss" \in Events
  /\ advisory = p
  /\ advisory' = NoProc
  /\ UNCHANGED <<db, mutex, local, stopEv, beat, seen>>

Crash(p) ==
  /\ "crash" \in Events
  /\ Up(p)
  /\ Release(p)
  /\ pc' = [pc EXCEPT ![p] = "down"]
  /\ accept' = [accept EXCEPT ![p] = FALSE]
  /\ status' = [status EXCEPT ![p] = "idle"]
  /\ cur' = [cur EXCEPT ![p] = NoRun]
  /\ step' = [step EXCEPT ![p] = 0]
  /\ stopEv' = stopEv \ {cur[p]}
  /\ hb' = [r \in Run |-> IF owner[r] = p /\ hb[r] # "none" THEN "exited" ELSE hb[r]]
  /\ UNCHANGED <<db, verdict, hbStop, misses, seen>>

\* A process starts: set_db_storage calls recover_and_prune_workflows, which
\* fails a stale active row when the lease is free and no call raises.
Boot(p) ==
  /\ pc[p] = "down"
  /\ pc' = [pc EXCEPT ![p] = "idle"]
  /\ accept' = [accept EXCEPT ![p] = TRUE]
  /\ \/ /\ advisory = NoProc
        /\ outcome' = Recovered(slot \ fresh)
        /\ slot' = slot \cap fresh
        /\ stopReq' = stopReq \cap fresh
        /\ UNCHANGED <<owner, fresh>>
     \/ (advisory # NoProc \/ DbError) /\ UNCHANGED db
  /\ UNCHANGED <<lease, status, cur, step, verdict, stopEv, beat, seen>>

-----------------------------------------------------------------------------
Start(p) == \/ ClaimRun(p) \/ ClaimRefused(p) \/ ClaimForgotten(p)
            \/ StartWorker(p) \/ AbortStart(p)

Worker(p) ==
  \/ SyncStop(p) \/ SkipStep(p) \/ BeginStep(p) \/ StepDone(p) \/ StepRaises(p)
  \/ AllStepsDone(p) \/ JoinHeartbeat(p) \/ Persist(p)
  \/ NotPersisted(p) \/ PublishOutcome(p) \/ CloseRun(p)
  \/ Notify(p) \/ StartAborted(p)

HeartbeatThread(r) == HeartbeatWakes(r) \/ HeartbeatExits(r) \/ Fence(r)
HeartbeatCall(r) == Renew(r) \/ NotRenewed(r) \/ RenewRaises(r)
Heartbeat(r) == HeartbeatThread(r) \/ HeartbeatCall(r)

Request(p) == StopLocal(p) \/ StopRemote(p) \/ BeginShutdown(p) \/ StartAccepting(p)

Next ==
  \/ \E p \in Proc : \/ AcquireLease(p) \/ LeaseRefused(p) \/ Start(p)
                     \/ Worker(p) \/ PollStop(p) \/ Request(p)
                     \/ LoseConnection(p) \/ Crash(p) \/ Boot(p)
  \/ \E r \in Run : Heartbeat(r) \/ Expire(r)

\* Threads run, and the callbacks of the steps return: scan and probe give up
\* after two hours.  Where calls may be slow, nothing obliges the database to answer a
\* heartbeat, and nobody is obliged to start, stop, crash or boot.
Fairness ==
  /\ \A p \in Proc : WF_vars(Start(p)) /\ WF_vars(Worker(p))
  /\ \A r \in Run : /\ WF_vars(HeartbeatThread(r))
                    /\ "slowCall" \notin Events => WF_vars(HeartbeatCall(r))

Spec == Init /\ [][Next]_vars
FairSpec == Spec /\ Fairness

-----------------------------------------------------------------------------
(* Properties *)

\* The slot column agrees with the status column, and one row at most has it:
\* a takeover must fail and vacate the stale row it replaces, and no outcome
\* may be written without leaving the slot (storage_workflows.py).
SlotSound ==
  /\ \A r \in Run : r \in slot <=> outcome[r] = "active"
  /\ \A r, s \in slot : r = s
  /\ fresh \subseteq slot

\* A lost advisory lock does not let a second process begin overlapping work
\* while the first one renews its row: try_start_workflow_execution lets the
\* durable heartbeat decide.
NoOverlap == \A p, q \in Proc : pc[p] = "step" /\ pc[q] = "step" => p = q

\* A worker whose row was taken over begins at most the one step whose check
\* it had already passed: _sync_persisted_stop treats a missing row as a stop.
OneLateStep == \A r \in Run : late[r] <= 1

\* Success is published to the operations centre and to the scheduler only
\* once the database holds it: _finalize_workflow persists first, and reports
\* an error when the row was no longer its own.
SuccessIsDurable ==
  \A r \in Run : op[r] = "success" \/ told[r] = "succeeded" => outcome[r] = "completed"

\* Whatever failed on the way, a manager without a worker can start again: no
\* exit path of start() or of the worker keeps the mutex, the advisory lock
\* or the running status.
Reusable ==
  \A p \in Proc : pc[p] \in {"idle", "down"} =>
    ~mutex[p] /\ advisory # p /\ status[p] \notin {"running", "stopping"}

\* The first terminal result of an execution is final: a worker that lost its
\* row cannot overwrite what the recovery or a successor recorded.
TerminalIsFinal ==
  [][\A r \in Run : outcome[r] \in Terminal => outcome'[r] = outcome[r]]_vars

\* A persisted stop request that arrives before a boundary check is honoured:
\* the run does not end as completed (_sync_persisted_stop).
StopHonoured ==
  \A p \in Proc, r \in Run :
    [](/\ cur[p] = r /\ r \in stopReq
       /\ pc[p] = "boundary" /\ step[p] <= StepCount
       => [](outcome[r] # "completed"))

\* A workflow that was started ends, and its process is free for the next one:
\* the heartbeat thread cannot hold up the finalization, even inside a call of the database
\* that never returns (join_owned_thread, with 3.0 seconds).
WorkerEnds == \A p \in Proc : pc[p] \in Working ~> pc[p] \in {"idle", "down"}

\* A heartbeat thread acts on its own workflow only: the workflow UUID is a
\* generation token (_is_current_workflow_locked).
HeartbeatFencesOwnRun ==
  [][\A r, s \in Run : hb[r] = "fencing" /\ hb'[r] = "exited" /\ s \in stopEv' \ stopEv
       => r = s]_vars

-----------------------------------------------------------------------------
(* The tables keep the promise of WorkflowLedger: the slot and the advisory  *)
(* lock, the threads and their failures all refine to steps of that module   *)
(* (storage_workflows.py).                                                   *)
Ledger == INSTANCE WorkflowLedger WITH live <- fresh

KeepsLedger == Ledger!Spec
=============================================================================
