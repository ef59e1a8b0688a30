------------------------ MODULE SchedulerOccurrence ------------------------
(***************************************************************************)
(* The automatic scheduler of OctoHubs: AutoScheduler of core/tasks.py,    *)
(* its worker pool (core/auto_scheduler_workers.py) and the claims that    *)
(* keep several processes from consuming the same occurrence twice         *)
(* (services/scheduler_occurrences.py).                                    *)
(*                                                                         *)
(* One kind of task that the pool runs (refresh or sync); the kinds share  *)
(* nothing but the code.  The key-value row of the kind holds the latest   *)
(* claim only.  Three threads of a process can end a claim: the scheduler  *)
(* thread (the worker was refused), the worker (it is done) and the        *)
(* renewal thread of the claim (it was lost).                              *)
(*                                                                         *)
(* Abstractions: an occurrence is the number of its schedule time, and the *)
(* clock counts the schedule times passed; the one minute retry is due at  *)
(* once; the 120 seconds of a claim make it live or expired; the settings do *)
(* not change.                                                             *)
(***************************************************************************)
EXTENDS Naturals, FiniteSets

CONSTANTS
  OccProc,     \* application processes
  OccNoProc,   \* nobody
  MaxSlot,     \* bound: schedule times of a behaviour
  LeaseCount,  \* bound: leases a process has at a time
  OccEvents    \* the external events this instance explores

ASSUME OccProcAssumption == OccNoProc \notin OccProc
ASSUME OccBoundAssumption == MaxSlot \in Nat \ {0} /\ LeaseCount \in Nat \ {0}
ASSUME OccEventAssumption ==
  OccEvents \subseteq {"dbError",      \* a database call raises
                    "slowRenewal",  \* a renewal outlasts the 1 second join
                    "stall",        \* a thread stands still for a minute or more
                    "failure",      \* the task fails
                    "crash",        \* a process dies, and may be started again
                    "shutdown"}     \* AutoScheduler.stop

Slot == 1..MaxSlot
Soon == 0                          \* _next_run is a retry, one minute away
NoSlot == 0
Lease == OccProc \X (1..LeaseCount)   \* the SchedulerOccurrenceLease objects
NoLease == <<OccNoProc, 0>>
Of(l) == l[1]

VARIABLES
  clock,     \* the schedule times that have passed
  \* The key-value row of the kind.
  rowStatus, \* of the latest claim; "claimed" is live or expired (expires_at)
  occSlot,      \* its token and scheduled_for
  occOwner,     \* its owner_id
  \* The scheduler thread of each process.
  nextRun,   \* _next_run, a slot or Soon
  retry,     \* _occurrence_retries: the slot to claim again, or NoSlot
  run,       \* _occurrence_runs: the registered lease, or NoLease
  at,        \* where _evaluate_tasks is
  target,    \* the slot it is evaluating
  stopping,  \* the processes where stop() was called
  \* The worker of the pool, if any.
  worker,    \* where it is
  wslot,     \* the occurrence it works for
  wok,       \* the processes whose worker reports success
  cancel,    \* the processes whose worker has its stop event set
  \* Each lease.
  slotOf,    \* the occurrence claimed
  phase,     \* free, open, or how far _finish_scheduled_occurrence is
  ok,        \* the leases with final_succeeded
  by,        \* the thread that finishes it
  \* History.
  done,      \* occurrences whose task succeeded
  recorded   \* occurrences ever recorded as completed

scheduler == <<nextRun, retry, run, at, target, stopping>>
pool == <<worker, wslot, wok, cancel>>
leases == <<slotOf, phase, ok, by>>
row == <<rowStatus, occSlot, occOwner>>
occVars == <<clock, row, scheduler, pool, leases, done, recorded>>

\* The state of the threads and of the row; a retry a minute away always has an
\* occurrence to claim, or it would be claimed at a time nobody scheduled.
OccTypeOK ==
  /\ clock \in 0..MaxSlot
  /\ rowStatus \in {"none", "live", "expired", "completed", "released"}
  /\ occSlot \in Slot \cup {NoSlot}
  /\ occOwner \in OccProc \cup {OccNoProc}
  /\ nextRun \in [OccProc -> 0..(MaxSlot + 1)]
  /\ retry \in [OccProc -> Slot \cup {NoSlot}]
  /\ run \in [OccProc -> Lease \cup {NoLease}]
  /\ at \in [OccProc -> {"down", "idle", "claimed", "closing", "started", "retry", "consumed"}]
  /\ target \in [OccProc -> Slot \cup {NoSlot}]
  /\ stopping \subseteq OccProc
  /\ worker \in [OccProc -> {"none", "working", "report", "closing"}]
  /\ wslot \in [OccProc -> Slot \cup {NoSlot}]
  /\ wok \subseteq OccProc
  /\ cancel \subseteq OccProc
  /\ slotOf \in [Lease -> Slot \cup {NoSlot}]
  /\ phase \in [Lease -> {"free", "open", "persist", "write"}]
  /\ ok \subseteq Lease
  /\ by \in [Lease -> {"none", "scheduler", "worker", "renewal"}]
  /\ done \subseteq Slot /\ recorded \subseteq Slot
  /\ \A p \in OccProc : at[p] # "down" /\ nextRun[p] = Soon => retry[p] # NoSlot

OccInit ==
  /\ clock = 0
  /\ rowStatus = "none" /\ occSlot = NoSlot /\ occOwner = OccNoProc
  /\ nextRun = [p \in OccProc |-> 1]
  /\ retry = [p \in OccProc |-> NoSlot]
  /\ run = [p \in OccProc |-> NoLease]
  /\ at = [p \in OccProc |-> "idle"]
  /\ target = [p \in OccProc |-> NoSlot]
  /\ stopping = {}
  /\ worker = [p \in OccProc |-> "none"]
  /\ wslot = [p \in OccProc |-> NoSlot]
  /\ wok = {}
  /\ cancel = {}
  /\ slotOf = [l \in Lease |-> NoSlot]
  /\ phase = [l \in Lease |-> "free"]
  /\ ok = {}
  /\ by = [l \in Lease |-> "none"]
  /\ done = {} /\ recorded = {}

-----------------------------------------------------------------------------
(* SchedulerOccurrenceCoordinator: transactions on the row *)

OccDbError == "dbError" \in OccEvents

\* A token is equal or a stored time is not earlier: one comparison of slots.
Duplicate(s) == occSlot >= s
\* Mutation of OccActive: a claim never runs out.
ActiveForever == rowStatus \in {"live", "expired"}

OccActive == rowStatus = "live"
\* Mutation of OccRejected: an active claim does not reject another.
RejectedIfCompleted(s) == Duplicate(s) /\ rowStatus = "completed"

OccRejected(s) == Duplicate(s) /\ (rowStatus = "completed" \/ OccActive)

OccClaimRow(p, s) ==
  /\ rowStatus' = "live"
  /\ occSlot' = s /\ occOwner' = p

\* _owns: the expiry is not looked at.
OccOwns(l) == rowStatus \in {"live", "expired"} /\ occSlot = slotOf[l] /\ occOwner = Of(l)

\* complete or release.
CloseRow(how) ==
  /\ rowStatus' = how
  /\ UNCHANGED <<occSlot, occOwner>>

-----------------------------------------------------------------------------
(* The scheduler thread: _evaluate_tasks *)

Due(p) == at[p] = "idle" /\ p \notin stopping /\ clock >= nextRun[p]
Target(p) == IF retry[p] # NoSlot THEN retry[p] ELSE nextRun[p]

Evaluates(p, to) ==
  /\ target' = [target EXCEPT ![p] = Target(p)]
  /\ at' = [at EXCEPT ![p] = to]
  /\ UNCHANGED <<clock, nextRun, retry, stopping, pool, done, recorded>>

\* claim_with_status accepts, even over an active claim of an earlier slot; the
\* lease is registered in place of the one registered before, and starts.
OccClaim(p) ==
  /\ Due(p) /\ ~OccRejected(Target(p))
  /\ OccClaimRow(p, Target(p))
  /\ \E l \in Lease :
       /\ Of(l) = p /\ phase[l] = "free"
       /\ \A m \in Lease : Of(m) = p /\ phase[m] = "free" => l[2] <= m[2]
       /\ slotOf' = [slotOf EXCEPT ![l] = Target(p)]
       /\ phase' = [phase EXCEPT ![l] = "open"]
       /\ run' = [run EXCEPT ![p] = l]
  /\ UNCHANGED <<ok, by>>
  /\ Evaluates(p, "claimed")

ClaimRejected(p) ==
  /\ Due(p) /\ OccRejected(Target(p))
  /\ UNCHANGED <<row, run, leases>>
  /\ Evaluates(p, IF rowStatus = "completed" THEN "consumed" ELSE "retry")

\* The update raises, perhaps after it was committed.
OccClaimRaises(p) ==
  /\ OccDbError
  /\ Due(p)
  /\ \/ UNCHANGED row
     \/ ~OccRejected(Target(p)) /\ OccClaimRow(p, Target(p))
  /\ UNCHANGED <<run, leases>>
  /\ Evaluates(p, "retry")

\* AutoSchedulerWorkerPool.start.
Trigger(p) ==
  /\ at[p] = "claimed"
  /\ worker[p] = "none" /\ p \notin stopping
  /\ worker' = [worker EXCEPT ![p] = "working"]
  /\ wslot' = [wslot EXCEPT ![p] = target[p]]
  /\ cancel' = cancel \ {p}
  /\ at' = [at EXCEPT ![p] = "started"]
  /\ UNCHANGED <<clock, row, nextRun, retry, run, target, stopping, wok, leases, done, recorded>>

\* The run _finish_scheduled_occurrence looks for: claims are compared by value.
Registered(p, s) == run[p] # NoLease /\ slotOf[run[p]] = s

\* Its first critical section, for the registered run of p.
Pop(p, thread) ==
  /\ run' = [run EXCEPT ![p] = NoLease]
  /\ phase' = [phase EXCEPT ![run[p]] = "persist"]
  /\ by' = [by EXCEPT ![run[p]] = thread]
  /\ UNCHANGED slotOf

\* Mutation of TriggerRefused: the claim is not given back.
TriggerRefusedKeepsRun(p) ==
  /\ at[p] = "claimed"
  /\ worker[p] # "none" \/ p \in stopping
  /\ at' = [at EXCEPT ![p] = "retry"]
  /\ UNCHANGED <<clock, row, nextRun, retry, run, target, stopping, pool, leases, done, recorded>>

\* The pool refuses: it has a worker, or is stopping.
TriggerRefused(p) ==
  /\ at[p] = "claimed"
  /\ worker[p] # "none" \/ p \in stopping
  /\ \/ /\ Registered(p, target[p])
        /\ Pop(p, "scheduler")
        /\ UNCHANGED ok
        /\ at' = [at EXCEPT ![p] = "closing"]
     \/ /\ ~Registered(p, target[p])
        /\ at' = [at EXCEPT ![p] = "retry"]
        /\ UNCHANGED <<run, leases>>
  /\ UNCHANGED <<clock, row, nextRun, retry, target, stopping, pool, done, recorded>>

\* The calendar advances once the operation has started or was consumed.
OccSettle(p) ==
  /\ \/ at[p] = "started" /\ run[p] # NoLease
        /\ nextRun' = [nextRun EXCEPT ![p] = clock + 1] /\ UNCHANGED retry
     \/ at[p] = "started" /\ run[p] = NoLease /\ UNCHANGED <<nextRun, retry>>
     \/ at[p] = "consumed"
        /\ nextRun' = [nextRun EXCEPT ![p] = clock + 1] /\ retry' = [retry EXCEPT ![p] = NoSlot]
     \/ at[p] = "retry"
        /\ nextRun' = [nextRun EXCEPT ![p] = Soon] /\ retry' = [retry EXCEPT ![p] = target[p]]
  /\ at' = [at EXCEPT ![p] = "idle"]
  /\ target' = [target EXCEPT ![p] = NoSlot]
  /\ UNCHANGED <<clock, row, run, stopping, pool, leases, done, recorded>>

-----------------------------------------------------------------------------
(* The worker *)

TaskReturns(p) ==
  /\ worker[p] = "working"
  /\ worker' = [worker EXCEPT ![p] = "report"]
  /\ UNCHANGED <<clock, row, scheduler, wslot, cancel, leases, recorded>>

\* A stop event set meanwhile makes the outcome a failure.
TaskSucceeds(p) ==
  /\ TaskReturns(p)
  /\ done' = done \cup {wslot[p]}
  /\ wok' = wok \cup ({p} \ cancel)

\* The task raises, or sees its stop event before it begins.
TaskFails(p) ==
  /\ "failure" \in OccEvents \/ p \in cancel
  /\ TaskReturns(p)
  /\ UNCHANGED <<done, wok>>

WorkerGone(p) ==
  /\ worker' = [worker EXCEPT ![p] = "none"]
  /\ wslot' = [wslot EXCEPT ![p] = NoSlot]
  /\ wok' = wok \ {p}
  /\ cancel' = cancel \ {p}

\* Mutation of Report: a worker that returns is taken for a success.
ReportAssumesSuccess(p) ==
  /\ worker[p] = "report"
  /\ \/ /\ Registered(p, wslot[p])
        /\ Pop(p, "worker")
        /\ ok' = ok \cup {run[p]}
        /\ worker' = [worker EXCEPT ![p] = "closing"]
        /\ UNCHANGED <<wslot, wok, cancel>>
     \/ /\ ~Registered(p, wslot[p])
        /\ WorkerGone(p)
        /\ UNCHANGED <<run, leases>>
  /\ UNCHANGED <<clock, row, nextRun, retry, at, target, stopping, done, recorded>>

\* The completion callback; the pool forgets the worker when it returns.
Report(p) ==
  /\ worker[p] = "report"
  /\ \/ /\ Registered(p, wslot[p])
        /\ Pop(p, "worker")
        /\ ok' = IF p \in wok THEN ok \cup {run[p]} ELSE ok
        /\ worker' = [worker EXCEPT ![p] = "closing"]
        /\ UNCHANGED <<wslot, wok, cancel>>
     \/ /\ ~Registered(p, wslot[p])
        /\ WorkerGone(p)
        /\ UNCHANGED <<run, leases>>
  /\ UNCHANGED <<clock, row, nextRun, retry, at, target, stopping, done, recorded>>

-----------------------------------------------------------------------------
(* _finish_scheduled_occurrence after its first critical section *)

\* SchedulerOccurrenceLease.finish stops the renewal and ends the claim.
Finishes(l) ==
  /\ phase[l] = "persist"
  /\ phase' = [phase EXCEPT ![l] = "write"]
  /\ UNCHANGED <<clock, scheduler, pool, slotOf, by, done>>

\* complete; it may raise after it was committed.
Complete(l) ==
  /\ Finishes(l)
  /\ OccOwns(l) /\ l \in ok
  /\ CloseRow("completed")
  /\ recorded' = recorded \cup {slotOf[l]}
  /\ UNCHANGED ok \/ (OccDbError /\ ok' = ok \ {l})

\* release
ReleaseClaim(l) ==
  /\ Finishes(l)
  /\ OccOwns(l) /\ l \notin ok
  /\ CloseRow("released")
  /\ UNCHANGED <<recorded, ok>>

\* The claim is no longer owned, the update raises, or the renewal thread is
\* still alive after a second.
NotFinished(l) ==
  /\ Finishes(l)
  /\ ~OccOwns(l) \/ OccDbError \/ "slowRenewal" \in OccEvents
  /\ ok' = ok \ {l}
  /\ UNCHANGED <<row, recorded>>

Freed(l) ==
  /\ slotOf' = [slotOf EXCEPT ![l] = NoSlot]
  /\ phase' = [phase EXCEPT ![l] = "free"]
  /\ ok' = ok \ {l}
  /\ by' = [by EXCEPT ![l] = "none"]

\* Its last critical section, and the thread that ran it goes on.
Write(l) ==
  LET p == Of(l) IN
  /\ phase[l] = "write"
  /\ retry' = [retry EXCEPT ![p] = IF l \in ok THEN NoSlot ELSE slotOf[l]]
  /\ nextRun' = [nextRun EXCEPT ![p] = IF l \in ok THEN clock + 1 ELSE Soon]
  /\ at' = IF by[l] = "scheduler" THEN [at EXCEPT ![p] = "retry"] ELSE at
  /\ IF by[l] = "worker" THEN WorkerGone(p) ELSE UNCHANGED pool
  /\ Freed(l)
  /\ UNCHANGED <<clock, row, run, target, stopping, done, recorded>>

-----------------------------------------------------------------------------
(* The renewal thread of a lease: _renew_until_stopped *)

\* The first renewal is due 30 seconds after the start of the lease, and the
\* worker follows that start at once.
OccBeating(l) ==
  /\ phase[l] = "open" /\ Of(l) \notin stopping
  /\ "stall" \in OccEvents \/ ~(at[Of(l)] = "claimed" /\ run[Of(l)] = l)

OccRenew(l) ==
  /\ OccBeating(l) /\ OccOwns(l) /\ rowStatus = "expired"
  /\ rowStatus' = "live"
  /\ UNCHANGED <<clock, occSlot, occOwner, scheduler, pool, leases, done, recorded>>

\* _lose_scheduled_occurrence: whatever worker the pool has for the kind is
\* cancelled; a lease that was found lost finishes without a database call.
Lost(l) ==
  LET p == Of(l) IN
  /\ OccBeating(l)
  /\ cancel' = cancel \cup {q \in {p} : worker[q] # "none"}
  /\ \/ /\ run[p] = l
        /\ run' = [run EXCEPT ![p] = NoLease]
        /\ phase' = [phase EXCEPT ![l] = "write"]
        /\ ok' = ok \ {l}
        /\ by' = [by EXCEPT ![l] = "renewal"]
        /\ UNCHANGED slotOf
     \/ /\ run[p] # l /\ ~Registered(p, slotOf[l])
        /\ Freed(l)
        /\ UNCHANGED run
     \/ /\ run[p] # l /\ Registered(p, slotOf[l])
        /\ run' = [run EXCEPT ![p] = NoLease]
        /\ phase' = [phase EXCEPT ![l] = "free", ![run[p]] = "persist"]
        /\ slotOf' = [slotOf EXCEPT ![l] = NoSlot]
        /\ ok' = ok \ {run[p]}
        /\ by' = [by EXCEPT ![run[p]] = "renewal"]
  /\ UNCHANGED <<clock, row, nextRun, retry, at, target, stopping, worker, wslot, wok, done, recorded>>

OccNotRenewed(l) == ~OccOwns(l) /\ Lost(l)
OccRenewRaises(l) == OccDbError /\ Lost(l)

-----------------------------------------------------------------------------
(* The environment *)

Tick ==
  /\ clock < MaxSlot
  /\ clock' = clock + 1
  /\ UNCHANGED <<row, scheduler, pool, leases, done, recorded>>

\* A lease that will be renewed or closed in time.
Kept(l) == phase[l] = "persist" \/ (phase[l] = "open" /\ Of(l) \notin stopping)

\* 120 seconds pass without a renewal.
OccExpire ==
  /\ OccActive
  /\ "stall" \notin OccEvents => ~\E l \in Lease : OccOwns(l) /\ Kept(l)
  /\ rowStatus' = "expired"
  /\ UNCHANGED <<clock, occSlot, occOwner, scheduler, pool, leases, done, recorded>>

\* AutoScheduler.stop: no claim is renewed any more, the worker is told.
Stop(p) ==
  /\ "shutdown" \in OccEvents
  /\ at[p] # "down" /\ p \notin stopping
  /\ stopping' = stopping \cup {p}
  /\ cancel' = cancel \cup {q \in {p} : worker[q] # "none"}
  /\ UNCHANGED <<clock, row, nextRun, retry, run, at, target, worker, wslot, wok, leases, done, recorded>>

OccCrash(p) ==
  /\ "crash" \in OccEvents
  /\ at[p] # "down"
  /\ at' = [at EXCEPT ![p] = "down"]
  /\ target' = [target EXCEPT ![p] = NoSlot]
  /\ nextRun' = [nextRun EXCEPT ![p] = Soon]
  /\ retry' = [retry EXCEPT ![p] = NoSlot]
  /\ run' = [run EXCEPT ![p] = NoLease]
  /\ stopping' = stopping \ {p}
  /\ WorkerGone(p)
  /\ slotOf' = [l \in Lease |-> IF Of(l) = p THEN NoSlot ELSE slotOf[l]]
  /\ phase' = [l \in Lease |-> IF Of(l) = p THEN "free" ELSE phase[l]]
  /\ ok' = {l \in ok : Of(l) # p}
  /\ by' = [l \in Lease |-> IF Of(l) = p THEN "none" ELSE by[l]]
  /\ UNCHANGED <<clock, row, done, recorded>>

\* AutoScheduler.__init__ and its first evaluation.
OccBoot(p) ==
  /\ at[p] = "down"
  /\ at' = [at EXCEPT ![p] = "idle"]
  /\ nextRun' = [nextRun EXCEPT ![p] = clock + 1]
  /\ UNCHANGED <<clock, row, retry, run, target, stopping, pool, leases, done, recorded>>

-----------------------------------------------------------------------------
Scheduler(p) == \/ OccClaim(p) \/ ClaimRejected(p) \/ Trigger(p)
                \/ TriggerRefused(p) \/ OccSettle(p)

OccWorker(p) == TaskSucceeds(p) \/ TaskFails(p) \/ Report(p)

LeaseThreads(l) == \/ Complete(l) \/ ReleaseClaim(l) \/ NotFinished(l)
                   \/ Write(l) \/ OccNotRenewed(l)

OccNext ==
  \/ \E p \in OccProc : \/ Scheduler(p) \/ OccClaimRaises(p) \/ OccWorker(p)
                     \/ Stop(p) \/ OccCrash(p) \/ OccBoot(p)
  \/ \E l \in Lease : LeaseThreads(l) \/ OccRenew(l) \/ OccRenewRaises(l)
  \/ Tick \/ OccExpire

\* Threads run, tasks return, an unrenewed claim runs out, and a task that is tried
\* for ever succeeds.
OccFairness ==
  /\ \A p \in OccProc : WF_occVars(Scheduler(p)) /\ WF_occVars(OccWorker(p)) /\ SF_occVars(TaskSucceeds(p))
  /\ \A l \in Lease : WF_occVars(LeaseThreads(l))
  /\ WF_occVars(OccExpire)

OccSpec == OccInit /\ [][OccNext]_occVars
OccFairSpec == OccSpec /\ OccFairness

-----------------------------------------------------------------------------
(* Properties *)

\* An occurrence is recorded as completed only if its task succeeded: not when
\* the worker was refused, failed, was cancelled, or lost the claim to another
\* process (_finish_scheduled_occurrence, SchedulerOccurrenceLease.finish).
RecordedWasDone == recorded \subseteq done

\* A registered run always has a thread that will finish it: the scheduler
\* thread before the worker starts, a worker of that occurrence afterwards
\* (_execute_scheduled_occurrence and its completion callback).
RunHasThread ==
  \A p \in OccProc : run[p] # NoLease =>
    \/ at[p] = "claimed" /\ target[p] = slotOf[run[p]]
    \/ worker[p] \in {"working", "report"} /\ wslot[p] = slotOf[run[p]]

Consumes(p, s) == worker[p] = "working" /\ wslot[p] = s /\ p \notin cancel

\* Two processes never work on the latest schedule time unless one was told to stop: an
\* active claim refuses the others, and runs out only when its owner no longer renews it
\* (claim_with_status).  True of a database that answers and threads that do not stall;
\* false with an error, since a worker that was given up can finish the new claim of its
\* own process: the two are equal by value.  Of an earlier time it is false as well: the
\* row holds the latest claim only.
SingleConsumer ==
  \A p, q \in OccProc : Consumes(p, clock) /\ Consumes(q, clock) => p = q

\* A scheduler that has an occurrence to retry, or in hand, sees it or a later
\* one completed if it stays up: claims of dead processes run out and released
\* ones can be claimed again (claim_with_status, release).
OccPending(p, s) == at[p] # "down" /\ p \notin stopping /\ (retry[p] = s \/ target[p] = s)
EventuallyConsumed ==
  \A p \in OccProc, s \in Slot :
    OccPending(p, s) ~> (at[p] = "down" \/ p \in stopping \/ \E t \in recorded : t >= s)

\* The claim of a running worker is the one the row holds (the docstring of
\* SchedulerOccurrenceLease).  Violated: the next schedule time of the same task
\* is claimed over it, and the worker is cancelled at the next renewal.
ClaimKeptForWorker ==
  \A p \in OccProc : worker[p] = "working" /\ p \notin cancel => occOwner = p /\ occSlot = wslot[p]
=============================================================================
